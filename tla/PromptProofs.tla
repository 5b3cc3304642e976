---------------------------- MODULE PromptProofs ----------------------------
(***************************************************************************)
(* Proofs about what the two clients of Pairing read and write: the order  *)
(* of the prompts that are queued for them, and the game their lines are   *)
(* routed to, for every capacity and every number of lines and games.      *)
(***************************************************************************)
EXTENDS PairingProofs, FiniteSetTheorems

-----------------------------------------------------------------------------
(* Where the story of a client has come to *)

\* The last of the prompts a client read or is about to read is one of these.
LastIn(first, queue, kinds) ==
    \A i \in 0..Len(queue) :
        (/\ Told(first, queue, i) \in Prompts
         /\ \A k \in i + 1..Len(queue) : Told(first, queue, k) \notin Prompts)
            => Told(first, queue, i) \in kinds

\* What a summary may follow.
Done == {"REJECTED", "SUMMARY", "OVER", "CUTOFF"}

\* The lines a game task has still to queue while it is somewhere.
LinesOf == [p \in Phases |->
    CASE p = "proposing"  -> {"SUMMARY"}
      [] p = "discarding" -> {"REJECTED"}
      [] p = "playing"    -> {"START", "RELAY"}
      [] p = "filing"     -> {"RELAY"}
      [] p = "telling"    -> {"OVER"}
      [] OTHER            -> {}]

ForWhite(x) == <<[to |-> "white", line |-> x]>>

\* One line to both clients, or to the second of them.
TodoInPhase ==
    \/ todo = <<>>
    \/ \E x \in LinesOf[phase] :
          todo = Broadcast(x) \/ todo = ForWhite(x)

\* Of what is still to be queued, a line for this client, and a START.
DueIn(queue, s) == \E i \in 1..Len(queue) : queue[i].to = s
StartsIn(queue) == \E i \in 1..Len(queue) : queue[i].line = "START"

Due(s) == DueIn(todo, s)

\* Where a client's story is while its game task is at p with this still to be
\* queued.
Place(p, queue, s) ==
    IF p = "proposing"
    THEN IF DueIn(queue, s) THEN Done ELSE {"SUMMARY"}
    ELSE IF p = "discarding"
    THEN IF DueIn(queue, s) THEN {"SUMMARY"} ELSE {"REJECTED"}
    ELSE IF p = "telling" /\ ~DueIn(queue, s) THEN {"OVER"}
    ELSE IF DueIn(queue, s) /\ StartsIn(queue) THEN {"SUMMARY"}
    ELSE {"START", "RELAY"}

LastBy(s) == Place(phase, todo, s)

\* A session that has been told the end of its last game, or has taken note.
Waits(s) ==
    \/ s \in pool
    \/ Has(requests[s], {"Ready"})
    \/ Has(control[s], LastEdges)

\* The story of a client that can still read, up to the next line.
Tale(s) ==
    /\ Orderly(seen[s], out[s])
    /\ ~writer[s] => out[s] = <<>>
    /\ (writer[s] /\ alive[s] /\ TaskRuns) => LastIn(seen[s], out[s], LastBy(s))
    /\ (writer[s] /\ Waits(s)) => LastIn(seen[s], out[s], Done)

Tales ==
    /\ phase # "dead" /\ TodoInPhase
    /\ \A s \in Side : Tale(s) /\ ~Has(pend[s], Prompts)

-----------------------------------------------------------------------------
(* The game a client believes in *)

\* The summaries a queue holds, and how many.
SummariesOf(queue) == {i \in 1..Len(queue) : queue[i] = "SUMMARY"}
Summaries(queue)   == Cardinality(SummariesOf(queue))

\* A summary that is still to be queued for a client.
ToCome(p, queue, s) == IF p = "proposing" /\ DueIn(queue, s) THEN 1 ELSE 0

\* The summaries a client has read or will still read.
Known(s) == heard[s] + Summaries(out[s]) + ToCome(phase, todo, s)

\* The summary of the current game never reached the client.
Missed(s) == Known(s) < games

\* A client knows of no game that was not offered, and of all but the one on
\* offer if its connection was already gone; its lines are of games it knows.
Accounted(s) ==
    /\ Known(s) <= games
    /\ (phase = "proposing" /\ ~alive[s]) => Missed(s)
    /\ \A i \in 1..Len(lines[s]) : lines[s][i].game <= heard[s]

AllAccounted == \A s \in Side : Accounted(s)

\* A step that keeps the account and adds nothing to what a client knows.
AccountKept(s) ==
    Accounted(s)' /\ games' = games /\ Known(s)' <= Known(s)

AccountsKept == \A s \in Side : AccountKept(s)

\* A session that is no longer registered has left, or will be told to.
Leaves(s) ==
    /\ Has(requests[s], {"Gone"}) => pc[s] # "loop"
    /\ (s \notin registered /\ pc[s] = "loop") => Has(control[s], {"Close"})

LeaversAreTold == \A s \in Side : Leaves(s)

\* A session in the loop has taken, or is about to take, every edge so far, and
\* one whose client read the summary has them all.
Abreast(s) ==
    pc[s] = "loop" =>
        /\ InOffer => Offered(sess[s], control[s])
        /\ InGame => Begun(sess[s], control[s]) \/ Missed(s)

AllAbreast ==
    /\ InGame => agreed = Side
    /\ \A s \in registered : Abreast(s)

\* And a control channel has room for a Close besides.
RoomToClose == CourseAssumption /\ ControlCapacity >= 4

-----------------------------------------------------------------------------
(* Stories *)

\* A line queued behind a story: any other line changes nothing, and a prompt
\* belongs there if it may follow the last one.
LEMMA StoryGrows ==
    ASSUME NEW S, NEW first, NEW queue \in Seq(S), NEW e \in S, Orderly(first, queue)
    PROVE  /\ e \notin Prompts =>
                /\ Orderly(first, Append(queue, e))
                /\ \A kinds : LastIn(first, queue, kinds)
                                => LastIn(first, Append(queue, e), kinds)
           /\ \A kinds :
                (/\ e \in Prompts /\ LastIn(first, queue, kinds)
                 /\ \A p \in kinds : e \in Follows[p])
                => /\ Orderly(first, Append(queue, e))
                   /\ LastIn(first, Append(queue, e), {e})
<1> DEFINE more == Append(queue, e)
           n == Len(queue)
<1>1. /\ n \in Nat /\ Len(more) = n + 1
      /\ \A i \in 1..n : more[i] = queue[i]
      /\ more[n + 1] = e
      BY AppendProperties
<1>2. /\ \A i \in 0..n : Told(first, more, i) = Told(first, queue, i)
      /\ Told(first, more, n + 1) = e
      BY <1>1 DEF Told
<1>3. 0..Len(more) = 0..n \cup {n + 1}
      BY <1>1
<1> HIDE DEF more
<1>4. ASSUME NEW i \in 0..n, NEW j \in 0..n, Told(first, more, i) \in Prompts,
             NextPrompt(first, more, i, j)
      PROVE  Told(first, more, j) \in Follows[Told(first, more, i)]
  <2>1. \A k \in i + 1..j - 1 : k \in 0..n
        BY <1>1
  <2>2. NextPrompt(first, queue, i, j)
        BY <1>2, <1>4, <2>1 DEF NextPrompt
  <2>3. QED BY <1>2, <1>4, <2>2 DEF Orderly
<1>5. ASSUME NEW i \in 0..Len(more), NEW j \in 0..Len(more), i = n + 1
      PROVE  ~NextPrompt(first, more, i, j)
      BY <1>1, <1>5 DEF NextPrompt
<1>6. ASSUME e \notin Prompts
      PROVE  /\ Orderly(first, more)
             /\ \A kinds : LastIn(first, queue, kinds) => LastIn(first, more, kinds)
  <2>1. Orderly(first, more)
    <3> SUFFICES ASSUME NEW i \in 0..Len(more), NEW j \in 0..Len(more),
                        Told(first, more, i) \in Prompts, NextPrompt(first, more, i, j)
                 PROVE  Told(first, more, j) \in Follows[Told(first, more, i)]
        BY DEF Orderly
    <3>1. i # n + 1 /\ j # n + 1
          BY <1>2, <1>5, <1>6 DEF NextPrompt
    <3>2. QED BY <1>3, <1>4, <3>1
  <2>2. ASSUME NEW kinds, LastIn(first, queue, kinds), NEW i \in 0..Len(more),
               Told(first, more, i) \in Prompts,
               \A k \in i + 1..Len(more) : Told(first, more, k) \notin Prompts
        PROVE  Told(first, more, i) \in kinds
    <3>1. i \in 0..n
          BY <1>2, <1>3, <1>6, <2>2
    <3>2. \A k \in i + 1..n : k \in i + 1..Len(more) /\ k \in 0..n
          BY <1>1, <3>1
    <3>3. \A k \in i + 1..n : Told(first, queue, k) \notin Prompts
          BY <1>2, <2>2, <3>2
    <3>4. QED BY <1>2, <2>2, <3>1, <3>3 DEF LastIn
  <2>3. QED BY <2>1, <2>2 DEF LastIn
<1>7. ASSUME NEW kinds, e \in Prompts, LastIn(first, queue, kinds),
             \A p \in kinds : e \in Follows[p]
      PROVE  Orderly(first, more) /\ LastIn(first, more, {e})
  <2>1. Orderly(first, more)
    <3> SUFFICES ASSUME NEW i \in 0..Len(more), NEW j \in 0..Len(more),
                        Told(first, more, i) \in Prompts, NextPrompt(first, more, i, j)
                 PROVE  Told(first, more, j) \in Follows[Told(first, more, i)]
        BY DEF Orderly
    <3>1. i \in 0..n
          BY <1>3, <1>5
    <3>2. CASE j = n + 1
      <4>1. \A k \in i + 1..n : k \in i + 1..j - 1 /\ k \in 0..n
            BY <1>1, <3>1, <3>2
      <4>2. \A k \in i + 1..n : Told(first, queue, k) \notin Prompts
            BY <1>2, <4>1 DEF NextPrompt
      <4>3. Told(first, queue, i) \in kinds
            BY <1>2, <1>7, <3>1, <4>2 DEF LastIn
      <4>4. QED BY <1>2, <1>7, <3>1, <3>2, <4>3
    <3>3. CASE j # n + 1
          BY <1>3, <1>4, <3>1, <3>3
    <3>4. QED BY <3>2, <3>3
  <2>2. ASSUME NEW i \in 0..Len(more),
               \A k \in i + 1..Len(more) : Told(first, more, k) \notin Prompts
        PROVE  Told(first, more, i) \in {e}
    <3>1. ~(n + 1 \in i + 1..Len(more))
          BY <1>2, <1>7, <2>2
    <3>2. i = n + 1
          BY <1>1, <3>1
    <3>3. QED BY <1>2, <3>2
  <2>3. QED BY <2>1, <2>2 DEF LastIn
<1>8. QED BY <1>6, <1>7 DEF more

\* A line the client reads: its story is shorter and otherwise the same.
LEMMA StoryRead ==
    ASSUME NEW S, NEW first, NEW queue \in Seq(S), queue # <<>>, Orderly(first, queue),
           NEW last, last = IF Head(queue) \in Prompts THEN Head(queue) ELSE first
    PROVE  /\ Orderly(last, Tail(queue))
           /\ \A kinds : LastIn(first, queue, kinds) => LastIn(last, Tail(queue), kinds)
<1> DEFINE rest == Tail(queue)
           n == Len(rest)
<1>1. /\ n \in Nat /\ Len(queue) = n + 1
      /\ \A i \in 1..n : rest[i] = queue[i + 1]
      /\ Head(queue) = queue[1]
      BY HeadTailProperties
<1>2. /\ \A i \in 1..n : Told(last, rest, i) = Told(first, queue, i + 1)
      /\ Told(last, rest, 0) = last
      /\ Told(first, queue, 0) = first /\ Told(first, queue, 1) = Head(queue)
      BY <1>1 DEF Told
<1> HIDE DEF rest
<1> DEFINE shift(i) == IF i = 0 /\ Head(queue) \notin Prompts THEN 0 ELSE i + 1
<1>3. /\ \A i \in 0..n : shift(i) \in 0..Len(queue)
      /\ \A i \in 0..n : Told(last, rest, i) = Told(first, queue, shift(i))
      BY <1>1, <1>2
<1>4. ASSUME NEW i \in 0..n, NEW m \in i..n,
             \A k \in i + 1..m : Told(last, rest, k) \notin Prompts,
             NEW k \in shift(i) + 1..m + 1
      PROVE  Told(first, queue, k) \notin Prompts
  <2>1. CASE k = 1
        BY <1>1, <1>2, <1>4, <2>1
  <2>2. CASE k # 1
    <3>1. k - 1 \in i + 1..m /\ k - 1 \in 1..n /\ (k - 1) + 1 = k
          BY <1>1, <1>4, <2>2
    <3>2. QED BY <1>2, <1>4, <3>1
  <2>3. QED BY <2>1, <2>2
<1>5. Orderly(last, rest)
  <2> SUFFICES ASSUME NEW i \in 0..n, NEW j \in 0..n,
                      Told(last, rest, i) \in Prompts, NextPrompt(last, rest, i, j)
               PROVE  Told(last, rest, j) \in Follows[Told(last, rest, i)]
      BY DEF Orderly
  <2>1. /\ j \in 1..n /\ i < j /\ shift(j) = j + 1 /\ shift(i) < j + 1 /\ j - 1 \in i..n
        /\ (j - 1) + 1 = j /\ (j + 1) - 1 = j
        BY <1>1 DEF NextPrompt
  <2>2. \A k \in shift(i) + 1..j : Told(first, queue, k) \notin Prompts
        BY <1>4, <2>1 DEF NextPrompt
  <2>3. NextPrompt(first, queue, shift(i), shift(j))
        BY <1>3, <2>1, <2>2 DEF NextPrompt
  <2> HIDE DEF shift
  <2>4. QED BY <1>3, <2>3 DEF Orderly
<1>6. ASSUME NEW kinds, LastIn(first, queue, kinds), NEW i \in 0..n,
             Told(last, rest, i) \in Prompts,
             \A k \in i + 1..n : Told(last, rest, k) \notin Prompts
      PROVE  Told(last, rest, i) \in kinds
  <2>1. n \in i..n
        BY <1>1
  <2>2. \A k \in shift(i) + 1..Len(queue) : Told(first, queue, k) \notin Prompts
        BY <1>1, <1>4, <1>6, <2>1
  <2> HIDE DEF shift
  <2>3. QED BY <1>3, <1>6, <2>2 DEF LastIn
<1>7. QED BY <1>5, <1>6 DEF LastIn, rest

\* A client that has answered waits for any prompt.
LEMMA StoryAnswered ==
    ASSUME NEW first, NEW queue
    PROVE  /\ Orderly(first, queue) => Orderly("ANSWERED", queue)
           /\ \A kinds : LastIn(first, queue, kinds) => LastIn("ANSWERED", queue, kinds)
<1>1. "ANSWERED" \notin Prompts
      BY DEF Prompts
<1>2. \A i : i # 0 => Told("ANSWERED", queue, i) = Told(first, queue, i)
      BY DEF Told
<1>3. Told("ANSWERED", queue, 0) \notin Prompts
      BY <1>1 DEF Told
<1>4. ASSUME Orderly(first, queue), NEW i \in 0..Len(queue), NEW j \in 0..Len(queue),
             Told("ANSWERED", queue, i) \in Prompts, NextPrompt("ANSWERED", queue, i, j)
      PROVE  Told("ANSWERED", queue, j) \in Follows[Told("ANSWERED", queue, i)]
  <2>1. i # 0 /\ j # 0 /\ \A k \in i + 1..j - 1 : k # 0
        BY <1>3, <1>4 DEF NextPrompt
  <2>2. NextPrompt(first, queue, i, j)
        BY <1>2, <1>4, <2>1 DEF NextPrompt
  <2>3. QED BY <1>2, <1>4, <2>1, <2>2 DEF Orderly
<1>5. ASSUME NEW kinds, LastIn(first, queue, kinds), NEW i \in 0..Len(queue),
             Told("ANSWERED", queue, i) \in Prompts,
             \A k \in i + 1..Len(queue) : Told("ANSWERED", queue, k) \notin Prompts
      PROVE  Told("ANSWERED", queue, i) \in kinds
  <2>1. i # 0 /\ \A k \in i + 1..Len(queue) : k # 0
        BY <1>3, <1>5
  <2>2. QED BY <1>2, <1>5, <2>1 DEF LastIn
<1>6. QED BY <1>4, <1>5 DEF Orderly, LastIn

\* An empty queue is in order, and a wider set of endings asks for less.
LEMMA StoryEmpty ==
    /\ \A first : Orderly(first, <<>>)
    /\ \A first, kinds : first \in kinds => LastIn(first, <<>>, kinds)
    /\ \A first, queue, kinds, more :
          (LastIn(first, queue, kinds) /\ kinds \subseteq more)
              => LastIn(first, queue, more)
<1>1. Len(<<>>) = 0
      OBVIOUS
<1>2. \A i, j \in 0..0 : ~(i < j)
      OBVIOUS
<1>3. \A first : Orderly(first, <<>>)
      BY <1>1, <1>2 DEF Orderly, NextPrompt
<1>4. \A first, kinds : first \in kinds => LastIn(first, <<>>, kinds)
      BY <1>1 DEF LastIn, Told
<1>5. \A first, queue, kinds, more :
          (LastIn(first, queue, kinds) /\ kinds \subseteq more)
              => LastIn(first, queue, more)
      BY DEF LastIn
<1>6. QED BY <1>3, <1>4, <1>5

-----------------------------------------------------------------------------
(* What a game task has still to queue *)

\* What two lines, one and none are to each client.
LEMMA StillToQueue ==
    ASSUME NEW x
    PROVE  /\ Head(Broadcast(x)) = [to |-> "black", line |-> x]
           /\ Tail(Broadcast(x)) = ForWhite(x) /\ Broadcast(x) # <<>>
           /\ Head(ForWhite(x)) = [to |-> "white", line |-> x]
           /\ Tail(ForWhite(x)) = <<>> /\ ForWhite(x) # <<>>
           /\ DueIn(Broadcast(x), "black") /\ DueIn(Broadcast(x), "white")
           /\ StartsIn(Broadcast(x)) <=> x = "START"
           /\ ~DueIn(ForWhite(x), "black") /\ DueIn(ForWhite(x), "white")
           /\ StartsIn(ForWhite(x)) <=> x = "START"
           /\ \A s : ~DueIn(<<>>, s)
<1> DEFINE b == [to |-> "black", line |-> x]
           w == [to |-> "white", line |-> x]
<1>1. /\ b.to = "black" /\ b.line = x /\ w.to = "white" /\ w.line = x
      /\ Broadcast(x) = <<b, w>> /\ ForWhite(x) = <<w>>
      BY DEF Broadcast, ForWhite
<1> HIDE DEF b, w
<1>2. /\ Len(<<b, w>>) = 2 /\ <<b, w>>[1] = b /\ <<b, w>>[2] = w
      /\ Len(<<w>>) = 1 /\ <<w>>[1] = w /\ Len(<<>>) = 0
      OBVIOUS
<1>3. Head(<<b, w>>) = b /\ Tail(<<b, w>>) = <<w>> /\ Head(<<w>>) = w /\ Tail(<<w>>) = <<>>
      OBVIOUS
<1>4. <<b, w>> # <<>> /\ <<w>> # <<>>
      BY <1>2
<1>5. 1..2 = {1, 2} /\ 1..1 = {1} /\ 1..0 = {}
      OBVIOUS
<1>6. /\ DueIn(<<b, w>>, "black") /\ DueIn(<<b, w>>, "white")
      /\ StartsIn(<<b, w>>) <=> x = "START"
      BY <1>1, <1>2, <1>5 DEF DueIn, StartsIn
<1>7. /\ ~DueIn(<<w>>, "black") /\ DueIn(<<w>>, "white")
      /\ StartsIn(<<w>>) <=> x = "START"
      BY <1>1, <1>2, <1>5 DEF DueIn, StartsIn
<1>8. \A s : ~DueIn(<<>>, s)
      BY <1>2, <1>5 DEF DueIn
<1>9. QED BY <1>1, <1>3, <1>4, <1>6, <1>7, <1>8 DEF b, w

\* Where the story is before and after each broadcast.
LEMMA Places ==
    ASSUME NEW s \in Side
    PROVE  /\ Place("proposing", Broadcast("SUMMARY"), s) = Done
           /\ Place("proposing", <<>>, s) = {"SUMMARY"}
           /\ Place("discarding", Broadcast("REJECTED"), s) = {"SUMMARY"}
           /\ Place("discarding", <<>>, s) = {"REJECTED"}
           /\ Place("playing", Broadcast("START"), s) = {"SUMMARY"}
           /\ Place("playing", Broadcast("RELAY"), s) = {"START", "RELAY"}
           /\ Place("playing", <<>>, s) = {"START", "RELAY"}
           /\ Place("filing", Broadcast("RELAY"), s) = {"START", "RELAY"}
           /\ Place("filing", <<>>, s) = {"START", "RELAY"}
           /\ Place("telling", Broadcast("OVER"), s) = {"START", "RELAY"}
           /\ Place("telling", <<>>, s) = {"OVER"}
<1>1. /\ \A x : DueIn(Broadcast(x), s)
      /\ ~DueIn(<<>>, s)
      BY StillToQueue DEF Side
<1>2. \A x : StartsIn(Broadcast(x)) <=> x = "START"
      BY StillToQueue
<1>3. QED BY <1>1, <1>2 DEF Place

\* The lines of each phase.
LEMMA LinesInPhase ==
    /\ LinesOf["proposing"] = {"SUMMARY"} /\ LinesOf["discarding"] = {"REJECTED"}
    /\ LinesOf["playing"] = {"START", "RELAY"} /\ LinesOf["filing"] = {"RELAY"}
    /\ LinesOf["telling"] = {"OVER"}
    /\ \A p \in Phases : LinesOf[p] # {} =>
          p \in {"proposing", "discarding", "playing", "filing", "telling"}
BY DEF LinesOf, Phases

\* A line that is queued moves its client's story on, and not the other's.
LEMMA LineQueued ==
    ASSUME NEW p \in Phases, NEW x \in LinesOf[p]
    PROVE  /\ x \in Prompts
           /\ \A k \in Place(p, Broadcast(x), "black") : x \in Follows[k]
           /\ {x} \subseteq Place(p, ForWhite(x), "black")
           /\ Place(p, ForWhite(x), "white") = Place(p, Broadcast(x), "white")
           /\ \A k \in Place(p, ForWhite(x), "white") : x \in Follows[k]
           /\ {x} \subseteq Place(p, <<>>, "white")
           /\ Place(p, <<>>, "black") = Place(p, ForWhite(x), "black")
<1>1. \/ p = "proposing" /\ x = "SUMMARY"
      \/ p = "discarding" /\ x = "REJECTED"
      \/ p = "playing" /\ x = "START"
      \/ p = "playing" /\ x = "RELAY"
      \/ p = "filing" /\ x = "RELAY"
      \/ p = "telling" /\ x = "OVER"
      BY LinesInPhase
<1>2. x \in Prompts
      BY <1>1 DEF Prompts
<1>3. /\ DueIn(Broadcast(x), "black") /\ DueIn(Broadcast(x), "white")
      /\ StartsIn(Broadcast(x)) <=> x = "START"
      /\ ~DueIn(ForWhite(x), "black") /\ DueIn(ForWhite(x), "white")
      /\ StartsIn(ForWhite(x)) <=> x = "START"
      /\ ~DueIn(<<>>, "white") /\ ~DueIn(<<>>, "black")
      BY StillToQueue
<1>4. /\ {x} \subseteq Place(p, ForWhite(x), "black")
      /\ Place(p, ForWhite(x), "white") = Place(p, Broadcast(x), "white")
      /\ {x} \subseteq Place(p, <<>>, "white")
      /\ Place(p, <<>>, "black") = Place(p, ForWhite(x), "black")
      BY <1>1, <1>3 DEF Place
<1>5. \A k \in {"START", "RELAY"} : "RELAY" \in Follows[k] /\ "OVER" \in Follows[k]
      BY DEF Follows
<1>6. "START" \in Follows["SUMMARY"] /\ "REJECTED" \in Follows["SUMMARY"]
      BY DEF Follows
<1>7. \A k \in Done : "SUMMARY" \in Follows[k]
      BY DEF Follows, Done
<1>8. /\ \A k \in Place(p, Broadcast(x), "black") : x \in Follows[k]
      /\ \A k \in Place(p, ForWhite(x), "white") : x \in Follows[k]
      BY <1>1, <1>3, <1>5, <1>6, <1>7 DEF Place
<1>9. QED BY <1>2, <1>4, <1>8

-----------------------------------------------------------------------------
(* The prompts, in order *)

USE DEF vars, clientVars, writerVars, sessionVars, boardVars, taskVars, coordVars

\* What a step has to keep of a client's story, and where the task has to have
\* come to, for the story to go on.
LEMMA TaleFrame ==
    ASSUME NEW s \in Side, Tale(s),
           Orderly(seen'[s], out'[s]),
           ~writer'[s] => out'[s] = <<>>, writer'[s] => writer[s],
           \A kinds : LastIn(seen[s], out[s], kinds) => LastIn(seen'[s], out'[s], kinds),
           \/ Waits(s)' => Waits(s)
           \/ alive[s] /\ TaskRuns /\ LastBy(s) \subseteq Done,
           (alive'[s] /\ TaskRuns') =>
              \/ alive[s] /\ TaskRuns /\ LastBy(s) \subseteq LastBy(s)'
              \/ Waits(s) /\ Done \subseteq LastBy(s)'
    PROVE  Tale(s)'
<1>1. (writer'[s] /\ alive'[s] /\ TaskRuns') => LastIn(seen'[s], out'[s], LastBy(s)')
  <2> SUFFICES ASSUME writer'[s], alive'[s], TaskRuns'
               PROVE  LastIn(seen'[s], out'[s], LastBy(s)')
      OBVIOUS
  <2>1. CASE alive[s] /\ TaskRuns /\ LastBy(s) \subseteq LastBy(s)'
        BY <2>1, StoryEmpty DEF Tale
  <2>2. CASE Waits(s) /\ Done \subseteq LastBy(s)'
        BY <2>2, StoryEmpty DEF Tale
  <2>3. QED BY <2>1, <2>2
<1>2. (writer'[s] /\ Waits(s)') => LastIn(seen'[s], out'[s], Done)
  <2> SUFFICES ASSUME writer'[s], Waits(s)'
               PROVE  LastIn(seen'[s], out'[s], Done)
      OBVIOUS
  <2>1. CASE Waits(s)
        BY <2>1 DEF Tale
  <2>2. CASE alive[s] /\ TaskRuns /\ LastBy(s) \subseteq Done
        BY <2>2, StoryEmpty DEF Tale
  <2>3. QED BY <2>1, <2>2
<1>3. QED BY <1>1, <1>2 DEF Tale

\* A step that queues nothing for the client and moves no task.
LEMMA QuietTale ==
    ASSUME NEW s \in Side, Tale(s),
           UNCHANGED <<seen, out, writer, phase, todo, alive>>,
           Waits(s)' => Waits(s)
    PROVE  Tale(s)'
<1>1. (TaskRuns <=> TaskRuns') /\ LastBy(s)' = LastBy(s)
      BY DEF TaskRuns, LastBy
<1>2. Orderly(seen'[s], out'[s]) /\ (~writer'[s] => out'[s] = <<>>)
      BY DEF Tale
<1>3. QED BY <1>1, <1>2, TaleFrame

\* The client's own steps and its writer's.
LEMMA ClientTale ==
    ASSUME TypeOK, Tales, NEW t \in Side,
           \/ ClientSend(t) \/ ClientClose(t) \/ ClientRead(t) \/ WriterEnds(t)
    PROVE  Tales'
<1>0. /\ UNCHANGED <<phase, todo, alive, pool, requests, control, pend>>
      /\ seen \in [Side -> Prompts \cup {"ANSWERED"}]
      /\ out \in [Side -> Seq(OutLines)] /\ writer \in [Side -> BOOLEAN]
      BY DEF ClientSend, ClientClose, ClientRead, WriterEnds, TypeOK, ClientsOK, WritersOK
<1>1. phase' # "dead" /\ TodoInPhase' /\ \A s \in Side : ~Has(pend'[s], Prompts)
      BY <1>0 DEF Tales, TodoInPhase
<1> SUFFICES ASSUME NEW s \in Side PROVE Tale(s)'
    BY <1>1 DEF Tales
<1>2. Tale(s) /\ Waits(s)' = Waits(s) /\ TaskRuns' = TaskRuns /\ LastBy(s)' = LastBy(s)
      BY <1>0 DEF Tales, Waits, TaskRuns, LastBy
<1>3. CASE UNCHANGED <<seen[s], out[s], writer[s]>>
  <2>1. Orderly(seen'[s], out'[s]) /\ (~writer'[s] => out'[s] = <<>>)
        BY <1>2, <1>3 DEF Tale
  <2>2. QED BY <1>0, <1>2, <1>3, <2>1, TaleFrame
<1>4. CASE ClientSend(t) /\ s = t
  <2>1. /\ out' = out /\ writer' = writer
        /\ seen'[s] = seen[s] \/ seen'[s] = "ANSWERED"
        BY <1>0, <1>4 DEF ClientSend
  <2>2. CASE seen'[s] = seen[s]
        BY <1>3, <2>1, <2>2
  <2>3. CASE seen'[s] = "ANSWERED"
    <3>1. Orderly(seen'[s], out'[s]) /\ (~writer'[s] => out'[s] = <<>>)
          BY <1>2, <2>1, <2>3, StoryAnswered DEF Tale
    <3>2. \A kinds : LastIn(seen[s], out[s], kinds) => LastIn(seen'[s], out'[s], kinds)
          BY <2>1, <2>3, StoryAnswered
    <3>3. QED BY <1>0, <1>2, <2>1, <3>1, <3>2, TaleFrame
  <2>4. QED BY <2>1, <2>2, <2>3
<1>5. CASE ClientRead(t) /\ s = t
  <2>1. /\ out[s] # <<>> /\ out[s] \in Seq(OutLines)
        /\ out'[s] = Tail(out[s]) /\ writer' = writer /\ writer[s]
        /\ seen'[s] = IF Head(out[s]) \in Prompts THEN Head(out[s]) ELSE seen[s]
        BY <1>0, <1>5 DEF ClientRead
  <2>2. Orderly(seen[s], out[s])
        BY <1>2 DEF Tale
  <2>3. /\ Orderly(seen'[s], out'[s])
        /\ \A kinds : LastIn(seen[s], out[s], kinds) => LastIn(seen'[s], out'[s], kinds)
        BY <2>1, <2>2, StoryRead
  <2>4. QED BY <1>0, <1>2, <2>1, <2>3, TaleFrame
<1>6. CASE WriterEnds(t) /\ s = t
  <2>1. out'[s] = <<>> /\ ~writer'[s]
        BY <1>0, <1>6 DEF WriterEnds
  <2>2. QED BY <2>1, StoryEmpty DEF Tale
<1>7. CASE s # t
  <2>1. UNCHANGED <<seen[s], out[s], writer[s]>>
        BY <1>0, <1>7 DEF ClientSend, ClientClose, ClientRead, WriterEnds
  <2>2. QED BY <1>3, <2>1
<1>8. CASE ClientClose(t)
      BY <1>3, <1>8 DEF ClientClose
<1>9. QED BY <1>4, <1>5, <1>6, <1>7, <1>8

\* A session queues no prompt, and takes note of an ending it was told.
LEMMA SessionTale ==
    ASSUME TypeOK, Tales, NEW t \in Side, SessionStep(t) \/ SessionPanics(t)
    PROVE  Tales'
<1>0. /\ pend \in [Side -> Seq(OutLines \cup GameMessages)]
      /\ out \in [Side -> Seq(OutLines)] /\ writer \in [Side -> BOOLEAN]
      /\ control \in [Side -> Seq(Controls)]
      /\ requests \in [Side -> Seq({"Ready", "Gone"})]
      BY DEF TypeOK, SessionsOK, WritersOK, ControlOK, RequestsOK
<1>1. UNCHANGED <<phase, todo, alive, pool, seen, writer>>
      BY DEF SessionStep, TakeControl, TakeLine, SessionSend, EndOfStream,
             Disconnect, CloseSocket, SessionPanics
<1>2. phase' # "dead" /\ TodoInPhase'
      BY <1>1 DEF Tales, TodoInPhase
<1>3. CASE TakeControl(t) \/ EndOfStream(t) \/ CloseSocket(t) \/ Disconnect(t) \/ SessionPanics(t)
  <2>1. UNCHANGED <<out, pend>>
        BY <1>3 DEF TakeControl, EndOfStream, CloseSocket, Disconnect, SessionPanics
  <2>2. ASSUME NEW s \in Side PROVE Waits(s)' => Waits(s)
    <3>1. CASE s # t
      <4>1. UNCHANGED <<requests[s], control[s]>>
            BY <1>0, <1>3, <3>1 DEF TakeControl, EndOfStream, CloseSocket, Disconnect,
               SessionPanics
      <4>2. QED BY <1>1, <4>1 DEF Waits
    <3>2. CASE s = t /\ TakeControl(t)
      <4>1. /\ control[s] # <<>> /\ control'[s] = Tail(control[s])
            /\ \/ requests'[s] = requests[s]
               \/ Head(control[s]) \in LastEdges
            BY <1>0, <3>2 DEF TakeControl, LastEdges
      <4>2. /\ Has(control'[s], LastEdges) => Has(control[s], LastEdges)
            /\ Head(control[s]) \in LastEdges => Has(control[s], LastEdges)
            BY <1>0, <4>1, TakenQueue
      <4>3. QED BY <1>1, <4>1, <4>2 DEF Waits
    <3>3. CASE s = t /\ (EndOfStream(t) \/ CloseSocket(t))
          BY <1>1, <3>3 DEF EndOfStream, CloseSocket, Waits
    <3>4. CASE s = t /\ (Disconnect(t) \/ SessionPanics(t))
      <4>1. /\ control'[s] = <<>> \/ control'[s] = control[s]
            /\ requests'[s] = Append(requests[s], "Gone")
            BY <1>0, <3>4 DEF Disconnect, SessionPanics
      <4>2. Has(requests'[s], {"Ready"}) => Has(requests[s], {"Ready"})
        <5>1. requests[s] \in Seq({"Ready", "Gone"}) /\ "Gone" \in {"Ready", "Gone"}
              BY <1>0
        <5>2. \A kinds : Has(requests'[s], kinds)
                            <=> (Has(requests[s], kinds) \/ "Gone" \in kinds)
              BY <4>1, <5>1, AppendedQueue
        <5>3. QED BY <5>2
      <4>3. QED BY <1>1, <4>1, <4>2, EmptyQueue DEF Waits
    <3>5. QED BY <1>3, <3>1, <3>2, <3>3, <3>4
  <2>3. QED BY <1>1, <1>2, <2>1, <2>2, QuietTale DEF Tales
<1>4. CASE TakeLine(t)
  <2>1. UNCHANGED <<out, requests, control>>
        BY <1>4 DEF TakeLine
  <2>2. Head(lines[t]).cmd \in Commands
    <3>1. lines \in [Side -> Seq(ClientLines)] /\ lines[t] # <<>>
          BY <1>4 DEF TypeOK, ClientsOK, TakeLine
    <3>2. Head(lines[t]) \in ClientLines
          BY <3>1, TakeHead
    <3>3. QED BY <3>2 DEF ClientLines
  <2>3. pend' = pend \/ \E q : pend' = [pend EXCEPT ![t] = q] /\ ~Has(q, Prompts)
    <3> DEFINE command == Head(lines[t]).cmd
    <3>1. command \notin Prompts
          BY <2>2 DEF Commands, AgreementCommands, GameCommands, LoginCommands,
                 OtherCommands, Prompts
    <3> HIDE DEF command
    <3>2. /\ ~Has(<<>>, Prompts) /\ ~Has(<<"BYE">>, Prompts) /\ ~Has(<<"UNKNOWN">>, Prompts)
          /\ ~Has(<<"ECHO">>, Prompts) /\ ~Has(<<command>>, Prompts)
          BY <3>1 DEF Has, Prompts
    <3>3. \/ Forward(t, command) = <<>>
          \/ Forward(t, command) = <<command>>
          BY DEF Forward
    <3> DEFINE Owed == {"ECHO", command}
    <3>4. /\ Forward(t, command) \in Seq(Owed)
          /\ \A echo \in {<<>>, <<"ECHO">>} : echo \in Seq(Owed)
      <4>1. <<>> \in Seq(Owed) /\ <<"ECHO">> \in Seq(Owed) /\ <<command>> \in Seq(Owed)
            OBVIOUS
      <4>2. QED BY <3>3, <4>1
    <3> HIDE DEF Owed
    <3>5. /\ ~Has(Forward(t, command), Prompts)
          /\ \A echo \in {<<>>, <<"ECHO">>} :
                ~Has(echo \o Forward(t, command), Prompts)
          BY <3>2, <3>3, <3>4, JoinedQueue
    <3>6. \/ pend' = pend
          \/ pend' = [pend EXCEPT ![t] = Forward(t, command)]
          \/ pend' = [pend EXCEPT ![t] = <<"BYE">>]
          \/ pend' = [pend EXCEPT ![t] = <<"UNKNOWN">>]
          \/ \E echo \in {<<>>, <<"ECHO">>} :
                pend' = [pend EXCEPT ![t] = echo \o Forward(t, command)]
          BY <1>4 DEF TakeLine, command
    <3>7. QED BY <3>2, <3>5, <3>6
  <2>4. \A s \in Side : ~Has(pend'[s], Prompts)
        BY <1>0, <2>3 DEF Tales
  <2>5. \A s \in Side : Waits(s)' => Waits(s)
        BY <1>1, <2>1 DEF Waits
  <2>6. QED BY <1>1, <1>2, <2>1, <2>4, <2>5, QuietTale DEF Tales
<1>5. CASE SessionSend(t)
  <2>1. /\ pend[t] # <<>> /\ pend' = [pend EXCEPT ![t] = Tail(@)]
        /\ UNCHANGED <<requests, control>>
        BY <1>5 DEF SessionSend
  <2>2. Head(pend[t]) \notin Prompts /\ ~Has(Tail(pend[t]), Prompts)
        BY <1>0, <2>1, TakenQueue DEF Tales
  <2>3. \A s \in Side : ~Has(pend'[s], Prompts)
        BY <1>0, <2>1, <2>2 DEF Tales
  <2>4. ASSUME NEW s \in Side PROVE Tale(s)'
    <3>1. Tale(s) /\ Waits(s)' = Waits(s) /\ TaskRuns' = TaskRuns /\ LastBy(s)' = LastBy(s)
          BY <1>1, <2>1 DEF Tales, Waits, TaskRuns, LastBy
    <3>2. CASE out'[s] = out[s]
      <4>1. Orderly(seen'[s], out'[s]) /\ (~writer'[s] => out'[s] = <<>>)
            BY <1>1, <3>1, <3>2 DEF Tale
      <4>2. QED BY <1>1, <3>1, <3>2, <4>1, TaleFrame
    <3>3. CASE out'[s] # out[s]
      <4>1. /\ s = t /\ writer[s] /\ Head(pend[t]) \in OutLines
            /\ out'[s] = Append(out[s], Head(pend[t]))
            BY <1>0, <1>5, <3>3 DEF SessionSend
      <4>2. out[s] \in Seq(OutLines) /\ Orderly(seen[s], out[s])
            BY <1>0, <3>1 DEF Tale
      <4>3. /\ Orderly(seen'[s], out'[s])
            /\ \A kinds : LastIn(seen[s], out[s], kinds) => LastIn(seen'[s], out'[s], kinds)
            BY <1>1, <2>2, <4>1, <4>2, StoryGrows
      <4>4. QED BY <1>1, <3>1, <4>1, <4>3, TaleFrame
    <3>4. QED BY <3>2, <3>3
  <2>5. QED BY <1>2, <2>3, <2>4 DEF Tales
<1>6. QED BY <1>3, <1>4, <1>5 DEF SessionStep

\* The task queues one line for one client: that client's story moves on.
LEMMA SendTale ==
    ASSUME TypeOK, OneClaim, Tales, TaskSend
    PROVE  Tales'
<1>0. /\ out \in [Side -> Seq(OutLines)] /\ writer \in [Side -> BOOLEAN]
      /\ alive \in [Side -> BOOLEAN] /\ phase \in Phases
      /\ UNCHANGED <<phase, pool, requests, control, seen, writer, pend>> /\ todo # <<>>
      BY DEF TaskSend, TypeOK, WritersOK, TaskOK
<1>1. PICK x \in LinesOf[phase] : todo = Broadcast(x) \/ todo = ForWhite(x)
      BY <1>0 DEF Tales, TodoInPhase
<1>2. /\ x \in Prompts
      /\ \A k \in Place(phase, Broadcast(x), "black") : x \in Follows[k]
      /\ {x} \subseteq Place(phase, ForWhite(x), "black")
      /\ Place(phase, ForWhite(x), "white") = Place(phase, Broadcast(x), "white")
      /\ \A k \in Place(phase, ForWhite(x), "white") : x \in Follows[k]
      /\ {x} \subseteq Place(phase, <<>>, "white")
      /\ Place(phase, <<>>, "black") = Place(phase, ForWhite(x), "black")
      BY <1>0, LineQueued
<1>3. /\ x \in OutLines
      /\ TaskRuns /\ TaskRuns'
  <2>1. LinesOf[phase] # {}
        OBVIOUS
  <2>2. TaskRuns
        BY <1>0, <2>1, LinesInPhase DEF TaskRuns
  <2>3. QED BY <1>0, <1>2, <2>2 DEF TaskRuns, OutLines
<1>4. \A s \in Side : ~Waits(s) /\ ~Waits(s)'
  <2>1. \A s \in Side : ~Waits(s)
        BY <1>3 DEF OneClaim, Claim, Waits
  <2>2. QED BY <1>0, <2>1 DEF Waits
<1>5. \/ Head(todo) = [to |-> "black", line |-> x] /\ todo = Broadcast(x) /\ todo' = ForWhite(x)
      \/ Head(todo) = [to |-> "white", line |-> x] /\ todo = ForWhite(x) /\ todo' = <<>>
      BY <1>1, StillToQueue DEF TaskSend
<1>6. phase' # "dead" /\ TodoInPhase'
      BY <1>0, <1>5 DEF Tales, TodoInPhase
<1>7. ASSUME NEW t \in Side, Head(todo) = [to |-> t, line |-> x],
             \A k \in LastBy(t) : x \in Follows[k], {x} \subseteq LastBy(t)',
             \A s \in Side \ {t} : LastBy(s)' = LastBy(s)
      PROVE  Tales'
  <2> DEFINE there == alive[t] /\ writer[t]
  <2>1. /\ out' = [out EXCEPT ![t] = IF there THEN Append(@, x) ELSE @]
        /\ alive' = [alive EXCEPT ![t] = there]
    <3>1. Head(todo).to = t /\ Head(todo).line = x
          BY <1>7
    <3>2. QED BY <3>1 DEF TaskSend
  <2>2. ASSUME NEW s \in Side, s # t
        PROVE  Tale(s)'
    <3>1. UNCHANGED <<seen[s], out[s], writer[s], alive[s]>> /\ Tale(s) /\ LastBy(s)' = LastBy(s)
          BY <1>0, <1>7, <2>1, <2>2 DEF Tales
    <3>2. Orderly(seen'[s], out'[s]) /\ (~writer'[s] => out'[s] = <<>>)
          BY <3>1 DEF Tale
    <3>3. QED BY <1>3, <1>4, <3>1, <3>2, TaleFrame
  <2>3. CASE there
    <3>1. out'[t] = Append(out[t], x) /\ seen'[t] = seen[t] /\ writer'[t] = writer[t]
          BY <1>0, <2>1, <2>3
    <3>2. out[t] \in Seq(OutLines) /\ Orderly(seen[t], out[t]) /\ LastIn(seen[t], out[t], LastBy(t))
          BY <1>0, <1>3, <2>3 DEF Tales, Tale
    <3>3. Orderly(seen'[t], out'[t]) /\ LastIn(seen'[t], out'[t], {x})
          BY <1>2, <1>3, <1>7, <3>1, <3>2, StoryGrows
    <3>4. LastIn(seen'[t], out'[t], LastBy(t)')
          BY <1>7, <3>3, StoryEmpty
    <3>5. Tale(t)'
          BY <1>4, <2>3, <3>1, <3>3, <3>4 DEF Tale
    <3>6. QED BY <1>0, <1>6, <2>2, <3>5 DEF Tales
  <2>4. CASE ~there
    <3>1. out'[t] = out[t] /\ seen'[t] = seen[t] /\ writer'[t] = writer[t] /\ ~alive'[t]
          BY <1>0, <2>1, <2>4
    <3>2. Tale(t)
          BY DEF Tales
    <3>3. Tale(t)'
          BY <1>4, <3>1, <3>2 DEF Tale
    <3>4. QED BY <1>0, <1>6, <2>2, <3>3 DEF Tales
  <2>5. QED BY <2>3, <2>4
<1>8. "black" \in Side /\ "white" \in Side /\ \A s \in Side : s = "black" \/ s = "white"
      BY DEF Side
<1>9. CASE Head(todo) = [to |-> "black", line |-> x] /\ todo = Broadcast(x) /\ todo' = ForWhite(x)
  <2>1. /\ \A k \in LastBy("black") : x \in Follows[k]
        /\ {x} \subseteq LastBy("black")'
        /\ LastBy("white")' = LastBy("white")
        BY <1>0, <1>2, <1>9 DEF LastBy
  <2>2. \A s \in Side \ {"black"} : LastBy(s)' = LastBy(s)
        BY <1>8, <2>1
  <2>3. QED BY <1>7, <1>8, <1>9, <2>1, <2>2
<1>10. CASE Head(todo) = [to |-> "white", line |-> x] /\ todo = ForWhite(x) /\ todo' = <<>>
  <2>1. /\ \A k \in LastBy("white") : x \in Follows[k]
        /\ {x} \subseteq LastBy("white")'
        /\ LastBy("black")' = LastBy("black")
        BY <1>0, <1>2, <1>10 DEF LastBy
  <2>2. \A s \in Side \ {"white"} : LastBy(s)' = LastBy(s)
        BY <1>8, <2>1
  <2>3. QED BY <1>7, <1>8, <1>10, <2>1, <2>2
<1>11. QED BY <1>5, <1>9, <1>10

\* The task goes on to its next lines from where the last ones left the stories.
LEMMA TurnTale ==
    ASSUME Tales, TaskRuns, phase' # "dead", TodoInPhase',
           UNCHANGED <<seen, out, writer, pend>>,
           \A s \in Side : /\ alive'[s] => alive[s]
                           /\ Waits(s)' => Waits(s)
                           /\ LastBy(s) \subseteq LastBy(s)'
    PROVE  Tales'
<1> SUFFICES ASSUME NEW s \in Side PROVE Tale(s)'
    BY DEF Tales
<1>1. Tale(s) /\ Orderly(seen'[s], out'[s]) /\ (~writer'[s] => out'[s] = <<>>)
      BY DEF Tales, Tale
<1>2. QED BY <1>1, TaleFrame

\* Telling an edge that ends nothing lets nobody wait, and telling an ending
\* only the sessions the task still writes to.
LEMMA ToldWaits ==
    ASSUME TypeOK, NEW living, NEW edge \in Controls, Notify(living, edge),
           UNCHANGED <<pool, requests>>, NEW s \in Side
    PROVE  /\ edge \notin LastEdges => (Waits(s)' => Waits(s))
           /\ Waits(s)' => Waits(s) \/ living[s]
<1>1. control[s] \in Seq(Controls)
      BY DEF TypeOK, ControlOK
<1>2. control'[s] = control[s] \/ control'[s] = Append(control[s], edge)
      BY NotifiedQueue
<1>3. ~living[s] => control'[s] = control[s]
      BY DEF Notify
<1>4. edge \notin LastEdges => (Has(control'[s], LastEdges) => Has(control[s], LastEdges))
      BY <1>1, <1>2, AppendedQueue
<1>5. QED BY <1>3, <1>4 DEF Waits

\* The task returns: the sessions it tells have had their last line.
LEMMA ReturnTale ==
    ASSUME Tales, TaskRuns, Return,
           UNCHANGED <<seen, out, writer, pend>>,
           \A s \in Side :
              (Waits(s)' /\ ~Waits(s)) => alive[s] /\ LastBy(s) \subseteq Done
    PROVE  Tales'
<1>1. phase' = "over" /\ todo' = <<>> /\ ~TaskRuns'
      BY DEF Return, TaskRuns
<1>2. phase' # "dead" /\ TodoInPhase'
      BY <1>1 DEF TodoInPhase
<1> SUFFICES ASSUME NEW s \in Side PROVE Tale(s)'
    BY <1>2 DEF Tales
<1>3. Tale(s) /\ Orderly(seen'[s], out'[s]) /\ (~writer'[s] => out'[s] = <<>>)
      BY DEF Tales, Tale
<1>4. QED BY <1>1, <1>3, TaleFrame

\* What the task does between two sends leaves every story to be gone on with.
LEMMA TaskTale ==
    ASSUME TypeOK, OneClaim, Tales, "game" \notin Faults,
           \/ Receive \/ AgreementExpires \/ Refused \/ NobodyLeft
           \/ Deadline \/ File \/ Finish \/ TaskPanics \/ Watch
    PROVE  Tales'
<1>0. /\ alive \in [Side -> BOOLEAN] /\ phase \in Phases
      BY DEF TypeOK, TaskOK
<1>1. ~TaskPanics /\ ~Watch
      BY DEF TaskPanics, Watch, Tales
<1>2. ASSUME TaskRuns, UNCHANGED <<seen, out, writer, pend, pool, requests, control, phase, todo>>,
             \A s \in Side : alive'[s] => alive[s]
      PROVE  Tales'
  <2>1. phase' # "dead" /\ TodoInPhase'
        BY <1>2 DEF Tales, TodoInPhase
  <2>2. \A s \in Side : Waits(s)' = Waits(s) /\ LastBy(s)' = LastBy(s)
        BY <1>2 DEF Waits, LastBy
  <2>3. QED BY <1>2, <2>1, <2>2, TurnTale
<1>3. ASSUME NEW m \in Messages, Agree(m)
      PROVE  Tales'
  <2>1. phase = "proposing" /\ todo = <<>> /\ TaskRuns
        /\ UNCHANGED <<seen, out, writer, pend, pool, requests, alive>>
        BY <1>3 DEF Agree, Received, Awaits, TaskRuns
  <2>2. CASE UNCHANGED <<phase, control, todo>>
        BY <1>2, <2>1, <2>2
  <2>3. CASE phase' = "playing" /\ Notify(alive, "Started") /\ todo' = Broadcast("START")
    <3>1. phase' # "dead" /\ TodoInPhase'
          BY <2>3, LinesInPhase DEF TodoInPhase
    <3>2. \A s \in Side : LastBy(s) \subseteq LastBy(s)'
          BY <2>1, <2>3, Places DEF LastBy
    <3>3. "Started" \in Controls /\ "Started" \notin LastEdges
          BY DEF Controls, LastEdges
    <3>4. \A s \in Side : Waits(s)' => Waits(s)
          BY <2>1, <2>3, <3>3, ToldWaits
    <3>5. QED BY <2>1, <3>1, <3>2, <3>4, TurnTale
  <2>4. QED BY <1>3, <2>2, <2>3 DEF Agree
<1>4. ASSUME NEW m \in Messages, Reject(m) \/ AgreementExpires
      PROVE  Tales'
  <2>1. /\ phase = "proposing" /\ todo = <<>> /\ TaskRuns
        /\ phase' = "discarding" /\ todo' = Broadcast("REJECTED")
        /\ UNCHANGED <<seen, out, writer, pend, pool, requests, alive, control>>
        BY <1>4 DEF Reject, AgreementExpires, Refuse, Received, Awaits, TaskRuns
  <2>2. phase' # "dead" /\ TodoInPhase'
        BY <2>1, LinesInPhase DEF TodoInPhase
  <2>3. \A s \in Side : LastBy(s) \subseteq LastBy(s)'
        BY <2>1, Places DEF LastBy
  <2>4. \A s \in Side : Waits(s)' = Waits(s)
        BY <2>1 DEF Waits
  <2>5. QED BY <2>1, <2>2, <2>3, <2>4, TurnTale
<1>5. ASSUME NEW m \in Messages, DisconnectedBeforeStart(m)
      PROVE  Tales'
  <2>1. /\ phase = "proposing" /\ todo = <<>> /\ TaskRuns
        /\ Notify([alive EXCEPT ![m.side] = FALSE], "PairingDiscarded") /\ Return
        /\ UNCHANGED <<seen, out, writer, pend, pool, requests>>
        BY <1>5 DEF DisconnectedBeforeStart, Discard, Awaits, TaskRuns
  <2>2. \A s \in Side : LastBy(s) \subseteq Done
        BY <2>1, Places DEF LastBy, Done
  <2>3. "PairingDiscarded" \in Controls
        BY DEF Controls
  <2>4. \A s \in Side : Waits(s)' => Waits(s) \/ alive[s]
    <3>1. PICK living : /\ Notify(living, "PairingDiscarded")
                        /\ \A s \in Side : living[s] => alive[s]
          BY <1>0, <2>1
    <3>2. QED BY <2>1, <2>3, <3>1, ToldWaits
  <2>5. QED BY <2>1, <2>2, <2>4, ReturnTale
<1>6. CASE Refused \/ Finish
  <2> DEFINE edge == IF Refused THEN "PairingDiscarded" ELSE "GameEnded"
  <2>1. /\ todo = <<>> /\ TaskRuns /\ phase \in {"discarding", "telling"}
        /\ Return
        /\ UNCHANGED <<seen, out, writer, pend, pool, requests>>
        BY <1>6 DEF Refused, Finish, Discard, Awaits, TaskRuns
  <2>2. Notify(alive, "PairingDiscarded") \/ Notify(alive, "GameEnded")
        BY <1>6 DEF Refused, Finish, Discard
  <2>3. \A s \in Side : LastBy(s) \subseteq Done
        BY <2>1, Places DEF LastBy, Done
  <2>4. "PairingDiscarded" \in Controls /\ "GameEnded" \in Controls
        BY DEF Controls
  <2>5. \A s \in Side : Waits(s)' => Waits(s) \/ alive[s]
        BY <2>1, <2>2, <2>4, ToldWaits
  <2>6. QED BY <2>1, <2>3, <2>5, ReturnTale
<1>7. CASE NobodyLeft
  <2>1. /\ TaskRuns /\ Return
        /\ UNCHANGED <<seen, out, writer, pend, pool, requests, control>>
        BY <1>7 DEF NobodyLeft, Awaits, TaskRuns
  <2>2. \A s \in Side : Waits(s)' = Waits(s)
        BY <2>1 DEF Waits
  <2>3. QED BY <2>1, <2>2, ReturnTale
<1>8. CASE File
  <2>1. /\ phase = "filing" /\ todo = <<>> /\ TaskRuns
        /\ phase' = "telling" /\ todo' = Broadcast("OVER")
        /\ UNCHANGED <<seen, out, writer, pend, pool, requests, alive, control>>
        BY <1>8 DEF File, Awaits, TaskRuns
  <2>2. phase' # "dead" /\ TodoInPhase'
        BY <2>1, LinesInPhase DEF TodoInPhase
  <2>3. \A s \in Side : LastBy(s) \subseteq LastBy(s)'
        BY <2>1, Places DEF LastBy
  <2>4. \A s \in Side : Waits(s)' = Waits(s)
        BY <2>1 DEF Waits
  <2>5. QED BY <2>1, <2>2, <2>3, <2>4, TurnTale
<1>9. ASSUME NEW m \in Messages,
             \/ Move(m) \/ Resign(m) \/ Declare(m) \/ KeepAlive(m) \/ Abort(m)
             \/ Disconnected(m) \/ Deadline
      PROVE  Tales'
  <2>1. /\ phase = "playing" /\ todo = <<>> /\ TaskRuns
        BY <1>9 DEF Move, Resign, Declare, KeepAlive, Abort, Disconnected, Deadline,
           Received, Awaits, TaskRuns
  <2>2. UNCHANGED <<seen, out, writer, pend, pool, requests, control>>
        BY <1>9 DEF Move, Relayed, NotRelayed, Resign, Declare, KeepAlive, Abort,
           Disconnected, Deadline, Terminate
  <2>3. \A s \in Side : alive'[s] => alive[s]
        BY <1>0, <1>9 DEF Move, Relayed, NotRelayed, Resign, Declare, KeepAlive, Abort,
           Disconnected, Deadline, Terminate
  <2>4. \/ phase' = phase /\ todo' = todo
        \/ phase' = "playing" /\ todo' = Broadcast("RELAY")
        \/ phase' = "filing" /\ (todo' = <<>> \/ todo' = Broadcast("RELAY"))
        BY <1>9, <2>1 DEF Move, Relayed, NotRelayed, Resign, Declare, KeepAlive, Abort,
           Disconnected, Deadline, Terminate
  <2>5. CASE phase' = phase /\ todo' = todo
        BY <1>2, <2>1, <2>2, <2>3, <2>5
  <2>6. CASE phase' \in {"playing", "filing"} /\ todo' \in {<<>>, Broadcast("RELAY")}
    <3>1. phase' # "dead" /\ TodoInPhase'
          BY <2>6, LinesInPhase DEF TodoInPhase
    <3>2. \A s \in Side : LastBy(s) \subseteq LastBy(s)'
          BY <2>1, <2>6, Places DEF LastBy
    <3>3. \A s \in Side : Waits(s)' = Waits(s)
          BY <2>2 DEF Waits
    <3>4. QED BY <2>1, <2>2, <2>3, <3>1, <3>2, <3>3, TurnTale
  <2>7. QED BY <2>4, <2>5, <2>6
<1>10. ASSUME NEW m \in Messages, IgnoredBeforeStart(m) \/ IgnoredInGame(m)
       PROVE  Tales'
  <2>1. TaskRuns /\ UNCHANGED <<seen, out, writer, pend, pool, requests, control, phase, todo, alive>>
        BY <1>10 DEF IgnoredBeforeStart, IgnoredInGame, Received, Awaits, TaskRuns
  <2>2. QED BY <1>2, <2>1
<1>11. \E m \in Messages : TRUE
  <2>1. [msg |-> "AGREE", side |-> "black"] \in Messages
        BY DEF Messages, GameMessages, AgreementCommands, Side
  <2>2. QED BY <2>1
<1>12. CASE Receive
       BY <1>3, <1>4, <1>5, <1>9, <1>10, <1>12 DEF Receive
<1>13. CASE AgreementExpires
       BY <1>4, <1>11, <1>13
<1>14. CASE Deadline
       BY <1>9, <1>11, <1>14
<1>15. QED BY <1>1, <1>6, <1>7, <1>8, <1>12, <1>13, <1>14

\* The coordinator pairs two sessions that wait.
LEMMA CoordinatorTale ==
    ASSUME TypeOK, Tales, NEW t \in Side,
           HandleReady(t) \/ HandleGone(t) \/ Replace(t) \/ Offer \/ AskAbort
    PROVE  Tales'
<1>0. /\ UNCHANGED <<seen, out, writer, pend>>
      /\ control \in [Side -> Seq(Controls)]
      /\ requests \in [Side -> Seq({"Ready", "Gone"})]
      BY DEF HandleReady, HandleGone, Replace, Offer, AskAbort, TypeOK, ControlOK, RequestsOK
<1>1. CASE HandleReady(t) \/ HandleGone(t) \/ Replace(t) \/ AskAbort
  <2>1. UNCHANGED <<phase, todo, alive>>
        BY <1>1 DEF HandleReady, HandleGone, Replace, AskAbort
  <2>2. phase' # "dead" /\ TodoInPhase'
        BY <2>1 DEF Tales, TodoInPhase
  <2>3. ASSUME NEW s \in Side PROVE Waits(s)' => Waits(s)
    <3>1. CASE HandleReady(t)
      <4>1. /\ control' = control
            /\ s \in pool' => s \in pool \/ s = t
            /\ requests[t] # <<>> /\ Head(requests[t]) = "Ready"
            /\ requests' = [requests EXCEPT ![t] = Tail(@)]
            BY <3>1 DEF HandleReady
      <4>2. Has(requests[t], {"Ready"})
            BY <1>0, <4>1, TakenQueue
      <4>3. s # t => requests'[s] = requests[s]
            BY <1>0, <4>1
      <4>4. QED BY <4>1, <4>2, <4>3 DEF Waits
    <3>2. CASE HandleGone(t)
      <4>1. /\ control' = control
            /\ s \in pool' => s \in pool
            /\ requests[t] # <<>> /\ requests' = [requests EXCEPT ![t] = Tail(@)]
            BY <3>2 DEF HandleGone
      <4>2. Has(requests'[s], {"Ready"}) => Has(requests[s], {"Ready"})
            BY <1>0, <4>1, TakenQueue
      <4>3. QED BY <4>1, <4>2 DEF Waits
    <3>3. CASE Replace(t)
      <4>1. /\ s \in pool' => s \in pool
            /\ requests' = requests
            /\ control'[s] = control[s] \/ control'[s] = Append(control[s], "Close")
            BY <1>0, <3>3 DEF Replace, Tell
      <4>2. "Close" \in Controls /\ "Close" \notin LastEdges
            BY DEF Controls, LastEdges
      <4>3. Has(control'[s], LastEdges) => Has(control[s], LastEdges)
            BY <1>0, <4>1, <4>2, AppendedQueue
      <4>4. QED BY <4>1, <4>3 DEF Waits
    <3>4. CASE AskAbort
          BY <3>4 DEF AskAbort, Waits
    <3>5. QED BY <1>1, <3>1, <3>2, <3>3, <3>4
  <2>4. QED BY <1>0, <2>1, <2>2, <2>3, QuietTale DEF Tales
<1>2. CASE Offer
  <2>1. /\ phase' = "proposing" /\ todo' = Broadcast("SUMMARY")
        /\ \A s \in Side : Waits(s)
        BY <1>2 DEF Offer, Waits
  <2>2. phase' # "dead" /\ TodoInPhase'
        BY <2>1, LinesInPhase DEF TodoInPhase
  <2>3. \A s \in Side : LastBy(s)' = Done
        BY <2>1, Places DEF LastBy
  <2>4. ASSUME NEW s \in Side PROVE Tale(s)'
    <3>1. Tale(s) /\ Orderly(seen'[s], out'[s]) /\ (~writer'[s] => out'[s] = <<>>)
          BY <1>0 DEF Tales, Tale
    <3>2. QED BY <1>0, <2>1, <2>3, <3>1, TaleFrame
  <2>5. QED BY <1>0, <2>2, <2>4 DEF Tales
<1>3. QED BY <1>1, <1>2

\* Every step keeps both clients' stories in order.
LEMMA NextTale ==
    TypeOK /\ OneClaim /\ Tales /\ "game" \notin Faults /\ [Next]_vars => Tales'
<1> SUFFICES ASSUME TypeOK, OneClaim, Tales, "game" \notin Faults, [Next]_vars
             PROVE  Tales'
    OBVIOUS
<1>1. CASE UNCHANGED vars
  <2>1. phase' # "dead" /\ TodoInPhase' /\ \A s \in Side : Waits(s)' => Waits(s)
        BY <1>1 DEF Tales, TodoInPhase, Waits
  <2>2. QED BY <1>1, <2>1, QuietTale DEF Tales
<1>2. ASSUME NEW s \in Side,
             \/ ClientStep(s) \/ ClientRead(s) \/ WriterEnds(s)
             \/ SessionStep(s) \/ SessionPanics(s)
      PROVE  Tales'
      BY <1>2, ClientTale, SessionTale DEF ClientStep
<1>3. ASSUME NEW s \in Side, HandleReady(s) \/ HandleGone(s) \/ Replace(s)
      PROVE  Tales'
      BY <1>3, CoordinatorTale
<1>4. CASE TaskStep \/ AgreementExpires \/ Deadline \/ TaskPanics \/ Watch
      BY <1>4, SendTale, TaskTale DEF TaskStep
<1>5. CASE Offer \/ AskAbort
  <2>1. "black" \in Side
        BY DEF Side
  <2>2. QED BY <1>5, <2>1, CoordinatorTale
<1>6. QED BY <1>1, <1>2, <1>3, <1>4, <1>5 DEF Next

\* At the start both clients have read the end of a game, and wait.
LEMMA InitTale == Init => Tales
<1> SUFFICES ASSUME Init PROVE Tales
    OBVIOUS
<1>1. /\ phase = "idle" /\ todo = <<>> /\ ~TaskRuns
      /\ \A s \in Side : seen[s] = "OVER" /\ out[s] = <<>> /\ pend[s] = <<>>
      BY DEF Init, TaskRuns
<1>2. "OVER" \in Done
      BY DEF Done
<1>3. QED BY <1>1, <1>2, StoryEmpty, EmptyQueue DEF Tales, Tale, TodoInPhase

\* As long as no game task panics, the prompts a client reads and has queued
\* tell one story per game (PromptsInOrder: pairing.rs run, agreement and
\* terminate, against connection.rs on_control and server.rs offer).
THEOREM StoriesInOrder ==
    ASSUME "game" \notin Faults
    PROVE  Spec => []PromptsInOrder
<1>1. TypeOK /\ OneClaim /\ Tales /\ [Next]_vars => Tales'
      BY NextTale
<1>2. Tales => PromptsInOrder
      BY DEF Tales, Tale, PromptsInOrder
<1>3. QED BY <1>1, <1>2, InitTale, TypeCorrect, ClaimIsSingle, PTL DEF Spec

-----------------------------------------------------------------------------
(* Counting summaries *)

\* A queue holds a number of summaries, and an empty one none.
LEMMA SummariesCounted ==
    ASSUME NEW S, NEW queue \in Seq(S)
    PROVE  /\ IsFiniteSet(SummariesOf(queue)) /\ Summaries(queue) \in Nat
           /\ queue = <<>> => Summaries(queue) = 0
<1> DEFINE held == {i \in 1..Len(queue) : queue[i] = "SUMMARY"}
<1>1. Len(queue) \in Nat /\ IsFiniteSet(1..Len(queue))
      BY LenProperties, FS_Interval
<1>2. held \in SUBSET (1..Len(queue))
      OBVIOUS
<1>3. IsFiniteSet(held)
      BY <1>1, <1>2, FS_Subset
<1>4. queue = <<>> => held = {}
      OBVIOUS
<1> HIDE DEF held
<1>5. Cardinality(held) \in Nat /\ (held = {} => Cardinality(held) = 0)
      BY <1>3, FS_CardinalityType, FS_EmptySet
<1>6. held = SummariesOf(queue)
      BY DEF held, SummariesOf
<1>7. QED BY <1>3, <1>4, <1>5, <1>6 DEF Summaries

\* A summary queued is one more, and any other line none.
LEMMA SummaryQueued ==
    ASSUME NEW S, NEW queue \in Seq(S), NEW e \in S
    PROVE  /\ e = "SUMMARY" => Summaries(Append(queue, e)) = Summaries(queue) + 1
           /\ e # "SUMMARY" => Summaries(Append(queue, e)) = Summaries(queue)
<1> DEFINE Old == SummariesOf(queue)
           New == SummariesOf(Append(queue, e))
<1>1. /\ Len(queue) \in Nat /\ Len(Append(queue, e)) = Len(queue) + 1
      /\ \A k \in 1..Len(queue) : Append(queue, e)[k] = queue[k]
      /\ Append(queue, e)[Len(queue) + 1] = e
      BY AppendProperties
<1>2. e = "SUMMARY" => New = Old \cup {Len(queue) + 1} /\ Len(queue) + 1 \notin Old
      BY <1>1 DEF SummariesOf
<1>3. e # "SUMMARY" => New = Old
      BY <1>1 DEF SummariesOf
<1>4. IsFiniteSet(Old)
      BY SummariesCounted
<1> HIDE DEF Old, New
<1>5. e = "SUMMARY" => Cardinality(New) = Cardinality(Old) + 1
      BY <1>2, <1>4, FS_AddElement
<1>6. QED BY <1>3, <1>5 DEF Old, New, Summaries

\* A summary read is one less.
LEMMA SummaryRead ==
    ASSUME NEW S, NEW queue \in Seq(S), queue # <<>>
    PROVE  /\ Head(queue) = "SUMMARY" => Summaries(queue) = Summaries(Tail(queue)) + 1
           /\ Head(queue) # "SUMMARY" => Summaries(queue) = Summaries(Tail(queue))
<1> DEFINE Old == SummariesOf(queue)
           New == SummariesOf(Tail(queue))
<1>1. /\ Len(queue) \in Nat /\ Len(queue) > 0 /\ Head(queue) = queue[1]
      /\ Tail(queue) \in Seq(S) /\ Len(Tail(queue)) = Len(queue) - 1
      /\ \A k \in 1..Len(queue) - 1 : Tail(queue)[k] = queue[k + 1]
      BY HeadTailProperties
<1>2. New = {k \in 1..Len(queue) - 1 : k + 1 \in Old}
      BY <1>1 DEF SummariesOf
<1>3. IsFiniteSet(Old) /\ IsFiniteSet(New) /\ Old \subseteq 1..Len(queue)
      BY <1>1, SummariesCounted DEF SummariesOf
<1>4. 1 \in Old <=> Head(queue) = "SUMMARY"
      BY <1>1 DEF SummariesOf
<1> HIDE DEF Old, New
<1> DEFINE later == Old \ {1}
           shift == [k \in New |-> k + 1]
<1>5. shift \in Bijection(New, later)
  <2>1. \A k \in New : k \in Int /\ k + 1 \in later
        BY <1>1, <1>2
  <2>2. \A m \in later : m - 1 \in New /\ m \in Int
        BY <1>1, <1>2, <1>3
  <2>3. shift \in [New -> later]
        BY <2>1
  <2>4. \A a, b \in New : shift[a] = shift[b] => a = b
        BY <2>1
  <2>5. \A m \in later : \E k \in New : shift[k] = m
    <3> TAKE m \in later
    <3>1. m - 1 \in New /\ shift[m - 1] = m
          BY <2>2
    <3>2. QED BY <3>1
  <2>6. shift \in Injection(New, later)
        BY <2>3, <2>4 DEF Injection, IsInjective
  <2>7. QED BY <2>3, <2>5, <2>6 DEF Bijection, Surjection
<1>6. Cardinality(later) = Cardinality(New)
      BY <1>3, <1>5, FS_Bijection DEF ExistsBijection
<1>7. Cardinality(later) = IF 1 \in Old THEN Cardinality(Old) - 1 ELSE Cardinality(Old)
      BY <1>3, FS_RemoveElement
<1>8. Cardinality(Old) \in Nat /\ Cardinality(New) \in Nat
      BY <1>3, FS_CardinalityType
<1> HIDE DEF later
<1>9. 1 \in Old => Cardinality(Old) = Cardinality(New) + 1
  <2>1. 1 \in Old => Cardinality(New) = Cardinality(Old) - 1
        BY <1>6, <1>7
  <2>2. \A a, b \in Nat : b = a - 1 => a = b + 1
        OBVIOUS
  <2>3. QED BY <1>8, <2>1, <2>2
<1>10. 1 \notin Old => Cardinality(Old) = Cardinality(New)
       BY <1>6, <1>7
<1>11. QED BY <1>4, <1>9, <1>10 DEF Old, New, Summaries

-----------------------------------------------------------------------------
(* No client knows of a game that was not offered *)

\* What Known adds up are numbers.
LEMMA KnownNumbers ==
    ASSUME TypeOK, TypeOK', NEW s \in Side
    PROVE  /\ heard[s] \in Nat /\ heard'[s] \in Nat
           /\ Summaries(out[s]) \in Nat /\ Summaries(out'[s]) \in Nat
           /\ ToCome(phase, todo, s) \in {0, 1} /\ ToCome(phase', todo', s) \in {0, 1}
           /\ games \in Nat /\ games' \in Nat
           /\ Known(s) \in Nat /\ Known(s)' \in Nat
<1>1. /\ heard[s] \in Nat /\ games \in Nat /\ out[s] \in Seq(OutLines)
      /\ heard'[s] \in Nat /\ games' \in Nat /\ out'[s] \in Seq(OutLines)
      BY DEF TypeOK, ClientsOK, CoordinatorOK, WritersOK
<1>2. Summaries(out[s]) \in Nat /\ Summaries(out'[s]) \in Nat
      BY <1>1, SummariesCounted
<1>3. ToCome(phase, todo, s) \in {0, 1} /\ ToCome(phase', todo', s) \in {0, 1}
      BY DEF ToCome
<1>4. \A a, b \in Nat, c \in {0, 1} : a + b + c \in Nat
      OBVIOUS
<1>5. Known(s) \in Nat
      BY <1>1, <1>2, <1>3, <1>4 DEF Known
<1>6. Known(s)' \in Nat
      BY <1>1, <1>2, <1>3, <1>4 DEF Known
<1>7. QED BY <1>1, <1>2, <1>3, <1>5, <1>6

\* A step that adds no game and no summary, and loses the one on its way to a
\* connection that it writes off.
LEMMA AccountFrame ==
    ASSUME TypeOK, TypeOK', NEW s \in Side, Accounted(s), games' = games,
           Known(s)' <= Known(s), heard[s] <= heard'[s],
           (phase' = "proposing" /\ ~alive'[s]) =>
              (phase = "proposing" /\ ~alive[s]) \/ Known(s)' < Known(s),
           \/ lines'[s] = lines[s] \/ lines'[s] = <<>>
           \/ lines[s] # <<>> /\ lines'[s] = Tail(lines[s])
    PROVE  AccountKept(s)
<1>1. /\ Known(s) \in Nat /\ Known(s)' \in Nat /\ games \in Nat
      /\ heard[s] \in Nat /\ heard'[s] \in Nat
      BY KnownNumbers
<1>2. \A a, b, g \in Nat : /\ (a <= b /\ b <= g) => a <= g
                           /\ (a <= b /\ b < g) => a < g
                           /\ (a < b /\ b <= g) => a < g
      OBVIOUS
<1>3. lines \in [Side -> Seq(ClientLines)]
      BY DEF TypeOK, ClientsOK
<1>4. \A i \in 1..Len(lines'[s]) : \E j \in 1..Len(lines[s]) : lines'[s][i] = lines[s][j]
  <2>1. CASE lines'[s] = lines[s]
        BY <2>1
  <2>2. CASE lines'[s] = <<>>
        BY <2>2
  <2>3. CASE lines[s] # <<>> /\ lines'[s] = Tail(lines[s])
    <3>1. /\ Len(lines[s]) \in Nat /\ Len(Tail(lines[s])) = Len(lines[s]) - 1
          /\ \A k \in 1..Len(lines[s]) - 1 : Tail(lines[s])[k] = lines[s][k + 1]
          BY <1>3, <2>3, HeadTailProperties
    <3>2. \A k \in 1..Len(lines[s]) - 1 : k + 1 \in 1..Len(lines[s])
          BY <3>1
    <3>3. QED BY <2>3, <3>1, <3>2
  <2>4. QED BY <2>1, <2>2, <2>3
<1>5. \A j \in 1..Len(lines[s]) : lines[s][j].game \in Nat /\ lines[s][j].game <= heard[s]
  <2>1. \A j \in 1..Len(lines[s]) : lines[s][j] \in ClientLines
        BY <1>3, ElementOfSeq
  <2>2. QED BY <2>1 DEF Accounted, ClientLines
<1>6. \A i \in 1..Len(lines'[s]) : lines'[s][i].game <= heard'[s]
      BY <1>1, <1>2, <1>4, <1>5
<1>7. Known(s)' <= games'
      BY <1>1, <1>2 DEF Accounted
<1>8. (phase' = "proposing" /\ ~alive'[s]) => Missed(s)'
      BY <1>1, <1>2 DEF Accounted, Missed
<1>9. QED BY <1>6, <1>7, <1>8 DEF Accounted, AccountKept

\* A step that queues nothing, reads nothing and offers nothing.
LEMMA QuietAccount ==
    ASSUME TypeOK, TypeOK', AllAccounted, UNCHANGED <<heard, games, out>>,
           phase' = "proposing" => UNCHANGED <<phase, todo, alive>>,
           \A s \in Side : \/ lines'[s] = lines[s] \/ lines'[s] = <<>>
                           \/ lines[s] # <<>> /\ lines'[s] = Tail(lines[s])
    PROVE  AccountsKept
<1> SUFFICES ASSUME NEW s \in Side PROVE AccountKept(s)
    BY DEF AccountsKept
<1>1. ToCome(phase', todo', s) <= ToCome(phase, todo, s)
      BY DEF ToCome
<1>2. /\ heard[s] \in Nat /\ Summaries(out[s]) \in Nat
      /\ ToCome(phase, todo, s) \in {0, 1} /\ ToCome(phase', todo', s) \in {0, 1}
      BY KnownNumbers
<1>3. \A a, b \in Nat, c, d \in {0, 1} : c <= d => a + b + c <= a + b + d
      OBVIOUS
<1>4. Known(s)' <= Known(s)
      BY <1>1, <1>2, <1>3 DEF Known
<1>5. heard[s] <= heard'[s]
      BY <1>2
<1>6. QED BY <1>4, <1>5, AccountFrame DEF AllAccounted, AccountsKept

\* The client's own steps and its writer's.
LEMMA ClientAccount ==
    ASSUME TypeOK, TypeOK', AllAccounted, NEW t \in Side,
           \/ ClientSend(t) \/ ClientClose(t) \/ ClientRead(t) \/ WriterEnds(t)
    PROVE  AccountsKept
<1>0. /\ UNCHANGED <<phase, todo, alive, games>>
      /\ lines \in [Side -> Seq(ClientLines)]
      /\ heard \in [Side -> Nat] /\ out \in [Side -> Seq(OutLines)]
      BY DEF ClientSend, ClientClose, ClientRead, WriterEnds, TypeOK, ClientsOK, WritersOK
<1>1. CASE ClientClose(t)
      BY <1>0, <1>1, QuietAccount DEF ClientClose
<1> SUFFICES ASSUME NEW s \in Side PROVE AccountKept(s)
    BY DEF AccountsKept
<1>2. /\ heard[s] \in Nat /\ Summaries(out[s]) \in Nat /\ Summaries(out'[s]) \in Nat
      /\ ToCome(phase, todo, s) \in {0, 1} /\ ToCome(phase', todo', s) = ToCome(phase, todo, s)
      BY <1>0, KnownNumbers
<1>3. ASSUME UNCHANGED <<heard[s], lines[s], out[s]>>
      PROVE  AccountKept(s)
  <2>1. Known(s)' = Known(s) /\ Known(s) \in Nat
        BY <1>2, <1>3, KnownNumbers DEF Known
  <2>2. Known(s)' <= Known(s) /\ heard[s] <= heard'[s]
        BY <1>2, <1>3, <2>1
  <2>3. QED BY <1>0, <1>3, <2>2, AccountFrame DEF AllAccounted
<1>4. CASE ClientSend(t)
  <2>1. CASE s # t
    <3>1. UNCHANGED <<heard[s], lines[s], out[s]>>
          BY <1>0, <1>4, <2>1 DEF ClientSend
    <3>2. QED BY <1>3, <3>1
  <2>2. CASE s = t
    <3>1. PICK c \in Commands :
             lines'[s] = Append(lines[s], [cmd |-> c, game |-> heard[s]])
      <4>1. PICK c \in Sendable(t) :
              lines' = [lines EXCEPT ![t] = Append(@, [cmd |-> c, game |-> heard[t]])]
            BY <1>4 DEF ClientSend
      <4>2. c \in Commands
            BY DEF Sendable, Commands
      <4>3. QED BY <1>0, <2>2, <4>1, <4>2
    <3> DEFINE line == [cmd |-> c, game |-> heard[s]]
    <3>2. line \in ClientLines /\ line.game = heard[s]
          BY <1>2 DEF ClientLines
    <3> HIDE DEF line
    <3>3. /\ Len(lines[s]) \in Nat /\ Len(lines'[s]) = Len(lines[s]) + 1
          /\ \A i \in 1..Len(lines[s]) : lines'[s][i] = lines[s][i]
          /\ lines'[s][Len(lines[s]) + 1] = line
          BY <1>0, <3>1, <3>2, AppendProperties DEF line
    <3>4. \A i \in 1..Len(lines[s]) : lines[s][i].game <= heard[s]
          BY DEF AllAccounted, Accounted
    <3>5. \A i \in 1..Len(lines'[s]) : i \in 1..Len(lines[s]) \/ i = Len(lines[s]) + 1
          BY <3>3
    <3>6. heard' = heard /\ out' = out /\ heard[s] <= heard[s]
          BY <1>2, <1>4 DEF ClientSend
    <3>7. \A i \in 1..Len(lines'[s]) : lines'[s][i].game <= heard'[s]
          BY <3>2, <3>3, <3>4, <3>5, <3>6
    <3>8. Known(s)' = Known(s) /\ Missed(s)' = Missed(s)
          BY <1>0, <1>2, <3>6 DEF Known, Missed
    <3>9. Known(s)' <= Known(s)
          BY <3>8, KnownNumbers
    <3>10. QED BY <1>0, <3>7, <3>8, <3>9 DEF AllAccounted, Accounted, AccountKept
  <2>3. QED BY <2>1, <2>2
<1>5. CASE ClientRead(t)
  <2>1. CASE s # t
    <3>1. UNCHANGED <<heard[s], lines[s], out[s]>>
          BY <1>0, <1>5, <2>1 DEF ClientRead
    <3>2. QED BY <1>3, <3>1
  <2>2. CASE s = t
    <3>1. /\ out[s] # <<>> /\ out'[s] = Tail(out[s]) /\ lines'[s] = lines[s]
          /\ heard'[s] = IF Head(out[s]) = "SUMMARY" THEN heard[s] + 1 ELSE heard[s]
          BY <1>0, <1>5, <2>2 DEF ClientRead
    <3>2. /\ Head(out[s]) = "SUMMARY" => Summaries(out[s]) = Summaries(out'[s]) + 1
          /\ Head(out[s]) # "SUMMARY" => Summaries(out[s]) = Summaries(out'[s])
          BY <1>0, <3>1, SummaryRead
    <3>3. \A a, b, n \in Nat, c \in {0, 1} :
             /\ b = n + 1 => (a + 1) + n + c <= a + b + c
             /\ a <= a + 1 /\ a <= a /\ a + b + c <= a + b + c
          OBVIOUS
    <3>4. heard'[s] + Summaries(out'[s]) + ToCome(phase, todo, s)
             <= heard[s] + Summaries(out[s]) + ToCome(phase, todo, s)
      <4>1. CASE Head(out[s]) = "SUMMARY"
            BY <1>2, <3>1, <3>2, <3>3, <4>1
      <4>2. CASE Head(out[s]) # "SUMMARY"
            BY <1>2, <3>1, <3>2, <3>3, <4>2
      <4>3. QED BY <4>1, <4>2
    <3>5. heard[s] <= heard'[s]
          BY <1>2, <3>1, <3>3
    <3>6. Known(s)' <= Known(s)
          BY <1>2, <3>4 DEF Known
    <3>7. QED BY <1>0, <3>1, <3>5, <3>6, AccountFrame DEF AllAccounted
  <2>3. QED BY <2>1, <2>2
<1>6. CASE WriterEnds(t)
  <2>1. CASE s # t
    <3>1. UNCHANGED <<heard[s], lines[s], out[s]>>
          BY <1>0, <1>6, <2>1 DEF WriterEnds
    <3>2. QED BY <1>3, <3>1
  <2>2. CASE s = t
    <3>1. out'[s] = <<>> /\ lines'[s] = lines[s] /\ heard'[s] = heard[s]
          BY <1>0, <1>6, <2>2 DEF WriterEnds
    <3>2. out'[s] \in Seq(OutLines)
          BY DEF TypeOK, WritersOK
    <3>3. Summaries(out'[s]) = 0
          BY <3>1, <3>2, SummariesCounted
    <3>4. \A a, b \in Nat, c \in {0, 1} : a + 0 + c <= a + b + c /\ a <= a
          OBVIOUS
    <3>5. heard'[s] + Summaries(out'[s]) + ToCome(phase, todo, s)
             <= heard[s] + Summaries(out[s]) + ToCome(phase, todo, s)
          BY <1>2, <3>1, <3>3, <3>4
    <3>6. Known(s)' <= Known(s) /\ heard[s] <= heard'[s]
          BY <1>2, <3>1, <3>4, <3>5 DEF Known
    <3>7. QED BY <1>0, <3>1, <3>6, AccountFrame DEF AllAccounted
  <2>3. QED BY <2>1, <2>2
<1>7. QED BY <1>1, <1>4, <1>5, <1>6 DEF AccountsKept

\* A session queues no summary.
LEMMA SessionAccount ==
    ASSUME TypeOK, TypeOK', Tales, AllAccounted, NEW t \in Side,
           SessionStep(t) \/ SessionPanics(t)
    PROVE  AccountsKept
<1>0. /\ UNCHANGED <<phase, todo, alive, heard, games>>
      /\ out \in [Side -> Seq(OutLines)]
      /\ pend \in [Side -> Seq(OutLines \cup GameMessages)]
      /\ lines \in [Side -> Seq(ClientLines)]
      BY DEF SessionStep, TakeControl, TakeLine, SessionSend, EndOfStream,
             Disconnect, CloseSocket, SessionPanics, TypeOK, WritersOK, SessionsOK,
             ClientsOK
<1>1. CASE ~SessionSend(t)
  <2>1. /\ out' = out
        /\ \/ lines' = lines
           \/ lines[t] # <<>> /\ lines' = [lines EXCEPT ![t] = Tail(@)]
           \/ lines' = [lines EXCEPT ![t] = <<>>]
        BY <1>1 DEF SessionStep, TakeControl, TakeLine, EndOfStream, Disconnect,
           CloseSocket, SessionPanics
  <2>2. \A s \in Side : \/ lines'[s] = lines[s] \/ lines'[s] = <<>>
                        \/ lines[s] # <<>> /\ lines'[s] = Tail(lines[s])
        BY <1>0, <2>1
  <2>3. QED BY <1>0, <2>1, <2>2, QuietAccount
<1>2. CASE SessionSend(t)
  <2> SUFFICES ASSUME NEW s \in Side PROVE AccountKept(s)
      BY DEF AccountsKept
  <2>1. lines' = lines /\ pend[t] # <<>>
        BY <1>2 DEF SessionSend
  <2>2. Head(pend[t]) # "SUMMARY"
    <3>1. Head(pend[t]) \notin Prompts
          BY <1>0, <2>1, TakenQueue DEF Tales
    <3>2. QED BY <3>1 DEF Prompts
  <2>3. \/ out'[s] = out[s]
        \/ Head(pend[t]) \in OutLines /\ out'[s] = Append(out[s], Head(pend[t]))
        BY <1>0, <1>2 DEF SessionSend
  <2>4. Summaries(out'[s]) = Summaries(out[s])
    <3>1. out[s] \in Seq(OutLines)
          BY <1>0
    <3>2. \A e \in OutLines : e # "SUMMARY" => Summaries(Append(out[s], e)) = Summaries(out[s])
          BY <3>1, SummaryQueued
    <3>3. CASE out'[s] = out[s]
          BY <3>3
    <3>4. CASE Head(pend[t]) \in OutLines /\ out'[s] = Append(out[s], Head(pend[t]))
          BY <2>2, <3>2, <3>4
    <3>5. QED BY <2>3, <3>3, <3>4
  <2>5. Known(s)' = Known(s)
        BY <1>0, <2>4 DEF Known
  <2>6. Known(s)' <= Known(s) /\ heard[s] <= heard'[s]
        BY <1>0, <2>5, KnownNumbers
  <2>7. QED BY <1>0, <2>1, <2>6, AccountFrame DEF AllAccounted
<1>3. QED BY <1>1, <1>2

\* The summary of the game on offer is queued, or lost with its connection.
LEMMA SendAccount ==
    ASSUME TypeOK, TypeOK', Tales, AllAccounted, TaskSend
    PROVE  AccountsKept
<1>0. /\ out \in [Side -> Seq(OutLines)] /\ alive \in [Side -> BOOLEAN] /\ phase \in Phases
      /\ UNCHANGED <<phase, heard, lines, games>> /\ todo # <<>>
      BY DEF TaskSend, TypeOK, WritersOK, TaskOK
<1>1. PICK x \in LinesOf[phase] : todo = Broadcast(x) \/ todo = ForWhite(x)
      BY <1>0 DEF Tales, TodoInPhase
<1>2. x \in OutLines /\ (x = "SUMMARY" <=> phase = "proposing")
  <2>1. x \in Prompts
        BY <1>0, LineQueued
  <2>2. LinesOf[phase] # {}
        OBVIOUS
  <2>3. x = "SUMMARY" <=> phase = "proposing"
        BY <1>0, <2>2, LinesInPhase
  <2>4. QED BY <2>1, <2>3 DEF OutLines
<1>3. \/ Head(todo) = [to |-> "black", line |-> x] /\ todo = Broadcast(x) /\ todo' = ForWhite(x)
      \/ Head(todo) = [to |-> "white", line |-> x] /\ todo = ForWhite(x) /\ todo' = <<>>
      BY <1>1, StillToQueue DEF TaskSend
<1>4. PICK t \in Side : /\ Head(todo).to = t /\ Head(todo).line = x
                        /\ DueIn(todo, t) /\ ~DueIn(todo', t)
                        /\ \A s \in Side \ {t} : DueIn(todo', s) <=> DueIn(todo, s)
  <2>1. "black" \in Side /\ "white" \in Side /\ \A s \in Side : s = "black" \/ s = "white"
        BY DEF Side
  <2>2. CASE Head(todo) = [to |-> "black", line |-> x] /\ todo = Broadcast(x) /\ todo' = ForWhite(x)
    <3>1. Head(todo).to = "black" /\ Head(todo).line = x
          BY <2>2
    <3>2. /\ DueIn(todo, "black") /\ ~DueIn(todo', "black")
          /\ DueIn(todo, "white") /\ DueIn(todo', "white")
          BY <2>2, StillToQueue
    <3>3. QED BY <2>1, <3>1, <3>2
  <2>3. CASE Head(todo) = [to |-> "white", line |-> x] /\ todo = ForWhite(x) /\ todo' = <<>>
    <3>1. Head(todo).to = "white" /\ Head(todo).line = x
          BY <2>3
    <3>2. /\ DueIn(todo, "white") /\ ~DueIn(todo', "white")
          /\ ~DueIn(todo, "black") /\ ~DueIn(todo', "black")
          BY <2>3, StillToQueue
    <3>3. QED BY <2>1, <3>1, <3>2
  <2>4. QED BY <1>3, <2>2, <2>3
<1> SUFFICES ASSUME NEW s \in Side PROVE AccountKept(s)
    BY DEF AccountsKept
<1> DEFINE there == alive[t] /\ writer[t]
<1>5. /\ out' = [out EXCEPT ![t] = IF there THEN Append(@, x) ELSE @]
      /\ alive' = [alive EXCEPT ![t] = there]
      BY <1>4 DEF TaskSend
<1>6. heard[s] <= heard'[s]
      BY <1>0, KnownNumbers
<1>7. ASSUME Known(s)' = Known(s), alive'[s] = alive[s]
      PROVE  AccountKept(s)
  <2>1. Known(s)' <= Known(s)
        BY <1>7, KnownNumbers
  <2>2. QED BY <1>0, <1>6, <1>7, <2>1, AccountFrame DEF AllAccounted
<1>8. CASE s # t
  <2>1. UNCHANGED <<out[s], alive[s]>>
        BY <1>0, <1>5, <1>8
  <2>2. ToCome(phase', todo', s) = ToCome(phase, todo, s)
        BY <1>0, <1>4, <1>8 DEF ToCome
  <2>3. Known(s)' = Known(s)
        BY <1>0, <2>1, <2>2 DEF Known
  <2>4. QED BY <1>7, <2>1, <2>3
<1>9. CASE s = t /\ there
  <2>1. out'[s] = Append(out[s], x) /\ alive'[s] = alive[s]
        BY <1>0, <1>5, <1>9
  <2>2. /\ x = "SUMMARY" => Summaries(out'[s]) = Summaries(out[s]) + 1
        /\ x # "SUMMARY" => Summaries(out'[s]) = Summaries(out[s])
        BY <1>0, <1>2, <2>1, SummaryQueued
  <2>3. /\ x = "SUMMARY" => ToCome(phase, todo, s) = 1
        /\ x # "SUMMARY" => ToCome(phase, todo, s) = 0
        /\ ToCome(phase', todo', s) = 0
        BY <1>0, <1>2, <1>4, <1>9 DEF ToCome
  <2>4. \A a, b \in Nat : a + (b + 1) + 0 = a + b + 1
        OBVIOUS
  <2>5. Known(s)' = Known(s)
    <3>1. heard[s] \in Nat /\ Summaries(out[s]) \in Nat
          BY KnownNumbers
    <3>2. CASE x = "SUMMARY"
          BY <1>0, <2>2, <2>3, <2>4, <3>1, <3>2 DEF Known
    <3>3. CASE x # "SUMMARY"
          BY <1>0, <2>2, <2>3, <3>3 DEF Known
    <3>4. QED BY <3>2, <3>3
  <2>6. QED BY <1>7, <2>1, <2>5
<1>10. CASE s = t /\ ~there
  <2>1. out'[s] = out[s]
        BY <1>0, <1>5, <1>10
  <2>2. CASE x = "SUMMARY"
    <3>1. ToCome(phase, todo, s) = 1 /\ ToCome(phase', todo', s) = 0
          BY <1>0, <1>2, <1>4, <1>10, <2>2 DEF ToCome
    <3>2. \A a, b \in Nat : a + b + 0 < a + b + 1 /\ a + b + 0 <= a + b + 1
          OBVIOUS
    <3>3. heard[s] \in Nat /\ Summaries(out[s]) \in Nat
          BY KnownNumbers
    <3>4. Known(s)' < Known(s) /\ Known(s)' <= Known(s)
          BY <1>0, <2>1, <3>1, <3>2, <3>3 DEF Known
    <3>5. QED BY <1>0, <1>6, <3>4, AccountFrame DEF AllAccounted
  <2>3. CASE x # "SUMMARY"
    <3>1. ToCome(phase, todo, s) = 0 /\ ToCome(phase', todo', s) = 0 /\ phase' # "proposing"
          BY <1>0, <1>2, <2>3 DEF ToCome
    <3>2. Known(s)' = Known(s)
          BY <1>0, <2>1, <3>1 DEF Known
    <3>3. Known(s)' <= Known(s)
          BY <3>2, KnownNumbers
    <3>4. QED BY <1>0, <1>6, <3>1, <3>3, AccountFrame DEF AllAccounted
  <2>4. QED BY <2>2, <2>3
<1>11. QED BY <1>8, <1>9, <1>10

\* No other step of the task touches a summary on its way.
LEMMA TaskAccount ==
    ASSUME TypeOK, TypeOK', Tales, AllAccounted, "game" \notin Faults,
           \/ Receive \/ AgreementExpires \/ Refused \/ NobodyLeft
           \/ Deadline \/ File \/ Finish \/ TaskPanics \/ Watch
    PROVE  AccountsKept
<1>1. ~TaskPanics /\ ~Watch
      BY DEF TaskPanics, Watch, Tales
<1>2. ASSUME UNCHANGED <<heard, games, out, lines>>,
             phase' = "proposing" => UNCHANGED <<phase, todo, alive>>
      PROVE  AccountsKept
      BY <1>2, QuietAccount
<1>3. ASSUME NEW m \in Messages,
             \/ Agree(m) \/ Reject(m) \/ DisconnectedBeforeStart(m)
             \/ IgnoredBeforeStart(m) \/ IgnoredInGame(m)
      PROVE  AccountsKept
  <2>1. UNCHANGED <<heard, games, out, lines>>
        BY <1>3 DEF Agree, Reject, Refuse, DisconnectedBeforeStart, IgnoredBeforeStart,
           IgnoredInGame
  <2>2. phase' = "proposing" => UNCHANGED <<phase, todo, alive>>
        BY <1>3 DEF Agree, Reject, Refuse, DisconnectedBeforeStart, Discard, Return,
           IgnoredBeforeStart, IgnoredInGame
  <2>3. QED BY <1>2, <2>1, <2>2
<1>4. ASSUME NEW m \in Messages,
             \/ Move(m) \/ Resign(m) \/ Declare(m) \/ KeepAlive(m) \/ Abort(m)
             \/ Disconnected(m)
      PROVE  AccountsKept
  <2>1. UNCHANGED <<heard, games, out, lines>>
        BY <1>4 DEF Move, Resign, Declare, KeepAlive, Abort, Disconnected
  <2>2. phase' # "proposing"
        BY <1>4 DEF Move, Relayed, NotRelayed, Resign, Declare, KeepAlive, Abort,
           Disconnected, Terminate, Received, Awaits
  <2>3. QED BY <1>2, <2>1, <2>2
<1>5. CASE AgreementExpires \/ Refused \/ NobodyLeft \/ Deadline \/ File \/ Finish
  <2>1. UNCHANGED <<heard, games, out, lines>>
        BY <1>5 DEF AgreementExpires, Refuse, Refused, NobodyLeft, Deadline, File, Finish
  <2>2. phase' # "proposing"
        BY <1>5 DEF AgreementExpires, Refuse, Refused, Discard, NobodyLeft, Return,
           Deadline, Terminate, File, Finish, Awaits
  <2>3. QED BY <1>2, <2>1, <2>2
<1>6. QED BY <1>1, <1>3, <1>4, <1>5 DEF Receive

\* The coordinator's other steps touch no summary.
LEMMA CoordinatorAccount ==
    ASSUME TypeOK, TypeOK', AllAccounted, NEW t \in Side,
           HandleReady(t) \/ HandleGone(t) \/ Replace(t) \/ AskAbort
    PROVE  AccountsKept
BY QuietAccount DEF HandleReady, HandleGone, Replace, AskAbort

\* Every step but an offer keeps the account, and adds nothing to it.
LEMMA NextKept ==
    ASSUME TypeOK, TypeOK', Tales, AllAccounted, "game" \notin Faults, [Next]_vars, ~Offer
    PROVE  AccountsKept
<1>1. CASE UNCHANGED vars
      BY <1>1, QuietAccount
<1>2. ASSUME NEW s \in Side,
             \/ ClientStep(s) \/ ClientRead(s) \/ WriterEnds(s)
             \/ SessionStep(s) \/ SessionPanics(s)
      PROVE  AccountsKept
      BY <1>2, ClientAccount, SessionAccount DEF ClientStep
<1>3. ASSUME NEW s \in Side, HandleReady(s) \/ HandleGone(s) \/ Replace(s)
      PROVE  AccountsKept
      BY <1>3, CoordinatorAccount
<1>4. CASE TaskStep \/ AgreementExpires \/ Deadline \/ TaskPanics \/ Watch
      BY <1>4, SendAccount, TaskAccount DEF TaskStep
<1>5. CASE AskAbort
  <2>1. "black" \in Side
        BY DEF Side
  <2>2. QED BY <1>5, <2>1, CoordinatorAccount
<1>6. QED BY <1>1, <1>2, <1>3, <1>4, <1>5 DEF Next

\* An offer is a game no client has heard of, and a summary for each.
LEMMA NextAccount ==
    /\ TypeOK /\ TypeOK' /\ Tales /\ AllAccounted
    /\ "game" \notin Faults /\ [Next]_vars
    => AllAccounted'
<1> SUFFICES ASSUME TypeOK, TypeOK', Tales, AllAccounted, "game" \notin Faults, [Next]_vars
             PROVE  AllAccounted'
    OBVIOUS
<1>1. CASE ~Offer
      BY <1>1, NextKept DEF AllAccounted, AccountsKept, AccountKept
<1>2. CASE Offer
  <2>1. /\ games' = games + 1 /\ alive' = [s \in Side |-> TRUE]
        /\ UNCHANGED <<heard, out, lines>>
        BY <1>2 DEF Offer
  <2> SUFFICES ASSUME NEW s \in Side PROVE Accounted(s)'
      BY DEF AllAccounted
  <2>2. /\ heard[s] \in Nat /\ Summaries(out[s]) \in Nat /\ games \in Nat
        /\ ToCome(phase, todo, s) \in {0, 1} /\ ToCome(phase', todo', s) \in {0, 1}
        BY KnownNumbers
  <2>3. \A a, b, g \in Nat, c, d \in {0, 1} : a + b + c <= g => a + b + d <= g + 1
        OBVIOUS
  <2>4. heard[s] + Summaries(out[s]) + ToCome(phase, todo, s) <= games
        BY DEF AllAccounted, Accounted, Known
  <2>5. heard'[s] + Summaries(out'[s]) + ToCome(phase', todo', s) <= games + 1
        BY <2>1, <2>2, <2>3, <2>4
  <2>6. Known(s)' <= games'
        BY <2>1, <2>5 DEF Known
  <2>7. QED BY <2>1, <2>6 DEF AllAccounted, Accounted
<1>3. QED BY <1>1, <1>2

-----------------------------------------------------------------------------
(* A session that left the registry is told *)

\* A session keeps its Close until it takes it, and sends Gone as it leaves.
LEMMA LeavesFrame ==
    ASSUME TypeOK, [Next]_vars, NEW s \in Side, Leaves(s),
           Has(requests'[s], {"Gone"}) => Has(requests[s], {"Gone"}) \/ pc'[s] # "loop",
           (s \notin registered' /\ s \in registered /\ pc'[s] = "loop")
              => Has(control'[s], {"Close"}),
           (Has(control[s], {"Close"}) /\ pc'[s] = "loop") => Has(control'[s], {"Close"})
    PROVE  Leaves(s)'
<1>1. pc[s] # "loop" => pc'[s] # "loop"
      BY LeftForGood
<1>2. QED BY <1>1 DEF Leaves

\* A queue keeps what is not at its head.
LEMMA KeptBehind ==
    ASSUME NEW S, NEW queue \in Seq(S), queue # <<>>, NEW kinds,
           Has(queue, kinds), Head(queue) \notin kinds
    PROVE  Has(Tail(queue), kinds)
<1>1. /\ Len(queue) \in Nat /\ Len(Tail(queue)) = Len(queue) - 1 /\ Head(queue) = queue[1]
      /\ \A k \in 1..Len(queue) - 1 : Tail(queue)[k] = queue[k + 1]
      BY HeadTailProperties
<1>2. PICK i \in 1..Len(queue) : queue[i] \in kinds
      BY DEF Has
<1>3. i # 1
      BY <1>1, <1>2
<1>4. i - 1 \in 1..Len(Tail(queue)) /\ Tail(queue)[i - 1] = queue[i]
      BY <1>1, <1>3
<1>5. QED BY <1>2, <1>4 DEF Has

\* Every step leaves the leavers told.
LEMMA NextLeaves ==
    ASSUME RoomToClose
    PROVE  TypeOK /\ ChannelsBounded /\ LeaversAreTold /\ [Next]_vars => LeaversAreTold'
<1> SUFFICES ASSUME TypeOK, ChannelsBounded, LeaversAreTold, [Next]_vars,
                    NEW s \in Side
             PROVE  Leaves(s)'
    BY DEF LeaversAreTold
<1>0. /\ control \in [Side -> Seq(Controls)] /\ control[s] \in Seq(Controls)
      /\ requests \in [Side -> Seq({"Ready", "Gone"})]
      /\ requests[s] \in Seq({"Ready", "Gone"})
      /\ pc \in [Side -> {"loop", "closing", "gone", "closed"}]
      /\ Leaves(s)
      BY DEF TypeOK, ControlOK, RequestsOK, SessionsOK, LeaversAreTold
<1>1. ASSUME UNCHANGED <<requests[s], registered>>,
             Has(control[s], {"Close"}) => Has(control'[s], {"Close"})
      PROVE  Leaves(s)'
      BY <1>0, <1>1, LeavesFrame
<1>2. CASE UNCHANGED vars
      BY <1>1, <1>2
<1>3. ASSUME NEW t \in Side,
             \/ ClientStep(t) \/ ClientRead(t) \/ WriterEnds(t)
             \/ TakeLine(t) \/ SessionSend(t) \/ EndOfStream(t) \/ CloseSocket(t)
      PROVE  Leaves(s)'
  <2>1. UNCHANGED <<requests, registered, control>>
        BY <1>3 DEF ClientStep, ClientSend, ClientClose, ClientRead, WriterEnds,
           TakeLine, SessionSend, EndOfStream, CloseSocket
  <2>2. QED BY <1>1, <2>1
<1>4. ASSUME NEW t \in Side, TakeControl(t)
      PROVE  Leaves(s)'
  <2>1. CASE s # t
    <3>1. UNCHANGED <<requests[s], registered, control[s]>>
          BY <1>0, <1>4, <2>1 DEF TakeControl
    <3>2. QED BY <1>1, <3>1
  <2>2. CASE s = t
    <3>1. /\ control[s] # <<>> /\ control'[s] = Tail(control[s])
          /\ registered' = registered
          /\ requests'[s] = requests[s] \/ requests'[s] = Append(requests[s], "Ready")
          /\ Head(control[s]) = "Close" => pc'[s] # "loop"
          BY <1>0, <1>4, <2>2 DEF TakeControl
    <3>2. Has(requests'[s], {"Gone"}) => Has(requests[s], {"Gone"})
      <4>1. "Ready" \in {"Ready", "Gone"} /\ "Ready" \notin {"Gone"}
            OBVIOUS
      <4>2. QED BY <1>0, <3>1, <4>1, AppendedQueue
    <3>3. (Has(control[s], {"Close"}) /\ pc'[s] = "loop") => Has(control'[s], {"Close"})
          BY <1>0, <3>1, KeptBehind
    <3>4. QED BY <1>0, <3>1, <3>2, <3>3, LeavesFrame
  <2>3. QED BY <2>1, <2>2
<1>5. ASSUME NEW t \in Side, Disconnect(t) \/ SessionPanics(t)
      PROVE  Leaves(s)'
  <2>1. CASE s # t
    <3>1. UNCHANGED <<requests[s], registered, control[s]>>
          BY <1>0, <1>5, <2>1 DEF Disconnect, SessionPanics
    <3>2. QED BY <1>1, <3>1
  <2>2. CASE s = t
    <3>1. pc'[s] # "loop"
          BY <1>0, <1>5, <2>2 DEF Disconnect, SessionPanics
    <3>2. QED BY <3>1 DEF Leaves
  <2>3. QED BY <2>1, <2>2
<1>6. ASSUME NEW t \in Side, HandleReady(t) \/ HandleGone(t)
      PROVE  Leaves(s)'
  <2>1. /\ control' = control /\ requests[t] # <<>>
        /\ requests' = [requests EXCEPT ![t] = Tail(@)]
        BY <1>6 DEF HandleReady, HandleGone
  <2>2. Has(requests'[s], {"Gone"}) => Has(requests[s], {"Gone"})
    <3>1. CASE s = t
          BY <1>0, <2>1, <3>1, TakenQueue
    <3>2. CASE s # t
          BY <1>0, <2>1, <3>2
    <3>3. QED BY <3>1, <3>2
  <2>3. CASE HandleReady(t)
        BY <1>0, <2>1, <2>2, <2>3, LeavesFrame DEF HandleReady
  <2>4. CASE HandleGone(t)
    <3>1. registered' = registered \ {t} /\ Head(requests[t]) = "Gone"
          BY <2>4 DEF HandleGone
    <3>2. Has(requests[t], {"Gone"})
          BY <1>0, <2>1, <3>1, TakenQueue
    <3>3. s = t => pc[s] # "loop"
          BY <1>0, <3>2 DEF Leaves
    <3>4. s = t => pc'[s] # "loop"
          BY <3>3, LeftForGood
    <3>5. QED BY <1>0, <2>1, <2>2, <3>1, <3>4, LeavesFrame
  <2>5. QED BY <1>6, <2>3, <2>4
<1>7. ASSUME NEW t \in Side, Replace(t)
      PROVE  Leaves(s)'
  <2>1. requests' = requests /\ pc' = pc /\ registered' = registered \ {t}
        BY <1>7 DEF Replace
  <2>2. CASE s # t
    <3>1. control'[s] = control[s]
          BY <1>0, <1>7, <2>2 DEF Replace
    <3>2. QED BY <1>0, <2>1, <2>2, <3>1, LeavesFrame
  <2>3. CASE s = t
    <3>1. Len(control[s]) < ControlCapacity
      <4>1. Len(control[s]) <= Sent + 0 /\ Sent \in 1..3
            BY <1>7, <2>3 DEF ChannelsBounded, Closes, Replace, Sent
      <4>2. Len(control[s]) \in Nat /\ ControlCapacity \in Nat /\ ControlCapacity >= 4
            BY <1>0, CapacityAssumption, LenProperties DEF RoomToClose
      <4>3. QED BY <4>1, <4>2
    <3>2. pc'[s] = "loop" => control'[s] = Append(control[s], "Close")
          BY <1>0, <1>7, <2>1, <2>3, <3>1 DEF Replace, Tell
    <3>3. pc'[s] = "loop" => Has(control'[s], {"Close"})
      <4>1. "Close" \in Controls /\ "Close" \in {"Close"}
            BY DEF Controls
      <4>2. Has(Append(control[s], "Close"), {"Close"})
            BY <1>0, <4>1, AppendedQueue
      <4>3. QED BY <3>2, <4>2
    <3>4. QED BY <1>0, <2>1, <3>3, LeavesFrame
  <2>4. QED BY <2>2, <2>3
<1>8. ASSUME NEW living, NEW edge \in Controls, Notify(living, edge),
             UNCHANGED <<requests, registered>>
      PROVE  Leaves(s)'
  <2>1. control'[s] = control[s] \/ control'[s] = Append(control[s], edge)
        BY <1>8, NotifiedQueue
  <2>2. Has(control[s], {"Close"}) => Has(control'[s], {"Close"})
    <3>1. Has(control[s], {"Close"}) => Has(Append(control[s], edge), {"Close"})
          BY <1>0, AppendedQueue
    <3>2. QED BY <2>1, <3>1
  <2>3. QED BY <1>1, <1>8, <2>2
<1>9. {"Paired", "Started", "PairingDiscarded", "GameEnded"} \subseteq Controls
      BY DEF Controls
<1>10. CASE Offer \/ Finish \/ Watch \/ Refused
  <2>1. UNCHANGED <<requests, registered>>
        BY <1>10 DEF Offer, Finish, Watch, Refused
  <2>2. \E living, edge : edge \in Controls /\ Notify(living, edge)
        BY <1>9, <1>10 DEF Offer, Finish, Watch, Refused, Discard
  <2>3. QED BY <1>8, <2>1, <2>2
<1>11. ASSUME NEW m \in Messages, Agree(m) \/ DisconnectedBeforeStart(m)
       PROVE  Leaves(s)'
  <2>1. UNCHANGED <<requests, registered>>
        BY <1>11 DEF Agree, DisconnectedBeforeStart
  <2>2. UNCHANGED control \/ \E living, edge : edge \in Controls /\ Notify(living, edge)
        BY <1>9, <1>11 DEF Agree, DisconnectedBeforeStart, Discard
  <2>3. CASE UNCHANGED control
        BY <1>1, <2>1, <2>3
  <2>4. QED BY <1>8, <2>1, <2>2, <2>3
<1>12. ASSUME NEW m \in Messages,
              \/ Reject(m) \/ IgnoredBeforeStart(m) \/ Move(m) \/ Resign(m)
              \/ Declare(m) \/ KeepAlive(m) \/ Abort(m) \/ Disconnected(m)
              \/ IgnoredInGame(m)
       PROVE  Leaves(s)'
  <2>1. UNCHANGED <<control, requests, registered>>
        BY <1>12 DEF Reject, Refuse, IgnoredBeforeStart, Move, Relayed, NotRelayed,
             Resign, Declare, KeepAlive, Abort, Disconnected, IgnoredInGame, Terminate
  <2>2. QED BY <1>1, <2>1
<1>13. CASE \/ TaskSend \/ AgreementExpires \/ NobodyLeft \/ Deadline \/ File
            \/ TaskPanics \/ AskAbort
  <2>1. UNCHANGED <<control, requests, registered>>
        BY <1>13 DEF TaskSend, AgreementExpires, Refuse, NobodyLeft, Return,
             Deadline, Terminate, File, TaskPanics, AskAbort
  <2>2. QED BY <1>1, <2>1
<1>14. QED BY <1>2, <1>3, <1>4, <1>5, <1>6, <1>7, <1>10, <1>11, <1>12, <1>13
           DEF Next, SessionStep, TaskStep, Receive

-----------------------------------------------------------------------------
(* A session whose client knows of the game is abreast of it *)

\* A step that neither tells the session nor advances it.
LEMMA AbreastFrame ==
    ASSUME TypeOK, TypeOK', [Next]_vars, NEW s \in Side, Abreast(s),
           sess'[s] = sess[s], control'[s] = control[s],
           InOffer' => InOffer, InGame' => InGame, AccountsKept
    PROVE  Abreast(s)'
<1>1. pc'[s] = "loop" => pc[s] = "loop"
      BY LeftForGood
<1>2. Missed(s) => Missed(s)'
  <2>1. Known(s)' <= Known(s) /\ games' = games
        BY DEF AccountsKept, AccountKept
  <2>2. Known(s) \in Nat /\ Known(s)' \in Nat /\ games \in Nat
        BY KnownNumbers
  <2>3. \A a, b, g \in Nat : (a <= b /\ b < g) => a < g
        OBVIOUS
  <2>4. QED BY <2>1, <2>2, <2>3 DEF Missed
<1>3. QED BY <1>1, <1>2 DEF Abreast

\* A session that takes an edge of its game moves along.
LEMMA ControlAbreast ==
    ASSUME TypeOK, TypeOK', [Next]_vars, AllAbreast, AccountsKept,
           NEW t \in Side, TakeControl(t)
    PROVE  AllAbreast'
<1>0. /\ UNCHANGED <<registered, phase, agreed>>
      /\ control \in [Side -> Seq(Controls)] /\ sess \in [Side -> States]
      /\ control[t] # <<>> /\ registered \subseteq Side
      /\ pc \in [Side -> {"loop", "closing", "gone", "closed"}]
      BY DEF TakeControl, TypeOK, ControlOK, SessionsOK, CoordinatorOK
<1>1. InOffer' = InOffer /\ InGame' = InGame
      BY <1>0 DEF InOffer, InGame
<1>2. InGame' => agreed' = Side
      BY <1>0, <1>1 DEF AllAbreast
<1> SUFFICES ASSUME NEW s \in registered PROVE Abreast(s)'
    BY <1>0, <1>2 DEF AllAbreast
<1>3. s \in Side /\ Abreast(s)
      BY <1>0 DEF AllAbreast
<1>4. CASE s # t
  <2>1. sess'[s] = sess[s] /\ control'[s] = control[s]
        BY <1>0, <1>3, <1>4 DEF TakeControl
  <2>2. QED BY <1>1, <1>3, <2>1, AbreastFrame
<1>5. CASE s = t
  <2>1. pc[s] = "loop" /\ control'[s] = Tail(control[s])
        BY <1>0, <1>5 DEF TakeControl, Idle
  <2>2. /\ Head(control[s]) = "Paired" => sess'[s] = Advance(sess[s], "Paired")
        /\ Head(control[s]) = "Started" => sess'[s] = Advance(sess[s], "BothAgreed")
        BY <1>0, <1>5 DEF TakeControl
  <2>3. Missed(s) => Missed(s)'
    <3>1. Known(s)' <= Known(s) /\ games' = games
          BY <1>3 DEF AccountsKept, AccountKept
    <3>2. Known(s) \in Nat /\ Known(s)' \in Nat /\ games \in Nat
          BY <1>3, KnownNumbers
    <3>3. \A a, b, g \in Nat : (a <= b /\ b < g) => a < g
          OBVIOUS
    <3>4. QED BY <3>1, <3>2, <3>3 DEF Missed
  <2>4. InOffer => Offered(sess'[s], control'[s])
    <3>1. SUFFICES ASSUME InOffer PROVE Offered(sess'[s], control'[s])
          OBVIOUS
    <3>2. sess[s] = "Waiting" /\ control[s] = <<"Paired">>
          BY <1>0, <1>3, <1>5, <2>1, <3>1 DEF Abreast, Offered
    <3>3. QED BY <2>1, <2>2, <3>2, CourseArrows DEF Offered
  <2>5. Begun(sess[s], control[s]) => Begun(sess'[s], control'[s])
    <3>1. SUFFICES ASSUME Begun(sess[s], control[s])
                   PROVE  Begun(sess'[s], control'[s])
          OBVIOUS
    <3>2. \/ sess[s] = "Waiting" /\ control[s] = <<"Paired", "Started">>
          \/ sess[s] = "Agreeing" /\ control[s] = <<"Started">>
          BY <1>0, <1>5, <3>1 DEF Begun
    <3>3. CASE sess[s] = "Waiting" /\ control[s] = <<"Paired", "Started">>
          BY <2>1, <2>2, <3>3, CourseArrows DEF Begun
    <3>4. CASE sess[s] = "Agreeing" /\ control[s] = <<"Started">>
          BY <2>1, <2>2, <3>4, CourseArrows DEF Begun
    <3>5. QED BY <3>2, <3>3, <3>4
  <2>6. QED BY <1>1, <1>3, <2>1, <2>3, <2>4, <2>5 DEF Abreast
<1>6. QED BY <1>4, <1>5

\* The steps of clients, writers and sessions that take no edge.
LEMMA SessionAbreast ==
    ASSUME TypeOK, TypeOK', [Next]_vars, AllAbreast, AccountsKept, NEW t \in Side,
           \/ ClientStep(t) \/ ClientRead(t) \/ WriterEnds(t)
           \/ TakeLine(t) \/ SessionSend(t) \/ EndOfStream(t) \/ CloseSocket(t)
           \/ Disconnect(t) \/ SessionPanics(t)
    PROVE  AllAbreast'
<1>0. /\ UNCHANGED <<registered, phase, agreed, sess>>
      /\ control \in [Side -> Seq(Controls)] /\ registered \subseteq Side
      /\ pc \in [Side -> {"loop", "closing", "gone", "closed"}]
      BY DEF ClientStep, ClientSend, ClientClose, ClientRead, WriterEnds, TakeLine,
         SessionSend, EndOfStream, CloseSocket, Disconnect, SessionPanics, TypeOK,
         ControlOK, SessionsOK, CoordinatorOK
<1>1. InOffer' = InOffer /\ InGame' = InGame
      BY <1>0 DEF InOffer, InGame
<1>2. InGame' => agreed' = Side
      BY <1>0, <1>1 DEF AllAbreast
<1> SUFFICES ASSUME NEW s \in registered PROVE Abreast(s)'
    BY <1>0, <1>2 DEF AllAbreast
<1>3. s \in Side /\ Abreast(s)
      BY <1>0 DEF AllAbreast
<1>4. control'[s] = control[s] \/ pc'[s] # "loop"
      BY <1>0, <1>3 DEF ClientStep, ClientSend, ClientClose, ClientRead, WriterEnds,
         TakeLine, SessionSend, EndOfStream, CloseSocket, Disconnect, SessionPanics
<1>5. CASE control'[s] = control[s]
      BY <1>0, <1>1, <1>3, <1>5, AbreastFrame
<1>6. CASE pc'[s] # "loop"
      BY <1>6 DEF Abreast
<1>7. QED BY <1>4, <1>5, <1>6

\* The task starts a game only with both sides' agreement, and tells every
\* session whose client may know of the game.
LEMMA TaskAbreast ==
    ASSUME CourseAssumption, TypeOK, TypeOK', [Next]_vars, AllAccounted, AllAbreast,
           AccountsKept,
           \/ Receive \/ TaskSend \/ AgreementExpires \/ Refused \/ NobodyLeft
           \/ Deadline \/ File \/ Finish \/ TaskPanics \/ Watch
    PROVE  AllAbreast'
<1>0. registered \subseteq Side /\ UNCHANGED <<registered, sess, pc>>
      BY DEF TypeOK, CoordinatorOK, Receive, Agree, Reject, Refuse, DisconnectedBeforeStart,
         IgnoredBeforeStart, Move, Resign, Declare, KeepAlive, Abort, Disconnected,
         IgnoredInGame, TaskSend, AgreementExpires, Refused, NobodyLeft, Deadline, File,
         Finish, TaskPanics, Watch
<1>1. ASSUME UNCHANGED <<control, agreed>>, InOffer' => InOffer, InGame' => InGame
      PROVE  AllAbreast'
  <2> SUFFICES ASSUME NEW s \in registered PROVE Abreast(s)'
      BY <1>0, <1>1 DEF AllAbreast
  <2>1. s \in Side /\ Abreast(s)
        BY <1>0 DEF AllAbreast
  <2>2. QED BY <1>0, <1>1, <2>1, AbreastFrame
<1>2. ASSUME ~InOffer', ~InGame'
      PROVE  AllAbreast'
      BY <1>2 DEF AllAbreast, Abreast
<1>3. ASSUME NEW m \in Messages, Agree(m)
      PROVE  AllAbreast'
  <2>1. /\ phase = "proposing" /\ InOffer /\ ~InGame /\ agreed' = agreed \cup {m.side}
        /\ UNCHANGED alive
        BY <1>3 DEF Agree, Received, Awaits, InOffer, InGame
  <2>2. CASE UNCHANGED <<phase, control>>
    <3>1. InOffer' /\ ~InGame'
          BY <2>1, <2>2 DEF InOffer, InGame
    <3> SUFFICES ASSUME NEW s \in registered PROVE Abreast(s)'
        BY <1>0, <3>1 DEF AllAbreast
    <3>2. s \in Side /\ Abreast(s)
          BY <1>0 DEF AllAbreast
    <3>3. QED BY <1>0, <2>1, <2>2, <3>1, <3>2, AbreastFrame
  <2>3. CASE agreed' = Side /\ phase' = "playing" /\ Notify(alive, "Started")
    <3>1. ~InOffer' /\ InGame'
          BY <2>3 DEF InOffer, InGame
    <3> SUFFICES ASSUME NEW s \in registered, pc[s] = "loop"
                 PROVE  Begun(sess'[s], control'[s]) \/ Missed(s)'
        BY <1>0, <2>3, <3>1 DEF AllAbreast, Abreast
    <3>2. s \in Side /\ Offered(sess[s], control[s])
          BY <1>0, <2>1 DEF AllAbreast, Abreast
    <3>3. CASE alive[s]
      <4>1. control'[s] = Append(control[s], "Started")
            BY <2>3, <3>2, <3>3, CourseGrows, EdgeIsQueued
      <4>2. QED BY <1>0, <3>2, <4>1, CourseGrows
    <3>4. CASE ~alive[s]
      <4>1. Missed(s)
            BY <2>1, <3>2, <3>4 DEF AllAccounted, Accounted
      <4>2. Known(s)' <= Known(s) /\ games' = games
            BY <3>2 DEF AccountsKept, AccountKept
      <4>3. Known(s) \in Nat /\ Known(s)' \in Nat /\ games \in Nat
            BY <3>2, KnownNumbers
      <4>4. \A a, b, g \in Nat : (a <= b /\ b < g) => a < g
            OBVIOUS
      <4>5. QED BY <4>1, <4>2, <4>3, <4>4 DEF Missed
    <3>5. QED BY <3>3, <3>4
  <2>4. QED BY <1>3, <2>2, <2>3 DEF Agree
<1>4. ASSUME NEW m \in Messages, Reject(m) \/ IgnoredBeforeStart(m)
      PROVE  AllAbreast'
  <2>1. UNCHANGED <<control, agreed>> /\ InOffer /\ ~InGame'
        BY <1>4 DEF Reject, Refuse, IgnoredBeforeStart, Received, Awaits, InOffer, InGame
  <2>2. QED BY <1>1, <2>1
<1>5. ASSUME NEW m \in Messages, DisconnectedBeforeStart(m)
      PROVE  AllAbreast'
      BY <1>2, <1>5 DEF DisconnectedBeforeStart, Discard, Return, InOffer, InGame
<1>6. ASSUME NEW m \in Messages,
             \/ Move(m) \/ Resign(m) \/ Declare(m) \/ KeepAlive(m) \/ Abort(m)
             \/ Disconnected(m) \/ IgnoredInGame(m)
      PROVE  AllAbreast'
  <2>1. UNCHANGED <<control, agreed>> /\ InGame /\ InGame'
        BY <1>6 DEF Move, Relayed, NotRelayed, Resign, Declare, KeepAlive, Abort,
           Disconnected, IgnoredInGame, Terminate, Received, Awaits, InGame
  <2>2. ~InOffer'
        BY <2>1 DEF InOffer, InGame
  <2>3. QED BY <1>1, <2>1, <2>2
<1>7. CASE TaskSend
      BY <1>1, <1>7 DEF TaskSend, InOffer, InGame
<1>8. CASE AgreementExpires
  <2>1. UNCHANGED <<control, agreed>> /\ InOffer /\ ~InGame'
        BY <1>8 DEF AgreementExpires, Refuse, Awaits, InOffer, InGame
  <2>2. QED BY <1>1, <2>1
<1>9. CASE Deadline \/ File
  <2>1. UNCHANGED <<control, agreed>> /\ InGame /\ InGame'
        BY <1>9 DEF Deadline, File, Terminate, Awaits, InGame
  <2>2. ~InOffer'
        BY <2>1 DEF InOffer, InGame
  <2>3. QED BY <1>1, <2>1, <2>2
<1>10. CASE Refused \/ NobodyLeft \/ Finish \/ Watch
       BY <1>2, <1>10 DEF Refused, Discard, NobodyLeft, Finish, Watch, Return, InOffer, InGame
<1>11. CASE TaskPanics
       BY <1>11 DEF TaskPanics, CourseAssumption
<1>12. QED BY <1>3, <1>4, <1>5, <1>6, <1>7, <1>8, <1>9, <1>10, <1>11 DEF Receive

\* The coordinator offers a game to two sessions that have nothing queued.
LEMMA CoordinatorAbreast ==
    ASSUME CourseAssumption, TypeOK, TypeOK', [Next]_vars, OneClaim, AllOnCourse, AllAbreast,
           NEW t \in Side,
           \/ AccountsKept /\ (HandleReady(t) \/ HandleGone(t) \/ Replace(t) \/ AskAbort)
           \/ Offer
    PROVE  AllAbreast'
<1>0. registered \subseteq Side /\ control \in [Side -> Seq(Controls)]
      BY DEF TypeOK, CoordinatorOK, ControlOK
<1>1. CASE AccountsKept /\ (HandleReady(t) \/ HandleGone(t) \/ Replace(t) \/ AskAbort)
  <2>1. /\ UNCHANGED <<phase, agreed, sess>>
        /\ registered' \subseteq registered
        /\ \A s \in registered' : control'[s] = control[s]
        BY <1>0, <1>1 DEF HandleReady, HandleGone, Replace, AskAbort
  <2>2. InOffer' = InOffer /\ InGame' = InGame
        BY <2>1 DEF InOffer, InGame
  <2> SUFFICES ASSUME NEW s \in registered' PROVE Abreast(s)'
      BY <2>1, <2>2 DEF AllAbreast
  <2>3. s \in Side /\ Abreast(s)
        BY <1>0, <2>1 DEF AllAbreast
  <2>4. QED BY <1>1, <2>1, <2>2, <2>3, AbreastFrame
<1>2. CASE Offer
  <2>1. /\ pool = Side /\ phase' = "proposing"
        /\ Notify([q \in Side |-> TRUE], "Paired")
        /\ UNCHANGED <<sess, pc, registered>>
        BY <1>2 DEF Offer
  <2>2. InOffer' /\ ~InGame'
        BY <2>1 DEF InOffer, InGame
  <2> SUFFICES ASSUME NEW s \in registered, pc[s] = "loop"
               PROVE  Offered(sess'[s], control'[s])
      BY <2>1, <2>2 DEF AllAbreast, Abreast
  <2>3. s \in Side /\ sess[s] = "Waiting" /\ control[s] = <<>>
        BY <1>0, <2>1 DEF AllOnCourse, OnCourse, OneClaim, Claim
  <2>4. Len(control[s]) \in {0, 1, 2}
        BY <2>3
  <2>5. control'[s] = Append(control[s], "Paired")
    <3>1. [q \in Side |-> TRUE][s]
          BY <2>3
    <3>2. QED BY <2>1, <2>3, <2>4, <3>1, EdgeIsQueued
  <2>6. QED BY <2>1, <2>3, <2>5 DEF Offered
<1>3. QED BY <1>1, <1>2

\* Every step keeps every session abreast.
LEMMA NextAbreast ==
    ASSUME CourseAssumption
    PROVE  /\ TypeOK /\ TypeOK' /\ OneClaim /\ Tales /\ AllOnCourse /\ AllAccounted
           /\ AllAbreast /\ [Next]_vars
           => AllAbreast'
<1> SUFFICES ASSUME TypeOK, TypeOK', OneClaim, Tales, AllOnCourse, AllAccounted,
                    AllAbreast, [Next]_vars
             PROVE  AllAbreast'
    OBVIOUS
<1>1. "black" \in Side
      BY DEF Side
<1>2. CASE Offer
      BY <1>1, <1>2, CoordinatorAbreast
<1>3. CASE ~Offer
  <2>1. AccountsKept
        BY <1>3, NextKept DEF CourseAssumption
  <2>2. CASE UNCHANGED vars
    <3>1. registered \subseteq Side /\ InOffer' = InOffer /\ InGame' = InGame
          BY <2>2 DEF TypeOK, CoordinatorOK, InOffer, InGame
    <3> SUFFICES ASSUME NEW s \in registered PROVE Abreast(s)'
        BY <2>2, <3>1 DEF AllAbreast
    <3>2. s \in Side /\ Abreast(s)
          BY <3>1 DEF AllAbreast
    <3>3. QED BY <2>1, <2>2, <3>1, <3>2, AbreastFrame
  <2>3. ASSUME NEW s \in Side,
               \/ ClientStep(s) \/ ClientRead(s) \/ WriterEnds(s)
               \/ SessionStep(s) \/ SessionPanics(s)
        PROVE  AllAbreast'
        BY <2>1, <2>3, ControlAbreast, SessionAbreast DEF SessionStep
  <2>4. ASSUME NEW s \in Side, HandleReady(s) \/ HandleGone(s) \/ Replace(s)
        PROVE  AllAbreast'
        BY <2>1, <2>4, CoordinatorAbreast
  <2>5. CASE TaskStep \/ AgreementExpires \/ Deadline \/ TaskPanics \/ Watch
        BY <2>1, <2>5, TaskAbreast DEF TaskStep
  <2>6. CASE AskAbort
        BY <1>1, <2>1, <2>6, CoordinatorAbreast
  <2>7. QED BY <1>3, <2>2, <2>3, <2>4, <2>5, <2>6 DEF Next
<1>4. QED BY <1>2, <1>3

\* At the start no client has heard of a game and both sessions are there.
LEMMA InitRouted == Init => AllAccounted /\ LeaversAreTold /\ AllAbreast /\ ChannelsBounded
<1> SUFFICES ASSUME Init
             PROVE  AllAccounted /\ LeaversAreTold /\ AllAbreast /\ ChannelsBounded
    OBVIOUS
<1>1. /\ phase = "idle" /\ registered = Side /\ games = 0
      /\ \A s \in Side : /\ heard[s] = 0 /\ out[s] = <<>> /\ lines[s] = <<>>
                         /\ control[s] = <<>> /\ requests[s] = <<"Ready">>
      BY DEF Init
<1>2. /\ ~InOffer /\ ~InGame
      BY <1>1 DEF InOffer, InGame
<1>3. AllAccounted
  <2> SUFFICES ASSUME NEW s \in Side PROVE Accounted(s)
      BY DEF AllAccounted
  <2>1. out[s] \in Seq(OutLines)
        BY <1>1, EmptySeq
  <2>2. Summaries(out[s]) = 0
        BY <1>1, <2>1, SummariesCounted
  <2>3. ToCome(phase, todo, s) = 0
        BY <1>1 DEF ToCome
  <2>4. Known(s) = 0
        BY <1>1, <2>2, <2>3 DEF Known
  <2>5. \A i \in 1..Len(lines[s]) : FALSE
        BY <1>1, EmptySeq
  <2>6. QED BY <1>1, <2>4, <2>5 DEF Accounted
<1>4. LeaversAreTold
  <2> SUFFICES ASSUME NEW s \in Side PROVE Leaves(s)
      BY DEF LeaversAreTold
  <2>1. ~Has(requests[s], {"Gone"})
        BY <1>1 DEF Has
  <2>2. QED BY <1>1, <2>1 DEF Leaves
<1>5. AllAbreast
      BY <1>2 DEF AllAbreast, Abreast
<1>6. ChannelsBounded
  <2> SUFFICES ASSUME NEW s \in Side PROVE Len(control[s]) <= Sent + Closes(s)
      BY DEF ChannelsBounded
  <2>1. Len(control[s]) = 0
        BY <1>1, EmptySeq
  <2>2. QED BY <2>1 DEF Sent, Closes
<1>7. QED BY <1>3, <1>4, <1>5, <1>6

\* What the two routing theorems rest on.
Routed ==
    /\ TypeOK /\ OneClaim /\ Tales /\ AllOnCourse /\ ChannelsBounded
    /\ LeaversAreTold /\ AllAccounted /\ AllAbreast

\* A session with nothing on its way to it is registered, and abreast.
LEMMA NothingOnItsWay ==
    ASSUME LeaversAreTold, AllAbreast, NEW s \in Side, pc[s] = "loop", control[s] = <<>>
    PROVE  /\ InOffer => sess[s] = "Agreeing"
           /\ InGame => sess[s] = "Playing" \/ Missed(s)
<1>1. s \in registered
      BY EmptyQueue DEF LeaversAreTold, Leaves
<1>2. Abreast(s)
      BY <1>1 DEF AllAbreast
<1>3. <<>> # <<"Paired">> /\ <<>> # <<"Started">> /\ <<>> # <<"Paired", "Started">>
      OBVIOUS
<1>4. QED BY <1>2, <1>3 DEF Abreast, Offered, Begun

\* A step by which a session in its loop takes a line finds no edge waiting.
LEMMA LineIsTakenIdle ==
    ASSUME TypeOK, [Next]_vars, NEW s \in Side,
           lines[s] # <<>>, lines'[s] = Tail(lines[s]), pc[s] = "loop"
    PROVE  control[s] = <<>>
<1>1. lines[s] \in Seq(ClientLines) /\ DOMAIN lines = Side
      BY DEF TypeOK, ClientsOK
<1>2. Len(Tail(lines[s])) = Len(lines[s]) - 1 /\ Len(lines[s]) \in Nat
      BY <1>1, HeadTailProperties
<1>3. lines'[s] # lines[s]
  <2>1. Len(lines'[s]) = Len(lines[s]) - 1
        BY <1>2
  <2>2. \A n \in Nat : n - 1 # n
        OBVIOUS
  <2>3. QED BY <1>2, <2>1, <2>2
<1>4. \A e : lines'[s] # Append(lines[s], e)
  <2> SUFFICES ASSUME NEW e, Tail(lines[s]) = Append(lines[s], e) PROVE FALSE
      OBVIOUS
  <2>1. Len(Append(lines[s], e)) = Len(lines[s]) + 1
        BY <1>1, AppendProperties
  <2>2. QED BY <1>2, <2>1
<1>5. CASE UNCHANGED lines
      BY <1>3, <1>5
<1>6. ASSUME NEW t \in Side, ClientSend(t)
      PROVE  FALSE
      BY <1>1, <1>3, <1>4, <1>6 DEF ClientSend
<1>7. ASSUME NEW t \in Side, Disconnect(t)
      PROVE  FALSE
      BY <1>1, <1>3, <1>7 DEF Disconnect
<1>8. ASSUME NEW t \in Side, TakeLine(t) \/ SessionPanics(t)
      PROVE  control[s] = <<>>
      BY <1>1, <1>3, <1>8 DEF TakeLine, SessionPanics
<1>9. ASSUME NEW t \in Side,
             \/ ClientClose(t) \/ ClientRead(t) \/ WriterEnds(t)
             \/ TakeControl(t) \/ SessionSend(t) \/ EndOfStream(t) \/ CloseSocket(t)
             \/ HandleReady(t) \/ HandleGone(t) \/ Replace(t)
      PROVE  UNCHANGED lines
      BY <1>9 DEF ClientClose, ClientRead, WriterEnds, TakeControl, SessionSend,
         EndOfStream, CloseSocket, HandleReady, HandleGone, Replace
<1>10. CASE TaskStep \/ AgreementExpires \/ Deadline \/ TaskPanics \/ Watch \/ Offer \/ AskAbort
       BY <1>5, <1>10 DEF TaskStep, TaskSend, Receive, Agree, Reject, Refuse,
          DisconnectedBeforeStart, IgnoredBeforeStart, Move, Resign, Declare, KeepAlive,
          Abort, Disconnected, IgnoredInGame, Refused, NobodyLeft, File, Finish,
          AgreementExpires, Deadline, TaskPanics, Watch, Offer, AskAbort
<1>11. QED BY <1>5, <1>6, <1>7, <1>8, <1>9, <1>10 DEF Next, ClientStep, SessionStep

\* Every step keeps what the routing theorems rest on.
LEMMA NextRouted ==
    ASSUME RoomToClose
    PROVE  Routed /\ TypeOK' /\ [Next]_vars => Routed'
<1>1. CourseAssumption /\ "game" \notin Faults
      BY DEF RoomToClose, CourseAssumption
<1> SUFFICES ASSUME Routed, TypeOK', [Next]_vars PROVE Routed'
    OBVIOUS
<1> USE DEF Routed
<1>2. OneClaim'
      BY NextClaim
<1>3. Tales'
      BY <1>1, NextTale
<1>4. AllOnCourse'
      BY <1>1, NextCourse
<1>5. ChannelsBounded'
      BY NextBound
<1>6. LeaversAreTold'
      BY NextLeaves
<1>7. AllAccounted'
      BY <1>1, NextAccount
<1>8. AllAbreast'
      BY <1>1, NextAbreast
<1>9. QED BY <1>2, <1>3, <1>4, <1>5, <1>6, <1>7, <1>8

LEMMA RoutedHolds ==
    ASSUME RoomToClose
    PROVE  Spec => []Routed
<1>1. Init => Routed
      BY InitType, InitClaim, InitTale, InitCourse, InitRouted DEF Routed
<1>2. QED BY <1>1, NextRouted, TypeCorrect, PTL DEF Spec

\* A session takes a move, a resignation or a declaration only to a game both
\* sides agreed to, as long as no game task panics and a control channel holds
\* a game's edges and a Close (PlaysWhatBothAgreedTo: connection.rs route_game
\* and leave_game, pairing.rs Agreement).
THEOREM NobodyPlaysAlone ==
    ASSUME RoomToClose
    PROVE  Spec => []PlaysWhatBothAgreedTo
<1>1. Routed => PlaysWhatBothAgreedTo
  <2> SUFFICES ASSUME Routed, NEW s \in Side,
                      Idle(s), control[s] = <<>>, sess[s] = "Playing", GameOpen
               PROVE  agreed = Side
      BY DEF PlaysWhatBothAgreedTo
  <2>1. InOffer => sess[s] = "Agreeing"
        BY NothingOnItsWay DEF Routed, Idle
  <2>2. InOffer \/ InGame
        BY DEF GameOpen, InOffer, InGame, Routed, TypeOK, TaskOK, Phases
  <2>3. QED BY <2>1, <2>2 DEF Routed, AllAbreast
<1>2. QED BY <1>1, RoutedHolds, PTL

\* Under the same assumption, what a client writes to the game whose summary it
\* has read finds its session where that game is (PromptedLineIsRouted: server.rs
\* offer, pairing.rs run, connection.rs run).
THEOREM PromptedLinesAreRouted ==
    ASSUME RoomToClose
    PROVE  Spec => PromptedLineIsRouted
<1>1. Routed /\ TypeOK' /\ [Next]_vars => RoutesWhatWasPrompted
  <2> SUFFICES ASSUME Routed, [Next]_vars, NEW s \in Side,
                      lines[s] # <<>>, lines'[s] = Tail(lines[s]), pc[s] = "loop",
                      Head(lines[s]).game = games
               PROVE  /\ phase = "proposing" => sess[s] = "Agreeing"
                      /\ phase = "playing" => sess[s] = "Playing"
      BY DEF RoutesWhatWasPrompted
  <2>1. control[s] = <<>>
        BY LineIsTakenIdle DEF Routed
  <2>2. /\ InOffer => sess[s] = "Agreeing"
        /\ InGame => sess[s] = "Playing" \/ Missed(s)
        BY <2>1, NothingOnItsWay DEF Routed
  <2>3. ~Missed(s)
    <3>1. lines[s] \in Seq(ClientLines)
          BY DEF Routed, TypeOK, ClientsOK
    <3>2. 1 \in 1..Len(lines[s]) /\ Head(lines[s]) = lines[s][1]
          BY <3>1, HeadTailProperties
    <3>3. games <= heard[s]
          BY <3>2 DEF Routed, AllAccounted, Accounted
    <3>4. /\ heard[s] \in Nat /\ Summaries(out[s]) \in Nat /\ games \in Nat
          /\ ToCome(phase, todo, s) \in {0, 1}
      <4>1. heard[s] \in Nat /\ out[s] \in Seq(OutLines) /\ games \in Nat
            BY DEF Routed, TypeOK, ClientsOK, WritersOK, CoordinatorOK
      <4>2. QED BY <4>1, SummariesCounted DEF ToCome
    <3>5. \A a, b, g \in Nat, c \in {0, 1} : g <= a => ~(a + b + c < g)
          OBVIOUS
    <3>6. QED BY <3>3, <3>4, <3>5 DEF Missed, Known
  <2>4. QED BY <2>2, <2>3 DEF InOffer, InGame
<1>2. QED BY <1>1, RoutedHolds, TypeCorrect, PTL DEF Spec, PromptedLineIsRouted
=============================================================================
