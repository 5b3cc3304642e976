---------------------------- MODULE LobbyProofs ----------------------------
(***************************************************************************)
(* Proofs about Lobby, for any tokens, presets, intervals and capacities:  *)
(* the two tables of the registry agree in every state, no step takes a    *)
(* session out of it but its own Gone or an accepted login of its token,   *)
(* who waits in the pool is logged in and in no game, nobody in a game is  *)
(* asked to stop, no more presets play than there are slots, and an        *)
(* on-demand preset is one process.  What a round decides plays no part in *)
(* the first three; in the fourth, that it stops nothing it has just       *)
(* paired; in the last two, what it pairs and what it starts.              *)
(***************************************************************************)
EXTENDS LobbyProperties, SequenceTheorems, FiniteSetTheorems, WellFoundedInduction, TLAPS

\* A session's entry is a record of its three fields.
Entry(identity, playing, idle) == [identity |-> identity, playing |-> playing, idle |-> idle]

Entries ==
    \A s \in DOMAIN sessions : \E identity, playing, idle :
        sessions[s] = Entry(identity, playing, idle)

\* What is not a login comes from a session, and says nothing else.
FromSessions ==
    /\ \E T : requests \in Seq(T)
    /\ \A k \in DOMAIN requests :
         requests[k].ask # "Login" => requests[k] = From(requests[k].ask, requests[k].session)

Registry == Entries /\ FromSessions /\ RegistryAgrees

LEMMA EntryFields ==
    ASSUME NEW identity, NEW playing, NEW idle, NEW other
    PROVE  LET entry == Entry(identity, playing, idle) IN
           /\ entry.identity = identity /\ entry.playing = playing /\ entry.idle = idle
           /\ [entry EXCEPT !.playing = other] = Entry(identity, other, idle)
           /\ [entry EXCEPT !.idle = other] = Entry(identity, playing, other)
BY DEF Entry

-----------------------------------------------------------------------------
(* The request channel. *)

LEMMA RequestFields ==
    ASSUME NEW ask, NEW session, NEW identity, NEW bridge
    PROVE  /\ From(ask, session).ask = ask /\ From(ask, session).session = session
           /\ Login(identity, bridge).ask = "Login"
           /\ Login(identity, bridge).identity = identity
BY DEF From, Login, Request

LEMMA SentFromSessions ==
    ASSUME FromSessions, NEW r, requests' = Append(requests, r),
           r.ask # "Login" => r = From(r.ask, r.session)
    PROVE  FromSessions'
<1>1. PICK T : requests \in Seq(T)
  BY DEF FromSessions
<1>2. requests \in Seq(T \cup {r})
  BY <1>1
<1>3. /\ requests' \in Seq(T \cup {r}) /\ Len(requests') = Len(requests) + 1
      /\ \A k \in 1..Len(requests) : requests'[k] = requests[k]
      /\ requests'[Len(requests) + 1] = r
  BY <1>2, AppendProperties
<1>4. DOMAIN requests = 1..Len(requests) /\ DOMAIN requests' = 1..Len(requests')
      /\ Len(requests) \in Nat
  BY <1>2, <1>3, LenProperties
<1>5. ASSUME NEW k \in DOMAIN requests', requests'[k].ask # "Login"
      PROVE  requests'[k] = From(requests'[k].ask, requests'[k].session)
  <2>1. CASE k \in DOMAIN requests
    <3>1. requests'[k] = requests[k]
      BY <1>3, <1>4, <2>1
    <3> QED BY <1>5, <2>1, <3>1 DEF FromSessions
  <2>2. CASE k \notin DOMAIN requests
    <3>1. k = Len(requests) + 1
      BY <1>3, <1>4, <2>2
    <3>2. requests'[k] = r
      BY <1>3, <3>1
    <3> QED BY <1>5, <3>2
  <2> QED BY <2>1, <2>2
<1> QED BY <1>3, <1>5 DEF FromSessions

LEMMA TakenFromSessions ==
    ASSUME FromSessions, requests # <<>>, requests' = Tail(requests)
    PROVE  /\ FromSessions'
           /\ Head(requests).ask # "Login" =>
                Head(requests) = From(Head(requests).ask, Head(requests).session)
<1>1. PICK T : requests \in Seq(T)
  BY DEF FromSessions
<1>2. DOMAIN requests = 1..Len(requests) /\ Len(requests) \in Nat /\ Len(requests) > 0
  BY <1>1, LenProperties, EmptySeq
<1>3. /\ Head(requests) = requests[1] /\ 1 \in DOMAIN requests
  BY <1>1, <1>2, HeadTailProperties
<1>4. /\ requests' \in Seq(T) /\ Len(requests') = Len(requests) - 1
      /\ \A k \in 1..Len(requests') : requests'[k] = requests[k + 1]
  BY <1>1, <1>2, HeadTailProperties
<1>5. DOMAIN requests' = 1..Len(requests')
  BY <1>4, LenProperties
<1>6. ASSUME NEW k \in DOMAIN requests', requests'[k].ask # "Login"
      PROVE  requests'[k] = From(requests'[k].ask, requests'[k].session)
  <2>1. requests'[k] = requests[k + 1] /\ k + 1 \in DOMAIN requests
    BY <1>2, <1>4, <1>5
  <2> QED BY <1>6, <2>1 DEF FromSessions
<1>7. Head(requests).ask # "Login" =>
        Head(requests) = From(Head(requests).ask, Head(requests).session)
  BY <1>3 DEF FromSessions
<1> QED BY <1>4, <1>6, <1>7 DEF FromSessions

-----------------------------------------------------------------------------
(* The tables. *)

\* A step that sets fields of entries other than the token.
SameHolders ==
    /\ DOMAIN sessions' = DOMAIN sessions
    /\ \A s \in DOMAIN sessions : sessions'[s].identity = sessions[s].identity
    /\ byIdentity' = byIdentity

LEMMA SameHoldersAgree == RegistryAgrees /\ SameHolders => RegistryAgrees'
BY DEF RegistryAgrees, SameHolders

LEMMA FreshIsNew ==
    ASSUME NEW token, NEW id \in FreshSession(token)
    PROVE  id \notin DOMAIN sessions
BY DEF FreshSession, Fresh

\* The session in byIdentity under the token, if there is one.
Holder(token) == {byIdentity[i] : i \in DOMAIN byIdentity \cap {token}}

\* An accepted login: the holder goes, and the new session is the token's.
LEMMA AcceptedAgrees ==
    ASSUME Entries, RegistryAgrees, NEW token, NEW bridge,
           Accept(token, bridge, Holder(token))
    PROVE  /\ Entries' /\ RegistryAgrees'
           /\ \A s \in DOMAIN sessions \ DOMAIN sessions' :
                /\ s \in Holder(token) /\ sessions[s].identity = token
                /\ \E t \in DOMAIN sessions' \ DOMAIN sessions : sessions'[t].identity = token
<1> DEFINE killed == Holder(token)
           new == [identity |-> token, playing |-> NoGame, idle |-> FALSE]
<1>1. PICK id \in FreshSession(token) :
        /\ sessions' = Also(Without(sessions, killed), id, new)
        /\ byIdentity' = Also(byIdentity, token, id)
  BY DEF Accept
<1>2. id \notin DOMAIN sessions
  BY FreshIsNew
<1>3. new.identity = token /\ new = Entry(token, NoGame, FALSE)
  BY DEF Entry
<1>4. \A s \in DOMAIN sessions : s \in killed <=> sessions[s].identity = token
  BY DEF RegistryAgrees, Holder
<1>5. \A i \in DOMAIN byIdentity : i # token => byIdentity[i] \notin killed \cup {id}
  BY <1>2, <1>4 DEF RegistryAgrees
<1> HIDE DEF killed, new
<1>6. /\ DOMAIN sessions' = (DOMAIN sessions \ killed) \cup {id}
      /\ sessions'[id] = new
      /\ \A s \in DOMAIN sessions \ killed : sessions'[s] = sessions[s]
  BY <1>1, <1>2 DEF Also, Without
<1>7. /\ DOMAIN byIdentity' = DOMAIN byIdentity \cup {token}
      /\ byIdentity'[token] = id
      /\ \A i \in DOMAIN byIdentity \ {token} : byIdentity'[i] = byIdentity[i]
  BY <1>1 DEF Also
<1>8. Entries'
  <2>1. \E identity, playing, idle : sessions'[id] = Entry(identity, playing, idle)
    BY <1>3, <1>6
  <2>2. \A s \in DOMAIN sessions' \ {id} : s \in DOMAIN sessions /\ sessions'[s] = sessions[s]
    BY <1>6
  <2> QED BY <2>1, <2>2 DEF Entries
<1>9. ASSUME NEW s \in DOMAIN sessions'
      PROVE  /\ sessions'[s].identity \in DOMAIN byIdentity'
             /\ byIdentity'[sessions'[s].identity] = s
  <2>1. CASE s = id
    BY <1>3, <1>6, <1>7, <2>1
  <2>2. CASE s # id
    <3>1. s \in DOMAIN sessions \ killed /\ sessions'[s] = sessions[s]
      BY <1>6, <2>2
    <3>2. sessions[s].identity # token
      BY <1>4, <3>1
    <3> QED BY <1>7, <3>1, <3>2 DEF RegistryAgrees
  <2> QED BY <2>1, <2>2
<1>10. ASSUME NEW i \in DOMAIN byIdentity'
       PROVE  byIdentity'[i] \in DOMAIN sessions' /\ sessions'[byIdentity'[i]].identity = i
  <2>1. CASE i = token
    BY <1>3, <1>6, <1>7, <2>1
  <2>2. CASE i # token
    <3>1. i \in DOMAIN byIdentity /\ byIdentity'[i] = byIdentity[i]
      BY <1>7, <2>2
    <3>2. byIdentity[i] \in DOMAIN sessions \ killed
      BY <1>5, <2>2, <3>1 DEF RegistryAgrees
    <3> QED BY <1>6, <3>1, <3>2 DEF RegistryAgrees
  <2> QED BY <2>1, <2>2
<1>11. ASSUME NEW s \in DOMAIN sessions \ DOMAIN sessions'
       PROVE  /\ s \in killed /\ sessions[s].identity = token
              /\ \E t \in DOMAIN sessions' \ DOMAIN sessions : sessions'[t].identity = token
  BY <1>2, <1>3, <1>4, <1>6
<1> QED BY <1>8, <1>9, <1>10, <1>11 DEF RegistryAgrees, killed

\* A Gone takes the session it names, and the token only from that session.
LEMMA GoneAgrees ==
    ASSUME Entries, RegistryAgrees, NEW id, Gone(id)
    PROVE  /\ Entries' /\ RegistryAgrees'
           /\ \A s \in DOMAIN sessions \ DOMAIN sessions' : s = id
<1>1. /\ DOMAIN sessions' = DOMAIN sessions \ {id}
      /\ \A s \in DOMAIN sessions \ {id} : sessions'[s] = sessions[s]
  BY DEF Gone, Without
<1>2. CASE id \notin DOMAIN sessions
  <2>1. byIdentity' = Without(byIdentity, {})
    BY <1>2 DEF Gone
  <2>2. /\ DOMAIN byIdentity' = DOMAIN byIdentity
        /\ \A i \in DOMAIN byIdentity : byIdentity'[i] = byIdentity[i]
    BY <2>1 DEF Without
  <2> QED BY <1>1, <1>2, <2>2 DEF Entries, RegistryAgrees
<1>3. CASE id \in DOMAIN sessions
  <2>1. \A i \in DOMAIN byIdentity :
          i = sessions[id].identity /\ byIdentity[i] = id <=> i = sessions[id].identity
    BY <1>3 DEF RegistryAgrees
  <2>2. /\ DOMAIN byIdentity' = DOMAIN byIdentity \ {sessions[id].identity}
        /\ \A i \in DOMAIN byIdentity' : byIdentity'[i] = byIdentity[i]
    BY <1>3, <2>1 DEF Gone, Without
  <2> QED BY <1>1, <1>3, <2>2 DEF Entries, RegistryAgrees
<1> QED BY <1>2, <1>3

\* What keeps the holders keeps the registry: a day that passes, a command that ends
\* a silence, a player back in the pool, and whatever games a round makes.
LEMMA FieldsAgree ==
    ASSUME Entries, RegistryAgrees, byIdentity' = byIdentity,
           DOMAIN sessions' = DOMAIN sessions,
           \A s \in DOMAIN sessions : \E other :
              sessions'[s] \in {sessions[s], [sessions[s] EXCEPT !.playing = other],
                                [sessions[s] EXCEPT !.idle = other]}
    PROVE  Entries' /\ RegistryAgrees'
<1>1. ASSUME NEW s \in DOMAIN sessions
      PROVE  /\ sessions'[s].identity = sessions[s].identity
             /\ \E identity, playing, idle : sessions'[s] = Entry(identity, playing, idle)
  <2>1. PICK identity, playing, idle : sessions[s] = Entry(identity, playing, idle)
    BY DEF Entries
  <2>2. PICK other : sessions'[s] \in {sessions[s], [sessions[s] EXCEPT !.playing = other],
                                       [sessions[s] EXCEPT !.idle = other]}
    OBVIOUS
  <2>3. sessions'[s] \in {Entry(identity, playing, idle), Entry(identity, other, idle),
                          Entry(identity, playing, other)}
    BY <2>1, <2>2, EntryFields
  <2>4. sessions[s].identity = identity /\ sessions'[s].identity = identity
    BY <2>1, <2>3, EntryFields
  <2> QED BY <2>3, <2>4
<1>2. SameHolders
  BY <1>1 DEF SameHolders
<1>3. Entries'
  BY <1>1 DEF Entries
<1> QED BY <1>2, <1>3, SameHoldersAgree

LEMMA RoundAgrees ==
    ASSUME Entries, RegistryAgrees, RoundDue
    PROVE  Entries' /\ RegistryAgrees' /\ DOMAIN sessions' = DOMAIN sessions
<1>1. PICK pairings, abort : Offer(pairings, abort)
  BY DEF RoundDue
<1> DEFINE started == {{pool[i] : i \in pairing} : pairing \in pairings}
           joined(s) == {game \in started : s \in game}
<1>2. sessions' = [s \in DOMAIN sessions |->
                     IF joined(s) = {} THEN sessions[s]
                     ELSE [sessions[s] EXCEPT !.playing = Some(joined(s))]]
  BY <1>1 DEF Offer
<1> HIDE DEF joined
<1>3. \A s \in DOMAIN sessions : \E other :
         sessions'[s] \in {sessions[s], [sessions[s] EXCEPT !.playing = other],
                           [sessions[s] EXCEPT !.idle = other]}
  BY <1>2
<1>4. DOMAIN sessions' = DOMAIN sessions /\ byIdentity' = byIdentity
  BY <1>2 DEF RoundDue
<1> QED BY <1>3, <1>4, FieldsAgree
-----------------------------------------------------------------------------
(* The coordinator's steps. *)

\* A login turned down changes neither table; an accepted one replaces the holder,
\* who plays no game or has been silent for a day.
LEMMA LogInAgrees ==
    ASSUME Entries, RegistryAgrees, NEW r, NEW known, LogIn(r, known)
    PROVE  /\ Entries' /\ RegistryAgrees'
           /\ \A s \in DOMAIN sessions \ DOMAIN sessions' :
                /\ \E t \in DOMAIN sessions' \ DOMAIN sessions :
                     sessions'[t].identity = sessions[s].identity
                /\ InGame(s) => sessions[s].idle
<1>1. \/ /\ Accept(r.identity, r.bridge, Holder(r.identity))
         /\ \A s \in Holder(r.identity) : MayTakeOver(s)
      \/ Reject(r.bridge)
  BY DEF LogIn, Holder
<1>2. CASE Reject(r.bridge)
  <2>1. sessions' = sessions /\ byIdentity' = byIdentity
    BY <1>2 DEF Reject, registryVars
  <2> QED BY <2>1 DEF Entries, RegistryAgrees
<1>3. CASE /\ Accept(r.identity, r.bridge, Holder(r.identity))
           /\ \A s \in Holder(r.identity) : MayTakeOver(s)
  <2>1. /\ Entries' /\ RegistryAgrees'
        /\ \A s \in DOMAIN sessions \ DOMAIN sessions' :
             /\ s \in Holder(r.identity) /\ sessions[s].identity = r.identity
             /\ \E t \in DOMAIN sessions' \ DOMAIN sessions :
                  sessions'[t].identity = r.identity
    BY <1>3, AcceptedAgrees
  <2>2. \A s \in Holder(r.identity) : InGame(s) => sessions[s].idle
    BY <1>3 DEF MayTakeOver
  <2> QED BY <2>1, <2>2
<1> QED BY <1>1, <1>2, <1>3

LEMMA HandleAgrees ==
    ASSUME Registry, Handle
    PROVE  /\ Registry'
           /\ \A s \in DOMAIN sessions \ DOMAIN sessions' : Excused(s)
<1> DEFINE r == Head(requests)
<1>0. requests # <<>> /\ requests' = Tail(requests)
  BY DEF Handle
<1>1. FromSessions' /\ (r.ask # "Login" => r = From(r.ask, r.session))
  BY <1>0, TakenFromSessions DEF Registry
<1>2. Entries /\ RegistryAgrees
  BY DEF Registry
<1>3. \/ \E known : LogIn(r, known)
      \/ Touch(r.session) \/ Ready(r.session)
      \/ r.ask = "Gone" /\ Gone(r.session)
  BY DEF Handle
<1>4. CASE \E known : LogIn(r, known)
  <2>1. PICK known : LogIn(r, known)
    BY <1>4
  <2> HIDE DEF r
  <2>2. /\ Entries' /\ RegistryAgrees'
        /\ \A s \in DOMAIN sessions \ DOMAIN sessions' :
             /\ \E t \in DOMAIN sessions' \ DOMAIN sessions :
                  sessions'[t].identity = sessions[s].identity
             /\ InGame(s) => sessions[s].idle
    BY <1>2, <2>1, LogInAgrees
  <2> QED BY <1>1, <2>2 DEF Registry, Excused
<1>5. CASE Touch(r.session)
  <2> HIDE DEF r
  <2>1. /\ DOMAIN sessions' = DOMAIN sessions /\ byIdentity' = byIdentity
        /\ \A s \in DOMAIN sessions :
             sessions'[s] \in {sessions[s], [sessions[s] EXCEPT !.idle = FALSE]}
    BY <1>5 DEF Touch
  <2>2. Entries' /\ RegistryAgrees'
    BY <1>2, <2>1, FieldsAgree
  <2> QED BY <1>1, <2>1, <2>2 DEF Registry
<1>6. CASE Ready(r.session)
  <2> HIDE DEF r
  <2>1. CASE r.session \notin DOMAIN sessions
    <3>1. sessions' = sessions /\ byIdentity' = byIdentity
      BY <1>6, <2>1 DEF Ready, registryVars
    <3>2. Entries' /\ RegistryAgrees'
      BY <1>2, <3>1 DEF Entries, RegistryAgrees
    <3> QED BY <1>1, <3>1, <3>2 DEF Registry
  <2>2. CASE r.session \in DOMAIN sessions
    <3>1. /\ sessions' = [sessions EXCEPT ![r.session] = [sessions[r.session] EXCEPT !.playing = NoGame]]
          /\ byIdentity' = byIdentity
      BY <1>6, <2>2 DEF Ready
    <3>2. /\ DOMAIN sessions' = DOMAIN sessions
          /\ \A s \in DOMAIN sessions :
               sessions'[s] \in {sessions[s], [sessions[s] EXCEPT !.playing = NoGame]}
      BY <3>1
    <3>3. Entries' /\ RegistryAgrees'
      BY <1>2, <3>1, <3>2, FieldsAgree
    <3> QED BY <1>1, <3>2, <3>3 DEF Registry
  <2> QED BY <2>1, <2>2
<1>7. CASE r.ask = "Gone" /\ Gone(r.session)
  <2>1. r = From("Gone", r.session)
    BY <1>1, <1>7
  <2>2. /\ Entries' /\ RegistryAgrees'
        /\ \A s \in DOMAIN sessions \ DOMAIN sessions' : s = r.session
    BY <1>2, <1>7, GoneAgrees
  <2>3. \A s \in DOMAIN sessions \ DOMAIN sessions' : Head(requests) = From("Gone", s)
    BY <2>1, <2>2
  <2> QED BY <1>0, <1>1, <2>2, <2>3 DEF Registry, Excused
<1> QED BY <1>3, <1>4, <1>5, <1>6, <1>7

\* Everybody else's steps take nobody out of the registry.
LEMMA OthersAgree ==
    ASSUME Registry, [Next]_vars, ~Handle
    PROVE  Registry' /\ DOMAIN sessions' = DOMAIN sessions
<1>a. Entries /\ RegistryAgrees /\ FromSessions
  BY DEF Registry
<1>b. ASSUME UNCHANGED <<sessions, byIdentity, requests>>
      PROVE  Registry' /\ DOMAIN sessions' = DOMAIN sessions
  BY <1>a, <1>b DEF Registry, Entries, RegistryAgrees, FromSessions
<1>c. ASSUME UNCHANGED <<sessions, byIdentity>>, NEW r, Send(r),
             r.ask # "Login" => r = From(r.ask, r.session)
      PROVE  Registry' /\ DOMAIN sessions' = DOMAIN sessions
  <2>1. FromSessions'
    BY <1>a, <1>c, SentFromSessions DEF Send
  <2>2. Entries' /\ RegistryAgrees'
    BY <1>a, <1>c DEF Entries, RegistryAgrees
  <2> QED BY <1>c, <2>1, <2>2 DEF Registry
<1>1. ASSUME RoundDue PROVE Registry' /\ DOMAIN sessions' = DOMAIN sessions
  <2>1. requests' = requests
    BY <1>1 DEF RoundDue
  <2>2. FromSessions'
    BY <1>a, <2>1 DEF FromSessions
  <2> QED BY <1>a, <1>1, <2>2, RoundAgrees DEF Registry
<1>2. ASSUME Tick PROVE Registry' /\ DOMAIN sessions' = DOMAIN sessions
  BY <1>2, <1>b DEF Tick, registryVars
<1>3. ASSUME NEW token, Dial(token) PROVE Registry' /\ DOMAIN sessions' = DOMAIN sessions
  BY <1>3, <1>c, RequestFields DEF Dial, coordinatorVars, registryVars
<1>4. ASSUME NEW c, ConnNext(c) PROVE Registry' /\ DOMAIN sessions' = DOMAIN sessions
  <2>1. CASE SayReady(c)
    BY <2>1, <1>c, RequestFields DEF SayReady, coordinatorVars, registryVars
  <2>2. CASE Speak(c)
    BY <2>2, <1>c, RequestFields DEF Speak, coordinatorVars, registryVars
  <2>3. CASE CloseSocket(c)
    BY <2>3, <1>b DEF CloseSocket, coordinatorVars, registryVars
  <2>4. CASE Leave(c)
    BY <2>4, <1>c, RequestFields DEF Leave, coordinatorVars, registryVars
  <2>5. CASE DayPasses(c)
    <3>1. /\ sessions' = [sessions EXCEPT ![c] = [sessions[c] EXCEPT !.idle = TRUE]]
          /\ byIdentity' = byIdentity /\ requests' = requests
      BY <2>5 DEF DayPasses
    <3>2. /\ DOMAIN sessions' = DOMAIN sessions
          /\ \A s \in DOMAIN sessions :
               sessions'[s] \in {sessions[s], [sessions[s] EXCEPT !.idle = TRUE]}
      BY <3>1
    <3>3. Entries' /\ RegistryAgrees'
      BY <1>a, <3>1, <3>2, FieldsAgree
    <3>4. FromSessions'
      BY <1>a, <3>1 DEF FromSessions
    <3> QED BY <3>2, <3>3, <3>4 DEF Registry
  <2> QED BY <1>4, <2>1, <2>2, <2>3, <2>4, <2>5 DEF ConnNext
<1>5. ASSUME NEW g, GameOver(g) PROVE Registry' /\ DOMAIN sessions' = DOMAIN sessions
  BY <1>5, <1>b DEF GameOver, coordinatorVars, registryVars
<1>6. ASSUME NEW b, BridgeNext(b) PROVE Registry' /\ DOMAIN sessions' = DOMAIN sessions
  <2>1. CASE BridgeLogsIn(b)
    BY <2>1, <1>c, RequestFields DEF BridgeLogsIn, coordinatorVars, registryVars
  <2>2. CASE BridgeEnds(b)
    BY <2>2, <1>b DEF BridgeEnds, coordinatorVars, registryVars
  <2> QED BY <1>6, <2>1, <2>2 DEF BridgeNext, BridgeStops, BridgeLosesConnection, BridgeDies
<1>7. ASSUME NEW p, BackoffOver(p) PROVE Registry' /\ DOMAIN sessions' = DOMAIN sessions
  BY <1>7, <1>b DEF BackoffOver, registryVars
<1>8. ASSUME UNCHANGED vars PROVE Registry' /\ DOMAIN sessions' = DOMAIN sessions
  BY <1>8, <1>b DEF vars, registryVars
<1> QED BY <1>1, <1>2, <1>3, <1>4, <1>5, <1>6, <1>7, <1>8 DEF Next

LEMMA RegistryInit == Init => Registry
<1> SUFFICES ASSUME Init PROVE Registry OBVIOUS
<1>1. DOMAIN sessions = {} /\ DOMAIN byIdentity = {}
  BY DEF Init, Empty
<1>2. requests \in Seq({}) /\ DOMAIN requests = {}
  BY DEF Init
<1> QED BY <1>1, <1>2 DEF Registry, Entries, FromSessions, RegistryAgrees

LEMMA RegistryNext == Registry /\ [Next]_vars => Registry'
BY HandleAgrees, OthersAgree

\* The registry's two tables agree whatever logins, replacements and departures come
\* in whatever order: a token is the session that holds it, and a session replaced
\* takes nothing with it when its Gone arrives.
THEOREM RegistryAlwaysAgrees == Spec => []RegistryAgrees
<1>1. Registry => RegistryAgrees
  BY DEF Registry
<1> QED BY <1>1, RegistryInit, RegistryNext, PTL DEF Spec

\* No step takes a session out of the registry but its own Gone, or the login of the
\* same token that was accepted in its place, out of a game only after a day's
\* silence.
THEOREM SessionsStayProtected == Spec => SessionsAreProtected
<1>1. Registry /\ [Next]_vars =>
        [\A s \in DOMAIN sessions \ DOMAIN sessions' : Excused(s)]_vars
  <2> SUFFICES ASSUME Registry, [Next]_vars
               PROVE  \A s \in DOMAIN sessions \ DOMAIN sessions' : Excused(s)
    OBVIOUS
  <2>1. CASE Handle
    BY <2>1, HandleAgrees
  <2>2. CASE ~Handle
    BY <2>2, OthersAgree
  <2> QED BY <2>1, <2>2
<1> QED BY <1>1, RegistryInit, RegistryNext, PTL DEF Spec, SessionsAreProtected

-----------------------------------------------------------------------------
(* Induction over the natural numbers, on a set *)

\* A set of numbers has a least one.
LEMMA Least ==
    ASSUME NEW T, T \subseteq Nat, T # {}
    PROVE  \E x \in T : \A y \in T : x <= y
<1>1. PICK x \in T : \A y \in T : ~(<<y, x>> \in {ss \in Nat \X Nat : ss[1] < ss[2]})
  BY NatLessThanWellFounded, WFMin DEF OpToRel
<1>2. ASSUME NEW y \in T PROVE x <= y
  <2>1. x \in Nat /\ y \in Nat
    OBVIOUS
  <2>2. <<y, x>> \in Nat \X Nat /\ <<y, x>>[1] = y /\ <<y, x>>[2] = x
    BY <2>1
  <2> QED BY <1>1, <2>1, <2>2
<1> QED BY <1>2

LEMMA Induction ==
    ASSUME NEW S, 0 \in S, \A n \in Nat : n \in S => n + 1 \in S
    PROVE  Nat \subseteq S
<1> SUFFICES ASSUME Nat \ S # {} PROVE FALSE
  OBVIOUS
<1>1. PICK x \in Nat \ S : \A y \in Nat \ S : x <= y
  BY Least
<1>2. x - 1 \in Nat /\ (x - 1) + 1 = x
  BY <1>1
<1>3. x - 1 \in S
  BY <1>1, <1>2
<1> QED BY <1>1, <1>2, <1>3

-----------------------------------------------------------------------------
(* What is retained *)

\* One step of Retain.
Step(queue, gone, sofar, k) ==
    IF queue[k] \in gone THEN sofar ELSE Append(sofar, queue[k])

\* f is Retain on the first n elements.
Retains(queue, gone, n, f) ==
    /\ f = [k \in 0..n |-> f[k]] /\ f[0] = <<>>
    /\ \A k \in 1..n : f[k] = Step(queue, gone, f[k - 1], k)

LEMMA RetainExists ==
    ASSUME NEW queue, NEW gone, NEW n \in Nat
    PROVE  \E f : Retains(queue, gone, n, f)
<1> DEFINE S == {m \in Nat : \E f : Retains(queue, gone, m, f)}
<1>1. 0 \in S
  <2>1. Retains(queue, gone, 0, [k \in 0..0 |-> <<>>])
    BY DEF Retains
  <2> QED BY <2>1
<1>2. ASSUME NEW m \in Nat, m \in S PROVE m + 1 \in S
  <2>1. PICK f : Retains(queue, gone, m, f)
    BY <1>2
  <2> DEFINE g == [k \in 0..m + 1 |-> IF k = m + 1 THEN Step(queue, gone, f[m], m + 1) ELSE f[k]]
  <2>2. /\ g = [k \in 0..m + 1 |-> g[k]] /\ g[0] = <<>>
        /\ g[m + 1] = Step(queue, gone, f[m], m + 1)
        /\ \A k \in 0..m : g[k] = f[k]
    BY <2>1 DEF Retains
  <2> HIDE DEF g
  <2>3. ASSUME NEW k \in 1..m + 1 PROVE g[k] = Step(queue, gone, g[k - 1], k)
    <3>1. CASE k = m + 1
      <4>1. k - 1 = m /\ m \in 0..m
        BY <3>1
      <4> QED BY <2>2, <3>1, <4>1
    <3>2. CASE k # m + 1
      <4>1. k \in 1..m /\ k \in 0..m /\ k - 1 \in 0..m
        BY <3>2
      <4> QED BY <2>1, <2>2, <4>1 DEF Retains
    <3> QED BY <3>1, <3>2
  <2>4. Retains(queue, gone, m + 1, g)
    BY <2>2, <2>3 DEF Retains
  <2> QED BY <2>4
<1> HIDE DEF S
<1>3. n \in S
  BY <1>1, <1>2, Induction
<1> QED BY <1>3 DEF S

LEMMA RetainIs ==
    ASSUME NEW queue, NEW gone, Len(queue) \in Nat
    PROVE  \E f : Retains(queue, gone, Len(queue), f) /\ Retain(queue, gone) = f[Len(queue)]
<1> DEFINE n == Len(queue)
           Body(f) == [k \in 0..n |-> IF k = 0 THEN <<>>
                         ELSE IF queue[k] \in gone THEN f[k - 1] ELSE Append(f[k - 1], queue[k])]
           kept == CHOOSE f : f = Body(f)
<1>1. PICK g : Retains(queue, gone, n, g)
  BY RetainExists
<1>2. g = Body(g)
  <2>1. g = [k \in 0..n |-> g[k]]
    BY <1>1 DEF Retains
  <2>2. ASSUME NEW k \in 0..n PROVE g[k] = Body(g)[k]
    <3>1. k # 0 => k \in 1..n
      OBVIOUS
    <3> QED BY <1>1, <3>1 DEF Retains, Step
  <2> QED BY <2>1, <2>2
<1>3. kept = Body(kept)
  BY <1>2
<1>4. Retain(queue, gone) = kept[n]
  BY DEF Retain
<1> HIDE DEF kept, n
<1>5. Retains(queue, gone, n, kept)
  <2>1. kept = [k \in 0..n |-> kept[k]] /\ 0 \in 0..n
    BY <1>3 DEF n
  <2>2. \A k \in 1..n : k \in 0..n /\ k # 0
    BY DEF n
  <2>3. \A k \in 0..n : kept[k] = IF k = 0 THEN <<>>
                         ELSE IF queue[k] \in gone THEN kept[k - 1] ELSE Append(kept[k - 1], queue[k])
    BY <1>3
  <2> QED BY <2>1, <2>2, <2>3 DEF Retains, Step
<1> QED BY <1>4, <1>5 DEF n

\* What is retained is what the queue holds and is not gone, as often.
LEMMA Retained ==
    ASSUME NEW T, NEW queue \in Seq(T), NEW gone
    PROVE  /\ Retain(queue, gone) \in Seq(T)
           /\ Range(Retain(queue, gone)) \subseteq Range(queue) \ gone
           /\ (\A i, j \in DOMAIN queue : queue[i] = queue[j] => i = j)
              => \A i, j \in DOMAIN Retain(queue, gone) :
                    Retain(queue, gone)[i] = Retain(queue, gone)[j] => i = j
<1> DEFINE n == Len(queue)
<1>1. n \in Nat /\ DOMAIN queue = 1..n
  BY LenProperties
<1>2. PICK f : Retains(queue, gone, n, f) /\ Retain(queue, gone) = f[n]
  BY <1>1, RetainIs
<1> HIDE DEF n
<1> DEFINE Apart(q) == \A i, j \in DOMAIN q : q[i] = q[j] => i = j
           Good(k) == /\ f[k] \in Seq(T)
                      /\ \A i \in 1..Len(f[k]) :
                           /\ f[k][i] \notin gone
                           /\ \E j \in 1..k : f[k][i] = queue[j]
                      /\ Apart(queue) => \A i, j \in 1..Len(f[k]) : f[k][i] = f[k][j] => i = j
           S == {k \in Nat : k <= n => Good(k)}
<1>3. 0 \in S
  <2>1. f[0] = <<>>
    BY <1>2 DEF Retains
  <2>2. f[0] \in Seq(T) /\ Len(f[0]) = 0
    BY <2>1
  <2> QED BY <2>2
<1>4. ASSUME NEW k \in Nat, k \in S, k + 1 <= n PROVE Good(k + 1)
  <2>1. Good(k) /\ k + 1 \in 1..n
    BY <1>1, <1>4
  <2>2. f[k + 1] = Step(queue, gone, f[k], k + 1)
    <3>1. (k + 1) - 1 = k
      OBVIOUS
    <3> QED BY <1>2, <2>1, <3>1 DEF Retains
  <2>3. CASE queue[k + 1] \in gone
    <3>1. f[k + 1] = f[k]
      BY <2>2, <2>3 DEF Step
    <3> QED BY <2>1, <3>1
  <2>4. CASE queue[k + 1] \notin gone
    <3>1. f[k + 1] = Append(f[k], queue[k + 1]) /\ queue[k + 1] \in T
      BY <1>1, <2>1, <2>2, <2>4 DEF Step
    <3>2. /\ f[k + 1] \in Seq(T) /\ Len(f[k + 1]) = Len(f[k]) + 1 /\ Len(f[k]) \in Nat
          /\ \A i \in 1..Len(f[k]) : f[k + 1][i] = f[k][i]
          /\ f[k + 1][Len(f[k]) + 1] = queue[k + 1]
      BY <2>1, <3>1, AppendProperties, LenProperties
    <3>3. \A i \in 1..Len(f[k + 1]) : i \in 1..Len(f[k]) \/ i = Len(f[k]) + 1
      BY <3>2
    <3>4. ASSUME NEW i \in 1..Len(f[k + 1])
          PROVE  f[k + 1][i] \notin gone /\ \E j \in 1..k + 1 : f[k + 1][i] = queue[j]
      <4>1. CASE i \in 1..Len(f[k])
        <5>1. f[k + 1][i] = f[k][i]
          BY <3>2, <4>1
        <5>2. PICK b \in 1..k : f[k][i] = queue[b]
          BY <2>1, <4>1
        <5>3. b \in 1..k + 1
          OBVIOUS
        <5>4. f[k][i] \notin gone
          BY <2>1, <4>1
        <5> QED BY <5>1, <5>2, <5>3, <5>4
      <4>2. CASE i = Len(f[k]) + 1
        BY <2>4, <3>2, <4>2
      <4> QED BY <3>3, <4>1, <4>2
    <3>5. ASSUME Apart(queue), NEW i \in 1..Len(f[k + 1]), NEW j \in 1..Len(f[k + 1]),
                 f[k + 1][i] = f[k + 1][j]
          PROVE  i = j
      <4>1. \A a \in 1..Len(f[k]) : f[k][a] # queue[k + 1]
        <5> SUFFICES ASSUME NEW a \in 1..Len(f[k]) PROVE f[k][a] # queue[k + 1]
          OBVIOUS
        <5>1. PICK b \in 1..k : f[k][a] = queue[b]
          BY <2>1
        <5>2. b \in DOMAIN queue /\ k + 1 \in DOMAIN queue /\ b # k + 1
          BY <1>1, <2>1
        <5> QED BY <3>5, <5>1, <5>2
      <4>2. CASE i \in 1..Len(f[k]) /\ j \in 1..Len(f[k])
        BY <2>1, <3>2, <3>5, <4>2
      <4>3. CASE i = Len(f[k]) + 1 /\ j \in 1..Len(f[k])
        BY <3>2, <3>5, <4>1, <4>3
      <4>4. CASE i \in 1..Len(f[k]) /\ j = Len(f[k]) + 1
        BY <3>2, <3>5, <4>1, <4>4
      <4> QED BY <3>3, <4>2, <4>3, <4>4
    <3> QED BY <3>2, <3>4, <3>5
  <2> QED BY <2>3, <2>4
<1> HIDE DEF Good
<1>5. ASSUME NEW k \in Nat, k \in S PROVE k + 1 \in S
  BY <1>4, <1>5
<1> HIDE DEF S
<1>6. n \in S
  BY <1>1, <1>3, <1>5, Induction
<1> USE DEF S, Good
<1>7. Good(n)
  BY <1>1, <1>6
<1>8. DOMAIN f[n] = 1..Len(f[n])
  BY <1>7, LenProperties
<1>9. Range(f[n]) \subseteq Range(queue) \ gone
  BY <1>1, <1>7, <1>8 DEF Range
<1> QED BY <1>2, <1>7, <1>8, <1>9
-----------------------------------------------------------------------------
(* The pool *)

\* Every element of a sequence stands at one place.
Once(queue) == \A j, k \in DOMAIN queue : queue[j] = queue[k] => j = k

PoolInv == (\E T : pool \in Seq(T)) /\ PoolIsWaiting

\* A step that takes some sessions out of the pool, and leaves the others logged in
\* and out of a game.
LEMMA PoolRetained ==
    ASSUME PoolInv, NEW gone, pool' = Retain(pool, gone),
           \A s \in Range(pool) \ gone :
              s \in DOMAIN sessions' /\ sessions'[s].playing = sessions[s].playing
    PROVE  PoolInv'
<1>1. PICK T : pool \in Seq(T)
  BY DEF PoolInv
<1>2. /\ pool' \in Seq(T) /\ Range(pool') \subseteq Range(pool) \ gone
      /\ Once(pool) => Once(pool')
  BY <1>1, Retained DEF Once
<1>3. Once(pool')
  BY <1>2 DEF PoolInv, PoolIsWaiting, Once
<1>4. \A s \in Range(pool') : s \in DOMAIN sessions' /\ ~InGame(s)'
  BY <1>2 DEF PoolInv, PoolIsWaiting, InGame
<1> QED BY <1>2, <1>3, <1>4 DEF PoolInv, PoolIsWaiting, Once

\* A step that leaves the pool and the games of its sessions alone.
LEMMA PoolFrame ==
    ASSUME PoolInv, pool' = pool,
           \A s \in DOMAIN sessions :
              s \in DOMAIN sessions' /\ sessions'[s].playing = sessions[s].playing
    PROVE  PoolInv'
<1>1. \A s \in Range(pool') : s \in DOMAIN sessions' /\ ~InGame(s)'
  BY DEF PoolInv, PoolIsWaiting, InGame
<1> QED BY <1>1 DEF PoolInv, PoolIsWaiting

\* A silence that begins or ends leaves the session in its game.
LEMMA SilenceKeepsGame ==
    ASSUME Entries, NEW s \in DOMAIN sessions, NEW idle
    PROVE  [sessions[s] EXCEPT !.idle = idle].playing = sessions[s].playing
<1>1. PICK identity, playing, was : sessions[s] = Entry(identity, playing, was)
  BY DEF Entries
<1> QED BY <1>1, EntryFields

LEMMA SilenceKeepsToken ==
    ASSUME Entries, NEW s \in DOMAIN sessions, NEW idle
    PROVE  [sessions[s] EXCEPT !.idle = idle].identity = sessions[s].identity
<1>1. PICK identity, playing, was : sessions[s] = Entry(identity, playing, was)
  BY DEF Entries
<1> QED BY <1>1, EntryFields

\* A session back from its game joins the pool, once.
LEMMA ReadyPool ==
    ASSUME Entries, PoolInv, NEW id, Ready(id)
    PROVE  PoolInv'
<1>1. CASE id \notin DOMAIN sessions
  BY <1>1, PoolFrame DEF Ready, registryVars
<1>2. CASE id \in DOMAIN sessions
  <2>1. /\ sessions' = [sessions EXCEPT ![id] = [sessions[id] EXCEPT !.playing = NoGame]]
        /\ pool' = IF id \in Range(pool) THEN pool ELSE Append(pool, id)
    BY <1>2 DEF Ready
  <2>2. sessions'[id].playing = NoGame
    <3>1. PICK identity, playing, was : sessions[id] = Entry(identity, playing, was)
      BY <1>2 DEF Entries
    <3>2. sessions'[id] = Entry(identity, NoGame, was)
      BY <1>2, <2>1, <3>1, EntryFields
    <3> QED BY <3>2, EntryFields
  <2>3. /\ DOMAIN sessions' = DOMAIN sessions
        /\ \A s \in DOMAIN sessions \ {id} : sessions'[s] = sessions[s]
    BY <2>1
  <2>4. \A s \in Range(pool) \cup {id} : s \in DOMAIN sessions' /\ ~InGame(s)'
    BY <1>2, <2>2, <2>3 DEF PoolInv, PoolIsWaiting, InGame
  <2>5. CASE id \in Range(pool)
    <3>1. pool' = pool
      BY <2>1, <2>5
    <3> QED BY <2>4, <3>1 DEF PoolInv, PoolIsWaiting
  <2>6. CASE id \notin Range(pool)
    <3>1. PICK T : pool \in Seq(T)
      BY DEF PoolInv
    <3>2. pool \in Seq(T \cup {id}) /\ pool' = Append(pool, id)
      BY <2>1, <2>6, <3>1
    <3>3. /\ pool' \in Seq(T \cup {id}) /\ Len(pool') = Len(pool) + 1 /\ Len(pool) \in Nat
          /\ \A k \in 1..Len(pool) : pool'[k] = pool[k]
          /\ pool'[Len(pool) + 1] = id
      BY <3>2, AppendProperties, LenProperties
    <3>4. DOMAIN pool = 1..Len(pool) /\ DOMAIN pool' = 1..Len(pool')
      BY <3>2, <3>3, LenProperties
    <3>5. \A k \in DOMAIN pool' : k \in DOMAIN pool \/ k = Len(pool) + 1
      BY <3>3, <3>4
    <3>6. \A k \in DOMAIN pool : pool[k] # id
      BY <2>6 DEF Range
    <3>7. Once(pool')
      BY <3>3, <3>4, <3>5, <3>6 DEF Once, PoolInv, PoolIsWaiting
    <3>8. Range(pool') \subseteq Range(pool) \cup {id}
      BY <3>3, <3>4, <3>5 DEF Range
    <3> QED BY <2>4, <3>3, <3>7, <3>8 DEF PoolInv, PoolIsWaiting, Once
  <2> QED BY <2>5, <2>6
<1> QED BY <1>1, <1>2

\* Whoever a round pairs leaves the pool, and nobody else enters a game.
LEMMA OfferPool ==
    ASSUME PoolInv, NEW pairings, NEW abort, Offer(pairings, abort)
    PROVE  PoolInv'
<1> DEFINE started == {{pool[i] : i \in pairing} : pairing \in pairings}
           joined(s) == {game \in started : s \in game}
<1>1. /\ sessions' = [s \in DOMAIN sessions |->
                        IF joined(s) = {} THEN sessions[s]
                        ELSE [sessions[s] EXCEPT !.playing = Some(joined(s))]]
      /\ pool' = Retain(pool, UNION started)
  BY DEF Offer
<1> HIDE DEF started
<1>2. \A s : s \notin UNION started => joined(s) = {}
  OBVIOUS
<1> HIDE DEF joined
<1>3. \A s \in Range(pool) \ UNION started :
         s \in DOMAIN sessions' /\ sessions'[s].playing = sessions[s].playing
  BY <1>1, <1>2 DEF PoolInv, PoolIsWaiting
<1> QED BY <1>1, <1>3, PoolRetained

\* The sessions a login or a departure removes are out of the pool with it.
LEMMA LogInPool ==
    ASSUME Entries, PoolInv, NEW r, NEW known, LogIn(r, known)
    PROVE  PoolInv'
<1> DEFINE killed == Holder(r.identity)
<1>1. \/ Accept(r.identity, r.bridge, killed)
      \/ Reject(r.bridge)
  BY DEF LogIn, Holder
<1>2. CASE Reject(r.bridge)
  BY <1>2, PoolFrame DEF Reject, registryVars
<1>3. CASE Accept(r.identity, r.bridge, killed)
  <2> HIDE DEF killed
  <2>1. PICK id \in FreshSession(r.identity) :
          sessions' = Also(Without(sessions, killed), id,
                           [identity |-> r.identity, playing |-> NoGame, idle |-> FALSE])
    BY <1>3 DEF Accept
  <2>2. id \notin DOMAIN sessions
    BY FreshIsNew
  <2>3. pool' = Retain(pool, killed)
    BY <1>3 DEF Accept
  <2>4. \A s \in DOMAIN sessions \ killed : s \in DOMAIN sessions' /\ sessions'[s] = sessions[s]
    BY <2>1, <2>2 DEF Also, Without
  <2>5. \A s \in Range(pool) \ killed :
           s \in DOMAIN sessions' /\ sessions'[s].playing = sessions[s].playing
    BY <2>4 DEF PoolInv, PoolIsWaiting
  <2> QED BY <2>3, <2>5, PoolRetained
<1> QED BY <1>1, <1>2, <1>3

LEMMA GonePool ==
    ASSUME PoolInv, NEW id, Gone(id)
    PROVE  PoolInv'
<1>1. /\ pool' = Retain(pool, {id})
      /\ \A s \in DOMAIN sessions \ {id} : s \in DOMAIN sessions' /\ sessions'[s] = sessions[s]
  BY DEF Gone, Without
<1>2. \A s \in Range(pool) \ {id} :
         s \in DOMAIN sessions' /\ sessions'[s].playing = sessions[s].playing
  BY <1>1 DEF PoolInv, PoolIsWaiting
<1> QED BY <1>1, <1>2, PoolRetained

\* Every step keeps the pool.
LEMMA PoolNext == Entries /\ PoolInv /\ [Next]_vars => PoolInv'
<1> SUFFICES ASSUME Entries, PoolInv, [Next]_vars PROVE PoolInv'
  OBVIOUS
<1>a. ASSUME UNCHANGED <<sessions, pool>> PROVE PoolInv'
  BY <1>a, PoolFrame
<1>1. CASE Handle
  <2>1. \/ \E known : LogIn(Head(requests), known)
        \/ Touch(Head(requests).session) \/ Ready(Head(requests).session)
        \/ Gone(Head(requests).session)
    BY <1>1 DEF Handle
  <2>2. ASSUME NEW id, Touch(id) PROVE PoolInv'
    <3>1. /\ DOMAIN sessions' = DOMAIN sessions /\ pool' = pool
          /\ \A s \in DOMAIN sessions :
               sessions'[s] \in {sessions[s], [sessions[s] EXCEPT !.idle = FALSE]}
      BY <2>2 DEF Touch
    <3>2. \A s \in DOMAIN sessions : sessions'[s].playing = sessions[s].playing
      BY <3>1, SilenceKeepsGame
    <3> QED BY <3>1, <3>2, PoolFrame
  <2> QED BY <2>1, <2>2, LogInPool, ReadyPool, GonePool
<1>2. CASE RoundDue
  <2>1. PICK pairings, abort : Offer(pairings, abort)
    BY <1>2 DEF RoundDue
  <2> QED BY <2>1, OfferPool
<1>3. ASSUME NEW c, DayPasses(c) PROVE PoolInv'
  <2>1. /\ DOMAIN sessions' = DOMAIN sessions /\ pool' = pool
        /\ \A s \in DOMAIN sessions :
             sessions'[s] \in {sessions[s], [sessions[s] EXCEPT !.idle = TRUE]}
    BY <1>3 DEF DayPasses
  <2>2. \A s \in DOMAIN sessions : sessions'[s].playing = sessions[s].playing
    BY <2>1, SilenceKeepsGame
  <2> QED BY <2>1, <2>2, PoolFrame
<1>4. ASSUME NEW c, SayReady(c) \/ Speak(c) \/ CloseSocket(c) \/ Leave(c) PROVE PoolInv'
  BY <1>a, <1>4 DEF SayReady, Speak, CloseSocket, Leave, coordinatorVars, registryVars
<1>5. ASSUME NEW b, BridgeNext(b) PROVE PoolInv'
  BY <1>a, <1>5 DEF BridgeNext, BridgeLogsIn, BridgeStops, BridgeLosesConnection, BridgeDies,
     BridgeEnds, coordinatorVars, registryVars
<1>6. ASSUME NEW g, Tick \/ Dial(g) \/ GameOver(g) \/ BackoffOver(g) PROVE PoolInv'
  BY <1>a, <1>6 DEF Tick, Dial, GameOver, BackoffOver, coordinatorVars, registryVars
<1>7. CASE UNCHANGED vars
  BY <1>a, <1>7 DEF vars, registryVars
<1> QED BY <1>1, <1>2, <1>3, <1>4, <1>5, <1>6, <1>7 DEF Next, ConnNext

LEMMA PoolInit == Init => PoolInv
<1> SUFFICES ASSUME Init PROVE PoolInv
  OBVIOUS
<1>1. pool \in Seq({}) /\ DOMAIN pool = {}
  BY DEF Init, Empty
<1>2. Range(pool) = {}
  BY <1>1 DEF Range
<1> QED BY <1>1, <1>2 DEF PoolInv, PoolIsWaiting

\* The pool holds sessions that are logged in and in no game, each of them once,
\* whatever logins, departures and rounds come in between (server.rs ready, kill,
\* gone and the taking of the pool in run_round).
THEOREM PoolIsIdle == Spec => []PoolIsWaiting
<1>1. Registry => Entries
  BY DEF Registry
<1>2. PoolInv => PoolIsWaiting
  BY DEF PoolInv
<1> QED BY <1>1, <1>2, RegistryInit, RegistryNext, PoolInit, PoolNext, PTL DEF Spec

-----------------------------------------------------------------------------
(* The names of bridges *)

\* A bridge's entry is a record of its four fields.
Task(preset, phase, session, asked) ==
    [preset |-> preset, phase |-> phase, session |-> session, asked |-> asked]

Shaped(b, task) == \E phase, session, asked : task = Task(b[1], phase, session, asked)

LEMMA TaskFields ==
    ASSUME NEW preset, NEW phase, NEW session, NEW asked, NEW other
    PROVE  LET task == Task(preset, phase, session, asked) IN
           /\ task.preset = preset /\ task.phase = phase
           /\ task.session = session /\ task.asked = asked
           /\ [task EXCEPT !.phase = other] = Task(preset, other, session, asked)
           /\ [task EXCEPT !.session = other] = Task(preset, phase, other, asked)
           /\ [task EXCEPT !.asked = other] = Task(preset, phase, session, other)
BY DEF Task

\* A bridge is named by its preset: in its entry, in the supervisor's book and in
\* the login it sends.  No session goes by the name of none.
NamesItsPreset(r) == r.ask = "Login" => r.bridge = NoBridge \/ r.bridge[1] = r.identity

NamesInv ==
    /\ NoSession \notin DOMAIN sessions
    /\ \A b \in DOMAIN bridges : b # NoBridge /\ Shaped(b, bridges[b])
    /\ \A p \in DOMAIN running : running[p][1] = p
    /\ \A k \in DOMAIN requests : NamesItsPreset(requests[k])

\* What a channel holds after a send, and after a receive.
LEMMA QueuedAfterSend ==
    ASSUME FromSessions, NEW r, requests' = Append(requests, r), NEW k \in DOMAIN requests'
    PROVE  requests'[k] = r \/ \E j \in DOMAIN requests : requests'[k] = requests[j]
<1>1. PICK T : requests \in Seq(T)
  BY DEF FromSessions
<1>2. requests \in Seq(T \cup {r})
  BY <1>1
<1>3. /\ requests' \in Seq(T \cup {r}) /\ Len(requests') = Len(requests) + 1
      /\ \A i \in 1..Len(requests) : requests'[i] = requests[i]
      /\ requests'[Len(requests) + 1] = r
  BY <1>2, AppendProperties
<1>4. DOMAIN requests = 1..Len(requests) /\ DOMAIN requests' = 1..Len(requests')
      /\ Len(requests) \in Nat
  BY <1>2, <1>3, LenProperties
<1>5. k \in 1..Len(requests) \/ k = Len(requests) + 1
  BY <1>3, <1>4
<1> QED BY <1>3, <1>4, <1>5

LEMMA QueuedAfterTake ==
    ASSUME FromSessions, requests # <<>>, requests' = Tail(requests)
    PROVE  /\ 1 \in DOMAIN requests /\ Head(requests) = requests[1]
           /\ \A k \in DOMAIN requests' : \E j \in DOMAIN requests : requests'[k] = requests[j]
<1>1. PICK T : requests \in Seq(T)
  BY DEF FromSessions
<1>2. DOMAIN requests = 1..Len(requests) /\ Len(requests) \in Nat /\ Len(requests) > 0
  BY <1>1, LenProperties, EmptySeq
<1>3. Head(requests) = requests[1] /\ 1 \in DOMAIN requests
  BY <1>1, <1>2, HeadTailProperties
<1>4. /\ requests' \in Seq(T) /\ Len(requests') = Len(requests) - 1
      /\ \A k \in 1..Len(requests') : requests'[k] = requests[k + 1]
  BY <1>1, <1>2, HeadTailProperties
<1>5. DOMAIN requests' = 1..Len(requests')
  BY <1>4, LenProperties
<1>6. \A k \in DOMAIN requests' : k + 1 \in DOMAIN requests
  BY <1>2, <1>4, <1>5
<1> QED BY <1>3, <1>4, <1>5, <1>6

LEMMA FreshBridgeIs ==
    ASSUME NEW p, FreshBridge(p) # {}
    PROVE  /\ Some(FreshBridge(p))[1] = p /\ Some(FreshBridge(p)) # NoBridge
           /\ Some(FreshBridge(p)) \notin DOMAIN bridges
<1>1. Some(FreshBridge(p)) \in FreshBridge(p)
  BY DEF Some
<1>2. PICK n \in Names : Some(FreshBridge(p)) = <<p, n>> /\ <<p, n>> \notin DOMAIN bridges
  BY <1>1 DEF FreshBridge, Fresh
<1>3. <<p, n>>[1] = p /\ <<p, n>> # <<>>
  OBVIOUS
<1> QED BY <1>2, <1>3 DEF NoBridge

LEMMA FreshSessionIs ==
    ASSUME NEW token, NEW id \in FreshSession(token)
    PROVE  /\ id # NoSession /\ id \notin DOMAIN sessions
           /\ \A b \in DOMAIN bridges : bridges[b].session # id
<1>1. PICK n \in Names : /\ id = <<token, n>>
                         /\ id \notin DOMAIN sessions
                         /\ id \notin {bridges[b].session : b \in DOMAIN bridges}
  BY DEF FreshSession, Fresh
<1>2. <<token, n>> # <<>>
  OBVIOUS
<1> QED BY <1>1, <1>2 DEF NoSession

-----------------------------------------------------------------------------
(* What a round does with the presets *)

KeptUp    == (DOMAIN running \ Reaped) \cup Restarting
RoundPlan == Plan(WaitingExternals, StandingsOf(KeptUp))
Starting  == Restarting \cup RoundPlan.start

NewBook    == Started(Without(running, Reaped), bridges, Starting)
StoppingBy(pairings) == StopUnwanted(RoundPlan.stop, pairings)

LEMMA RoundIs ==
    ASSUME RoundDue
    PROVE  /\ due = 0 /\ due' = Interval
           /\ UNCHANGED <<byIdentity, requests, conns>>
           /\ \A p \in Starting : FreshBridge(p) # {}
           /\ \E pairings :
                /\ Offer(pairings, RoundPlan.abort)
                /\ running' = Without(NewBook.book, StoppingBy(pairings))
                /\ bridges' = Asked(NewBook.book, NewBook.tasks, StoppingBy(pairings))
BY DEF RoundDue, KeptUp, RoundPlan, Starting, NewBook, StoppingBy

\* The book and the bridges after a round: those there were, the new ones by names of
\* their own, and those it stops asked to end.
LEMMA RoundBridges ==
    ASSUME NamesInv, RoundDue, NEW pairings,
           running' = Without(NewBook.book, StoppingBy(pairings)),
           bridges' = Asked(NewBook.book, NewBook.tasks, StoppingBy(pairings))
    PROVE  /\ \A p \in DOMAIN NewBook.book : NewBook.book[p][1] = p
           /\ \A p \in DOMAIN running' : running'[p][1] = p
           /\ DOMAIN bridges \subseteq DOMAIN bridges'
           /\ \A b \in DOMAIN bridges' :
                /\ b # NoBridge /\ Shaped(b, bridges'[b])
                /\ b \in DOMAIN bridges =>
                     /\ bridges'[b].session = bridges[b].session
                     /\ bridges'[b].asked =>
                          \/ bridges[b].asked
                          \/ \E p \in StoppingBy(pairings) : b[1] = p
                /\ b \notin DOMAIN bridges => bridges'[b].session = NoSession
<1> DEFINE name(p) == Some(FreshBridge(p))
           old == Without(running, Reaped)
<1>1. \A p \in Starting : name(p)[1] = p /\ name(p) # NoBridge /\ name(p) \notin DOMAIN bridges
  BY RoundIs, FreshBridgeIs
<1> HIDE DEF name
<1>2. /\ NewBook.book = [p \in DOMAIN old \cup Starting |->
                           IF p \in Starting THEN name(p) ELSE old[p]]
      /\ NewBook.tasks = [b \in DOMAIN bridges \cup {name(p) : p \in Starting} |->
                            IF b \in DOMAIN bridges THEN bridges[b] ELSE NewBridge(b[1])]
  BY DEF NewBook, Started, name
<1>3. \A p \in DOMAIN old : old[p] = running[p] /\ p \in DOMAIN running
  BY DEF Without
<1> HIDE DEF old
<1>4. \A p \in DOMAIN NewBook.book : NewBook.book[p][1] = p
  BY <1>1, <1>2, <1>3 DEF NamesInv
<1>5. \A p \in DOMAIN running' : p \in DOMAIN NewBook.book /\ running'[p] = NewBook.book[p]
  BY DEF Without
<1>6. /\ DOMAIN bridges' = DOMAIN NewBook.tasks
      /\ \A b \in DOMAIN bridges' : \E more :
           /\ bridges'[b] = [NewBook.tasks[b] EXCEPT !.asked = @ \/ more]
           /\ more => \E p \in StoppingBy(pairings) \cap DOMAIN NewBook.book : NewBook.book[p] = b
  BY DEF Asked
<1>7. ASSUME NEW b \in DOMAIN bridges'
      PROVE  /\ b # NoBridge /\ Shaped(b, bridges'[b])
             /\ b \in DOMAIN bridges =>
                  /\ bridges'[b].session = bridges[b].session
                  /\ bridges'[b].asked =>
                       \/ bridges[b].asked
                       \/ \E p \in StoppingBy(pairings) : b[1] = p
             /\ b \notin DOMAIN bridges => bridges'[b].session = NoSession
  <2>1. PICK more :
          /\ bridges'[b] = [NewBook.tasks[b] EXCEPT !.asked = @ \/ more]
          /\ more => \E p \in StoppingBy(pairings) \cap DOMAIN NewBook.book : NewBook.book[p] = b
    BY <1>6
  <2>2. more => \E p \in StoppingBy(pairings) : b[1] = p
    BY <1>4, <2>1
  <2>3. CASE b \in DOMAIN bridges
    <3>1. NewBook.tasks[b] = bridges[b]
      BY <1>2, <2>3
    <3>2. PICK phase, session, asked : bridges[b] = Task(b[1], phase, session, asked)
      BY <2>3 DEF NamesInv, Shaped
    <3>3. bridges[b].asked = asked /\ bridges[b].session = session
      BY <3>2, TaskFields
    <3>4. bridges'[b] = [Task(b[1], phase, session, asked) EXCEPT !.asked = asked \/ more]
      BY <2>1, <3>1, <3>2, <3>3
    <3>5. bridges'[b] = Task(b[1], phase, session, asked \/ more)
      BY <3>4, TaskFields
    <3>6. bridges'[b].asked = (asked \/ more) /\ bridges'[b].session = session
      BY <3>5, TaskFields
    <3>7. Shaped(b, bridges'[b]) /\ b # NoBridge
      BY <2>3, <3>5 DEF Shaped, NamesInv
    <3> QED BY <2>2, <2>3, <3>3, <3>6, <3>7
  <2>4. CASE b \notin DOMAIN bridges
    <3>1. PICK p \in Starting : b = name(p)
      BY <1>2, <1>6, <2>4
    <3>2. b # NoBridge
      BY <1>1, <3>1
    <3>3. NewBook.tasks[b] = NewBridge(b[1])
      BY <1>2, <1>6, <2>4
    <3>4. NewBook.tasks[b] = Task(b[1], "handshake", NoSession, FALSE)
      BY <3>3 DEF NewBridge, Task
    <3>5. PICK asked : asked = (NewBook.tasks[b].asked \/ more)
      OBVIOUS
    <3>6. bridges'[b] = Task(b[1], "handshake", NoSession, asked)
      <4>1. bridges'[b] = [NewBook.tasks[b] EXCEPT !.asked = asked]
        BY <2>1, <3>5
      <4>2. [Task(b[1], "handshake", NoSession, FALSE) EXCEPT !.asked = asked]
              = Task(b[1], "handshake", NoSession, asked)
        BY DEF Task
      <4> QED BY <3>4, <4>1, <4>2
    <3>7. bridges'[b].session = NoSession
      BY <3>6, TaskFields
    <3>8. Shaped(b, bridges'[b])
      BY <3>6 DEF Shaped
    <3> QED BY <2>4, <3>2, <3>7, <3>8
  <2> QED BY <2>3, <2>4
<1>8. DOMAIN bridges \subseteq DOMAIN bridges'
  BY <1>2, <1>6
<1> QED BY <1>4, <1>5, <1>7, <1>8

\* What a round stops has no session in a game, nor one it has just paired.
LEMMA StoppedByRound ==
    ASSUME RegistryAgrees, NEW pairings, NEW p \in StoppingBy(pairings),
           NEW s \in DOMAIN sessions, sessions[s].identity = p
    PROVE  ~InGame(s) /\ s \notin {pool[i] : i \in UNION pairings}
<1>1. SessionOf(p) = {s}
  BY DEF SessionOf, RegistryAgrees
<1>2. Some(SessionOf(p)) = s
  BY <1>1 DEF Some
<1>3. p \in RoundPlan.stop /\ s \notin {pool[i] : i \in UNION pairings}
  BY <1>1 DEF StoppingBy, StopUnwanted
<1>4. p \in Presets /\ ~IsPlaying(StandingsOf(KeptUp)[p].state)
  BY <1>3 DEF RoundPlan, Plan, StandingsOf
<1>5. StandingsOf(KeptUp)[p].state = PresetState(KeptUp, p)
  BY <1>4 DEF StandingsOf
<1>6. InGame(s) => PresetState(KeptUp, p) \in {"PlayingPreset", "PlayingExternal"}
  BY <1>1, <1>2 DEF PresetState
<1>7. ~InGame(s)
  BY <1>4, <1>5, <1>6 DEF IsPlaying
<1> QED BY <1>3, <1>7

-----------------------------------------------------------------------------
(* A bridge and its session *)

\* The session of a bridge is its preset's.
BridgeSessions ==
    \A b \in DOMAIN bridges :
        bridges[b].session \in DOMAIN sessions =>
            sessions[bridges[b].session].identity = b[1]

OwnInv == NamesInv /\ BridgeSessions

\* Who is asked to stop by a step is in no game after it.
Spared ==
    \A b \in DOMAIN bridges \cap DOMAIN bridges' :
        bridges'[b].asked /\ ~bridges[b].asked /\ bridges'[b].session \in DOMAIN sessions'
          => sessions'[bridges'[b].session].playing = NoGame

\* A step that adds no bridge and asks none, and brings no session under a new token.
LEMMA NoneAsked ==
    ASSUME OwnInv,
           \A s \in DOMAIN sessions' :
              s \in DOMAIN sessions /\ sessions'[s].identity = sessions[s].identity,
           \A b \in DOMAIN bridges' :
              /\ b \in DOMAIN bridges /\ Shaped(b, bridges'[b])
              /\ bridges'[b].session = bridges[b].session
              /\ bridges'[b].asked => bridges[b].asked,
           running' = running,
           \A k \in DOMAIN requests' : NamesItsPreset(requests'[k])
    PROVE  OwnInv' /\ Spared
<1>1. NamesInv'
  BY DEF OwnInv, NamesInv
<1>2. ASSUME NEW b \in DOMAIN bridges', bridges'[b].session \in DOMAIN sessions'
      PROVE  sessions'[bridges'[b].session].identity = b[1]
  <2>1. PICK s : s = bridges'[b].session
    OBVIOUS
  <2>2. /\ b \in DOMAIN bridges /\ bridges[b].session = s
        /\ s \in DOMAIN sessions' /\ s \in DOMAIN sessions
        /\ sessions'[s].identity = sessions[s].identity
    BY <1>2, <2>1
  <2>3. sessions[s].identity = b[1]
    BY <2>2 DEF OwnInv, BridgeSessions
  <2> QED BY <2>1, <2>2, <2>3
<1>3. BridgeSessions'
  BY <1>2 DEF BridgeSessions
<1>4. Spared
  BY DEF Spared
<1> QED BY <1>1, <1>3, <1>4 DEF OwnInv

\* A step of somebody else that leaves the tables and the bridges alone.
LEMMA NoneTouched ==
    ASSUME OwnInv, UNCHANGED <<sessions, bridges, running>>,
           \A k \in DOMAIN requests' : NamesItsPreset(requests'[k])
    PROVE  OwnInv' /\ Spared
BY NoneAsked DEF OwnInv, NamesInv

\* A bridge that ends, and is asked nothing.
LEMMA BridgeEndsOwn ==
    ASSUME OwnInv, NEW gone, bridges' = Without(bridges, gone),
           UNCHANGED <<sessions, running>>,
           \A k \in DOMAIN requests' : NamesItsPreset(requests'[k])
    PROVE  OwnInv' /\ Spared
<1>1. \A b \in DOMAIN bridges' : b \in DOMAIN bridges /\ bridges'[b] = bridges[b]
  BY DEF Without
<1> QED BY <1>1, NoneAsked DEF OwnInv, NamesInv

\* An accepted login: the new session is a bridge's own if it is one's.
LEMMA AcceptOwn ==
    ASSUME OwnInv, Entries, NEW r, NEW killed, NamesItsPreset(r), r.ask = "Login",
           Accept(r.identity, r.bridge, killed),
           \A k \in DOMAIN requests' : NamesItsPreset(requests'[k])
    PROVE  OwnInv' /\ Spared
<1>1. PICK id \in FreshSession(r.identity) :
        /\ sessions' = Also(Without(sessions, killed), id,
                            [identity |-> r.identity, playing |-> NoGame, idle |-> FALSE])
        /\ bridges' = [b \in DOMAIN bridges |->
                         IF b = r.bridge THEN [bridges[b] EXCEPT !.phase = "in", !.session = id]
                                         ELSE bridges[b]]
        /\ running' = running
  BY DEF Accept, presetVars
<1>2. /\ id # NoSession /\ id \notin DOMAIN sessions
      /\ \A b \in DOMAIN bridges : bridges[b].session # id
  BY FreshSessionIs
<1>3. /\ DOMAIN sessions' = (DOMAIN sessions \ killed) \cup {id}
      /\ sessions'[id].identity = r.identity
      /\ \A s \in DOMAIN sessions \ killed : sessions'[s] = sessions[s]
  BY <1>1, <1>2 DEF Also, Without
<1>4. ASSUME NEW b \in DOMAIN bridges'
      PROVE  /\ b # NoBridge /\ Shaped(b, bridges'[b])
             /\ bridges'[b].asked => bridges[b].asked
             /\ bridges'[b].session \in DOMAIN sessions' =>
                  sessions'[bridges'[b].session].identity = b[1]
  <2>1. b \in DOMAIN bridges
    BY <1>1
  <2>2. PICK phase, session, asked : bridges[b] = Task(b[1], phase, session, asked)
    BY <2>1 DEF OwnInv, NamesInv, Shaped
  <2>3. bridges[b].session = session /\ bridges[b].asked = asked
    BY <2>2, TaskFields
  <2>4. b # NoBridge
    BY <2>1 DEF OwnInv, NamesInv
  <2>5. CASE b = r.bridge
    <3>1. bridges'[b] = Task(b[1], "in", id, asked)
      <4>1. bridges'[b] = [bridges[b] EXCEPT !.phase = "in", !.session = id]
        BY <1>1, <2>1, <2>5
      <4>2. bridges'[b] = [[bridges[b] EXCEPT !.phase = "in"] EXCEPT !.session = id]
        BY <4>1
      <4>3. [bridges[b] EXCEPT !.phase = "in"] = Task(b[1], "in", session, asked)
        BY <2>2, TaskFields
      <4>4. [Task(b[1], "in", session, asked) EXCEPT !.session = id] = Task(b[1], "in", id, asked)
        BY TaskFields
      <4> QED BY <4>2, <4>3, <4>4
    <3>2. bridges'[b].session = id /\ bridges'[b].asked = asked
      BY <3>1, TaskFields
    <3>3. b[1] = r.identity
      BY <2>4, <2>5 DEF NamesItsPreset
    <3>4. Shaped(b, bridges'[b])
      BY <3>1 DEF Shaped
    <3> QED BY <1>3, <2>3, <2>4, <3>2, <3>3, <3>4
  <2>6. CASE b # r.bridge
    <3>1. bridges'[b] = bridges[b]
      BY <1>1, <2>1, <2>6
    <3>2. session # id
      BY <1>2, <2>1, <2>3
    <3>3. session \in DOMAIN sessions' => session \in DOMAIN sessions \ killed
      BY <1>3, <3>2
    <3>4. Shaped(b, bridges'[b])
      BY <2>2, <3>1 DEF Shaped
    <3>5. session \in DOMAIN sessions => sessions[session].identity = b[1]
      BY <2>1, <2>3 DEF OwnInv, BridgeSessions
    <3> QED BY <1>3, <2>3, <2>4, <3>1, <3>3, <3>4, <3>5
  <2> QED BY <2>5, <2>6
<1>5. NamesInv'
  BY <1>1, <1>2, <1>3, <1>4 DEF OwnInv, NamesInv
<1>6. BridgeSessions'
  BY <1>4 DEF BridgeSessions
<1>7. Spared
  BY <1>4 DEF Spared
<1> QED BY <1>5, <1>6, <1>7 DEF OwnInv

\* A preset back from its game is asked to stop, and is in no game.
LEMMA ReadyOwn ==
    ASSUME OwnInv, Entries, RegistryAgrees, NEW id \in DOMAIN sessions, Ready(id),
           \A k \in DOMAIN requests' : NamesItsPreset(requests'[k])
    PROVE  OwnInv' /\ Spared
<1> DEFINE back == IF InGame(id) THEN {sessions[id].identity} \cap Presets ELSE {}
<1>1. /\ sessions' = [sessions EXCEPT ![id] = [sessions[id] EXCEPT !.playing = NoGame]]
      /\ running' = Without(running, back)
      /\ bridges' = Asked(running, bridges, back)
  BY DEF Ready
<1>2. back \subseteq {sessions[id].identity}
  OBVIOUS
<1> HIDE DEF back
<1>3. PICK identity, playing, idle : sessions[id] = Entry(identity, playing, idle)
  BY DEF Entries
<1>4. sessions'[id] = Entry(identity, NoGame, idle)
  BY <1>1, <1>3, EntryFields
<1>5. /\ DOMAIN sessions' = DOMAIN sessions
      /\ sessions'[id].playing = NoGame /\ sessions'[id].identity = sessions[id].identity
      /\ \A s \in DOMAIN sessions \ {id} : sessions'[s] = sessions[s]
  BY <1>1, <1>3, <1>4, EntryFields
<1>6. \A p \in DOMAIN running' : p \in DOMAIN running /\ running'[p] = running[p]
  BY <1>1 DEF Without
<1>7. ASSUME NEW b \in DOMAIN bridges'
      PROVE  /\ b # NoBridge /\ Shaped(b, bridges'[b])
             /\ bridges'[b].session \in DOMAIN sessions' =>
                  /\ sessions'[bridges'[b].session].identity = b[1]
                  /\ (bridges'[b].asked /\ ~bridges[b].asked) =>
                        sessions'[bridges'[b].session].playing = NoGame
  <2>1. PICK more :
          /\ b \in DOMAIN bridges
          /\ bridges'[b] = [bridges[b] EXCEPT !.asked = @ \/ more]
          /\ more => \E p \in back \cap DOMAIN running : running[p] = b
    BY <1>1 DEF Asked
  <2>2. PICK phase, session, asked : bridges[b] = Task(b[1], phase, session, asked)
    BY <2>1 DEF OwnInv, NamesInv, Shaped
  <2>3. bridges[b].session = session /\ bridges[b].asked = asked
    BY <2>2, TaskFields
  <2>4. PICK now : now = (asked \/ more)
    OBVIOUS
  <2>5. bridges'[b] = Task(b[1], phase, session, now)
    BY <2>1, <2>2, <2>3, <2>4 DEF Task
  <2>6. bridges'[b].session = session /\ bridges'[b].asked = now
    BY <2>5, TaskFields
  <2>7. Shaped(b, bridges'[b]) /\ b # NoBridge
    BY <2>1, <2>5 DEF Shaped, OwnInv, NamesInv
  <2>8. ASSUME session \in DOMAIN sessions'
        PROVE  /\ sessions'[session].identity = b[1]
               /\ (now /\ ~asked) => sessions'[session].playing = NoGame
    <3>1. session \in DOMAIN sessions /\ sessions[session].identity = b[1]
      BY <1>5, <2>1, <2>3, <2>8 DEF OwnInv, BridgeSessions
    <3>2. sessions'[session].identity = b[1]
      BY <1>5, <3>1
    <3>3. CASE session = id
      BY <1>5, <3>2, <3>3
    <3>4. CASE session # id
      <4>1. ~more
        <5> SUFFICES ASSUME more PROVE FALSE
          OBVIOUS
        <5>1. b[1] = sessions[id].identity
          BY <1>2, <2>1 DEF OwnInv, NamesInv
        <5> QED BY <3>1, <3>4, <5>1 DEF RegistryAgrees
      <4> QED BY <2>4, <3>2, <4>1
    <3> QED BY <3>3, <3>4
  <2> QED BY <2>3, <2>6, <2>7, <2>8
<1>8. NamesInv'
  BY <1>5, <1>6, <1>7 DEF OwnInv, NamesInv
<1>9. BridgeSessions'
  BY <1>7 DEF BridgeSessions
<1>10. Spared
  BY <1>7 DEF Spared
<1> QED BY <1>8, <1>9, <1>10 DEF OwnInv

\* What a round stops plays nothing, and is not what it has just paired.
LEMMA RoundOwn ==
    ASSUME OwnInv, Entries, RegistryAgrees, RoundDue
    PROVE  OwnInv' /\ Spared
<1>1. PICK pairings :
        /\ Offer(pairings, RoundPlan.abort)
        /\ running' = Without(NewBook.book, StoppingBy(pairings))
        /\ bridges' = Asked(NewBook.book, NewBook.tasks, StoppingBy(pairings))
        /\ requests' = requests
  BY RoundIs
<1>2. NamesInv
  BY DEF OwnInv
<1>3. /\ \A p \in DOMAIN running' : running'[p][1] = p
      /\ \A b \in DOMAIN bridges' :
           /\ b # NoBridge /\ Shaped(b, bridges'[b])
           /\ b \in DOMAIN bridges =>
                /\ bridges'[b].session = bridges[b].session
                /\ bridges'[b].asked =>
                     \/ bridges[b].asked
                     \/ \E p \in StoppingBy(pairings) : b[1] = p
           /\ b \notin DOMAIN bridges => bridges'[b].session = NoSession
  BY <1>1, <1>2, RoundBridges
<1> DEFINE started == {{pool[i] : i \in pairing} : pairing \in pairings}
           joined(s) == {game \in started : s \in game}
<1>4. sessions' = [s \in DOMAIN sessions |->
                     IF joined(s) = {} THEN sessions[s]
                     ELSE [sessions[s] EXCEPT !.playing = Some(joined(s))]]
  BY <1>1 DEF Offer
<1>5. \A s : s \notin {pool[i] : i \in UNION pairings} => joined(s) = {}
  <2> SUFFICES ASSUME NEW s, NEW game \in started, s \in game
               PROVE  s \in {pool[i] : i \in UNION pairings}
    OBVIOUS
  <2>1. PICK pairing \in pairings : game = {pool[i] : i \in pairing}
    OBVIOUS
  <2>2. PICK i \in pairing : s = pool[i]
    BY <2>1
  <2> QED BY <2>2
<1> HIDE DEF started, joined
<1>6. /\ DOMAIN sessions' = DOMAIN sessions
      /\ \A s \in DOMAIN sessions : sessions'[s].identity = sessions[s].identity
      /\ \A s \in DOMAIN sessions :
            s \notin {pool[i] : i \in UNION pairings} => sessions'[s] = sessions[s]
  <2>1. ASSUME NEW s \in DOMAIN sessions
        PROVE  sessions'[s].identity = sessions[s].identity
    <3>1. PICK identity, playing, idle : sessions[s] = Entry(identity, playing, idle)
      BY DEF Entries
    <3>2. sessions'[s] = sessions[s]
             \/ sessions'[s] = [sessions[s] EXCEPT !.playing = Some(joined(s))]
      BY <1>4
    <3>3. sessions'[s] = Entry(identity, playing, idle)
             \/ sessions'[s] = Entry(identity, Some(joined(s)), idle)
      BY <3>1, <3>2, EntryFields
    <3> QED BY <3>1, <3>3, EntryFields
  <2> QED BY <1>4, <1>5, <2>1
<1>7. ASSUME NEW b \in DOMAIN bridges', bridges'[b].session \in DOMAIN sessions'
      PROVE  /\ sessions'[bridges'[b].session].identity = b[1]
             /\ (b \in DOMAIN bridges /\ bridges'[b].asked /\ ~bridges[b].asked) =>
                   sessions'[bridges'[b].session].playing = NoGame
  <2>1. PICK s : s = bridges'[b].session
    OBVIOUS
  <2>2. b \in DOMAIN bridges /\ bridges[b].session = s /\ s \in DOMAIN sessions
    BY <1>2, <1>3, <1>6, <1>7, <2>1 DEF NamesInv
  <2>3. sessions[s].identity = b[1]
    BY <2>2 DEF OwnInv, BridgeSessions
  <2>4. ASSUME bridges'[b].asked, ~bridges[b].asked PROVE sessions'[s].playing = NoGame
    <3>1. b[1] \in StoppingBy(pairings)
      BY <1>3, <2>2, <2>4
    <3>2. ~InGame(s) /\ s \notin {pool[i] : i \in UNION pairings}
      BY <2>2, <2>3, <3>1, StoppedByRound
    <3> QED BY <1>6, <2>2, <3>2 DEF InGame
  <2> QED BY <1>6, <2>1, <2>2, <2>3, <2>4
<1>8. NamesInv'
  BY <1>1, <1>2, <1>3, <1>6 DEF NamesInv
<1>9. BridgeSessions' /\ Spared
  BY <1>7 DEF BridgeSessions, Spared
<1> QED BY <1>8, <1>9 DEF OwnInv

\* A bridge logs in under its preset, and its name.
LEMMA BridgeLogsInOwn ==
    ASSUME OwnInv, FromSessions, NEW b, BridgeLogsIn(b)
    PROVE  OwnInv' /\ Spared
<1>1. /\ b \in DOMAIN bridges
      /\ bridges' = [bridges EXCEPT ![b] = [bridges[b] EXCEPT !.phase = "login"]]
      /\ requests' = Append(requests, Login(bridges[b].preset, b))
      /\ UNCHANGED <<sessions, running>>
  BY DEF BridgeLogsIn, Send, coordinatorVars, registryVars, presetVars
<1>2. PICK phase, session, asked : bridges[b] = Task(b[1], phase, session, asked)
  BY <1>1 DEF OwnInv, NamesInv, Shaped
<1>3. bridges'[b] = Task(b[1], "login", session, asked)
  BY <1>1, <1>2, TaskFields
<1>4. /\ bridges[b].preset = b[1] /\ Shaped(b, bridges'[b])
      /\ bridges'[b].session = bridges[b].session /\ bridges'[b].asked = bridges[b].asked
  BY <1>2, <1>3, TaskFields DEF Shaped
<1>5. NamesItsPreset(Login(bridges[b].preset, b))
  BY <1>4 DEF NamesItsPreset, Login, Request
<1>6. \A k \in DOMAIN requests' : NamesItsPreset(requests'[k])
  BY <1>1, <1>5, QueuedAfterSend DEF OwnInv, NamesInv
<1>7. \A c \in DOMAIN bridges' :
        /\ c \in DOMAIN bridges /\ Shaped(c, bridges'[c])
        /\ bridges'[c].session = bridges[c].session
        /\ bridges'[c].asked => bridges[c].asked
  BY <1>1, <1>4 DEF OwnInv, NamesInv
<1> QED BY <1>1, <1>6, <1>7, NoneAsked

\* A step that says something of a session, or a login of a client, and touches no
\* table.
LEMMA SentOwn ==
    ASSUME OwnInv, FromSessions, UNCHANGED <<sessions, bridges, running>>,
           NEW r, requests' = Append(requests, r), NamesItsPreset(r)
    PROVE  OwnInv' /\ Spared
BY QueuedAfterSend, NoneTouched DEF OwnInv, NamesInv

\* The coordinator's handling of a request.
LEMMA HandleOwn ==
    ASSUME OwnInv, Registry, Handle
    PROVE  OwnInv' /\ Spared
<1>1. Entries /\ RegistryAgrees /\ FromSessions
  BY DEF Registry
<1>2. /\ requests # <<>> /\ requests' = Tail(requests)
      /\ \/ Head(requests).ask = "Login" /\ \E known : LogIn(Head(requests), known)
         \/ Touch(Head(requests).session)
         \/ Ready(Head(requests).session)
         \/ Gone(Head(requests).session)
  BY DEF Handle
<1>3. /\ \A k \in DOMAIN requests' : NamesItsPreset(requests'[k])
      /\ NamesItsPreset(Head(requests))
  BY <1>1, <1>2, QueuedAfterTake DEF OwnInv, NamesInv
<1> DEFINE r == Head(requests)
<1> HIDE DEF r
<1>4. ASSUME r.ask = "Login", NEW known, LogIn(r, known) PROVE OwnInv' /\ Spared
  <2>1. \/ Accept(r.identity, r.bridge, Holder(r.identity))
        \/ Reject(r.bridge)
    BY <1>4 DEF LogIn, Holder
  <2>2. CASE Reject(r.bridge)
    BY <1>3, <2>2, BridgeEndsOwn DEF Reject, registryVars, presetVars
  <2>3. CASE Accept(r.identity, r.bridge, Holder(r.identity))
    <3>1. NamesItsPreset(r)
      BY <1>3 DEF r
    <3> QED BY <1>1, <1>3, <1>4, <2>3, <3>1, AcceptOwn
  <2> QED BY <2>1, <2>2, <2>3
<1>5. ASSUME NEW id, Touch(id) PROVE OwnInv' /\ Spared
  <2>1. /\ DOMAIN sessions' = DOMAIN sessions /\ UNCHANGED <<bridges, running>>
        /\ \A s \in DOMAIN sessions :
             sessions'[s] \in {sessions[s], [sessions[s] EXCEPT !.idle = FALSE]}
    BY <1>5 DEF Touch, presetVars
  <2>2. \A s \in DOMAIN sessions : sessions'[s].identity = sessions[s].identity
    BY <1>1, <2>1, SilenceKeepsToken
  <2> QED BY <1>3, <2>1, <2>2, NoneAsked DEF OwnInv, NamesInv
<1>6. ASSUME NEW id, Ready(id) PROVE OwnInv' /\ Spared
  <2>1. CASE id \in DOMAIN sessions
    BY <1>1, <1>3, <1>6, <2>1, ReadyOwn
  <2>2. CASE id \notin DOMAIN sessions
    <3>1. UNCHANGED <<sessions, bridges, running>>
      BY <1>6, <2>2 DEF Ready, registryVars, presetVars
    <3> QED BY <1>3, <3>1, NoneTouched
  <2> QED BY <2>1, <2>2
<1>7. ASSUME NEW id, Gone(id) PROVE OwnInv' /\ Spared
  <2>1. /\ \A s \in DOMAIN sessions' : s \in DOMAIN sessions /\ sessions'[s] = sessions[s]
        /\ UNCHANGED <<bridges, running>>
    BY <1>7 DEF Gone, Without, presetVars
  <2> QED BY <1>3, <2>1, NoneAsked DEF OwnInv, NamesInv
<1> QED BY <1>2, <1>4, <1>5, <1>6, <1>7 DEF r

LEMMA OwnNext ==
    ASSUME OwnInv, Registry, [Next]_vars
    PROVE  OwnInv' /\ Spared
<1>1. Entries /\ RegistryAgrees /\ FromSessions
  BY DEF Registry
<1>a. ASSUME UNCHANGED <<sessions, bridges, running, requests>> PROVE OwnInv' /\ Spared
  BY <1>a, NoneTouched DEF OwnInv, NamesInv
<1>2. CASE Handle
  BY <1>2, HandleOwn
<1>3. CASE RoundDue
  BY <1>1, <1>3, RoundOwn
<1>4. CASE Tick
  BY <1>a, <1>4 DEF Tick, registryVars, presetVars
<1>5. ASSUME NEW token, Dial(token) PROVE OwnInv' /\ Spared
  <2>1. /\ UNCHANGED <<sessions, bridges, running>>
        /\ requests' = Append(requests, Login(token, NoBridge))
    BY <1>5 DEF Dial, Send, coordinatorVars, registryVars, presetVars
  <2>2. NamesItsPreset(Login(token, NoBridge))
    BY DEF NamesItsPreset, Login, Request
  <2> QED BY <1>1, <2>1, <2>2, SentOwn
<1>6. ASSUME NEW c, SayReady(c) \/ Speak(c) \/ Leave(c) PROVE OwnInv' /\ Spared
  <2>1. PICK ask : /\ ask \in {"Ready", "Touch", "Gone"}
                   /\ requests' = Append(requests, From(ask, c))
                   /\ UNCHANGED <<sessions, bridges, running>>
    BY <1>6 DEF SayReady, Speak, Leave, Send, coordinatorVars, registryVars, presetVars
  <2>2. NamesItsPreset(From(ask, c))
    BY <2>1 DEF NamesItsPreset, From, Request
  <2> QED BY <1>1, <2>1, <2>2, SentOwn
<1>7. ASSUME NEW c, DayPasses(c) PROVE OwnInv' /\ Spared
  <2>1. /\ DOMAIN sessions' = DOMAIN sessions /\ UNCHANGED <<bridges, running, requests>>
        /\ \A s \in DOMAIN sessions :
             sessions'[s] \in {sessions[s], [sessions[s] EXCEPT !.idle = TRUE]}
    BY <1>7 DEF DayPasses, presetVars
  <2>2. \A s \in DOMAIN sessions : sessions'[s].identity = sessions[s].identity
    BY <1>1, <2>1, SilenceKeepsToken
  <2> QED BY <2>1, <2>2, NoneAsked DEF OwnInv, NamesInv
<1>8. ASSUME NEW c, CloseSocket(c) PROVE OwnInv' /\ Spared
  BY <1>a, <1>8 DEF CloseSocket, coordinatorVars, registryVars, presetVars
<1>9. ASSUME NEW g, GameOver(g) \/ BackoffOver(g) PROVE OwnInv' /\ Spared
  BY <1>a, <1>9 DEF GameOver, BackoffOver, coordinatorVars, registryVars, presetVars
<1>10. ASSUME NEW b, BridgeNext(b) PROVE OwnInv' /\ Spared
  <2>1. CASE BridgeLogsIn(b)
    BY <1>1, <2>1, BridgeLogsInOwn
  <2>2. CASE BridgeEnds(b)
    <3>1. bridges' = Without(bridges, {b}) /\ UNCHANGED <<sessions, running, requests>>
      BY <2>2 DEF BridgeEnds, coordinatorVars, registryVars, presetVars
    <3> QED BY <3>1, BridgeEndsOwn DEF OwnInv, NamesInv
  <2> QED BY <1>10, <2>1, <2>2 DEF BridgeNext, BridgeStops, BridgeLosesConnection, BridgeDies
<1>11. CASE UNCHANGED vars
  BY <1>a, <1>11 DEF vars, registryVars, presetVars
<1> QED BY <1>2, <1>3, <1>4, <1>5, <1>6, <1>7, <1>8, <1>9, <1>10, <1>11 DEF Next, ConnNext

\* At the start nobody has logged in.
LEMMA OwnInit == Init => OwnInv
<1> SUFFICES ASSUME Init PROVE OwnInv
  OBVIOUS
<1> DEFINE name(p) == <<p, CHOOSE n \in Names : \A m \in Names : n <= m>>
<1>1. /\ DOMAIN sessions = {} /\ DOMAIN requests = {}
      /\ running = [p \in Residents |-> name(p)]
      /\ bridges = [b \in {name(p) : p \in Residents} |-> NewBridge(b[1])]
  BY DEF Init, Empty
<1>2. \A p : name(p)[1] = p /\ name(p) # NoBridge
  BY DEF NoBridge
<1> HIDE DEF name
<1>3. \A b \in DOMAIN bridges : b # NoBridge /\ Shaped(b, bridges[b])
  <2> SUFFICES ASSUME NEW b \in DOMAIN bridges PROVE b # NoBridge /\ Shaped(b, bridges[b])
    OBVIOUS
  <2>1. bridges[b] = Task(b[1], "handshake", NoSession, FALSE)
    BY <1>1 DEF NewBridge, Task
  <2>2. b # NoBridge
    BY <1>1, <1>2
  <2> QED BY <2>1, <2>2 DEF Shaped
<1>4. NamesInv
  BY <1>1, <1>2, <1>3 DEF NamesInv
<1> QED BY <1>1, <1>4 DEF OwnInv, BridgeSessions

\* Nobody in a game once a step is done is asked to stop by it: a Ready stops the
\* preset it takes out of a game, and a round stops neither who plays nor whom it has
\* just paired (NoPlayerIsStopped: server.rs ready, stop_unwanted and run_round,
\* presets.rs plan and stop).
THEOREM PlayersAreSpared == Spec => NoPlayerIsStopped
<1>1. OwnInv /\ Registry /\ [Next]_vars => OwnInv' /\ Spared
  BY OwnNext
<1>2. Spared /\ [Next]_vars =>
        [\A b \in DOMAIN bridges \cap DOMAIN bridges' :
           bridges'[b].asked /\ ~bridges[b].asked /\ bridges'[b].session \in DOMAIN sessions'
             => sessions'[bridges'[b].session].playing = NoGame]_vars
  BY DEF Spared
<1> QED BY <1>1, <1>2, RegistryInit, RegistryNext, OwnInit, PTL DEF Spec, NoPlayerIsStopped

-----------------------------------------------------------------------------
(* What the pairings of a round charge *)

\* One step of Charged.
Left(engines, pairing, left) ==
    LET cost == SlotCost(engines, pairing) IN IF cost > left THEN left ELSE left - cost

\* f is Charged on the first n pairings.
Charges(engines, spare, pairs, n, f) ==
    /\ f = [k \in 0..n |-> f[k]] /\ f[0] = spare
    /\ \A k \in 1..n : f[k] = Left(engines, pairs[k], f[k - 1])

LEMMA ChargesExist ==
    ASSUME NEW engines, NEW spare, NEW pairs, NEW n \in Nat
    PROVE  \E f : Charges(engines, spare, pairs, n, f)
<1> DEFINE S == {m \in Nat : \E f : Charges(engines, spare, pairs, m, f)}
<1>1. 0 \in S
  <2>1. Charges(engines, spare, pairs, 0, [k \in 0..0 |-> spare])
    BY DEF Charges
  <2> QED BY <2>1
<1>2. ASSUME NEW m \in Nat, m \in S PROVE m + 1 \in S
  <2>1. PICK f : Charges(engines, spare, pairs, m, f)
    BY <1>2
  <2> DEFINE g == [k \in 0..m + 1 |-> IF k = m + 1 THEN Left(engines, pairs[m + 1], f[m]) ELSE f[k]]
  <2>2. /\ g = [k \in 0..m + 1 |-> g[k]] /\ g[0] = spare
        /\ g[m + 1] = Left(engines, pairs[m + 1], f[m])
        /\ \A k \in 0..m : g[k] = f[k]
    BY <2>1 DEF Charges
  <2> HIDE DEF g
  <2>3. ASSUME NEW k \in 1..m + 1 PROVE g[k] = Left(engines, pairs[k], g[k - 1])
    <3>1. CASE k = m + 1
      <4>1. k - 1 = m /\ m \in 0..m
        BY <3>1
      <4> QED BY <2>2, <3>1, <4>1
    <3>2. CASE k # m + 1
      <4>1. k \in 1..m /\ k \in 0..m /\ k - 1 \in 0..m
        BY <3>2
      <4> QED BY <2>1, <2>2, <4>1 DEF Charges
    <3> QED BY <3>1, <3>2
  <2>4. Charges(engines, spare, pairs, m + 1, g)
    BY <2>2, <2>3 DEF Charges
  <2> QED BY <2>4
<1> HIDE DEF S
<1>3. n \in S
  BY <1>1, <1>2, Induction
<1> QED BY <1>3 DEF S

LEMMA ChargedIs ==
    ASSUME NEW engines, NEW spare, NEW pairs, Len(pairs) \in Nat
    PROVE  Charges(engines, spare, pairs, Len(pairs), Charged(engines, spare, pairs))
<1> DEFINE n == Len(pairs)
           Body(f) == [k \in 0..n |-> IF k = 0 THEN spare
                         ELSE IF SlotCost(engines, pairs[k]) > f[k - 1] THEN f[k - 1]
                              ELSE f[k - 1] - SlotCost(engines, pairs[k])]
           left == CHOOSE f : f = Body(f)
<1>1. PICK g : Charges(engines, spare, pairs, n, g)
  BY ChargesExist
<1>2. g = Body(g)
  <2>1. g = [k \in 0..n |-> g[k]]
    BY <1>1 DEF Charges
  <2>2. ASSUME NEW k \in 0..n PROVE g[k] = Body(g)[k]
    <3>1. k # 0 => k \in 1..n
      OBVIOUS
    <3> QED BY <1>1, <3>1 DEF Charges, Left
  <2> QED BY <2>1, <2>2
<1>3. left = Body(left)
  BY <1>2
<1>4. Charged(engines, spare, pairs) = left
  BY DEF Charged
<1> HIDE DEF left, n
<1>5. Charges(engines, spare, pairs, n, left)
  <2>1. left = [k \in 0..n |-> left[k]] /\ 0 \in 0..n
    BY <1>3 DEF n
  <2>2. \A k \in 1..n : k \in 0..n /\ k # 0
    BY DEF n
  <2>3. \A k \in 0..n : left[k] = IF k = 0 THEN spare
                         ELSE IF SlotCost(engines, pairs[k]) > left[k - 1] THEN left[k - 1]
                              ELSE left[k - 1] - SlotCost(engines, pairs[k])
    BY <1>3
  <2> QED BY <2>1, <2>2, <2>3 DEF Charges, Left
<1> QED BY <1>4, <1>5 DEF n

\* The engines of a set of pairings that pay for a slot.
Takers(engines, pairings) == {i \in UNION pairings : TakesASlot(engines[i])}

\* Those of the pairings kept among the first k.
KeptUpTo(engines, pairs, left, k) ==
    {pairs[j] : j \in {j \in 1..k : SlotCost(engines, pairs[j]) <= left[j - 1]}}

\* One more set of engines pays what it costs.
LEMMA OneMorePays ==
    ASSUME NEW S, NEW T, NEW left \in Nat, NEW spare \in Nat,
           IsFiniteSet(S), IsFiniteSet(T), Cardinality(S) + left <= spare,
           Cardinality(T) <= left
    PROVE  /\ IsFiniteSet(S \cup T)
           /\ left - Cardinality(T) \in Nat
           /\ Cardinality(S \cup T) + (left - Cardinality(T)) <= spare
<1>1. IsFiniteSet(S \cup T)
      /\ Cardinality(S \cup T) = Cardinality(S) + Cardinality(T) - Cardinality(S \cap T)
  BY FS_Union
<1>2. IsFiniteSet(S \cap T)
  BY FS_Intersection
<1>3. PICK s, t, b, u : s = Cardinality(S) /\ t = Cardinality(T) /\ b = Cardinality(S \cap T)
                        /\ u = Cardinality(S \cup T)
  OBVIOUS
<1>4. s \in Nat /\ t \in Nat /\ b \in Nat
  BY <1>2, <1>3, FS_CardinalityType
<1>5. u = s + t - b /\ s + left <= spare /\ t <= left
  BY <1>1, <1>3
<1>6. left - t \in Nat /\ u + (left - t) <= spare
  BY <1>4, <1>5
<1> QED BY <1>1, <1>3, <1>6

\* The pairings kept charge no more than the slots there are.
LEMMA KeptWithin ==
    ASSUME NEW engines, NEW spare \in Nat, NEW pairs, Len(pairs) \in Nat,
           \A k \in 1..Len(pairs) : IsFiniteSet(pairs[k])
    PROVE  /\ IsFiniteSet(Takers(engines, Kept(engines, spare, pairs)))
           /\ Cardinality(Takers(engines, Kept(engines, spare, pairs))) <= spare
<1> DEFINE n == Len(pairs)
           f == Charged(engines, spare, pairs)
           kept(k) == KeptUpTo(engines, pairs, f, k)
           taking(k) == Takers(engines, kept(k))
           Good(k) == /\ f[k] \in Nat /\ IsFiniteSet(taking(k))
                      /\ Cardinality(taking(k)) + f[k] <= spare
           S == {k \in Nat : k <= n => Good(k)}
<1>1. Charges(engines, spare, pairs, n, f) /\ n \in Nat
  BY ChargedIs
<1>2. Kept(engines, spare, pairs) = kept(n)
  BY DEF Kept, KeptUpTo
<1> HIDE DEF n, f
<1>3. 0 \in S
  <2>1. f[0] = spare
    BY <1>1 DEF Charges
  <2>2. taking(0) = {}
    BY DEF Takers, KeptUpTo
  <2>3. IsFiniteSet(taking(0)) /\ Cardinality(taking(0)) = 0
    BY <2>2, FS_EmptySet
  <2> HIDE DEF taking
  <2>4. Good(0)
    BY <2>1, <2>3
  <2> QED BY <2>4
<1>4. ASSUME NEW k \in Nat, k \in S, k + 1 <= n PROVE Good(k + 1)
  <2>1. Good(k) /\ k + 1 \in 1..n
    BY <1>1, <1>4
  <2> DEFINE cost == SlotCost(engines, pairs[k + 1])
             more == {i \in pairs[k + 1] : TakesASlot(engines[i])}
  <2>2. f[k + 1] = IF cost > f[k] THEN f[k] ELSE f[k] - cost
    <3>1. (k + 1) - 1 = k
      OBVIOUS
    <3> QED BY <1>1, <2>1, <3>1 DEF Charges, Left
  <2>3. IsFiniteSet(more) /\ cost = Cardinality(more)
    <3>1. IsFiniteSet(pairs[k + 1])
      BY <2>1 DEF n
    <3> QED BY <3>1, FS_Subset DEF SlotCost
  <2>4. cost \in Nat
    BY <2>3, FS_CardinalityType
  <2>5. kept(k + 1) = kept(k) \cup IF cost <= f[k] THEN {pairs[k + 1]} ELSE {}
    <3>1. \A j \in 1..k + 1 : j \in 1..k \/ j = k + 1
      OBVIOUS
    <3>2. \A j \in 1..k : j \in 1..k + 1
      OBVIOUS
    <3>3. k + 1 \in 1..k + 1 /\ (k + 1) - 1 = k
      OBVIOUS
    <3> QED BY <3>1, <3>2, <3>3 DEF KeptUpTo
  <2>6. taking(k + 1) = IF cost <= f[k] THEN taking(k) \cup more ELSE taking(k)
    BY <2>5 DEF Takers
  <2> HIDE DEF cost, more, kept
  <2>7. CASE cost <= f[k]
    <3>1. f[k + 1] = f[k] - cost /\ taking(k + 1) = taking(k) \cup more
      BY <2>1, <2>2, <2>4, <2>6, <2>7
    <3>2. Cardinality(more) <= f[k]
      BY <2>3, <2>7
    <3>3. /\ IsFiniteSet(taking(k) \cup more) /\ f[k] - Cardinality(more) \in Nat
          /\ Cardinality(taking(k) \cup more) + (f[k] - Cardinality(more)) <= spare
      BY <2>1, <2>3, <3>2, OneMorePays
    <3> QED BY <2>3, <3>1, <3>3
  <2>8. CASE ~(cost <= f[k])
    <3>1. f[k + 1] = f[k] /\ taking(k + 1) = taking(k)
      BY <2>1, <2>2, <2>4, <2>6, <2>8
    <3> QED BY <2>1, <3>1
  <2> QED BY <2>7, <2>8
<1> HIDE DEF Good
<1>5. ASSUME NEW k \in Nat, k \in S PROVE k + 1 \in S
  BY <1>4, <1>5
<1> HIDE DEF S
<1>6. n \in S
  BY <1>1, <1>3, <1>5, Induction
<1> USE DEF S, Good
<1>7. Good(n)
  BY <1>1, <1>6
<1>8. PICK c : c = Cardinality(taking(n))
  OBVIOUS
<1>9. c \in Nat
  BY <1>7, <1>8, FS_CardinalityType
<1>10. c <= spare
  BY <1>7, <1>8, <1>9
<1> QED BY <1>2, <1>7, <1>8, <1>10

-----------------------------------------------------------------------------
(* What a round pairs *)

\* A pairing is two engines of the pool.
Pairs(engines, pairs) ==
    /\ Len(pairs) \in Nat
    /\ \A k \in 1..Len(pairs) : \E a, b \in DOMAIN engines : pairs[k] = {a, b}

LEMMA OrderedPairs ==
    ASSUME NEW engines, NEW members, members \subseteq DOMAIN engines, IsFiniteSet(members),
           NEW order \in SetToSeqs(members)
    PROVE  PairsOf(order) \in Seq(SUBSET DOMAIN engines) /\ Pairs(engines, PairsOf(order))
<1> DEFINE n == Cardinality(members)
           half == n \div 2
<1>1. n \in Nat
  BY FS_CardinalityType
<1>2. order \in [1..n -> members]
  BY DEF SetToSeqs
<1>3. Len(order) = n
  BY <1>1, <1>2, LenProperties
<1>4. PairsOf(order) = [k \in 1..half |-> {order[2 * k - 1], order[2 * k]}]
  BY <1>3 DEF PairsOf
<1> HIDE DEF n
<1>5. half \in Nat
  BY <1>1
<1>6. ASSUME NEW k \in 1..half PROVE order[2 * k - 1] \in DOMAIN engines /\ order[2 * k] \in DOMAIN engines
  <2>1. 2 * k - 1 \in 1..n /\ 2 * k \in 1..n
    BY <1>1
  <2> QED BY <1>2, <2>1
<1> HIDE DEF half
<1>7. PairsOf(order) \in [1..half -> SUBSET DOMAIN engines]
  BY <1>4, <1>6
<1>8. PairsOf(order) \in Seq(SUBSET DOMAIN engines) /\ Len(PairsOf(order)) = half
  BY <1>5, <1>7, LenProperties
<1> QED BY <1>4, <1>5, <1>6, <1>8 DEF Pairs

LEMMA RoundPairs ==
    ASSUME NEW engines, NEW unrated, NEW spare, IsFiniteSet(DOMAIN engines),
           NEW answer \in PairRound(engines, unrated, spare)
    PROVE  \E pairs : Pairs(engines, pairs) /\ answer.pairings = Kept(engines, spare, pairs)
<1> DEFINE preset == PresetHalf(engines) \ PairedHalf(engines)
           members == PairedHalf(engines)
           joined(half) ==
             IF half.left = {} \/ preset = {} THEN {half.pairs}
             ELSE LET alone == Some(half.left) IN
                  {Append(half.pairs, {alone, partner}) :
                     partner \in ClosestTo(engines, alone, preset, unrated)}
<1>1. PICK half \in PairPool(engines, members, unrated) : \E pairs \in joined(half) :
         answer = Answer(engines, Kept(engines, spare, pairs))
  BY DEF PairRound
<1>2. PICK pairs \in joined(half) : answer = Answer(engines, Kept(engines, spare, pairs))
  BY <1>1
<1>3. members \subseteq DOMAIN engines /\ preset \subseteq DOMAIN engines
  BY DEF PairedHalf, PresetHalf
<1>4. PICK left \in Leftovers(members) : \E order \in BestOrderings(engines, members \ left, unrated) :
         half = [pairs |-> PairsOf(order), left |-> left]
  BY DEF PairPool
<1>5. PICK order \in BestOrderings(engines, members \ left, unrated) :
         half = [pairs |-> PairsOf(order), left |-> left]
  BY <1>4
<1> HIDE DEF members, preset
<1>6. left \subseteq members
  BY DEF Leftovers
<1>7. order \in SetToSeqs(members \ left)
  BY DEF BestOrderings
<1>8. members \ left \subseteq DOMAIN engines /\ IsFiniteSet(members \ left)
  <2>1. members \ left \in SUBSET DOMAIN engines
    BY <1>3
  <2> QED BY <2>1, FS_Subset
<1>9. PICK most : most = PairsOf(order)
  OBVIOUS
<1>10. most \in Seq(SUBSET DOMAIN engines) /\ Pairs(engines, most)
  BY <1>7, <1>8, <1>9, OrderedPairs
<1>11. half.pairs = most /\ half.left = left
  BY <1>5, <1>9
<1>12. answer.pairings = Kept(engines, spare, pairs)
  BY <1>2 DEF Answer
<1>13. CASE half.left = {} \/ preset = {}
  <2>1. pairs = most
    BY <1>2, <1>11, <1>13
  <2> QED BY <1>10, <1>12, <2>1
<1>14. CASE ~(half.left = {} \/ preset = {})
  <2>1. PICK alone : alone = Some(left)
    OBVIOUS
  <2>2. alone \in left
    BY <1>11, <1>14, <2>1 DEF Some
  <2>3. PICK partner \in ClosestTo(engines, alone, preset, unrated) : pairs = Append(most, {alone, partner})
    BY <1>2, <1>11, <1>14, <2>1
  <2>4. partner \in DOMAIN engines /\ alone \in DOMAIN engines
    BY <1>3, <1>6, <2>2, <2>3 DEF ClosestTo
  <2>5. {alone, partner} \in SUBSET DOMAIN engines
    BY <2>4
  <2>6. /\ Len(pairs) = Len(most) + 1
        /\ \A k \in 1..Len(most) : pairs[k] = most[k]
        /\ pairs[Len(most) + 1] = {alone, partner}
    BY <1>10, <2>3, <2>5, AppendProperties
  <2>7. Len(most) \in Nat
    BY <1>10 DEF Pairs
  <2>8. ASSUME NEW k \in 1..Len(pairs) PROVE \E a, b \in DOMAIN engines : pairs[k] = {a, b}
    <3>1. k \in 1..Len(most) \/ k = Len(most) + 1
      BY <2>6, <2>7
    <3>2. CASE k \in 1..Len(most)
      BY <1>10, <2>6, <3>2 DEF Pairs
    <3>3. CASE k = Len(most) + 1
      BY <2>4, <2>6, <3>3
    <3> QED BY <3>1, <3>2, <3>3
  <2>9. Pairs(engines, pairs)
    BY <2>6, <2>7, <2>8 DEF Pairs
  <2> QED BY <1>12, <2>9
<1> QED BY <1>13, <1>14

\* What a round pairs charges no more slots than there are.
LEMMA RoundWithin ==
    ASSUME NEW engines, NEW unrated, NEW spare \in Nat, IsFiniteSet(DOMAIN engines),
           NEW answer \in PairRound(engines, unrated, spare)
    PROVE  /\ UNION answer.pairings \subseteq DOMAIN engines
           /\ IsFiniteSet(Takers(engines, answer.pairings))
           /\ Cardinality(Takers(engines, answer.pairings)) <= spare
<1>1. PICK pairs : Pairs(engines, pairs) /\ answer.pairings = Kept(engines, spare, pairs)
  BY RoundPairs
<1>2. \A k \in 1..Len(pairs) : IsFiniteSet(pairs[k]) /\ pairs[k] \subseteq DOMAIN engines
  <2> SUFFICES ASSUME NEW k \in 1..Len(pairs)
               PROVE  IsFiniteSet(pairs[k]) /\ pairs[k] \subseteq DOMAIN engines
    OBVIOUS
  <2>1. PICK a, b \in DOMAIN engines : pairs[k] = {a, b}
    BY <1>1 DEF Pairs
  <2>2. {a, b} \in SUBSET DOMAIN engines
    OBVIOUS
  <2> QED BY <2>1, <2>2, FS_Subset
<1>3. UNION answer.pairings \subseteq DOMAIN engines
  BY <1>1, <1>2 DEF Kept
<1> QED BY <1>1, <1>2, <1>3, KeptWithin DEF Pairs

-----------------------------------------------------------------------------
(* What a plan starts *)

\* A set of numbers up to a bound has a greatest one.
LEMMA Greatest ==
    ASSUME NEW n \in Nat, NEW T, T \subseteq 1..n, T # {}
    PROVE  \E x \in T : \A y \in T : y <= x
<1> DEFINE S == {n - y : y \in T}
<1>1. S \subseteq Nat /\ S # {}
  <2>1. \A y \in 1..n : n - y \in Nat
    OBVIOUS
  <2> QED BY <2>1
<1>2. PICK m \in S : \A k \in S : m <= k
  BY <1>1, Least
<1>3. PICK x \in T : m = n - x
  OBVIOUS
<1>4. ASSUME NEW y \in T PROVE y <= x
  <2>1. n - y \in S
    OBVIOUS
  <2>2. n - x <= n - y
    BY <1>2, <1>3, <2>1
  <2>3. x \in 1..n /\ y \in 1..n
    OBVIOUS
  <2> QED BY <2>2, <2>3
<1> QED BY <1>4

\* A set with one element more.
LEMMA OneMore ==
    ASSUME NEW S, IsFiniteSet(S), Cardinality(S) < 2, NEW x, NEW T, T \subseteq S \cup {x}
    PROVE  IsFiniteSet(T) /\ Cardinality(T) <= 2
<1>1. IsFiniteSet(S \cup {x})
      /\ Cardinality(S \cup {x}) = IF x \in S THEN Cardinality(S) ELSE Cardinality(S) + 1
  BY FS_AddElement
<1>2. T \in SUBSET (S \cup {x})
  OBVIOUS
<1>3. IsFiniteSet(T) /\ Cardinality(T) <= Cardinality(S \cup {x})
  BY <1>1, <1>2, FS_Subset
<1>4. PICK s, u, t : s = Cardinality(S) /\ u = Cardinality(S \cup {x}) /\ t = Cardinality(T)
  OBVIOUS
<1>5. s \in Nat /\ u \in Nat /\ t \in Nat
  BY <1>1, <1>3, <1>4, FS_CardinalityType
<1>6. u = s \/ u = s + 1
  BY <1>1, <1>4
<1>7. t <= 2
  BY <1>3, <1>4, <1>5, <1>6
<1> QED BY <1>3, <1>4, <1>7

Occupied(P) == {i \in DOMAIN P : OccupiesASlot(P[i])}

\* Together with what is occupied already, what a plan starts occupies no more than
\* the slots there are, if it starts anything.
LEMMA StartWithin ==
    ASSUME NEW externals, NEW P, NEW n \in Nat, DOMAIN P = 1..n,
           \A i \in 1..n : P[i].state \in PresetStates, Plan(externals, P).start # {}
    PROVE  /\ IsFiniteSet(Occupied(P) \cup Plan(externals, P).start)
           /\ Cardinality(Occupied(P) \cup Plan(externals, P).start) <= MaxPlaying
<1> DEFINE start == Plan(externals, P).start
           playing == Playing(P)
           free == IF Cardinality(playing) < MaxPlaying
                   THEN MaxPlaying - Cardinality(playing) ELSE 0
           chosen == IF externals = <<>>
                     THEN IF InState(P, "PlayingPreset") = {} /\ free >= 2
                          THEN CalibrationPair(P) ELSE {}
                     ELSE IF Odd(externals) THEN JoinsTheLeftover(externals, P, free)
                     ELSE {}
<1>1. start = (playing \cup chosen) \cap Startable(P)
  BY DEF Plan, Wanted
<1>2. \A i \in Startable(P) : i \in DOMAIN P /\ P[i].state = "Stopped" /\ P[i].kind = "OnDemand"
  BY DEF Startable, IsStartable
<1>3. \A i \in Startable(P) : i \notin playing
  BY <1>2 DEF Playing, IsPlaying
<1>4. start \subseteq chosen /\ start \subseteq Startable(P)
  BY <1>1, <1>3
<1>5. IsFiniteSet(playing) /\ Cardinality(playing) \in Nat
  <2>1. IsFiniteSet(1..n)
    BY FS_Interval
  <2>2. playing \in SUBSET (1..n)
    BY DEF Playing
  <2> QED BY <2>1, <2>2, FS_Subset, FS_CardinalityType
<1>6. \A i \in Occupied(P) : /\ i \in DOMAIN P
                             /\ i \notin playing => P[i].kind = "OnDemand" /\ P[i].state # "Stopped"
  BY DEF Occupied, OccupiesASlot, Playing
<1>7. PICK i0 \in start : i0 \in chosen /\ i0 \in Startable(P)
  BY <1>4
<1> HIDE DEF start
<1>8. CASE externals = <<>>
  <2>1. free >= 2 /\ chosen = CalibrationPair(P)
    BY <1>7, <1>8
  <2>2. playing = {}
    <3>1. PICK c : c = Cardinality(playing)
      OBVIOUS
    <3>2. c = 0
      BY <1>5, <2>1, <3>1 DEF MaxPlaying
    <3> QED BY <1>5, <3>1, <3>2, FS_EmptySet
  <2>3. start \subseteq 1..n
    BY <1>2, <1>4
  <2>4. PICK i \in start : \A j \in start : j <= i
    BY <1>7, <2>3, Greatest
  <2> DEFINE available == {j \in DOMAIN P : IsAvailable(P[j])}
             there(j) == P[j].state # "Stopped"
             before(j, k) == \/ there(j) /\ ~there(k)
                             \/ there(j) = there(k) /\ j < k
             lower == {j \in available : before(j, i)}
  <2>5. Cardinality(lower) < 2
    <3>1. i \in CalibrationPair(P)
      BY <1>4, <2>1
    <3> QED BY <3>1 DEF CalibrationPair
  <2>6. IsFiniteSet(lower)
    <3>1. IsFiniteSet(1..n)
      BY FS_Interval
    <3>2. lower \in SUBSET (1..n)
      OBVIOUS
    <3> QED BY <3>1, <3>2, FS_Subset
  <2>7. \A j \in DOMAIN P : ~IsPlaying(P[j].state)
    BY <2>2 DEF Playing
  <2>8. i \in DOMAIN P /\ ~there(i)
    BY <1>2, <1>4
  <2>9. ASSUME NEW j \in Occupied(P) PROVE j \in lower
    <3>1. j \in DOMAIN P /\ there(j)
      BY <1>6, <2>2
    <3>2. IsAvailable(P[j])
      BY <2>7, <3>1 DEF IsAvailable
    <3> QED BY <2>8, <3>1, <3>2
  <2>10. ASSUME NEW j \in start, j # i PROVE j \in lower
    <3>1. j \in DOMAIN P /\ ~there(j) /\ P[j].kind = "OnDemand"
      BY <1>2, <1>4
    <3>2. IsAvailable(P[j])
      BY <2>7, <3>1 DEF IsAvailable, IsStartable
    <3>3. j < i
      <4>1. j \in 1..n /\ i \in 1..n /\ j <= i
        BY <2>3, <2>4
      <4> QED BY <2>10, <4>1
    <3> QED BY <2>8, <3>1, <3>2, <3>3
  <2> HIDE DEF lower
  <2>11. Occupied(P) \cup start \subseteq lower \cup {i}
    BY <2>9, <2>10
  <2> QED BY <2>5, <2>6, <2>11, OneMore DEF MaxPlaying, start
<1>9. CASE externals # <<>>
  <2>1. chosen = JoinsTheLeftover(externals, P, free)
    BY <1>7, <1>9
  <2>2. P[i0].state = "Stopped"
    BY <1>2, <1>7
  <2>3. InState(P, "Idle") = {}
    <3> SUFFICES ASSUME InState(P, "Idle") # {} PROVE FALSE
      OBVIOUS
    <3>1. i0 \in Closest(externals, P, InState(P, "Idle"))
      BY <1>7, <2>1 DEF JoinsTheLeftover
    <3>2. i0 \in InState(P, "Idle")
      BY <3>1 DEF Closest, FirstOf
    <3> QED BY <2>2, <3>2 DEF InState
  <2>4. InState(P, "Connecting") = {}
    <3> SUFFICES ASSUME InState(P, "Connecting") # {} PROVE FALSE
      OBVIOUS
    <3>1. i0 \in FirstOf(InState(P, "Connecting"))
      BY <1>7, <2>1, <2>3 DEF JoinsTheLeftover
    <3>2. i0 \in InState(P, "Connecting")
      BY <3>1 DEF FirstOf
    <3> QED BY <2>2, <3>2 DEF InState
  <2>5. free # 0 /\ chosen = Closest(externals, P, Startable(P))
    BY <1>7, <2>1, <2>3, <2>4 DEF JoinsTheLeftover
  <2>6. Cardinality(playing) < 2
    BY <2>5 DEF MaxPlaying
  <2>7. \A j \in Occupied(P) : j \in playing
    <3> SUFFICES ASSUME NEW j \in Occupied(P), j \notin playing PROVE FALSE
      OBVIOUS
    <3>1. j \in DOMAIN P /\ P[j].kind = "OnDemand" /\ P[j].state # "Stopped"
      BY <1>6
    <3>2. ~IsPlaying(P[j].state) /\ P[j].state # "Idle" /\ P[j].state # "Connecting"
      BY <2>3, <2>4, <3>1 DEF Playing, InState
    <3> QED BY <3>1, <3>2 DEF PresetStates, IsPlaying
  <2>8. \A j \in start : j = i0
    <3> SUFFICES ASSUME NEW j \in start PROVE j = i0
      OBVIOUS
    <3>1. j \in Closest(externals, P, Startable(P)) /\ i0 \in Closest(externals, P, Startable(P))
      BY <1>4, <1>7, <2>5
    <3>2. j <= i0 /\ i0 <= j
      BY <3>1 DEF Closest, FirstOf
    <3>3. j \in 1..n /\ i0 \in 1..n
      BY <1>2, <1>4
    <3> QED BY <3>2, <3>3
  <2> HIDE DEF playing
  <2>9. Occupied(P) \cup start \subseteq playing \cup {i0}
    BY <2>7, <2>8
  <2> QED BY <1>5, <2>6, <2>9, OneMore DEF MaxPlaying, start
<1> QED BY <1>8, <1>9

-----------------------------------------------------------------------------
(* The slots a round leaves *)

\* Rounds are no closer to each other than a stop takes.
RoundsApart == ~CloseRounds /\ IdleDelay > 0

\* The presets a slot is held for: those in a game, and of the on-demand ones those in
\* the book and those logged in, unless what lingers of them will be gone by then.
Charging ==
    PresetsPlaying \cup
    {p \in OnDemand : p \in DOMAIN running \/ (SessionOf(p) # {} /\ p \notin earlier)}

SlotsHold == Cardinality(Charging) <= MaxPlaying

Standing == StandingsOf(KeptUp \cup RoundPlan.start)
Spare    == IF Held(Standing) < MaxPlaying THEN MaxPlaying - Held(Standing) ELSE 0
Engines  == [k \in DOMAIN pool |-> Engine(pool[k])]

LEMMA RoundAnswers ==
    ASSUME RoundDue
    PROVE  \E answer \in PairRound(Engines, Unrated, Spare) :
             /\ Offer(answer.pairings, RoundPlan.abort)
             /\ running' = Without(NewBook.book, StoppingBy(answer.pairings))
BY DEF RoundDue, KeptUp, RoundPlan, Starting, NewBook, StoppingBy, Standing, Spare, Engines

LEMMA PresetsAre ==
    /\ Presets = 1..Len(Kinds) /\ Len(Kinds) \in Nat /\ IsFiniteSet(Presets)
<1>1. Kinds \in Seq(PresetKinds)
  BY LobbyAssumption
<1>2. DOMAIN Kinds = 1..Len(Kinds) /\ Len(Kinds) \in Nat
  BY <1>1, LenProperties
<1>3. IsFiniteSet(1..Len(Kinds))
  BY <1>2, FS_Interval
<1> QED BY <1>2, <1>3 DEF Presets

LEMMA ChargingIsFinite == IsFiniteSet(Charging) /\ Cardinality(Charging) \in Nat
<1>1. Charging \in SUBSET Presets
  BY DEF Charging, PresetsPlaying, OnDemand
<1> QED BY <1>1, PresetsAre, FS_Subset, FS_CardinalityType

\* The standing of a preset, by the session of its token.
LEMMA StandingIs ==
    ASSUME RegistryAgrees, NEW up, NEW p \in Presets
    PROVE  LET standing == StandingsOf(up)[p] IN
           /\ standing.kind = Kinds[p] /\ standing.state = PresetState(up, p)
           /\ standing.state \in PresetStates
           /\ standing.state = "Stopped" <=> (SessionOf(p) = {} /\ p \notin up)
           /\ IsPlaying(standing.state) <=> p \in PresetsPlaying
<1>1. StandingsOf(up)[p].kind = Kinds[p] /\ StandingsOf(up)[p].state = PresetState(up, p)
  BY DEF StandingsOf
<1>2. CASE SessionOf(p) = {}
  <2>1. PresetState(up, p) = IF p \in up THEN "Connecting" ELSE "Stopped"
    BY <1>2 DEF PresetState
  <2>2. p \notin PresetsPlaying
    BY <1>2 DEF PresetsPlaying
  <2> QED BY <1>1, <1>2, <2>1, <2>2 DEF PresetStates, IsPlaying
<1>3. CASE SessionOf(p) # {}
  <2>1. PICK s : s \in SessionOf(p)
    BY <1>3
  <2>2. SessionOf(p) = {s}
    BY <2>1 DEF SessionOf, RegistryAgrees
  <2>3. Some(SessionOf(p)) = s
    BY <2>2 DEF Some
  <2>4. PresetState(up, p) = IF ~InGame(s) THEN "Idle"
                             ELSE IF sessions[s].playing = presetGame THEN "PlayingPreset"
                             ELSE "PlayingExternal"
    BY <1>3, <2>3 DEF PresetState
  <2>5. p \in PresetsPlaying <=> InGame(s)
    BY <2>2 DEF PresetsPlaying
  <2> QED BY <1>1, <1>3, <2>4, <2>5 DEF PresetStates, IsPlaying
<1> QED BY <1>2, <1>3

\* Who occupies a slot: an on-demand preset that is up or logged in, any other in a game.
LEMMA OccupiedIs ==
    ASSUME RegistryAgrees, NEW up, NEW p
    PROVE  p \in Occupied(StandingsOf(up)) <=>
             \/ p \in OnDemand /\ (SessionOf(p) # {} \/ p \in up)
             \/ p \in PresetsPlaying
<1>1. DOMAIN StandingsOf(up) = Presets
  BY DEF StandingsOf
<1>2. CASE p \in Presets
  <2>1. /\ StandingsOf(up)[p].kind = Kinds[p]
        /\ StandingsOf(up)[p].state = "Stopped" <=> (SessionOf(p) = {} /\ p \notin up)
        /\ IsPlaying(StandingsOf(up)[p].state) <=> p \in PresetsPlaying
    BY <1>2, StandingIs
  <2>2. p \in PresetsPlaying => SessionOf(p) # {}
    BY DEF PresetsPlaying
  <2> QED BY <1>1, <1>2, <2>1, <2>2 DEF Occupied, OccupiesASlot, OnDemand
<1>3. CASE p \notin Presets
  BY <1>1, <1>3 DEF Occupied, OnDemand, PresetsPlaying
<1> QED BY <1>2, <1>3

\* The slots occupied once a round has started what it starts.
LEMMA OccupiedWithin ==
    ASSUME RegistryAgrees, SlotsHold, earlier = {}
    PROVE  /\ IsFiniteSet(Occupied(Standing))
           /\ Cardinality(Occupied(Standing)) <= MaxPlaying
<1> DEFINE start == RoundPlan.start
<1>1. \A p \in KeptUp : p \in OnDemand => p \in DOMAIN running
  BY DEF KeptUp, Restarting, Residents, OnDemand
<1>2. Occupied(Standing) \subseteq Occupied(StandingsOf(KeptUp)) \cup start
  BY OccupiedIs DEF Standing
<1>3. Occupied(Standing) \in SUBSET Presets
  BY DEF Occupied, Standing, StandingsOf
<1>4. IsFiniteSet(Occupied(Standing))
  BY <1>3, PresetsAre, FS_Subset
<1>5. CASE start = {}
  <2>1. Occupied(StandingsOf(KeptUp)) \subseteq Charging
    <3> SUFFICES ASSUME NEW p \in Occupied(StandingsOf(KeptUp)) PROVE p \in Charging
      OBVIOUS
    <3>1. \/ p \in OnDemand /\ (SessionOf(p) # {} \/ p \in KeptUp)
          \/ p \in PresetsPlaying
      BY OccupiedIs
    <3> QED BY <1>1, <3>1 DEF Charging
  <2>2. Occupied(Standing) \in SUBSET Charging
    BY <1>2, <1>5, <2>1
  <2>3. Cardinality(Occupied(Standing)) <= Cardinality(Charging)
    BY <2>2, ChargingIsFinite, FS_Subset
  <2>4. PICK o, c : o = Cardinality(Occupied(Standing)) /\ c = Cardinality(Charging)
    OBVIOUS
  <2>5. o \in Nat /\ c \in Nat /\ o <= c /\ c <= 2
    BY <1>4, <2>3, <2>4, ChargingIsFinite, FS_CardinalityType DEF SlotsHold, MaxPlaying
  <2>6. o <= 2
    BY <2>5
  <2> QED BY <1>4, <2>4, <2>6 DEF MaxPlaying
<1>6. CASE start # {}
  <2> DEFINE P == StandingsOf(KeptUp)
             both == Occupied(P) \cup start
  <2>1. DOMAIN P = 1..Len(Kinds) /\ Len(Kinds) \in Nat
    BY PresetsAre DEF StandingsOf
  <2>2. \A i \in 1..Len(Kinds) : P[i].state \in PresetStates
    BY PresetsAre, StandingIs
  <2> HIDE DEF P
  <2>3. start = Plan(WaitingExternals, P).start
    BY DEF RoundPlan, P
  <2>4. IsFiniteSet(both) /\ Cardinality(both) <= MaxPlaying
    BY <1>6, <2>1, <2>2, <2>3, StartWithin
  <2>5. Occupied(Standing) \in SUBSET both
    BY <1>2 DEF P
  <2>6. Cardinality(Occupied(Standing)) <= Cardinality(both)
    BY <2>4, <2>5, FS_Subset
  <2>7. PICK o, c : o = Cardinality(Occupied(Standing)) /\ c = Cardinality(both)
    OBVIOUS
  <2>8. o \in Nat /\ c \in Nat /\ o <= c /\ c <= 2
    BY <1>4, <2>4, <2>6, <2>7, FS_CardinalityType DEF MaxPlaying
  <2>9. o <= 2
    BY <2>8
  <2> QED BY <1>4, <2>7, <2>9 DEF MaxPlaying
<1> QED BY <1>4, <1>5, <1>6

\* Who is in a game after a round was so before it, or was paired by it.
LEMMA PlayersAfterOffer ==
    ASSUME Entries, NEW pairings, NEW abort, Offer(pairings, abort)
    PROVE  /\ DOMAIN sessions' = DOMAIN sessions
           /\ \A s \in DOMAIN sessions :
                /\ sessions'[s].identity = sessions[s].identity
                /\ InGame(s)' => InGame(s) \/ \E i \in UNION pairings : s = pool[i]
<1> DEFINE started == {{pool[i] : i \in pairing} : pairing \in pairings}
           joined(s) == {game \in started : s \in game}
<1>1. sessions' = [s \in DOMAIN sessions |->
                     IF joined(s) = {} THEN sessions[s]
                     ELSE [sessions[s] EXCEPT !.playing = Some(joined(s))]]
  BY DEF Offer
<1>2. ASSUME NEW s, joined(s) # {} PROVE \E i \in UNION pairings : s = pool[i]
  <2>1. PICK game \in started : s \in game
    BY <1>2
  <2>2. PICK pairing \in pairings : game = {pool[i] : i \in pairing}
    BY <2>1
  <2>3. PICK i \in pairing : s = pool[i]
    BY <2>1, <2>2
  <2> QED BY <2>3
<1> HIDE DEF started, joined
<1>3. ASSUME NEW s \in DOMAIN sessions
      PROVE  /\ sessions'[s].identity = sessions[s].identity
             /\ InGame(s)' => InGame(s) \/ \E i \in UNION pairings : s = pool[i]
  <2>1. PICK identity, playing, idle : sessions[s] = Entry(identity, playing, idle)
    BY DEF Entries
  <2>2. CASE joined(s) = {}
    BY <1>1, <2>2 DEF InGame
  <2>3. CASE joined(s) # {}
    <3>1. sessions'[s] = [sessions[s] EXCEPT !.playing = Some(joined(s))]
      BY <1>1, <2>3
    <3>2. sessions'[s] = Entry(identity, Some(joined(s)), idle)
      BY <2>1, <3>1, EntryFields
    <3> QED BY <1>2, <2>1, <2>3, <3>2, EntryFields
  <2> QED BY <2>2, <2>3
<1> QED BY <1>1, <1>3

\* A set no larger than another, when its elements are the images of that one's.
LEMMA ImageWithin ==
    ASSUME NEW S, IsFiniteSet(S), NEW f, DOMAIN f = S, f = [x \in S |-> f[x]]
    PROVE  /\ IsFiniteSet({f[x] : x \in S})
           /\ Cardinality({f[x] : x \in S}) <= Cardinality(S)
<1> DEFINE T == {f[x] : x \in S}
<1>1. f \in [S -> T]
  OBVIOUS
<1>2. \A t \in T : \E x \in S : f[x] = t
  OBVIOUS
<1> HIDE DEF T
<1>3. f \in Surjection(S, T)
  BY <1>1, <1>2 DEF Surjection
<1>4. IsFiniteSet(T) /\ Cardinality(T) <= Cardinality(S)
  BY <1>3, FS_Surjection
<1> QED BY <1>4 DEF T

\* A round leaves no more than the slots there are held.
LEMMA RoundSlots ==
    ASSUME Entries, RegistryAgrees, PoolInv, SlotsHold, earlier = {}, RoundDue
    PROVE  SlotsHold'
<1>1. PICK answer \in PairRound(Engines, Unrated, Spare) :
         /\ Offer(answer.pairings, RoundPlan.abort)
         /\ running' = Without(NewBook.book, StoppingBy(answer.pairings))
  BY RoundAnswers
<1> DEFINE pairings == answer.pairings
           taking == Takers(Engines, pairings)
           token == [i \in taking |-> sessions[pool[i]].identity]
           new == {token[i] : i \in taking}
           held == Occupied(Standing)
<1>2. /\ IsFiniteSet(held) /\ Cardinality(held) <= MaxPlaying /\ Held(Standing) = Cardinality(held)
  BY OccupiedWithin DEF Held, Occupied
<1>3. PICK h : h = Cardinality(held)
  OBVIOUS
<1>4. h \in Nat /\ h <= 2 /\ Spare = 2 - h /\ Spare \in Nat
  <2>1. h \in Nat /\ h <= 2
    BY <1>2, <1>3, FS_CardinalityType DEF MaxPlaying
  <2> QED BY <1>2, <1>3, <2>1 DEF Spare, MaxPlaying
<1>5. DOMAIN Engines = DOMAIN pool /\ IsFiniteSet(DOMAIN pool)
  <2>1. PICK T : pool \in Seq(T)
    BY DEF PoolInv
  <2>2. DOMAIN pool = 1..Len(pool) /\ Len(pool) \in Nat
    BY <2>1, LenProperties
  <2>3. IsFiniteSet(1..Len(pool))
    BY <2>2, FS_Interval
  <2> QED BY <2>2, <2>3 DEF Engines
<1>6. /\ UNION pairings \subseteq DOMAIN pool
      /\ IsFiniteSet(taking) /\ Cardinality(taking) <= Spare
  BY <1>4, <1>5, RoundWithin
<1> HIDE DEF pairings, taking
<1>7. IsFiniteSet(new) /\ Cardinality(new) <= Cardinality(taking)
  BY <1>6, ImageWithin
<1>8. \A i \in taking : sessions[pool[i]].identity \in new
  OBVIOUS
<1> HIDE DEF new, held
<1>9. DOMAIN running' \subseteq KeptUp \cup RoundPlan.start
  BY <1>1 DEF Without, NewBook, Started, Starting, KeptUp
<1>10. /\ DOMAIN sessions' = DOMAIN sessions
       /\ \A s \in DOMAIN sessions :
            /\ sessions'[s].identity = sessions[s].identity
            /\ InGame(s)' => InGame(s) \/ \E i \in UNION pairings : s = pool[i]
  BY <1>1, PlayersAfterOffer DEF pairings
<1>11. ASSUME NEW p \in Charging' PROVE p \in held \cup new
  <2>1. CASE p \in OnDemand /\ p \in DOMAIN running'
    <3>1. p \in KeptUp \cup RoundPlan.start
      BY <1>9, <2>1
    <3> QED BY <2>1, <3>1, OccupiedIs DEF held, Standing
  <2>2. CASE p \in PresetsPlaying'
    <3>1. PICK s \in DOMAIN sessions' : sessions'[s].identity = p /\ InGame(s)'
      BY <2>2 DEF PresetsPlaying, SessionOf
    <3>2. p \in Presets /\ s \in SessionOf(p)
      BY <1>10, <2>2, <3>1 DEF PresetsPlaying, SessionOf
    <3>3. CASE InGame(s)
      <4>1. p \in PresetsPlaying
        BY <3>2, <3>3 DEF PresetsPlaying
      <4> QED BY <4>1, OccupiedIs DEF held, Standing
    <3>4. CASE \E i \in UNION pairings : s = pool[i]
      <4>1. PICK i \in UNION pairings : s = pool[i]
        BY <3>4
      <4>2. CASE p \in OnDemand
        BY <3>2, <4>2, OccupiedIs DEF held, Standing
      <4>3. CASE p \notin OnDemand
        <5>1. i \in DOMAIN pool /\ sessions[pool[i]].identity = p
          BY <1>6, <3>2, <4>1 DEF SessionOf
        <5>2. Engines[i] = Engine(pool[i])
          BY <5>1 DEF Engines
        <5>3. Engine(pool[i]).preset /\ Engine(pool[i]).pays
          BY <3>2, <4>3, <5>1 DEF Engine, PaysOnPairing, OnDemand
        <5>4. i \in taking
          BY <4>1, <5>2, <5>3 DEF taking, Takers, TakesASlot
        <5> QED BY <1>8, <5>1, <5>4
      <4> QED BY <4>2, <4>3
    <3> QED BY <1>10, <3>1, <3>3, <3>4
  <2>3. CASE p \in OnDemand /\ SessionOf(p)' # {}
    <3>1. SessionOf(p) # {}
      BY <1>10, <2>3 DEF SessionOf
    <3> QED BY <2>3, <3>1, OccupiedIs DEF held, Standing
  <2> QED BY <2>1, <2>2, <2>3 DEF Charging
<1>12. IsFiniteSet(held \cup new)
       /\ Cardinality(held \cup new) = Cardinality(held) + Cardinality(new) - Cardinality(held \cap new)
  BY <1>2, <1>7, FS_Union
<1>13. IsFiniteSet(held \cap new)
  BY <1>2, FS_Intersection
<1>14. Charging' \in SUBSET (held \cup new)
  BY <1>11
<1>15. IsFiniteSet(Charging') /\ Cardinality(Charging') <= Cardinality(held \cup new)
  BY <1>12, <1>14, FS_Subset
<1>16. PICK c, u, b, n, t : /\ c = Cardinality(Charging') /\ u = Cardinality(held \cup new)
                            /\ b = Cardinality(held \cap new) /\ n = Cardinality(new)
                            /\ t = Cardinality(taking)
  OBVIOUS
<1>17. c \in Nat /\ u \in Nat /\ b \in Nat /\ n \in Nat /\ t \in Nat
  BY <1>6, <1>7, <1>12, <1>13, <1>15, <1>16, FS_CardinalityType
<1>18. c <= u /\ u = h + n - b /\ n <= t /\ t <= Spare
  BY <1>3, <1>6, <1>7, <1>12, <1>15, <1>16
<1>19. c <= 2
  BY <1>4, <1>17, <1>18
<1> QED BY <1>16, <1>19 DEF SlotsHold, MaxPlaying

-----------------------------------------------------------------------------
(* Logins and connections of the presets *)

\* A connection's entry is a record of its four fields.
Link(identity, owes, told, open) ==
    [identity |-> identity, owes |-> owes, told |-> told, open |-> open]

Linked == \A c \in DOMAIN conns : \E identity, owes, told, open :
              conns[c] = Link(identity, owes, told, open)

LEMMA LinkFields ==
    ASSUME NEW identity, NEW owes, NEW told, NEW open, NEW other
    PROVE  LET link == Link(identity, owes, told, open) IN
           /\ link.identity = identity /\ link.owes = owes
           /\ link.told = told /\ link.open = open
           /\ [link EXCEPT !.owes = other] = Link(identity, other, told, open)
           /\ [link EXCEPT !.told = other] = Link(identity, owes, other, open)
           /\ [link EXCEPT !.open = other] = Link(identity, owes, told, other)
BY DEF Link

\* The login of an on-demand preset comes from its bridge.
FromBridges ==
    \A k \in DOMAIN requests :
        requests[k].ask = "Login" /\ requests[k].identity \in OnDemand
          => requests[k].bridge # NoBridge

\* No two logins in the channel are of the same bridge.
LoginsApart ==
    \A j, k \in DOMAIN requests :
        requests[j].bridge = requests[k].bridge => j = k \/ requests[j].bridge = NoBridge

\* A bridge has no session until its login, sent once, is taken.
LoginsFresh ==
    \A b \in DOMAIN bridges :
        /\ bridges[b].phase = "handshake" => bridges[b].session = NoSession
        /\ \A k \in DOMAIN requests :
             requests[k].bridge = b => bridges[b].phase = "login" /\ bridges[b].session = NoSession

\* A bridge is the one its preset has in the book, or has been asked to stop.
Booked ==
    \A b \in DOMAIN bridges :
        bridges[b].asked \/ (b[1] \in DOMAIN running /\ running[b[1]] = b)

\* An on-demand preset is connected while its bridge lives.
Bridged ==
    \A s \in DOMAIN sessions :
        sessions[s].identity \in OnDemand /\ s \in DOMAIN conns /\ conns[s].open
          => \E b \in DOMAIN bridges : bridges[b].session = s

\* An on-demand preset logs in through its bridge alone.
OwnEnginesOnly == (Externals \cup HandRun) \cap OnDemand = {}

\* What the coordinator makes of the request it takes.
LEMMA HandleIs ==
    ASSUME FromSessions, Handle
    PROVE  LET r == Head(requests) IN
           /\ due > 0 /\ due' \in {due, IdleDelay}
           /\ requests # <<>> /\ requests' = Tail(requests)
           /\ \/ r.ask = "Login" /\ Reject(r.bridge)
              \/ r.ask = "Login" /\ Accept(r.identity, r.bridge, Holder(r.identity))
              \/ r = From("Touch", r.session) /\ Touch(r.session)
              \/ r = From("Ready", r.session) /\ Ready(r.session)
              \/ r = From("Gone", r.session) /\ Gone(r.session)
<1> DEFINE r == Head(requests)
<1>1. /\ due > 0 /\ requests # <<>> /\ requests' = Tail(requests)
      /\ \/ r.ask = "Login" /\ \E known : LogIn(r, known)
         \/ r.ask = "Touch" /\ Touch(r.session)
         \/ r.ask = "Ready" /\ Ready(r.session)
         \/ r.ask = "Gone" /\ Gone(r.session)
      /\ due' \in {due, IdleDelay}
  BY DEF Handle, NoteQuiet
<1>2. r.ask # "Login" => r = From(r.ask, r.session)
  BY <1>1, TakenFromSessions
<1> HIDE DEF r
<1>3. ASSUME NEW known, LogIn(r, known)
      PROVE  Reject(r.bridge) \/ Accept(r.identity, r.bridge, Holder(r.identity))
  BY <1>3 DEF LogIn, Holder
<1>4. \/ r.ask = "Login" /\ Reject(r.bridge)
      \/ r.ask = "Login" /\ Accept(r.identity, r.bridge, Holder(r.identity))
      \/ r = From("Touch", r.session) /\ Touch(r.session)
      \/ r = From("Ready", r.session) /\ Ready(r.session)
      \/ r = From("Gone", r.session) /\ Gone(r.session)
  BY <1>1, <1>2, <1>3
<1> QED BY <1>1, <1>4 DEF r

\* An accepted login replaces the holder by a session of its own, in no game.
Registered(id, token, killed) ==
    /\ DOMAIN sessions' = (DOMAIN sessions \ killed) \cup {id}
    /\ sessions'[id] = Entry(token, NoGame, FALSE)
    /\ \A s \in DOMAIN sessions \ killed : sessions'[s] = sessions[s]

Opened(id, token, open) ==
    /\ DOMAIN conns' = DOMAIN conns \cup {id} /\ id \notin DOMAIN conns
    /\ conns'[id] = Link(token, TRUE, FALSE, open)
    /\ \A c \in DOMAIN conns : \E told : conns'[c] = [conns[c] EXCEPT !.told = told]

LoggedIn(id, bridge) ==
    /\ DOMAIN bridges' = DOMAIN bridges
    /\ \A b \in DOMAIN bridges : bridges'[b] =
          IF b = bridge THEN [bridges[b] EXCEPT !.phase = "in", !.session = id] ELSE bridges[b]

LEMMA AcceptedIs ==
    ASSUME NEW token, NEW bridge, NEW killed, Accept(token, bridge, killed)
    PROVE  /\ running' = running
           /\ \E id \in FreshSession(token) :
                /\ Registered(id, token, killed)
                /\ Opened(id, token, bridge = NoBridge \/ bridge \in DOMAIN bridges)
                /\ LoggedIn(id, bridge)
<1>1. PICK id \in FreshSession(token) :
        /\ sessions' = Also(Without(sessions, killed), id,
                            [identity |-> token, playing |-> NoGame, idle |-> FALSE])
        /\ conns' = Also([c \in DOMAIN conns |-> [conns[c] EXCEPT !.told = @ \/ c \in killed]], id,
                         [identity |-> token, owes |-> TRUE, told |-> FALSE,
                          open |-> bridge = NoBridge \/ bridge \in DOMAIN bridges])
        /\ bridges' = [b \in DOMAIN bridges |->
                         IF b = bridge THEN [bridges[b] EXCEPT !.phase = "in", !.session = id]
                                       ELSE bridges[b]]
        /\ running' = running
  BY DEF Accept, presetVars
<1>2. id \notin DOMAIN sessions /\ id \notin DOMAIN conns
  BY DEF FreshSession, Fresh
<1>3. Registered(id, token, killed)
  BY <1>1, <1>2 DEF Also, Without, Entry, Registered
<1>4. PICK old : /\ old = [c \in DOMAIN conns |-> [conns[c] EXCEPT !.told = @ \/ c \in killed]]
                 /\ \A c \in DOMAIN conns : \E told : old[c] = [conns[c] EXCEPT !.told = told]
  <2> DEFINE old == [c \in DOMAIN conns |-> [conns[c] EXCEPT !.told = @ \/ c \in killed]]
  <2>1. \A c \in DOMAIN conns : old[c] = [conns[c] EXCEPT !.told = conns[c].told \/ c \in killed]
    OBVIOUS
  <2>2. \A c \in DOMAIN conns : \E told : old[c] = [conns[c] EXCEPT !.told = told]
    BY <2>1
  <2> QED BY <2>2
<1>5. /\ DOMAIN conns' = DOMAIN conns \cup {id}
      /\ conns'[id] = Link(token, TRUE, FALSE, bridge = NoBridge \/ bridge \in DOMAIN bridges)
      /\ \A c \in DOMAIN conns : conns'[c] = old[c]
  BY <1>1, <1>2, <1>4 DEF Also, Link
<1>6. \A c \in DOMAIN conns : \E told : conns'[c] = [conns[c] EXCEPT !.told = told]
  BY <1>4, <1>5
<1>7. Opened(id, token, bridge = NoBridge \/ bridge \in DOMAIN bridges)
  BY <1>2, <1>5, <1>6 DEF Opened
<1>8. LoggedIn(id, bridge)
  BY <1>1 DEF LoggedIn
<1> QED BY <1>1, <1>3, <1>7, <1>8

-----------------------------------------------------------------------------

\* A session back from its game leaves it, and its preset the book.
LEMMA ReadyIs ==
    ASSUME Entries, NEW id, Ready(id)
    PROVE  \/ UNCHANGED <<sessions, running, bridges, conns>>
           \/ /\ id \in DOMAIN sessions
              /\ DOMAIN sessions' = DOMAIN sessions /\ UNCHANGED conns
              /\ \A s \in DOMAIN sessions :
                   /\ sessions'[s].identity = sessions[s].identity
                   /\ InGame(s)' => InGame(s)
              /\ \E back \in SUBSET {sessions[id].identity} :
                   /\ running' = Without(running, back)
                   /\ bridges' = Asked(running, bridges, back)
<1>1. CASE id \notin DOMAIN sessions
  BY <1>1 DEF Ready, registryVars, presetVars
<1>2. CASE id \in DOMAIN sessions
  <2>1. /\ sessions' = [sessions EXCEPT ![id] = [sessions[id] EXCEPT !.playing = NoGame]]
        /\ UNCHANGED conns
        /\ \E back \in SUBSET {sessions[id].identity} :
              running' = Without(running, back) /\ bridges' = Asked(running, bridges, back)
    BY <1>2 DEF Ready
  <2>2. PICK identity, playing, idle : sessions[id] = Entry(identity, playing, idle)
    BY <1>2 DEF Entries
  <2>3. sessions'[id] = Entry(identity, NoGame, idle)
    BY <1>2, <2>1, <2>2, EntryFields
  <2>4. sessions'[id].identity = sessions[id].identity /\ sessions'[id].playing = NoGame
    BY <2>2, <2>3, EntryFields
  <2>5. DOMAIN sessions' = DOMAIN sessions /\ \A s \in DOMAIN sessions \ {id} : sessions'[s] = sessions[s]
    BY <2>1
  <2> QED BY <1>2, <2>1, <2>4, <2>5 DEF InGame
<1> QED BY <1>1, <1>2

\* A silence changes neither the token nor the game of a session.
LEMMA SilenceIs ==
    ASSUME Entries, NEW s, NEW idle,
           sessions' = [t \in DOMAIN sessions |->
              IF t = s THEN [sessions[t] EXCEPT !.idle = idle] ELSE sessions[t]]
    PROVE  /\ DOMAIN sessions' = DOMAIN sessions
           /\ \A t \in DOMAIN sessions : /\ sessions'[t].identity = sessions[t].identity
                                         /\ InGame(t)' => InGame(t)
<1>1. \A t \in DOMAIN sessions : sessions'[t] \in {sessions[t], [sessions[t] EXCEPT !.idle = idle]}
  OBVIOUS
<1>2. \A t \in DOMAIN sessions : /\ sessions'[t].playing = sessions[t].playing
                                 /\ sessions'[t].identity = sessions[t].identity
  BY <1>1, SilenceKeepsGame, SilenceKeepsToken
<1> QED BY <1>2 DEF InGame

\* What becomes of the tables in a step that is neither an accepted login nor a round: no
\* session enters them or a game, and no preset the book.
Quieter ==
    /\ \A s \in DOMAIN sessions' :
         /\ s \in DOMAIN sessions /\ sessions'[s].identity = sessions[s].identity
         /\ InGame(s)' => InGame(s)
    /\ \A p \in DOMAIN running' : p \in DOMAIN running /\ running'[p] = running[p]

LEMMA StepsAre ==
    ASSUME Entries, FromSessions, [Next]_vars
    PROVE  \/ Handle /\ Head(requests).ask = "Login"
              /\ Accept(Head(requests).identity, Head(requests).bridge, Holder(Head(requests).identity))
           \/ RoundDue
           \/ Quieter
<1>a. ASSUME UNCHANGED <<sessions, running>> PROVE Quieter
  BY <1>a DEF Quieter, InGame
<1>b. ASSUME DOMAIN sessions' = DOMAIN sessions, running' = running,
             \A t \in DOMAIN sessions : /\ sessions'[t].identity = sessions[t].identity
                                        /\ InGame(t)' => InGame(t)
      PROVE  Quieter
  BY <1>b DEF Quieter
<1>1. CASE Handle
  <2> DEFINE r == Head(requests)
  <2>0. \/ r.ask = "Login" /\ Reject(r.bridge)
        \/ r.ask = "Login" /\ Accept(r.identity, r.bridge, Holder(r.identity))
        \/ Touch(r.session) \/ Ready(r.session) \/ Gone(r.session)
    BY <1>1, HandleIs
  <2>1. CASE Reject(r.bridge)
    BY <1>a, <2>1 DEF Reject, registryVars, presetVars
  <2>2. CASE Touch(r.session)
    BY <1>b, <2>2, SilenceIs DEF Touch, presetVars
  <2>3. CASE Ready(r.session)
    <3>1. \A back : running' = Without(running, back) =>
             \A p \in DOMAIN running' : p \in DOMAIN running /\ running'[p] = running[p]
      BY DEF Without
    <3> HIDE DEF r
    <3> QED BY <1>a, <2>3, <3>1, ReadyIs DEF Quieter
  <2>4. CASE Gone(r.session)
    BY <2>4 DEF Gone, Without, presetVars, Quieter, InGame
  <2> QED BY <1>1, <2>0, <2>1, <2>2, <2>3, <2>4
<1>2. ASSUME NEW c, DayPasses(c) PROVE Quieter
  <2>1. sessions' = [t \in DOMAIN sessions |->
              IF t = c THEN [sessions[t] EXCEPT !.idle = TRUE] ELSE sessions[t]]
    BY <1>2 DEF DayPasses
  <2>2. running' = running
    BY <1>2 DEF DayPasses, presetVars
  <2> QED BY <1>b, <2>1, <2>2, SilenceIs
<1>3. ASSUME NEW c, SayReady(c) \/ Speak(c) \/ CloseSocket(c) \/ Leave(c) PROVE Quieter
  BY <1>a, <1>3 DEF SayReady, Speak, CloseSocket, Leave, coordinatorVars, registryVars, presetVars
<1>4. ASSUME NEW b, BridgeNext(b) PROVE Quieter
  BY <1>a, <1>4 DEF BridgeNext, BridgeLogsIn, BridgeStops, BridgeLosesConnection, BridgeDies,
     BridgeEnds, coordinatorVars, registryVars, presetVars
<1>5. ASSUME NEW g, Tick \/ Dial(g) \/ GameOver(g) \/ BackoffOver(g) PROVE Quieter
  BY <1>a, <1>5 DEF Tick, Dial, GameOver, BackoffOver, coordinatorVars, registryVars, presetVars
<1>6. CASE UNCHANGED vars
  BY <1>a, <1>6 DEF vars, registryVars, presetVars
<1> QED BY <1>1, <1>2, <1>3, <1>4, <1>5, <1>6 DEF Next, ConnNext

\* A step that holds no new slot.
LEMMA SlotsFrame ==
    ASSUME SlotsHold, Charging' \subseteq Charging
    PROVE  SlotsHold'
<1>1. Charging' \in SUBSET Charging
  OBVIOUS
<1>2. IsFiniteSet(Charging') /\ Cardinality(Charging') <= Cardinality(Charging)
  BY <1>1, ChargingIsFinite, FS_Subset
<1>3. PICK a, b : a = Cardinality(Charging') /\ b = Cardinality(Charging)
  OBVIOUS
<1>4. a \in Nat /\ b \in Nat /\ a <= b /\ b <= 2
  BY <1>2, <1>3, ChargingIsFinite, FS_CardinalityType DEF SlotsHold, MaxPlaying
<1>5. a <= 2
  BY <1>4
<1> QED BY <1>3, <1>5 DEF SlotsHold, MaxPlaying
-----------------------------------------------------------------------------
(* What the steps make of connections, requests and bridges *)

Sent(r) == requests' = Append(requests, r) /\ UNCHANGED <<sessions, running, bridges, due>>

\* The steps, by what they make of the channel and the bridges.
LEMMA StepKinds ==
    ASSUME [Next]_vars
    PROVE  \/ Handle
           \/ RoundDue
           \/ \E b \in DOMAIN bridges : BridgeLogsIn(b)
           \/ \E b \in DOMAIN bridges : BridgeEnds(b)
           \/ \E token \in Externals \cup HandRun :
                Sent(Login(token, NoBridge)) /\ UNCHANGED conns
           \/ \E c : \E ask \in {"Ready", "Touch"} :
                Sent(From(ask, c)) /\ DOMAIN conns' = DOMAIN conns
           \/ \E c : Sent(From("Gone", c)) /\ conns' = Without(conns, {c})
           \/ /\ UNCHANGED <<requests, running, bridges>>
              /\ DOMAIN conns' = DOMAIN conns
              /\ due' = due \/ Tick
<1>1. ASSUME NEW token \in Externals \cup HandRun, Dial(token)
      PROVE  Sent(Login(token, NoBridge)) /\ UNCHANGED conns
  BY <1>1 DEF Dial, Send, Sent, coordinatorVars, registryVars, presetVars, scheduleVars
<1>2. ASSUME NEW c, SayReady(c)
      PROVE  Sent(From("Ready", c)) /\ DOMAIN conns' = DOMAIN conns
  BY <1>2 DEF SayReady, Send, Sent, coordinatorVars, registryVars, presetVars, scheduleVars
<1>3. ASSUME NEW c, Speak(c)
      PROVE  Sent(From("Touch", c)) /\ DOMAIN conns' = DOMAIN conns
  BY <1>3 DEF Speak, Send, Sent, coordinatorVars, registryVars, presetVars, scheduleVars
<1>4. ASSUME NEW c, Leave(c) PROVE Sent(From("Gone", c)) /\ conns' = Without(conns, {c})
  BY <1>4 DEF Leave, Send, Sent, coordinatorVars, registryVars, presetVars, scheduleVars
<1>5. ASSUME NEW b, BridgeNext(b)
      PROVE  b \in DOMAIN bridges /\ (BridgeLogsIn(b) \/ BridgeEnds(b))
  BY <1>5 DEF BridgeNext, BridgeLogsIn, BridgeStops, BridgeLosesConnection, BridgeDies
<1>6. ASSUME NEW c, Tick \/ CloseSocket(c) \/ DayPasses(c) \/ GameOver(c) \/ BackoffOver(c)
                      \/ UNCHANGED vars
      PROVE  /\ UNCHANGED <<requests, running, bridges>>
             /\ DOMAIN conns' = DOMAIN conns
             /\ due' = due \/ Tick
  BY <1>6 DEF Tick, CloseSocket, DayPasses, GameOver, BackoffOver, vars, coordinatorVars,
     registryVars, presetVars, scheduleVars
<1> QED BY <1>1, <1>2, <1>3, <1>4, <1>5, <1>6 DEF Next, ConnNext

\* A connection's entry after one of its fields was set: it stays one, and is opened
\* by nothing.
Relinked(old, new) ==
    \E other :
        \/ new = old
        \/ new = [old EXCEPT !.owes = other]
        \/ new = [old EXCEPT !.told = other]
        \/ new = [old EXCEPT !.open = other] /\ (other => old.open)

LEMMA RelinkedIs ==
    ASSUME NEW old, NEW new, Relinked(old, new),
           \E identity, owes, told, open : old = Link(identity, owes, told, open)
    PROVE  /\ \E identity, owes, told, open : new = Link(identity, owes, told, open)
           /\ new.open => old.open
           /\ new.identity = old.identity
<1>1. PICK identity, owes, told, open : old = Link(identity, owes, told, open)
  OBVIOUS
<1>2. PICK other : \/ new = old
                   \/ new = [old EXCEPT !.owes = other]
                   \/ new = [old EXCEPT !.told = other]
                   \/ new = [old EXCEPT !.open = other] /\ (other => old.open)
  BY DEF Relinked
<1>3. old.open = open /\ old.identity = identity
  BY <1>1, LinkFields
<1>4. CASE new = old
  BY <1>1, <1>4
<1>5. CASE new = [old EXCEPT !.owes = other]
  <2>1. new = Link(identity, other, told, open)
    BY <1>1, <1>5, LinkFields
  <2> QED BY <1>3, <2>1, LinkFields
<1>6. CASE new = [old EXCEPT !.told = other]
  <2>1. new = Link(identity, owes, other, open)
    BY <1>1, <1>6, LinkFields
  <2> QED BY <1>3, <2>1, LinkFields
<1>7. CASE new = [old EXCEPT !.open = other] /\ (other => old.open)
  <2>1. new = Link(identity, owes, told, other)
    BY <1>1, <1>7, LinkFields
  <2>2. new.open = other /\ new.identity = identity
    BY <2>1, LinkFields
  <2> QED BY <1>3, <1>7, <2>1, <2>2
<1> QED BY <1>2, <1>4, <1>5, <1>6, <1>7

\* A connection is for one token.
Likewise ==
    \A c \in DOMAIN conns \cap DOMAIN conns' :
        (conns'[c].open => conns[c].open) /\ conns'[c].identity = conns[c].identity

\* No connection is opened but by the login that makes it.
LEMMA NextLinked ==
    ASSUME Linked, FromSessions, [Next]_vars
    PROVE  /\ Linked'
           /\ Likewise
<1>a. ASSUME \A c \in DOMAIN conns' : c \in DOMAIN conns /\ Relinked(conns[c], conns'[c])
      PROVE  /\ Linked'
             /\ Likewise
  BY <1>a, RelinkedIs DEF Linked, Likewise
<1>b. ASSUME UNCHANGED conns
      PROVE  \A c \in DOMAIN conns' : c \in DOMAIN conns /\ Relinked(conns[c], conns'[c])
  BY <1>b DEF Relinked
<1>1. CASE Handle
  <2> DEFINE r == Head(requests)
  <2>1. \/ Reject(r.bridge) \/ Accept(r.identity, r.bridge, Holder(r.identity))
        \/ Touch(r.session) \/ Ready(r.session) \/ Gone(r.session)
    BY <1>1, HandleIs
  <2>2. CASE UNCHANGED conns
    BY <1>a, <1>b, <2>2
  <2>3. ASSUME NEW token, NEW bridge, NEW killed, Accept(token, bridge, killed)
        PROVE  /\ Linked'
               /\ Likewise
    <3>1. PICK id, open : Opened(id, token, open)
      BY <2>3, AcceptedIs
    <3>2. ASSUME NEW c \in DOMAIN conns
          PROVE  /\ \E identity, owes, told, other : conns'[c] = Link(identity, owes, told, other)
                 /\ conns'[c].open => conns[c].open
                 /\ conns'[c].identity = conns[c].identity
      <4>1. Relinked(conns[c], conns'[c])
        BY <3>1 DEF Opened, Relinked
      <4> QED BY <4>1, RelinkedIs DEF Linked
    <3>3. \E identity, owes, told, other : conns'[id] = Link(identity, owes, told, other)
      BY <3>1 DEF Opened
    <3>4. DOMAIN conns' = DOMAIN conns \cup {id}
      BY <3>1 DEF Opened
    <3>5. \A c \in DOMAIN conns' :
             \E identity, owes, told, other : conns'[c] = Link(identity, owes, told, other)
      BY <3>2, <3>3, <3>4
    <3>6. Linked'
      BY <3>5 DEF Linked
    <3> QED BY <3>2, <3>6 DEF Likewise
  <2>4. Reject(r.bridge) \/ Touch(r.session) \/ Ready(r.session) \/ Gone(r.session)
          => UNCHANGED conns
    BY DEF Reject, Touch, Ready, Gone
  <2> HIDE DEF r
  <2> QED BY <2>1, <2>2, <2>3, <2>4
<1>2. CASE RoundDue
  BY <1>a, <1>b, <1>2, RoundIs
<1>3. CASE Tick \/ UNCHANGED vars \/ \E g : Dial(g) \/ Speak(g) \/ DayPasses(g)
             \/ BackoffOver(g) \/ BridgeLogsIn(g)
  BY <1>a, <1>b, <1>3 DEF Tick, Dial, Speak, DayPasses, BackoffOver, BridgeLogsIn, vars
<1>4. ASSUME NEW c, SayReady(c)
      PROVE  \A d \in DOMAIN conns' : d \in DOMAIN conns /\ Relinked(conns[d], conns'[d])
  <2>1. conns' = [conns EXCEPT ![c] = [conns[c] EXCEPT !.owes = FALSE]]
    BY <1>4 DEF SayReady
  <2>2. \A d \in DOMAIN conns' : d \in DOMAIN conns /\
           (conns'[d] = conns[d] \/ conns'[d] = [conns[d] EXCEPT !.owes = FALSE])
    BY <2>1
  <2> QED BY <2>2 DEF Relinked
<1>5. ASSUME NEW c, CloseSocket(c)
      PROVE  \A d \in DOMAIN conns' : d \in DOMAIN conns /\ Relinked(conns[d], conns'[d])
  <2>1. conns' = [conns EXCEPT ![c] = [conns[c] EXCEPT !.open = FALSE]]
    BY <1>5 DEF CloseSocket
  <2>2. \A d \in DOMAIN conns' : d \in DOMAIN conns /\
           (conns'[d] = conns[d] \/ conns'[d] = [conns[d] EXCEPT !.open = FALSE])
    BY <2>1
  <2> QED BY <2>2 DEF Relinked
<1>6. ASSUME NEW c, Leave(c)
      PROVE  \A d \in DOMAIN conns' : d \in DOMAIN conns /\ Relinked(conns[d], conns'[d])
  BY <1>6 DEF Leave, Without, Relinked
<1>7. ASSUME NEW g, GameOver(g)
      PROVE  \A d \in DOMAIN conns' : d \in DOMAIN conns /\ Relinked(conns[d], conns'[d])
  <2>1. \A d \in DOMAIN conns' : d \in DOMAIN conns /\
           \E other : conns'[d] = [conns[d] EXCEPT !.owes = other]
    BY <1>7 DEF GameOver
  <2> QED BY <2>1 DEF Relinked
<1>8. ASSUME NEW b, BridgeEnds(b)
      PROVE  \A d \in DOMAIN conns' : d \in DOMAIN conns /\ Relinked(conns[d], conns'[d])
  <2>1. \A d \in DOMAIN conns' : d \in DOMAIN conns /\
           conns'[d] = [conns[d] EXCEPT !.open = conns[d].open /\ d # bridges[b].session]
    BY <1>8 DEF BridgeEnds
  <2>2. \A d \in DOMAIN conns' : \E other :
           conns'[d] = [conns[d] EXCEPT !.open = other] /\ (other => conns[d].open)
    BY <2>1
  <2> QED BY <2>1, <2>2 DEF Relinked
<1>9. ASSUME NEW b, BridgeNext(b)
      PROVE  BridgeLogsIn(b) \/ BridgeEnds(b)
  BY <1>9 DEF BridgeNext, BridgeStops, BridgeLosesConnection, BridgeDies
<1> QED BY <1>a, <1>1, <1>2, <1>3, <1>4, <1>5, <1>6, <1>7, <1>8, <1>9 DEF Next, ConnNext

-----------------------------------------------------------------------------
(* A bridge logs in once *)

LEMMA BridgeOf ==
    ASSUME NEW ask, NEW session, NEW identity, NEW bridge
    PROVE  /\ From(ask, session).bridge = NoBridge
           /\ Login(identity, bridge).bridge = bridge
BY DEF From, Login, Request

LEMMA BridgeLogsInIs ==
    ASSUME NamesInv, NEW b, BridgeLogsIn(b)
    PROVE  /\ b \in DOMAIN bridges /\ DOMAIN bridges' = DOMAIN bridges
           /\ bridges[b].phase = "handshake" /\ bridges'[b].phase = "login"
           /\ bridges'[b].session = bridges[b].session /\ bridges'[b].asked = bridges[b].asked
           /\ \A c \in DOMAIN bridges \ {b} : bridges'[c] = bridges[c]
           /\ requests' = Append(requests, Login(b[1], b))
           /\ UNCHANGED <<sessions, running, conns, due>>
<1>1. /\ b \in DOMAIN bridges /\ bridges[b].phase = "handshake"
      /\ bridges' = [bridges EXCEPT ![b] = [bridges[b] EXCEPT !.phase = "login"]]
      /\ requests' = Append(requests, Login(bridges[b].preset, b))
      /\ UNCHANGED <<sessions, running, conns, due>>
  BY DEF BridgeLogsIn, Send, coordinatorVars, registryVars, presetVars, scheduleVars
<1>2. PICK phase, session, asked : bridges[b] = Task(b[1], phase, session, asked)
  BY <1>1 DEF NamesInv, Shaped
<1>3. bridges'[b] = Task(b[1], "login", session, asked)
  BY <1>1, <1>2, TaskFields
<1>4. /\ bridges[b].preset = b[1] /\ bridges'[b].phase = "login"
      /\ bridges'[b].session = bridges[b].session /\ bridges'[b].asked = bridges[b].asked
  BY <1>2, <1>3, TaskFields
<1> QED BY <1>1, <1>4

\* What a step makes of the channel.
LEMMA ChannelSteps ==
    ASSUME NamesInv, [Next]_vars
    PROVE  \/ UNCHANGED requests
           \/ Handle
           \/ \E r : /\ requests' = Append(requests, r)
                     /\ \/ /\ r.bridge = NoBridge
                           /\ r.ask = "Login" => r.identity \in Externals \cup HandRun
                        \/ r.bridge \in DOMAIN bridges /\ BridgeLogsIn(r.bridge)
<1>1. ASSUME NEW b \in DOMAIN bridges, BridgeLogsIn(b)
      PROVE  \E r : requests' = Append(requests, r) /\ r.bridge = b
  BY <1>1, BridgeLogsInIs, BridgeOf
<1>2. ASSUME NEW token \in Externals \cup HandRun, Sent(Login(token, NoBridge))
      PROVE  \E r : /\ requests' = Append(requests, r) /\ r.bridge = NoBridge
                    /\ r.ask = "Login" => r.identity \in Externals \cup HandRun
  <2>1. /\ Login(token, NoBridge).bridge = NoBridge
        /\ Login(token, NoBridge).identity = token
    BY BridgeOf, RequestFields
  <2> QED BY <1>2, <2>1 DEF Sent
<1>3. ASSUME NEW c, NEW ask \in {"Ready", "Touch", "Gone"}, Sent(From(ask, c))
      PROVE  \E r : /\ requests' = Append(requests, r) /\ r.bridge = NoBridge
                    /\ r.ask = "Login" => r.identity \in Externals \cup HandRun
  <2>1. From(ask, c).bridge = NoBridge /\ From(ask, c).ask # "Login"
    BY BridgeOf, RequestFields
  <2> QED BY <1>3, <2>1 DEF Sent
<1>4. RoundDue => UNCHANGED requests
  BY RoundIs
<1>5. \A b : BridgeEnds(b) => UNCHANGED requests
  BY DEF BridgeEnds
<1> QED BY <1>1, <1>2, <1>3, <1>4, <1>5, StepKinds

\* An on-demand preset that no client logs in on logs in through its bridge.
LEMMA NextFromBridges ==
    ASSUME OwnEnginesOnly, NamesInv, FromSessions, FromBridges, [Next]_vars
    PROVE  FromBridges'
<1>1. CASE UNCHANGED requests
  BY <1>1 DEF FromBridges
<1>2. CASE Handle
  <2>1. requests # <<>> /\ requests' = Tail(requests)
    BY <1>2 DEF Handle
  <2> QED BY <2>1, QueuedAfterTake DEF FromBridges
<1>3. ASSUME NEW r, requests' = Append(requests, r),
             \/ /\ r.bridge = NoBridge
                /\ r.ask = "Login" => r.identity \in Externals \cup HandRun
             \/ r.bridge \in DOMAIN bridges
      PROVE  FromBridges'
  <2>1. r.ask = "Login" /\ r.identity \in OnDemand => r.bridge # NoBridge
    BY <1>3 DEF OwnEnginesOnly, NamesInv
  <2> QED BY <1>3, <2>1, QueuedAfterSend DEF FromBridges
<1> QED BY <1>1, <1>2, <1>3, ChannelSteps

\* The places of what is left in a channel, and of what it had.
LEMMA PlacesAfterTake ==
    ASSUME FromSessions, requests # <<>>, requests' = Tail(requests)
    PROVE  /\ 1 \in DOMAIN requests /\ Head(requests) = requests[1]
           /\ \A k \in DOMAIN requests' :
                k + 1 \in DOMAIN requests /\ k + 1 # 1 /\ requests'[k] = requests[k + 1]
           /\ \A j, k \in DOMAIN requests' : j + 1 = k + 1 => j = k
<1>1. PICK T : requests \in Seq(T)
  BY DEF FromSessions
<1>2. DOMAIN requests = 1..Len(requests) /\ Len(requests) \in Nat /\ Len(requests) > 0
  BY <1>1, LenProperties, EmptySeq
<1>3. Head(requests) = requests[1] /\ 1 \in DOMAIN requests
  BY <1>1, <1>2, HeadTailProperties
<1>4. /\ requests' \in Seq(T) /\ Len(requests') = Len(requests) - 1
      /\ \A k \in 1..Len(requests') : requests'[k] = requests[k + 1]
  BY <1>1, <1>2, HeadTailProperties
<1>5. DOMAIN requests' = 1..Len(requests') /\ Len(requests') \in Nat
  BY <1>4, LenProperties
<1>6. \A k \in DOMAIN requests' : k + 1 \in DOMAIN requests /\ k + 1 # 1 /\ k \in Nat
  BY <1>2, <1>4, <1>5
<1>7. \A j, k \in DOMAIN requests' : j + 1 = k + 1 => j = k
  BY <1>6
<1> QED BY <1>3, <1>4, <1>5, <1>6, <1>7

LEMMA PlacesAfterSend ==
    ASSUME FromSessions, NEW r, requests' = Append(requests, r)
    PROVE  \A k \in DOMAIN requests' :
              \/ k \in DOMAIN requests /\ requests'[k] = requests[k]
              \/ k = Len(requests) + 1 /\ requests'[k] = r
<1>1. PICK T : requests \in Seq(T)
  BY DEF FromSessions
<1>2. requests \in Seq(T \cup {r})
  BY <1>1
<1>3. /\ requests' \in Seq(T \cup {r}) /\ Len(requests') = Len(requests) + 1
      /\ \A i \in 1..Len(requests) : requests'[i] = requests[i]
      /\ requests'[Len(requests) + 1] = r
  BY <1>2, AppendProperties
<1>4. DOMAIN requests = 1..Len(requests) /\ DOMAIN requests' = 1..Len(requests')
      /\ Len(requests) \in Nat
  BY <1>2, <1>3, LenProperties
<1> QED BY <1>3, <1>4

LEMMA NextLoginsApart ==
    ASSUME NamesInv, FromSessions, LoginsApart, LoginsFresh, [Next]_vars
    PROVE  LoginsApart'
<1>1. CASE UNCHANGED requests
  BY <1>1 DEF LoginsApart
<1>2. CASE Handle
  <2>1. requests # <<>> /\ requests' = Tail(requests)
    BY <1>2 DEF Handle
  <2>2. SUFFICES ASSUME NEW j \in DOMAIN requests', NEW k \in DOMAIN requests',
                        requests'[j].bridge = requests'[k].bridge
                 PROVE  j = k \/ requests'[j].bridge = NoBridge
    BY DEF LoginsApart
  <2>3. /\ j + 1 \in DOMAIN requests /\ requests'[j] = requests[j + 1]
        /\ k + 1 \in DOMAIN requests /\ requests'[k] = requests[k + 1]
        /\ j + 1 = k + 1 => j = k
    BY <2>1, PlacesAfterTake
  <2> QED BY <2>2, <2>3 DEF LoginsApart
<1>3. ASSUME NEW r, requests' = Append(requests, r),
             r.bridge # NoBridge => r.bridge \in DOMAIN bridges /\ BridgeLogsIn(r.bridge)
      PROVE  LoginsApart'
  <2>1. r.bridge = NoBridge \/ \A k \in DOMAIN requests : requests[k].bridge # r.bridge
    BY <1>3, BridgeLogsInIs DEF LoginsFresh
  <2>2. \A k \in DOMAIN requests' :
              \/ k \in DOMAIN requests /\ requests'[k] = requests[k]
              \/ k = Len(requests) + 1 /\ requests'[k] = r
    BY <1>3, PlacesAfterSend
  <2> QED BY <2>1, <2>2 DEF LoginsApart
<1> QED BY <1>1, <1>2, <1>3, ChannelSteps

-----------------------------------------------------------------------------
(* The bridges *)

\* Asking leaves a bridge its phase and its session; one its preset has in the book
\* is in it afterwards, or has been asked.
LEMMA AskedIs ==
    ASSUME NEW book, NEW tasks, NEW stopping, \A b \in DOMAIN tasks : Shaped(b, tasks[b])
    PROVE  /\ DOMAIN Asked(book, tasks, stopping) = DOMAIN tasks
           /\ \A b \in DOMAIN tasks :
                LET asked == Asked(book, tasks, stopping)[b]
                    left  == Without(book, stopping) IN
                /\ asked.phase = tasks[b].phase /\ asked.session = tasks[b].session
                /\ tasks[b].asked => asked.asked
                /\ asked.asked => tasks[b].asked \/ \E p \in stopping \cap DOMAIN book : book[p] = b
                /\ b[1] \in DOMAIN book /\ book[b[1]] = b =>
                     asked.asked \/ (b[1] \in DOMAIN left /\ left[b[1]] = b)
<1>1. DOMAIN Asked(book, tasks, stopping) = DOMAIN tasks
  BY DEF Asked
<1>2. ASSUME NEW b \in DOMAIN tasks
      PROVE  LET asked == Asked(book, tasks, stopping)[b]
                 left  == Without(book, stopping) IN
             /\ asked.phase = tasks[b].phase /\ asked.session = tasks[b].session
             /\ tasks[b].asked => asked.asked
             /\ asked.asked => tasks[b].asked \/ \E p \in stopping \cap DOMAIN book : book[p] = b
             /\ b[1] \in DOMAIN book /\ book[b[1]] = b =>
                  asked.asked \/ (b[1] \in DOMAIN left /\ left[b[1]] = b)
  <2>1. PICK more :
          /\ Asked(book, tasks, stopping)[b] = [tasks[b] EXCEPT !.asked = @ \/ more]
          /\ more <=> \E p \in stopping \cap DOMAIN book : book[p] = b
    BY DEF Asked
  <2>2. PICK phase, session, asked : tasks[b] = Task(b[1], phase, session, asked)
    BY DEF Shaped
  <2>3. PICK now : now = (asked \/ more)
    OBVIOUS
  <2>4. tasks[b].phase = phase /\ tasks[b].session = session /\ tasks[b].asked = asked
    BY <2>2, TaskFields
  <2>5. Asked(book, tasks, stopping)[b] = Task(b[1], phase, session, now)
    BY <2>1, <2>2, <2>3, <2>4 DEF Task
  <2>6. /\ Asked(book, tasks, stopping)[b].phase = phase
        /\ Asked(book, tasks, stopping)[b].session = session
        /\ Asked(book, tasks, stopping)[b].asked = now
    BY <2>5, TaskFields
  <2>7. b[1] \in DOMAIN book /\ book[b[1]] = b =>
          more \/ (b[1] \in DOMAIN Without(book, stopping) /\ Without(book, stopping)[b[1]] = b)
    BY <2>1 DEF Without
  <2> QED BY <2>1, <2>3, <2>4, <2>6, <2>7
<1> QED BY <1>1, <1>2

\* What is up already is not started.
LEMMA StartingIs == \A p \in DOMAIN running \ Reaped : p \notin Starting
<1> SUFFICES ASSUME NEW p \in DOMAIN running \ Reaped PROVE p \notin Starting
  OBVIOUS
<1>1. p \notin Restarting
  BY DEF Restarting
<1>2. p \in KeptUp
  BY DEF KeptUp
<1>3. ASSUME NEW P, NEW externals
      PROVE  p \in Plan(externals, P).start => p \in DOMAIN P /\ P[p].state = "Stopped"
  BY DEF Plan, Startable, IsStartable
<1>4. DOMAIN StandingsOf(KeptUp) = Presets
      /\ (p \in Presets => StandingsOf(KeptUp)[p].state # "Stopped")
  BY <1>2 DEF StandingsOf, PresetState
<1>5. p \notin RoundPlan.start
  BY <1>3, <1>4 DEF RoundPlan
<1> QED BY <1>1, <1>5 DEF Starting

\* A name found for a bridge is not one a request in the channel goes by.
LEMMA FreshBridgeIsUnknown ==
    ASSUME NEW p, FreshBridge(p) # {}
    PROVE  \A k \in DOMAIN requests : requests[k].bridge # Some(FreshBridge(p))
<1>1. Some(FreshBridge(p)) \in FreshBridge(p)
  BY DEF Some
<1>2. Some(FreshBridge(p)) \notin {r.bridge : r \in Queued}
  BY <1>1 DEF FreshBridge, Fresh
<1> QED BY <1>2 DEF Queued

\* The bridges a round stops from, and the book: those there were keep their place in
\* it, and a new one has it.
LEMMA RoundTasks ==
    ASSUME NamesInv, RoundDue
    PROVE  /\ DOMAIN bridges \subseteq DOMAIN NewBook.tasks
           /\ \A b \in DOMAIN NewBook.tasks : Shaped(b, NewBook.tasks[b])
           /\ \A b \in DOMAIN bridges :
                /\ NewBook.tasks[b] = bridges[b]
                /\ b[1] \in DOMAIN running /\ running[b[1]] = b =>
                     b[1] \in DOMAIN NewBook.book /\ NewBook.book[b[1]] = b
           /\ \A b \in DOMAIN NewBook.tasks \ DOMAIN bridges :
                /\ NewBook.tasks[b] = Task(b[1], "handshake", NoSession, FALSE)
                /\ b[1] \in Starting
                /\ b[1] \in DOMAIN NewBook.book /\ NewBook.book[b[1]] = b
                /\ \A k \in DOMAIN requests : requests[k].bridge # b
<1> DEFINE name(p) == Some(FreshBridge(p))
           old == Without(running, Reaped)
<1>1. \A p \in Starting : name(p)[1] = p
  BY RoundIs, FreshBridgeIs
<1>2. \A p \in Starting : \A k \in DOMAIN requests : requests[k].bridge # name(p)
  BY RoundIs, FreshBridgeIsUnknown
<1> HIDE DEF name
<1>3. /\ NewBook.book = [p \in DOMAIN old \cup Starting |->
                           IF p \in Starting THEN name(p) ELSE old[p]]
      /\ NewBook.tasks = [b \in DOMAIN bridges \cup {name(p) : p \in Starting} |->
                            IF b \in DOMAIN bridges THEN bridges[b] ELSE NewBridge(b[1])]
  BY DEF NewBook, Started, name
<1>4. ASSUME NEW b \in DOMAIN bridges, b[1] \in DOMAIN running, running[b[1]] = b
      PROVE  b[1] \in DOMAIN NewBook.book /\ NewBook.book[b[1]] = b
  <2>1. b[1] \notin Reaped
    BY <1>4 DEF Reaped
  <2>2. b[1] \notin Starting
    BY <1>4, <2>1, StartingIs
  <2>3. b[1] \in DOMAIN old /\ old[b[1]] = b
    BY <1>4, <2>1 DEF Without
  <2> QED BY <1>3, <2>2, <2>3
<1> HIDE DEF old
<1>5. ASSUME NEW b \in DOMAIN NewBook.tasks \ DOMAIN bridges
      PROVE  /\ NewBook.tasks[b] = Task(b[1], "handshake", NoSession, FALSE)
             /\ b[1] \in Starting
             /\ b[1] \in DOMAIN NewBook.book /\ NewBook.book[b[1]] = b
             /\ \A k \in DOMAIN requests : requests[k].bridge # b
  <2>1. PICK p \in Starting : b = name(p)
    BY <1>3, <1>5
  <2>2. NewBook.tasks[b] = NewBridge(b[1])
    BY <1>3, <1>5
  <2>3. b[1] = p
    BY <1>1, <2>1
  <2>4. b[1] \in DOMAIN NewBook.book /\ NewBook.book[b[1]] = b
    BY <1>3, <2>1, <2>3
  <2>5. \A k \in DOMAIN requests : requests[k].bridge # b
    BY <1>2, <2>1
  <2> QED BY <2>2, <2>3, <2>4, <2>5 DEF NewBridge, Task
<1>6. \A b \in DOMAIN bridges : NewBook.tasks[b] = bridges[b]
  BY <1>3
<1>7. \A b \in DOMAIN NewBook.tasks : Shaped(b, NewBook.tasks[b])
  <2> SUFFICES ASSUME NEW b \in DOMAIN NewBook.tasks PROVE Shaped(b, NewBook.tasks[b])
    OBVIOUS
  <2>1. CASE b \in DOMAIN bridges
    BY <1>6, <2>1 DEF NamesInv
  <2>2. CASE b \notin DOMAIN bridges
    <3>1. NewBook.tasks[b] = Task(b[1], "handshake", NoSession, FALSE)
      BY <1>5, <2>2
    <3> QED BY <3>1 DEF Shaped
  <2> QED BY <2>1, <2>2
<1>8. DOMAIN bridges \subseteq DOMAIN NewBook.tasks
  BY <1>3
<1> QED BY <1>4, <1>5, <1>6, <1>7, <1>8

\* What a step makes of a bridge.
Goes(b) == /\ b \in DOMAIN bridges
           /\ bridges'[b].phase = bridges[b].phase /\ bridges'[b].session = bridges[b].session

Appears(b) == /\ RoundDue /\ b \notin DOMAIN bridges /\ UNCHANGED requests
              /\ bridges'[b].phase = "handshake" /\ bridges'[b].session = NoSession
              /\ \A k \in DOMAIN requests : requests[k].bridge # b

Enters(b) == /\ Handle /\ b \in DOMAIN bridges
             /\ Head(requests).bridge = b /\ bridges'[b].phase = "in"

\* An accepted login gives its bridge a session.
LEMMA LoggedInIs ==
    ASSUME NamesInv, NEW id, NEW bridge, LoggedIn(id, bridge), NEW b \in DOMAIN bridges
    PROVE  /\ b # bridge => bridges'[b] = bridges[b]
           /\ b = bridge => /\ bridges'[b].phase = "in" /\ bridges'[b].session = id
                            /\ bridges'[b].asked = bridges[b].asked
<1>1. CASE b # bridge
  BY <1>1 DEF LoggedIn
<1>2. CASE b = bridge
  <2>1. PICK phase, session, asked : bridges[b] = Task(b[1], phase, session, asked)
    BY DEF NamesInv, Shaped
  <2>2. bridges'[b] = [[bridges[b] EXCEPT !.phase = "in"] EXCEPT !.session = id]
    BY <1>2 DEF LoggedIn
  <2>3. [bridges[b] EXCEPT !.phase = "in"] = Task(b[1], "in", session, asked)
    BY <2>1, TaskFields
  <2>4. [Task(b[1], "in", session, asked) EXCEPT !.session = id] = Task(b[1], "in", id, asked)
    BY TaskFields
  <2>5. bridges'[b] = Task(b[1], "in", id, asked)
    BY <2>2, <2>3, <2>4
  <2> QED BY <1>2, <2>1, <2>5, TaskFields
<1> QED BY <1>1, <1>2

LEMMA TaskSteps ==
    ASSUME NamesInv, Entries, FromSessions, [Next]_vars
    PROVE  \A b \in DOMAIN bridges' : Goes(b) \/ Appears(b) \/ BridgeLogsIn(b) \/ Enters(b)
<1> SUFFICES ASSUME NEW b \in DOMAIN bridges'
             PROVE  Goes(b) \/ Appears(b) \/ BridgeLogsIn(b) \/ Enters(b)
  OBVIOUS
<1>a. ASSUME UNCHANGED bridges PROVE Goes(b)
  BY <1>a DEF Goes
<1>1. CASE Handle
  <2> DEFINE r == Head(requests)
  <2>1. \/ Reject(r.bridge) \/ Accept(r.identity, r.bridge, Holder(r.identity))
        \/ Touch(r.session) \/ Ready(r.session) \/ Gone(r.session)
    BY <1>1, HandleIs
  <2> HIDE DEF r
  <2>2. Reject(r.bridge) => Goes(b)
    BY DEF Reject, Without, Goes
  <2>3. ASSUME NEW token, NEW killed, Accept(token, r.bridge, killed) PROVE Goes(b) \/ Enters(b)
    <3>1. PICK id : LoggedIn(id, r.bridge)
      BY <2>3, AcceptedIs
    <3>2. b \in DOMAIN bridges
      BY <3>1 DEF LoggedIn
    <3> QED BY <1>1, <3>1, <3>2, LoggedInIs DEF Goes, Enters, r
  <2>4. Touch(r.session) \/ Gone(r.session) => Goes(b)
    BY <1>a DEF Touch, Gone
  <2>5. ASSUME NEW s, Ready(s) PROVE Goes(b)
    <3>1. CASE UNCHANGED bridges
      BY <1>a, <3>1
    <3>2. ASSUME NEW back, bridges' = Asked(running, bridges, back) PROVE Goes(b)
      BY <3>2, AskedIs DEF Goes, NamesInv
    <3> QED BY <2>5, <3>1, <3>2, ReadyIs
  <2> QED BY <2>1, <2>2, <2>3, <2>4, <2>5
<1>2. CASE RoundDue
  <2>1. PICK pairings : bridges' = Asked(NewBook.book, NewBook.tasks, StoppingBy(pairings))
    BY <1>2, RoundIs
  <2>2. \A c \in DOMAIN NewBook.tasks : Shaped(c, NewBook.tasks[c])
    BY <1>2, RoundTasks
  <2>3. /\ b \in DOMAIN NewBook.tasks
        /\ bridges'[b].phase = NewBook.tasks[b].phase
        /\ bridges'[b].session = NewBook.tasks[b].session
    BY <2>1, <2>2, AskedIs
  <2>4. CASE b \in DOMAIN bridges
    BY <1>2, <2>3, <2>4, RoundTasks DEF Goes
  <2>5. CASE b \notin DOMAIN bridges
    <3>1. /\ NewBook.tasks[b] = Task(b[1], "handshake", NoSession, FALSE)
          /\ \A k \in DOMAIN requests : requests[k].bridge # b
      BY <1>2, <2>3, <2>5, RoundTasks
    <3>2. NewBook.tasks[b].phase = "handshake" /\ NewBook.tasks[b].session = NoSession
      BY <3>1 DEF Task
    <3>3. UNCHANGED requests
      BY <1>2, RoundIs
    <3> QED BY <1>2, <2>3, <2>5, <3>1, <3>2, <3>3 DEF Appears
  <2> QED BY <2>4, <2>5
<1>3. ASSUME NEW c \in DOMAIN bridges, BridgeLogsIn(c) PROVE Goes(b) \/ BridgeLogsIn(b)
  BY <1>3, BridgeLogsInIs DEF Goes
<1>4. ASSUME NEW c, BridgeEnds(c) PROVE Goes(b)
  BY <1>4 DEF BridgeEnds, Without, Goes
<1> QED BY <1>a, <1>1, <1>2, <1>3, <1>4, StepKinds DEF Sent

LEMMA NextLoginsFresh ==
    ASSUME NamesInv, Entries, FromSessions, LoginsApart, LoginsFresh, [Next]_vars
    PROVE  LoginsFresh'
<1> SUFFICES ASSUME NEW b \in DOMAIN bridges'
             PROVE  /\ bridges'[b].phase = "handshake" => bridges'[b].session = NoSession
                    /\ \A k \in DOMAIN requests' : requests'[k].bridge = b =>
                         bridges'[b].phase = "login" /\ bridges'[b].session = NoSession
  BY DEF LoginsFresh
<1>1. CASE BridgeLogsIn(b)
  BY <1>1, BridgeLogsInIs DEF LoginsFresh
<1>2. CASE Appears(b)
  BY <1>2 DEF Appears
<1>3. CASE Enters(b)
  <2>1. b # NoBridge
    BY <1>3 DEF Enters, NamesInv
  <2>2. requests # <<>> /\ requests' = Tail(requests)
    BY <1>3 DEF Enters, Handle
  <2>3. \A k \in DOMAIN requests' : requests'[k].bridge # b
    <3> SUFFICES ASSUME NEW k \in DOMAIN requests', requests'[k].bridge = b PROVE FALSE
      OBVIOUS
    <3>1. /\ 1 \in DOMAIN requests /\ Head(requests) = requests[1]
          /\ k + 1 \in DOMAIN requests /\ k + 1 # 1 /\ requests'[k] = requests[k + 1]
      BY <2>2, PlacesAfterTake
    <3>2. requests[1].bridge = b /\ requests[k + 1].bridge = b
      BY <1>3, <3>1 DEF Enters
    <3> QED BY <2>1, <3>1, <3>2 DEF LoginsApart
  <2> QED BY <1>3, <2>3 DEF Enters
<1>4. CASE Goes(b) /\ ~BridgeLogsIn(b)
  <2>0. b # NoBridge
    BY <1>4 DEF Goes, NamesInv
  <2>1. ASSUME NEW k \in DOMAIN requests', requests'[k].bridge = b
        PROVE  \E j \in DOMAIN requests : requests[j].bridge = b
    <3>1. CASE UNCHANGED requests
      BY <2>1, <3>1
    <3>2. CASE Handle
      <4>1. requests # <<>> /\ requests' = Tail(requests)
        BY <3>2 DEF Handle
      <4> QED BY <2>1, <4>1, QueuedAfterTake
    <3>3. ASSUME NEW r, requests' = Append(requests, r),
                 r.bridge = NoBridge \/ BridgeLogsIn(r.bridge)
          PROVE  \E j \in DOMAIN requests : requests[j].bridge = b
      <4>1. r.bridge # b
        BY <1>4, <2>0, <3>3
      <4> QED BY <2>1, <3>3, <4>1, QueuedAfterSend
    <3> QED BY <3>1, <3>2, <3>3, ChannelSteps
  <2> QED BY <1>4, <2>1 DEF Goes, LoginsFresh
<1> QED BY <1>1, <1>2, <1>3, <1>4, TaskSteps

\* A bridge stays in the book of its preset until it is asked to stop.
LEMMA NextBooked ==
    ASSUME NamesInv, Entries, FromSessions, Booked, [Next]_vars
    PROVE  Booked'
<1> SUFFICES ASSUME NEW b \in DOMAIN bridges'
             PROVE  bridges'[b].asked \/ (b[1] \in DOMAIN running' /\ running'[b[1]] = b)
  BY DEF Booked
<1>a. ASSUME b \in DOMAIN bridges, bridges'[b].asked = bridges[b].asked, running' = running
      PROVE  bridges'[b].asked \/ (b[1] \in DOMAIN running' /\ running'[b[1]] = b)
  BY <1>a DEF Booked
<1>1. CASE Handle
  <2> DEFINE r == Head(requests)
  <2>1. \/ Reject(r.bridge) \/ Accept(r.identity, r.bridge, Holder(r.identity))
        \/ Touch(r.session) \/ Ready(r.session) \/ Gone(r.session)
    BY <1>1, HandleIs
  <2> HIDE DEF r
  <2>2. CASE Reject(r.bridge)
    BY <1>a, <2>2 DEF Reject, Without, presetVars
  <2>3. ASSUME NEW token, NEW killed, Accept(token, r.bridge, killed)
        PROVE  bridges'[b].asked \/ (b[1] \in DOMAIN running' /\ running'[b[1]] = b)
    <3>1. PICK id : LoggedIn(id, r.bridge)
      BY <2>3, AcceptedIs
    <3>2. b \in DOMAIN bridges
      BY <3>1 DEF LoggedIn
    <3>3. bridges'[b].asked = bridges[b].asked
      BY <3>1, <3>2, LoggedInIs
    <3>4. running' = running
      BY <2>3, AcceptedIs
    <3> QED BY <1>a, <3>2, <3>3, <3>4
  <2>4. CASE Touch(r.session) \/ Gone(r.session)
    BY <1>a, <2>4 DEF Touch, Gone, presetVars
  <2>5. ASSUME NEW s, Ready(s)
        PROVE  bridges'[b].asked \/ (b[1] \in DOMAIN running' /\ running'[b[1]] = b)
    <3>1. CASE UNCHANGED <<running, bridges>>
      BY <1>a, <3>1
    <3>2. ASSUME NEW back, running' = Without(running, back),
                 bridges' = Asked(running, bridges, back)
          PROVE  bridges'[b].asked \/ (b[1] \in DOMAIN running' /\ running'[b[1]] = b)
      <4>1. \A c \in DOMAIN bridges : Shaped(c, bridges[c])
        BY DEF NamesInv
      <4>2. /\ b \in DOMAIN bridges
            /\ bridges[b].asked => bridges'[b].asked
            /\ b[1] \in DOMAIN running /\ running[b[1]] = b =>
                 bridges'[b].asked \/ (b[1] \in DOMAIN running' /\ running'[b[1]] = b)
        BY <3>2, <4>1, AskedIs
      <4> QED BY <4>2 DEF Booked
    <3> QED BY <2>5, <3>1, <3>2, ReadyIs
  <2> QED BY <2>1, <2>2, <2>3, <2>4, <2>5
<1>2. CASE RoundDue
  <2>1. PICK pairings : /\ running' = Without(NewBook.book, StoppingBy(pairings))
                        /\ bridges' = Asked(NewBook.book, NewBook.tasks, StoppingBy(pairings))
    BY <1>2, RoundIs
  <2>2. \A c \in DOMAIN NewBook.tasks : Shaped(c, NewBook.tasks[c])
    BY <1>2, RoundTasks
  <2>3. /\ b \in DOMAIN NewBook.tasks
        /\ NewBook.tasks[b].asked => bridges'[b].asked
        /\ b[1] \in DOMAIN NewBook.book /\ NewBook.book[b[1]] = b =>
             bridges'[b].asked \/ (b[1] \in DOMAIN running' /\ running'[b[1]] = b)
    BY <2>1, <2>2, AskedIs
  <2>4. NewBook.tasks[b].asked \/ (b[1] \in DOMAIN NewBook.book /\ NewBook.book[b[1]] = b)
    BY <1>2, <2>3, RoundTasks DEF Booked
  <2> QED BY <2>3, <2>4
<1>3. ASSUME NEW c \in DOMAIN bridges, BridgeLogsIn(c)
      PROVE  bridges'[b].asked \/ (b[1] \in DOMAIN running' /\ running'[b[1]] = b)
  <2>1. b \in DOMAIN bridges /\ bridges'[b].asked = bridges[b].asked /\ running' = running
    BY <1>3, BridgeLogsInIs
  <2> QED BY <1>a, <2>1
<1>4. ASSUME NEW c, BridgeEnds(c)
      PROVE  bridges'[b].asked \/ (b[1] \in DOMAIN running' /\ running'[b[1]] = b)
  BY <1>a, <1>4 DEF BridgeEnds, Without, coordinatorVars, presetVars
<1> QED BY <1>a, <1>1, <1>2, <1>3, <1>4, StepKinds DEF Sent

-----------------------------------------------------------------------------
(* A bridge and its connection *)

\* The bridge of a session stays until it ends.
LEMMA BridgeStays ==
    ASSUME NamesInv, Entries, FromSessions, LoginsFresh, [Next]_vars,
           NEW b \in DOMAIN bridges, bridges[b].session # NoSession
    PROVE  \/ b \in DOMAIN bridges' /\ bridges'[b].session = bridges[b].session
           \/ BridgeEnds(b)
<1>1. Handle => Head(requests).bridge # b
  <2> SUFFICES ASSUME Handle PROVE Head(requests).bridge # b
    OBVIOUS
  <2>1. requests # <<>> /\ requests' = Tail(requests)
    BY DEF Handle
  <2>2. 1 \in DOMAIN requests /\ Head(requests) = requests[1]
    BY <2>1, PlacesAfterTake
  <2> QED BY <2>2 DEF LoginsFresh
<1>2. b \in DOMAIN bridges' \/ BridgeEnds(b)
  <2>1. CASE Handle
    <3> DEFINE r == Head(requests)
    <3>1. \/ Reject(r.bridge) \/ Accept(r.identity, r.bridge, Holder(r.identity))
          \/ Touch(r.session) \/ Ready(r.session) \/ Gone(r.session)
      BY <2>1, HandleIs
    <3>2. r.bridge # b
      BY <1>1, <2>1
    <3> HIDE DEF r
    <3>3. Reject(r.bridge) => b \in DOMAIN bridges'
      BY <3>2 DEF Reject, Without
    <3>4. \A token, killed : Accept(token, r.bridge, killed) => b \in DOMAIN bridges'
      BY AcceptedIs DEF LoggedIn
    <3>5. Ready(r.session) => b \in DOMAIN bridges'
      BY ReadyIs DEF Asked
    <3> QED BY <3>1, <3>3, <3>4, <3>5 DEF Touch, Gone
  <2>2. CASE RoundDue
    <3>1. DOMAIN bridges \subseteq DOMAIN bridges'
      BY <2>2, RoundIs, RoundBridges
    <3> QED BY <3>1
  <2>3. \A c : BridgeLogsIn(c) => b \in DOMAIN bridges'
    BY BridgeLogsInIs
  <2>4. \A c : BridgeEnds(c) => b \in DOMAIN bridges' \/ c = b
    BY DEF BridgeEnds, Without
  <2> QED BY <2>1, <2>2, <2>3, <2>4, StepKinds DEF Sent
<1>3. CASE b \in DOMAIN bridges'
  <2>1. ~Appears(b) /\ ~Enters(b)
    BY <1>1 DEF Appears, Enters
  <2>2. BridgeLogsIn(b) => bridges'[b].session = bridges[b].session
    BY BridgeLogsInIs
  <2> QED BY <1>3, <2>1, <2>2, TaskSteps DEF Goes
<1> QED BY <1>2, <1>3

\* A bridge that ends closes the connection of its session.
LEMMA EndsClosed ==
    ASSUME Linked, NEW b, BridgeEnds(b), NEW c \in DOMAIN conns, c = bridges[b].session
    PROVE  ~conns'[c].open
<1>1. PICK shut : ~shut /\ conns'[c] = [conns[c] EXCEPT !.open = shut]
  BY DEF BridgeEnds
<1>2. PICK identity, owes, told, open : conns[c] = Link(identity, owes, told, open)
  BY DEF Linked
<1>3. conns'[c] = Link(identity, owes, told, shut)
  BY <1>1, <1>2, LinkFields
<1>4. conns'[c].open = shut
  BY <1>3, LinkFields
<1> QED BY <1>1, <1>4

\* Where the sessions and connections of the next state come from.
LEMMA ComesFrom ==
    ASSUME Entries, FromSessions, [Next]_vars, NEW s \in DOMAIN sessions'
    PROVE  \/ /\ s \in DOMAIN sessions /\ sessions'[s].identity = sessions[s].identity
              /\ s \in DOMAIN conns' => s \in DOMAIN conns
           \/ LET r == Head(requests) IN
              /\ Handle /\ r.ask = "Login" /\ sessions'[s].identity = r.identity
              /\ Opened(s, r.identity, r.bridge = NoBridge \/ r.bridge \in DOMAIN bridges)
              /\ LoggedIn(s, r.bridge)
<1> DEFINE r == Head(requests)
<1>1. CASE Handle /\ r.ask = "Login" /\ Accept(r.identity, r.bridge, Holder(r.identity))
  <2>1. PICK id \in FreshSession(r.identity) :
           /\ Registered(id, r.identity, Holder(r.identity))
           /\ Opened(id, r.identity, r.bridge = NoBridge \/ r.bridge \in DOMAIN bridges)
           /\ LoggedIn(id, r.bridge)
    BY <1>1, AcceptedIs
  <2>2. id \notin DOMAIN sessions
    BY FreshSessionIs
  <2> HIDE DEF r
  <2>3. sessions'[id].identity = r.identity
    BY <2>1 DEF Registered, Entry
  <2>4. CASE s = id
    BY <1>1, <2>1, <2>3, <2>4 DEF r
  <2>5. CASE s # id
    BY <2>1, <2>2, <2>5 DEF Registered, Opened
  <2> QED BY <2>4, <2>5
<1>2. CASE ~(Handle /\ r.ask = "Login" /\ Accept(r.identity, r.bridge, Holder(r.identity)))
  <2>1. s \in DOMAIN sessions /\ sessions'[s].identity = sessions[s].identity
    <3>1. RoundDue => s \in DOMAIN sessions /\ sessions'[s].identity = sessions[s].identity
      BY RoundIs, PlayersAfterOffer
    <3> QED BY <1>2, <3>1, StepsAre DEF Quieter
  <2>2. DOMAIN conns' \subseteq DOMAIN conns
    <3>1. Handle => UNCHANGED conns
      <4>1. Handle => \/ Reject(r.bridge) \/ Touch(r.session)
                      \/ Ready(r.session) \/ Gone(r.session)
        BY <1>2, HandleIs
      <4> HIDE DEF r
      <4> QED BY <4>1 DEF Reject, Touch, Ready, Gone
    <3>2. RoundDue => UNCHANGED conns
      BY RoundIs
    <3>3. \A b : BridgeLogsIn(b) \/ BridgeEnds(b) => DOMAIN conns' = DOMAIN conns
      BY DEF BridgeLogsIn, BridgeEnds
    <3> QED BY <3>1, <3>2, <3>3, StepKinds DEF Without
  <2> QED BY <2>1, <2>2
<1> QED BY <1>1, <1>2

\* The connection of an on-demand preset lives no longer than its bridge.
LEMMA NextBridged ==
    ASSUME NamesInv, Entries, FromSessions, Linked, FromBridges, LoginsFresh, Bridged,
           [Next]_vars
    PROVE  Bridged'
<1> SUFFICES ASSUME NEW s \in DOMAIN sessions', sessions'[s].identity \in OnDemand,
                    s \in DOMAIN conns', conns'[s].open
             PROVE  \E b \in DOMAIN bridges' : bridges'[b].session = s
  BY DEF Bridged
<1>1. CASE /\ s \in DOMAIN sessions /\ sessions'[s].identity = sessions[s].identity
           /\ s \in DOMAIN conns
  <2>1. conns[s].open
    BY <1>1, NextLinked DEF Likewise
  <2>2. PICK b \in DOMAIN bridges : bridges[b].session = s
    BY <1>1, <2>1 DEF Bridged
  <2>3. bridges[b].session # NoSession
    BY <1>1, <2>2 DEF NamesInv
  <2>4. ~BridgeEnds(b)
    BY <1>1, <2>2, EndsClosed
  <2> QED BY <2>2, <2>3, <2>4, BridgeStays
<1>2. ASSUME NEW r, r = Head(requests), Handle, r.ask = "Login",
             sessions'[s].identity = r.identity,
             Opened(s, r.identity, r.bridge = NoBridge \/ r.bridge \in DOMAIN bridges),
             LoggedIn(s, r.bridge)
      PROVE  \E b \in DOMAIN bridges' : bridges'[b].session = s
  <2>1. r.bridge # NoBridge
    <3>1. requests # <<>> /\ requests' = Tail(requests)
      BY <1>2 DEF Handle
    <3>2. 1 \in DOMAIN requests /\ r = requests[1]
      BY <1>2, <3>1, PlacesAfterTake
    <3> QED BY <1>2, <3>2 DEF FromBridges
  <2>2. r.bridge \in DOMAIN bridges
    <3>1. PICK open : open = (r.bridge = NoBridge \/ r.bridge \in DOMAIN bridges)
      OBVIOUS
    <3>2. conns'[s] = Link(r.identity, TRUE, FALSE, open)
      BY <1>2, <3>1 DEF Opened
    <3>3. conns'[s].open = open
      BY <3>2 DEF Link
    <3> QED BY <2>1, <3>1, <3>3
  <2>3. r.bridge \in DOMAIN bridges'
    BY <1>2, <2>2 DEF LoggedIn
  <2>4. bridges'[r.bridge].session = s
    BY <1>2, <2>2, LoggedInIs
  <2> QED BY <2>3, <2>4
<1> QED BY <1>1, <1>2, ComesFrom

-----------------------------------------------------------------------------
(* An on-demand preset comes in through one bridge *)

\* What bridges and connections keep, whatever a round decides.
BookInv ==
    /\ Linked /\ FromBridges /\ LoginsApart /\ LoginsFresh /\ Booked /\ Bridged

LEMMA BookInit == Init => BookInv
<1> SUFFICES ASSUME Init PROVE BookInv
  OBVIOUS
<1> DEFINE name(p) == <<p, CHOOSE n \in Names : \A m \in Names : n <= m>>
<1>1. /\ DOMAIN sessions = {} /\ DOMAIN conns = {} /\ DOMAIN requests = {}
      /\ running = [p \in Residents |-> name(p)]
      /\ bridges = [b \in {name(p) : p \in Residents} |-> NewBridge(b[1])]
  BY DEF Init, Empty
<1>2. \A p : name(p)[1] = p
  OBVIOUS
<1> HIDE DEF name
<1>3. Booked
  BY <1>1, <1>2 DEF Booked
<1>4. LoginsFresh
  BY <1>1 DEF LoginsFresh, NewBridge
<1> QED BY <1>1, <1>3, <1>4 DEF BookInv, Linked, FromBridges, LoginsApart, Bridged

LEMMA BookNext ==
    ASSUME OwnEnginesOnly
    PROVE  BookInv /\ Registry /\ OwnInv /\ [Next]_vars => BookInv'
<1> SUFFICES ASSUME BookInv, Registry, OwnInv, [Next]_vars PROVE BookInv'
  OBVIOUS
<1>1. Entries /\ FromSessions /\ NamesInv
  BY DEF Registry, OwnInv
<1>2. Linked /\ FromBridges /\ LoginsApart /\ LoginsFresh /\ Booked /\ Bridged
  BY DEF BookInv
<1>3. Linked'
  BY <1>1, <1>2, NextLinked
<1>4. FromBridges'
  BY <1>1, <1>2, NextFromBridges
<1>5. LoginsApart' /\ LoginsFresh'
  BY <1>1, <1>2, NextLoginsApart, NextLoginsFresh
<1>6. Booked'
  BY <1>1, <1>2, NextBooked
<1>7. Bridged'
  BY <1>1, <1>2, NextBridged
<1> QED BY <1>3, <1>4, <1>5, <1>6, <1>7 DEF BookInv

\* The bridges that are to log a preset in, or whose login is in the channel.
Coming(p) ==
    {b \in DOMAIN bridges : b[1] = p /\ bridges[b].phase = "handshake"} \cup
    {requests[k].bridge : k \in {k \in DOMAIN requests : /\ requests[k].ask = "Login"
                                                         /\ requests[k].identity = p}}

\* Who is coming is the process in the book, and comes to no session.
InOrder(p) ==
    /\ \A b \in Coming(p) : p \in DOMAIN running /\ running[p] = b
    /\ SessionOf(p) # {} => Coming(p) = {}

\* A preset of which nothing lingers is in order, and in the book when it is logged in.
Tidy ==
    \A p \in OnDemand : p \notin Lingering =>
        InOrder(p) /\ (SessionOf(p) # {} => p \in DOMAIN running)

\* So is one that has come to linger since the round was scheduled.
Orderly == \A p \in OnDemand \ earlier : InOrder(p)

LEMMA TidyFollows == BookInv /\ Registry /\ OwnInv => Tidy
<1> SUFFICES ASSUME BookInv, Registry, OwnInv, NEW p \in OnDemand, p \notin Lingering
             PROVE  InOrder(p) /\ (SessionOf(p) # {} => p \in DOMAIN running)
  BY DEF Tidy
<1>1. /\ FromBridges /\ LoginsFresh /\ Booked /\ Bridged /\ NamesInv /\ BridgeSessions
      /\ p \in Presets
  BY DEF BookInv, OwnInv, OnDemand
<1>2. /\ \A b \in DOMAIN bridges : bridges[b].preset = p => ~bridges[b].asked
      /\ \A k \in DOMAIN requests :
           requests[k].ask = "Login" /\ requests[k].identity = p /\ requests[k].bridge # NoBridge
             => requests[k].bridge \in DOMAIN bridges
      /\ \A s \in SessionOf(p) : s \in DOMAIN conns /\ ~conns[s].told /\ conns[s].open
  BY <1>1 DEF Lingering, Queued
<1>3. ASSUME NEW b \in DOMAIN bridges, b[1] = p
      PROVE  p \in DOMAIN running /\ running[p] = b
  <2>1. PICK phase, session, asked : bridges[b] = Task(b[1], phase, session, asked)
    BY <1>1 DEF NamesInv, Shaped
  <2>2. bridges[b].preset = p
    BY <1>3, <2>1, TaskFields
  <2> QED BY <1>1, <1>2, <1>3, <2>2 DEF Booked
<1>4. ASSUME NEW b \in Coming(p)
      PROVE  /\ b \in DOMAIN bridges /\ b[1] = p
             /\ bridges[b].session = NoSession
  <2>1. CASE b \in DOMAIN bridges /\ b[1] = p /\ bridges[b].phase = "handshake"
    BY <1>1, <2>1 DEF LoginsFresh
  <2>2. ASSUME NEW k \in DOMAIN requests, requests[k].ask = "Login", requests[k].identity = p,
               b = requests[k].bridge
        PROVE  b \in DOMAIN bridges /\ b[1] = p /\ bridges[b].session = NoSession
    <3>1. b # NoBridge /\ b[1] = p
      BY <1>1, <2>2 DEF FromBridges, NamesInv, NamesItsPreset
    <3>2. b \in DOMAIN bridges
      BY <1>2, <2>2, <3>1
    <3> QED BY <1>1, <2>2, <3>1, <3>2 DEF LoginsFresh
  <2> QED BY <2>1, <2>2 DEF Coming
<1>5. ASSUME NEW s \in SessionOf(p)
      PROVE  \E b \in DOMAIN bridges : b[1] = p /\ bridges[b].session = s /\ s # NoSession
  <2>1. s \in DOMAIN sessions /\ sessions[s].identity = p
    BY DEF SessionOf
  <2>2. s \in DOMAIN conns /\ conns[s].open
    BY <1>2
  <2>3. PICK b \in DOMAIN bridges : bridges[b].session = s
    BY <1>1, <2>1, <2>2 DEF Bridged
  <2>4. b[1] = p /\ s # NoSession
    BY <1>1, <2>1, <2>3 DEF BridgeSessions, NamesInv
  <2> QED BY <2>3, <2>4
<1>6. \A b \in Coming(p) : p \in DOMAIN running /\ running[p] = b
  BY <1>3, <1>4
<1>7. ASSUME NEW s \in SessionOf(p), NEW b \in Coming(p) PROVE FALSE
  <2>1. PICK c \in DOMAIN bridges : c[1] = p /\ bridges[c].session = s /\ s # NoSession
    BY <1>5
  <2>2. running[p] = b /\ running[p] = c /\ bridges[b].session = NoSession
    BY <1>3, <1>4, <2>1
  <2> QED BY <2>1, <2>2
<1>8. SessionOf(p) # {} => Coming(p) = {}
  BY <1>7
<1>9. SessionOf(p) # {} => p \in DOMAIN running
  BY <1>3, <1>5
<1> QED BY <1>6, <1>8, <1>9 DEF InOrder

\* What lingers is noted by every step; at a round, all of it.
LEMMA EarlierSteps ==
    ASSUME [Next]_vars, NEW p, p \notin earlier'
    PROVE  p \notin Lingering' \/ (~RoundDue /\ p \notin earlier)
<1>1. CASE RoundDue
  <2>1. earlier' = Lingering'
    BY <1>1 DEF RoundDue, Noting
  <2> QED BY <2>1
<1>2. CASE ~RoundDue
  <2>1. (\E again : Noting(again)) \/ earlier' = earlier
    <3>1. ASSUME NEW c, ConnNext(c) PROVE \E again : Noting(again)
      BY <3>1 DEF ConnNext, SayReady, Speak, CloseSocket, Leave, DayPasses
    <3>2. ASSUME NEW b, BridgeNext(b) PROVE \E again : Noting(again)
      BY <3>2 DEF BridgeNext, BridgeLogsIn, BridgeStops, BridgeLosesConnection, BridgeDies,
         BridgeEnds
    <3>3. Handle => \E again : Noting(again)
      BY DEF Handle
    <3>4. \A g : Tick \/ Dial(g) \/ GameOver(g) \/ BackoffOver(g) => \E again : Noting(again)
      BY DEF Tick, Dial, GameOver, BackoffOver
    <3> QED BY <1>2, <3>1, <3>2, <3>3, <3>4 DEF Next, vars
  <2>2. earlier' = Lingering' \/ earlier' = earlier \cap Lingering' \/ earlier' = earlier
    BY <2>1 DEF Noting
  <2> QED BY <1>2, <2>2
<1> QED BY <1>1, <1>2

\* A preset leaves the book between rounds only while it is logged in.
LEMMA BookKept ==
    ASSUME Entries, FromSessions, ~RoundDue, [Next]_vars, NEW p \in DOMAIN running,
           SessionOf(p) = {}
    PROVE  p \in DOMAIN running' /\ running'[p] = running[p]
<1>1. CASE Handle
  <2> DEFINE r == Head(requests)
  <2>1. \/ Reject(r.bridge) \/ Accept(r.identity, r.bridge, Holder(r.identity))
        \/ Touch(r.session) \/ Ready(r.session) \/ Gone(r.session)
    BY <1>1, HandleIs
  <2> HIDE DEF r
  <2>2. ASSUME NEW token, NEW bridge, NEW killed, Accept(token, bridge, killed)
        PROVE  running' = running
    BY <2>2, AcceptedIs
  <2>3. ASSUME NEW id, Ready(id) PROVE p \in DOMAIN running' /\ running'[p] = running[p]
    <3>1. CASE running' = running
      BY <3>1
    <3>2. ASSUME id \in DOMAIN sessions, NEW back \in SUBSET {sessions[id].identity},
                 running' = Without(running, back)
          PROVE  p \in DOMAIN running' /\ running'[p] = running[p]
      <4>1. p # sessions[id].identity
        BY <3>2 DEF SessionOf
      <4> QED BY <3>2, <4>1 DEF Without
    <3> QED BY <2>3, <3>1, <3>2, ReadyIs
  <2>4. Reject(r.bridge) \/ Touch(r.session) \/ Gone(r.session) => running' = running
    BY DEF Reject, Touch, Gone, presetVars
  <2> QED BY <2>1, <2>2, <2>3, <2>4
<1>2. CASE ~Handle
  <2>1. \A b : BridgeLogsIn(b) \/ BridgeEnds(b) => running' = running
    BY DEF BridgeLogsIn, BridgeEnds, coordinatorVars, presetVars
  <2> QED BY <1>2, <2>1, StepKinds DEF Sent
<1> QED BY <1>1, <1>2

\* Between rounds no bridge comes that was not coming.
LEMMA ComingKept ==
    ASSUME OwnEnginesOnly, NamesInv, NamesInv', Entries, FromSessions, ~RoundDue,
           [Next]_vars, NEW p \in OnDemand
    PROVE  Coming(p)' \subseteq Coming(p)
<1> SUFFICES ASSUME NEW b \in Coming(p)' PROVE b \in Coming(p)
  OBVIOUS
<1>1. ASSUME b \in DOMAIN bridges', b[1] = p, bridges'[b].phase = "handshake"
      PROVE  b \in Coming(p)
  <2>1. ~BridgeLogsIn(b) /\ ~Enters(b) /\ ~Appears(b)
    BY <1>1, BridgeLogsInIs DEF Enters, Appears
  <2>2. Goes(b)
    BY <1>1, <2>1, TaskSteps
  <2> QED BY <1>1, <2>2 DEF Goes, Coming
<1>2. ASSUME NEW k \in DOMAIN requests', requests'[k].ask = "Login",
             requests'[k].identity = p, b = requests'[k].bridge
      PROVE  b \in Coming(p)
  <2>1. b = NoBridge \/ b[1] = p
    BY <1>2 DEF NamesInv, NamesItsPreset
  <2>2. ASSUME NEW j \in DOMAIN requests, requests'[k] = requests[j] PROVE b \in Coming(p)
    BY <1>2, <2>2 DEF Coming
  <2>3. CASE UNCHANGED requests
    BY <1>2, <2>2, <2>3
  <2>4. CASE Handle
    <3>1. requests # <<>> /\ requests' = Tail(requests)
      BY <2>4 DEF Handle
    <3> QED BY <1>2, <2>2, <3>1, QueuedAfterTake
  <2>5. ASSUME NEW r, requests' = Append(requests, r),
               \/ /\ r.bridge = NoBridge
                  /\ r.ask = "Login" => r.identity \in Externals \cup HandRun
               \/ r.bridge \in DOMAIN bridges /\ BridgeLogsIn(r.bridge)
        PROVE  b \in Coming(p)
    <3>1. requests'[k] = r \/ \E j \in DOMAIN requests : requests'[k] = requests[j]
      BY <1>2, <2>5, QueuedAfterSend
    <3>2. CASE requests'[k] = r
      <4>1. b \in DOMAIN bridges /\ BridgeLogsIn(b)
        BY <1>2, <2>5, <3>2 DEF OwnEnginesOnly
      <4>2. b # NoBridge /\ bridges[b].phase = "handshake"
        BY <4>1, BridgeLogsInIs DEF NamesInv
      <4> QED BY <2>1, <4>1, <4>2 DEF Coming
    <3> QED BY <2>2, <3>1, <3>2
  <2> QED BY <2>3, <2>4, <2>5, ChannelSteps
<1> QED BY <1>1, <1>2 DEF Coming

\* A session that a step brings is that of the login taken, of a bridge that was coming.
LEMMA NewSessionIs ==
    ASSUME NamesInv, Entries, FromSessions, FromBridges, [Next]_vars, NEW p \in OnDemand,
           SessionOf(p) = {}, NEW s \in SessionOf(p)'
    PROVE  LET r == Head(requests) IN
           /\ Handle /\ r.ask = "Login" /\ r.identity = p
           /\ 1 \in DOMAIN requests /\ r = requests[1] /\ requests' = Tail(requests)
           /\ requests # <<>>
           /\ r.bridge # NoBridge /\ r.bridge \in Coming(p)
           /\ Opened(s, p, r.bridge = NoBridge \/ r.bridge \in DOMAIN bridges)
           /\ LoggedIn(s, r.bridge)
<1>1. s \in DOMAIN sessions' /\ sessions'[s].identity = p
  BY DEF SessionOf
<1>2. ~(s \in DOMAIN sessions /\ sessions'[s].identity = sessions[s].identity)
  BY <1>1 DEF SessionOf
<1>3. PICK r : /\ r = Head(requests)
               /\ Handle /\ r.ask = "Login" /\ r.identity = p
               /\ Opened(s, p, r.bridge = NoBridge \/ r.bridge \in DOMAIN bridges)
               /\ LoggedIn(s, r.bridge)
  BY <1>1, <1>2, ComesFrom
<1>4. requests # <<>> /\ requests' = Tail(requests)
  BY <1>3 DEF Handle
<1>5. 1 \in DOMAIN requests /\ r = requests[1]
  BY <1>3, <1>4, PlacesAfterTake
<1>6. r.bridge # NoBridge
  BY <1>3, <1>5 DEF FromBridges
<1>7. r.bridge \in Coming(p)
  BY <1>3, <1>5 DEF Coming
<1> QED BY <1>3, <1>4, <1>5, <1>6, <1>7

\* A preset in order is in order after a step between two rounds.
LEMMA OrderKept ==
    ASSUME OwnEnginesOnly, NamesInv, NamesInv', Entries, FromSessions, FromBridges,
           LoginsApart, ~RoundDue, [Next]_vars, NEW p \in OnDemand, InOrder(p)
    PROVE  InOrder(p)'
<1>1. Coming(p)' \subseteq Coming(p)
  BY ComingKept
<1>2. /\ \A b \in Coming(p) : p \in DOMAIN running /\ running[p] = b
      /\ SessionOf(p) # {} => Coming(p) = {}
  BY DEF InOrder
<1>3. \A b \in Coming(p)' : p \in DOMAIN running' /\ running'[p] = b
  <2> SUFFICES ASSUME NEW b \in Coming(p)' PROVE p \in DOMAIN running' /\ running'[p] = b
    OBVIOUS
  <2>1. p \in DOMAIN running /\ running[p] = b /\ SessionOf(p) = {}
    BY <1>1, <1>2
  <2> QED BY <2>1, BookKept
<1>4. ASSUME NEW s \in SessionOf(p)', NEW c \in Coming(p)' PROVE FALSE
  <2>1. SessionOf(p) = {} /\ c \in Coming(p) /\ p \in DOMAIN running /\ running[p] = c
    BY <1>1, <1>2, <1>4
  <2>2. PICK b : /\ requests # <<>> /\ requests' = Tail(requests)
                 /\ 1 \in DOMAIN requests /\ requests[1].bridge = b
                 /\ b # NoBridge /\ b \in Coming(p) /\ LoggedIn(s, b)
    BY <2>1, NewSessionIs
  <2>3. c = b
    BY <1>2, <2>1, <2>2
  <2>4. ASSUME b \in DOMAIN bridges', bridges'[b].phase = "handshake" PROVE FALSE
    <3>1. b \in DOMAIN bridges
      BY <2>2, <2>4 DEF LoggedIn
    <3>2. bridges'[b].phase = "in"
      BY <2>2, <3>1, LoggedInIs
    <3> QED BY <2>4, <3>2
  <2>5. ASSUME NEW k \in DOMAIN requests', requests'[k].bridge = b PROVE FALSE
    BY <2>2, <2>5, PlacesAfterTake DEF LoginsApart
  <2> QED BY <1>4, <2>3, <2>4, <2>5 DEF Coming
<1>5. SessionOf(p)' # {} => Coming(p)' = {}
  BY <1>4
<1> QED BY <1>3, <1>5 DEF InOrder

LEMMA NextOrderly ==
    ASSUME OwnEnginesOnly, NamesInv, NamesInv', Entries, FromSessions, FromBridges,
           LoginsApart, Tidy', Orderly, [Next]_vars
    PROVE  Orderly'
<1> SUFFICES ASSUME NEW p \in OnDemand, p \notin earlier' PROVE InOrder(p)'
  BY DEF Orderly
<1>1. CASE p \notin Lingering'
  BY <1>1 DEF Tidy
<1>2. CASE ~RoundDue /\ p \notin earlier
  BY <1>2, OrderKept DEF Orderly
<1> QED BY <1>1, <1>2, EarlierSteps

-----------------------------------------------------------------------------
(* No more than the slots there are *)

\* What lingered when a round was scheduled is gone when it is due.
Clean == due \in Nat /\ (due = 0 => earlier = {})

LEMMA NextClean ==
    ASSUME RoundsApart, FromSessions, Clean, [Next]_vars
    PROVE  Clean'
<1>0. Interval \in Nat /\ Interval > 0 /\ IdleDelay \in Nat /\ IdleDelay > 0
  BY LobbyAssumption DEF RoundsApart
<1>a. ASSUME due' = due, earlier' \subseteq earlier PROVE Clean'
  BY <1>a DEF Clean
<1>b. ASSUME due' = due, Noting(FALSE) PROVE Clean'
  BY <1>a, <1>b DEF Noting
<1>1. CASE Handle
  <2>1. due > 0 /\ due' \in {due, IdleDelay}
    BY <1>1, HandleIs
  <2>2. due' \in Nat /\ due' > 0
    BY <1>0, <2>1 DEF Clean
  <2> QED BY <2>2 DEF Clean
<1>2. CASE RoundDue
  BY <1>0, <1>2, RoundIs DEF Clean
<1>3. CASE Tick
  <2>1. due > 0 /\ due' = due - 1 /\ (due = 1 => earlier = {}) /\ Noting(FALSE)
    BY <1>3 DEF Tick, RoundsApart
  <2>2. due' \in Nat /\ (due' = 0 => due = 1)
    BY <2>1 DEF Clean
  <2>3. earlier' \subseteq earlier
    BY <2>1 DEF Noting
  <2>4. due' = 0 => earlier' = {}
    BY <2>1, <2>2, <2>3
  <2> QED BY <2>2, <2>4 DEF Clean
<1>4. ASSUME NEW c, ConnNext(c) PROVE Clean'
  BY <1>b, <1>4 DEF ConnNext, SayReady, Speak, CloseSocket, Leave, DayPasses,
     coordinatorVars, scheduleVars
<1>5. ASSUME NEW b, BridgeNext(b) PROVE Clean'
  BY <1>b, <1>5 DEF BridgeNext, BridgeLogsIn, BridgeStops, BridgeLosesConnection, BridgeDies,
     BridgeEnds, coordinatorVars, scheduleVars
<1>6. ASSUME NEW g, Dial(g) \/ GameOver(g) \/ BackoffOver(g) PROVE Clean'
  BY <1>b, <1>6 DEF Dial, GameOver, BackoffOver, coordinatorVars, scheduleVars
<1>7. CASE UNCHANGED vars
  BY <1>a, <1>7 DEF vars, scheduleVars
<1> QED BY <1>1, <1>2, <1>3, <1>4, <1>5, <1>6, <1>7 DEF Next

\* Who plays, and who is in the book, between rounds.
LEMMA NobodyJoins ==
    ASSUME Entries, FromSessions, ~RoundDue, [Next]_vars
    PROVE  PresetsPlaying' \subseteq PresetsPlaying /\ DOMAIN running' \subseteq DOMAIN running
<1>1. CASE Quieter
  <2>1. PresetsPlaying' \subseteq PresetsPlaying
    BY <1>1 DEF Quieter, PresetsPlaying, SessionOf
  <2> QED BY <1>1, <2>1 DEF Quieter
<1>2. ASSUME NEW token, NEW bridge, NEW killed, Accept(token, bridge, killed)
      PROVE  PresetsPlaying' \subseteq PresetsPlaying /\ running' = running
  <2>1. PICK id \in FreshSession(token) : Registered(id, token, killed)
    BY <1>2, AcceptedIs
  <2>2. Entry(token, NoGame, FALSE).playing = NoGame
    BY DEF Entry
  <2>3. \A s \in DOMAIN sessions' : sessions'[s].playing # NoGame =>
           s \in DOMAIN sessions /\ sessions'[s] = sessions[s]
    BY <2>1, <2>2 DEF Registered
  <2>4. PresetsPlaying' \subseteq PresetsPlaying
    BY <2>3 DEF PresetsPlaying, SessionOf, InGame
  <2> QED BY <1>2, <2>4, AcceptedIs
<1> QED BY <1>1, <1>2, StepsAre

\* No slot is taken between rounds: who logs in came from the book, or from what lingers.
LEMMA NextSlots ==
    ASSUME Registry, PoolInv, SlotsHold, Clean, NamesInv, FromBridges, Orderly, Tidy',
           [Next]_vars
    PROVE  SlotsHold'
<1>1. Entries /\ RegistryAgrees /\ FromSessions
  BY DEF Registry
<1>2. CASE RoundDue
  <2>1. earlier = {}
    BY <1>2, RoundIs DEF Clean
  <2> QED BY <1>1, <1>2, <2>1, RoundSlots
<1>3. CASE ~RoundDue
  <2>1. PresetsPlaying' \subseteq PresetsPlaying /\ DOMAIN running' \subseteq DOMAIN running
    BY <1>1, <1>3, NobodyJoins
  <2>2. ASSUME NEW p \in OnDemand, p \notin DOMAIN running', SessionOf(p)' # {}, p \notin earlier'
        PROVE  p \in Charging
    <3>1. p \notin earlier
      <4>1. p \in Lingering'
        BY <2>2 DEF Tidy
      <4> QED BY <2>2, <4>1, EarlierSteps
    <3>2. CASE SessionOf(p) # {}
      BY <3>1, <3>2 DEF Charging
    <3>3. CASE SessionOf(p) = {}
      <4>1. PICK s : s \in SessionOf(p)'
        BY <2>2
      <4>2. PICK b : b \in Coming(p)
        BY <1>1, <3>3, <4>1, NewSessionIs
      <4>3. p \in DOMAIN running
        BY <3>1, <4>2 DEF Orderly, InOrder
      <4> QED BY <4>3 DEF Charging
    <3> QED BY <3>2, <3>3
  <2>3. Charging' \subseteq Charging
    <3> SUFFICES ASSUME NEW p \in Charging' PROVE p \in Charging
      OBVIOUS
    <3>1. CASE p \in PresetsPlaying'
      BY <2>1, <3>1 DEF Charging
    <3>2. CASE p \in OnDemand /\ p \in DOMAIN running'
      BY <2>1, <3>2 DEF Charging
    <3>3. CASE p \in OnDemand /\ SessionOf(p)' # {} /\ p \notin earlier'
      BY <2>2, <3>2, <3>3
    <3> QED BY <3>1, <3>2, <3>3 DEF Charging
  <2> QED BY <2>3, SlotsFrame
<1> QED BY <1>2, <1>3

\* What keeps the slots within their number, step by step.
CapInv == Clean /\ Orderly /\ SlotsHold

LEMMA CapInit == Init => CapInv
<1> SUFFICES ASSUME Init PROVE CapInv
  OBVIOUS
<1> DEFINE name(p) == <<p, CHOOSE n \in Names : \A m \in Names : n <= m>>
<1>1. /\ DOMAIN sessions = {} /\ DOMAIN requests = {} /\ earlier = {}
      /\ due \in {IdleDelay} \cup 0..Interval
      /\ running = [p \in Residents |-> name(p)]
      /\ bridges = [b \in {name(p) : p \in Residents} |-> NewBridge(b[1])]
  BY DEF Init, Empty
<1>2. \A p : name(p)[1] = p
  OBVIOUS
<1> HIDE DEF name
<1>3. Clean
  BY <1>1, LobbyAssumption DEF Clean
<1>4. \A p \in OnDemand : SessionOf(p) = {} /\ Coming(p) = {} /\ p \notin DOMAIN running
  BY <1>1, <1>2 DEF SessionOf, Coming, OnDemand, Residents
<1>5. Orderly
  BY <1>4 DEF Orderly, InOrder
<1>6. SlotsHold
  <2>1. Charging = {}
    BY <1>1, <1>4 DEF Charging, PresetsPlaying, SessionOf
  <2>2. Cardinality(Charging) = 0
    BY <2>1, FS_EmptySet
  <2> QED BY <2>2 DEF SlotsHold, MaxPlaying
<1> QED BY <1>3, <1>5, <1>6 DEF CapInv

LEMMA CapNext ==
    ASSUME RoundsApart, OwnEnginesOnly
    PROVE  CapInv /\ BookInv /\ Registry /\ PoolInv /\ OwnInv /\ OwnInv' /\ Tidy'
             /\ [Next]_vars => CapInv'
<1> SUFFICES ASSUME CapInv, BookInv, Registry, PoolInv, OwnInv, OwnInv', Tidy', [Next]_vars
             PROVE  CapInv'
  OBVIOUS
<1>1. /\ Entries /\ FromSessions /\ NamesInv /\ NamesInv'
      /\ FromBridges /\ LoginsApart /\ Clean /\ Orderly /\ SlotsHold
  BY DEF Registry, OwnInv, BookInv, CapInv
<1>2. Clean'
  BY <1>1, NextClean
<1>3. Orderly'
  BY <1>1, NextOrderly
<1>4. SlotsHold'
  BY <1>1, NextSlots
<1> QED BY <1>2, <1>3, <1>4 DEF CapInv

LEMMA OwnNextIs == OwnInv /\ Registry /\ [Next]_vars => OwnInv'
BY OwnNext

\* No more than two presets play at once, however their slots are paid, as long as what
\* lingered when a round was scheduled has ended when it comes, and an on-demand preset's
\* token is its own process's (CapHolds: presets.rs plan, matchmaker.rs pair_round,
\* server.rs run_round and ready).
THEOREM CapIsKept ==
    ASSUME RoundsApart, OwnEnginesOnly
    PROVE  Spec => []CapHolds
<1>1. SlotsHold => CapHolds
  <2> SUFFICES ASSUME SlotsHold PROVE CapHolds
    OBVIOUS
  <2>1. PresetsPlaying \in SUBSET Charging
    BY DEF Charging
  <2>2. IsFiniteSet(PresetsPlaying) /\ Cardinality(PresetsPlaying) <= Cardinality(Charging)
    BY <2>1, ChargingIsFinite, FS_Subset
  <2>3. PICK a, b : a = Cardinality(PresetsPlaying) /\ b = Cardinality(Charging)
    OBVIOUS
  <2>4. a \in Nat /\ b \in Nat /\ a <= b /\ b <= 2
    BY <2>2, <2>3, ChargingIsFinite, FS_CardinalityType DEF SlotsHold, MaxPlaying
  <2>5. a <= 2
    BY <2>4
  <2> QED BY <2>3, <2>5 DEF CapHolds, MaxPlaying
<1>2. CapInv => SlotsHold
  BY DEF CapInv
<1> QED BY <1>1, <1>2, RegistryInit, RegistryNext, PoolInit, PoolNext, OwnInit, OwnNextIs,
        BookInit, BookNext, TidyFollows, CapInit, CapNext, PTL DEF Spec, Registry

-----------------------------------------------------------------------------
(* An on-demand preset is one process *)

\* The session of a bridge is registered, and its connection open.
Attached(b) ==
    LET s == bridges[b].session IN
    /\ s \in DOMAIN sessions /\ s \in DOMAIN conns
    /\ conns[s].open /\ ~conns[s].told

\* A process asked to stop, or whose preset is logged in, is the one logged in.
Holds(b) == bridges[b].asked \/ SessionOf(b[1]) # {} => Attached(b)

HeldOn == \A b \in DOMAIN bridges : b[1] \in OnDemand /\ b[1] \notin earlier => Holds(b)

\* So it is of a preset of which nothing lingers.
Firm == \A b \in DOMAIN bridges : b[1] \in OnDemand /\ b[1] \notin Lingering => Holds(b)

Single == \A b, c \in DOMAIN bridges : b[1] = c[1] /\ b[1] \in OnDemand => b = c

\* The Gone of a connection is sent when it ends.
NoGone ==
    \A c \in DOMAIN conns : \A k \in DOMAIN requests :
        requests[k].ask = "Gone" => requests[k].session # c

\* A connection and its session are of the same token.
SameToken == \A c \in DOMAIN conns \cap DOMAIN sessions : conns[c].identity = sessions[c].identity

\* The engine of an on-demand preset does not leave of its own accord.
StayingEngines == Leavers \cap OnDemand = {}

LEMMA FirmFollows == BookInv /\ OwnInv /\ Single => Firm
<1> SUFFICES ASSUME BookInv, OwnInv, Single, NEW b \in DOMAIN bridges,
                    b[1] \in OnDemand, b[1] \notin Lingering
             PROVE  Holds(b)
  BY DEF Firm
<1>1. Bridged /\ NamesInv /\ BridgeSessions /\ b[1] \in Presets
  BY DEF BookInv, OwnInv, OnDemand
<1>2. PICK phase, session, asked : bridges[b] = Task(b[1], phase, session, asked)
  BY <1>1 DEF NamesInv, Shaped
<1>3. bridges[b].preset = b[1]
  BY <1>2, TaskFields
<1>4. /\ ~bridges[b].asked
      /\ \A s \in SessionOf(b[1]) : s \in DOMAIN conns /\ ~conns[s].told /\ conns[s].open
  BY <1>1, <1>3 DEF Lingering
<1>5. ASSUME NEW s \in SessionOf(b[1]) PROVE Attached(b)
  <2>1. s \in DOMAIN sessions /\ sessions[s].identity = b[1]
    BY DEF SessionOf
  <2>2. PICK c \in DOMAIN bridges : bridges[c].session = s
    BY <1>1, <1>4, <2>1 DEF Bridged
  <2>3. c = b
    BY <1>1, <2>1, <2>2 DEF BridgeSessions, Single
  <2> QED BY <1>4, <2>1, <2>2, <2>3 DEF Attached
<1> QED BY <1>4, <1>5 DEF Holds

\* A login is taken that replaces a session.
Replaced(s) ==
    LET r == Head(requests) IN
    /\ Handle /\ r.ask = "Login" /\ Accept(r.identity, r.bridge, Holder(r.identity))
    /\ s \in Holder(r.identity)

\* A preset in order is not replaced: nobody else of its token is coming.
LEMMA NotReplaced ==
    ASSUME RegistryAgrees, FromSessions, NEW p, InOrder(p), NEW s \in SessionOf(p)
    PROVE  ~Replaced(s)
<1> SUFFICES ASSUME Replaced(s) PROVE FALSE
  OBVIOUS
<1>1. PICK r : r = Head(requests) /\ r.ask = "Login" /\ s \in Holder(r.identity)
  BY DEF Replaced
<1>2. requests # <<>> /\ requests' = Tail(requests)
  BY DEF Replaced, Handle
<1>3. 1 \in DOMAIN requests /\ r = requests[1]
  BY <1>1, <1>2, PlacesAfterTake
<1>4. r.identity \in DOMAIN byIdentity /\ byIdentity[r.identity] = s
  BY <1>1 DEF Holder
<1>5. r.identity = p
  BY <1>4 DEF RegistryAgrees, SessionOf
<1>6. r.bridge \in Coming(p)
  BY <1>1, <1>3, <1>5 DEF Coming
<1> QED BY <1>6 DEF InOrder

\* How a session leaves the registry.
LEMMA SessionKept ==
    ASSUME Entries, FromSessions, [Next]_vars, NEW s \in DOMAIN sessions
    PROVE  \/ s \in DOMAIN sessions'
           \/ Handle /\ Head(requests) = From("Gone", s)
           \/ Replaced(s)
<1>1. CASE Handle
  <2> DEFINE r == Head(requests)
  <2>1. \/ Reject(r.bridge)
        \/ r.ask = "Login" /\ Accept(r.identity, r.bridge, Holder(r.identity))
        \/ Touch(r.session) \/ Ready(r.session)
        \/ r = From("Gone", r.session) /\ Gone(r.session)
    BY <1>1, HandleIs
  <2>2. CASE r.ask = "Login" /\ Accept(r.identity, r.bridge, Holder(r.identity))
    <3>1. PICK id : Registered(id, r.identity, Holder(r.identity))
      BY <2>2, AcceptedIs
    <3> QED BY <1>1, <2>2, <3>1 DEF Registered, Replaced
  <2>3. CASE r = From("Gone", r.session) /\ Gone(r.session)
    <3>1. PICK id : id = r.session
      OBVIOUS
    <3> HIDE DEF r
    <3>2. DOMAIN sessions' = DOMAIN sessions \ {id}
      BY <2>3, <3>1 DEF Gone, Without
    <3>3. r = From("Gone", id)
      BY <2>3, <3>1
    <3> QED BY <1>1, <3>2, <3>3 DEF r
  <2> HIDE DEF r
  <2>4. Reject(r.bridge) \/ Touch(r.session) => DOMAIN sessions' = DOMAIN sessions
    BY DEF Reject, Touch, registryVars
  <2>5. Ready(r.session) => DOMAIN sessions' = DOMAIN sessions
    BY ReadyIs
  <2> QED BY <2>1, <2>2, <2>3, <2>4, <2>5
<1>2. CASE RoundDue
  BY <1>2, RoundIs, PlayersAfterOffer
<1>3. ASSUME NEW c, ConnNext(c) PROVE DOMAIN sessions' = DOMAIN sessions
  BY <1>3 DEF ConnNext, SayReady, Speak, CloseSocket, Leave, DayPasses,
     coordinatorVars, registryVars
<1>4. ASSUME NEW b, BridgeNext(b) PROVE DOMAIN sessions' = DOMAIN sessions
  BY <1>4 DEF BridgeNext, BridgeLogsIn, BridgeStops, BridgeLosesConnection, BridgeDies,
     BridgeEnds, coordinatorVars, registryVars
<1>5. \A g : Tick \/ Dial(g) \/ GameOver(g) \/ BackoffOver(g) => DOMAIN sessions' = DOMAIN sessions
  BY DEF Tick, Dial, GameOver, BackoffOver, coordinatorVars, registryVars
<1>6. UNCHANGED vars => DOMAIN sessions' = DOMAIN sessions
  BY DEF vars, registryVars
<1> QED BY <1>1, <1>2, <1>3, <1>4, <1>5, <1>6 DEF Next

\* How a connection that is open and told nothing is closed.
Well(c) == c \in DOMAIN conns /\ conns[c].open /\ ~conns[c].told

LEMMA ConnectionKept ==
    ASSUME Linked, FromSessions, [Next]_vars, NEW c, Well(c), conns[c].identity \notin Leavers
    PROVE  \/ Well(c)'
           \/ \E b \in DOMAIN bridges : BridgeEnds(b) /\ bridges[b].session = c
           \/ Replaced(c)
<1>0. c \in DOMAIN conns /\ conns[c].open /\ ~conns[c].told
  BY DEF Well
<1>1. PICK identity, owes, told, open : conns[c] = Link(identity, owes, told, open)
  BY <1>0 DEF Linked
<1>2. open /\ ~told
  BY <1>0, <1>1, LinkFields
<1>a. ASSUME UNCHANGED conns PROVE Well(c)'
  BY <1>0, <1>a DEF Well
<1>b. ASSUME NEW other, c \in DOMAIN conns', conns'[c] = [conns[c] EXCEPT !.owes = other]
      PROVE  Well(c)'
  <2>1. conns'[c] = Link(identity, other, told, open)
    BY <1>1, <1>b, LinkFields
  <2> QED BY <1>2, <1>b, <2>1, LinkFields DEF Well
<1>3. CASE Handle
  <2> DEFINE r == Head(requests)
  <2>1. \/ Reject(r.bridge)
        \/ r.ask = "Login" /\ Accept(r.identity, r.bridge, Holder(r.identity))
        \/ Touch(r.session) \/ Ready(r.session) \/ Gone(r.session)
    BY <1>3, HandleIs
  <2>2. CASE r.ask = "Login" /\ Accept(r.identity, r.bridge, Holder(r.identity))
    <3>1. PICK killed : killed = Holder(r.identity)
      OBVIOUS
    <3>2. PICK token, bridge : Accept(token, bridge, killed)
      BY <2>2, <3>1
    <3>3. PICK id, link : /\ id \in FreshSession(token)
             /\ conns' = Also([d \in DOMAIN conns |-> [conns[d] EXCEPT !.told = @ \/ d \in killed]],
                              id, link)
      BY <3>2 DEF Accept
    <3>4. id # c
      BY <1>0, <3>3 DEF FreshSession, Fresh
    <3>5. PICK now : now = (conns[c].told \/ c \in killed)
      OBVIOUS
    <3>6. c \in DOMAIN conns' /\ conns'[c] = [conns[c] EXCEPT !.told = now]
      BY <1>0, <3>3, <3>4, <3>5 DEF Also
    <3>7. conns'[c] = Link(identity, owes, now, open)
      BY <1>1, <3>6, LinkFields
    <3>8. now \/ Well(c)'
      BY <1>2, <3>6, <3>7, LinkFields DEF Well
    <3>9. c \in killed => Replaced(c)
      BY <1>3, <2>2, <3>1 DEF Replaced
    <3> QED BY <1>0, <3>5, <3>8, <3>9
  <2> HIDE DEF r
  <2>3. Reject(r.bridge) \/ Touch(r.session) \/ Ready(r.session) \/ Gone(r.session)
          => UNCHANGED conns
    BY DEF Reject, Touch, Ready, Gone
  <2> QED BY <1>a, <2>1, <2>2, <2>3
<1>4. CASE RoundDue
  BY <1>a, <1>4, RoundIs
<1>5. CASE Tick \/ UNCHANGED vars \/ \E g : Dial(g) \/ Speak(g) \/ DayPasses(g)
             \/ BackoffOver(g) \/ BridgeLogsIn(g)
  BY <1>a, <1>5 DEF Tick, Dial, Speak, DayPasses, BackoffOver, BridgeLogsIn, vars
<1>6. ASSUME NEW d, SayReady(d) PROVE Well(c)'
  <2>1. PICK other : conns' = [conns EXCEPT ![d] = [conns[d] EXCEPT !.owes = other]]
    BY <1>6 DEF SayReady
  <2>2. CASE d = c
    BY <1>0, <1>b, <2>1, <2>2
  <2>3. CASE d # c
    BY <1>0, <2>1, <2>3 DEF Well
  <2> QED BY <2>2, <2>3
<1>7. ASSUME NEW d, CloseSocket(d) PROVE Well(c)'
  <2>1. conns' = [conns EXCEPT ![d] = [conns[d] EXCEPT !.open = FALSE]] /\ d # c
    BY <1>7 DEF CloseSocket
  <2> QED BY <1>0, <2>1 DEF Well
<1>8. ASSUME NEW d, Leave(d) PROVE Well(c)'
  <2>1. conns' = Without(conns, {d}) /\ d # c
    BY <1>0, <1>8 DEF Leave
  <2> QED BY <1>0, <2>1 DEF Well, Without
<1>9. ASSUME NEW g, GameOver(g) PROVE Well(c)'
  <2>1. c \in DOMAIN conns' /\ \E other : conns'[c] = [conns[c] EXCEPT !.owes = other]
    BY <1>0, <1>9 DEF GameOver
  <2> QED BY <1>b, <2>1
<1>10. ASSUME NEW b \in DOMAIN bridges, BridgeEnds(b)
       PROVE  Well(c)' \/ bridges[b].session = c
  <2>1. PICK still : still = (conns[c].open /\ c # bridges[b].session)
    OBVIOUS
  <2>2. c \in DOMAIN conns' /\ conns'[c] = [conns[c] EXCEPT !.open = still]
    BY <1>0, <1>10, <2>1 DEF BridgeEnds
  <2>3. conns'[c] = Link(identity, owes, told, still)
    BY <1>1, <2>2, LinkFields
  <2>4. still => Well(c)'
    BY <1>2, <2>2, <2>3, LinkFields DEF Well
  <2> QED BY <1>0, <2>1, <2>4
<1>11. ASSUME NEW b, BridgeNext(b)
       PROVE  BridgeLogsIn(b) \/ (b \in DOMAIN bridges /\ BridgeEnds(b))
  BY <1>11 DEF BridgeNext, BridgeStops, BridgeLosesConnection, BridgeDies
<1> QED BY <1>3, <1>4, <1>5, <1>6, <1>7, <1>8, <1>9, <1>10, <1>11 DEF Next, ConnNext

\* An attached bridge of a preset in order stays so while it lives.
LEMMA AttachedKept ==
    ASSUME StayingEngines, Registry, OwnInv, BookInv, Single, NoGone, SameToken, [Next]_vars,
           NEW b \in DOMAIN bridges, b \in DOMAIN bridges', b[1] \in OnDemand,
           InOrder(b[1]), Attached(b)
    PROVE  Attached(b)'
<1>1. /\ Entries /\ FromSessions /\ RegistryAgrees /\ NamesInv /\ BridgeSessions
      /\ Linked /\ LoginsFresh
  BY DEF Registry, OwnInv, BookInv
<1>2. PICK s : /\ s = bridges[b].session /\ s \in DOMAIN sessions /\ Well(s)
  BY DEF Attached, Well
<1>3. sessions[s].identity = b[1] /\ s # NoSession /\ s \in SessionOf(b[1])
  BY <1>1, <1>2 DEF BridgeSessions, SessionOf, NamesInv
<1>4. ~BridgeEnds(b)
  BY DEF BridgeEnds, Without
<1>5. bridges'[b].session = s
  BY <1>1, <1>2, <1>3, <1>4, BridgeStays
<1>6. ~Replaced(s)
  BY <1>1, <1>3, NotReplaced
<1>7. s \in DOMAIN sessions'
  <2> SUFFICES ASSUME Handle, Head(requests) = From("Gone", s) PROVE FALSE
    BY <1>1, <1>2, <1>6, SessionKept
  <2>1. requests # <<>> /\ requests' = Tail(requests)
    BY DEF Handle
  <2>2. 1 \in DOMAIN requests /\ requests[1] = From("Gone", s)
    BY <1>1, <2>1, PlacesAfterTake
  <2>3. requests[1].ask = "Gone" /\ requests[1].session = s
    BY <2>2, RequestFields
  <2> QED BY <1>2, <2>2, <2>3 DEF NoGone, Well
<1>8. Well(s)'
  <2>1. conns[s].identity = b[1]
    BY <1>2, <1>3 DEF SameToken, Well
  <2>2. conns[s].identity \notin Leavers
    BY <2>1 DEF StayingEngines
  <2>3. ASSUME NEW c \in DOMAIN bridges, BridgeEnds(c), bridges[c].session = s PROVE FALSE
    <3>1. c[1] = b[1]
      BY <1>1, <1>2, <1>3, <2>3 DEF BridgeSessions
    <3>2. c = b
      BY <3>1 DEF Single
    <3> QED BY <1>4, <2>3, <3>2
  <2> QED BY <1>1, <1>2, <1>6, <2>2, <2>3, ConnectionKept
<1>9. PICK t : t = bridges'[b].session /\ t = s
  BY <1>5
<1> QED BY <1>7, <1>8, <1>9 DEF Attached, Well

\* Between rounds a bridge is asked to stop only when its preset is logged in.
LEMMA NewlyAsked ==
    ASSUME NamesInv, Entries, FromSessions, ~RoundDue, [Next]_vars,
           NEW b \in DOMAIN bridges, b \in DOMAIN bridges', bridges'[b].asked, ~bridges[b].asked
    PROVE  SessionOf(b[1]) # {}
<1>1. CASE Handle
  <2> DEFINE r == Head(requests)
  <2>1. \/ Reject(r.bridge) \/ Accept(r.identity, r.bridge, Holder(r.identity))
        \/ Touch(r.session) \/ Ready(r.session) \/ Gone(r.session)
    BY <1>1, HandleIs
  <2> HIDE DEF r
  <2>2. ~Reject(r.bridge) /\ ~Touch(r.session) /\ ~Gone(r.session)
    BY DEF Reject, Touch, Gone, Without
  <2>3. ASSUME NEW token, NEW bridge, NEW killed, Accept(token, bridge, killed) PROVE FALSE
    <3>1. PICK id : LoggedIn(id, bridge)
      BY <2>3, AcceptedIs
    <3>2. bridges'[b].asked = bridges[b].asked
      BY <3>1, LoggedInIs
    <3> QED BY <3>2
  <2>4. ASSUME NEW id, Ready(id) PROVE SessionOf(b[1]) # {}
    <3>1. PICK back \in SUBSET {sessions[id].identity} :
             id \in DOMAIN sessions /\ bridges' = Asked(running, bridges, back)
      BY <2>4, ReadyIs
    <3>2. \A c \in DOMAIN bridges : Shaped(c, bridges[c])
      BY DEF NamesInv
    <3>3. PICK p \in back \cap DOMAIN running : running[p] = b
      BY <3>1, <3>2, AskedIs
    <3>4. b[1] = sessions[id].identity
      BY <3>1, <3>3 DEF NamesInv
    <3> QED BY <3>1, <3>4 DEF SessionOf
  <2> QED BY <2>1, <2>2, <2>3, <2>4
<1>2. CASE ~Handle
  <2>1. \A c : ~BridgeLogsIn(c)
    BY BridgeLogsInIs
  <2>2. \A c : ~BridgeEnds(c)
    BY DEF BridgeEnds, Without
  <2> QED BY <1>2, <2>1, <2>2, StepKinds DEF Sent
<1> QED BY <1>1, <1>2

LEMMA NextHeldOn ==
    ASSUME StayingEngines, Registry, OwnInv, BookInv, Single, NoGone, SameToken, Orderly,
           HeldOn, Firm', [Next]_vars
    PROVE  HeldOn'
<1> SUFFICES ASSUME NEW b \in DOMAIN bridges', b[1] \in OnDemand, b[1] \notin earlier'
             PROVE  Holds(b)'
  BY DEF HeldOn
<1>1. /\ Entries /\ FromSessions /\ NamesInv /\ BridgeSessions
      /\ FromBridges /\ Booked
  BY DEF Registry, OwnInv, BookInv
<1>2. CASE b[1] \notin Lingering'
  BY <1>2 DEF Firm
<1>3. CASE ~RoundDue /\ b[1] \notin earlier
  <2>1. b \in DOMAIN bridges
    <3>1. ~Appears(b)
      BY <1>3 DEF Appears
    <3>2. BridgeLogsIn(b) => b \in DOMAIN bridges
      BY DEF BridgeLogsIn
    <3> QED BY <1>1, <3>1, <3>2, TaskSteps DEF Goes, Enters
  <2>2. InOrder(b[1])
    BY <1>3 DEF Orderly
  <2>3. CASE Attached(b)
    <3>1. Attached(b)'
      BY <2>1, <2>2, <2>3, AttachedKept
    <3> QED BY <3>1 DEF Holds
  <2>4. CASE ~Attached(b)
    <3>1. ~bridges[b].asked /\ SessionOf(b[1]) = {}
      BY <1>3, <2>1, <2>4 DEF HeldOn, Holds
    <3>2. ~bridges'[b].asked
      BY <1>1, <1>3, <2>1, <3>1, NewlyAsked
    <3>3. ASSUME NEW s \in SessionOf(b[1])' PROVE Attached(b)'
      <4>1. PICK c : /\ c # NoBridge /\ c \in Coming(b[1]) /\ LoggedIn(s, c)
                     /\ Opened(s, b[1], c = NoBridge \/ c \in DOMAIN bridges)
        BY <1>1, <3>1, NewSessionIs
      <4>2. c = b
        BY <2>1, <2>2, <3>1, <4>1, <1>1 DEF InOrder, Booked
      <4>3. bridges'[b].session = s
        BY <1>1, <2>1, <4>1, <4>2, LoggedInIs
      <4>4. PICK open : open = (c = NoBridge \/ c \in DOMAIN bridges)
        OBVIOUS
      <4>5. conns'[s] = Link(b[1], TRUE, FALSE, open) /\ s \in DOMAIN conns'
        BY <4>1, <4>4 DEF Opened
      <4>6. conns'[s].open = open /\ ~conns'[s].told
        BY <4>5 DEF Link
      <4>7. open
        BY <2>1, <4>2, <4>4
      <4>8. s \in DOMAIN sessions'
        BY DEF SessionOf
      <4>9. PICK t : t = bridges'[b].session /\ t = s
        BY <4>3
      <4> QED BY <4>5, <4>6, <4>7, <4>8, <4>9 DEF Attached
    <3> QED BY <3>2, <3>3 DEF Holds
  <2> QED BY <2>3, <2>4
<1> QED BY <1>2, <1>3, EarlierSteps

LEMMA NextSingle ==
    ASSUME Registry, OwnInv, BookInv, Single, HeldOn, Clean, [Next]_vars
    PROVE  Single'
<1>1. /\ Entries /\ FromSessions /\ RegistryAgrees /\ NamesInv /\ BridgeSessions /\ Booked
  BY DEF Registry, OwnInv, BookInv
<1>2. CASE ~RoundDue
  <2>1. \A b \in DOMAIN bridges' : b \in DOMAIN bridges
    <3> SUFFICES ASSUME NEW b \in DOMAIN bridges' PROVE b \in DOMAIN bridges
      OBVIOUS
    <3>1. ~Appears(b)
      BY <1>2 DEF Appears
    <3>2. BridgeLogsIn(b) => b \in DOMAIN bridges
      BY DEF BridgeLogsIn
    <3> QED BY <1>1, <3>1, <3>2, TaskSteps DEF Goes, Enters
  <2> QED BY <2>1 DEF Single
<1>3. CASE RoundDue
  <2>1. earlier = {}
    BY <1>3, RoundIs DEF Clean
  <2>2. PICK pairings : bridges' = Asked(NewBook.book, NewBook.tasks, StoppingBy(pairings))
    BY <1>3, RoundIs
  <2>3. DOMAIN bridges' = DOMAIN NewBook.tasks
    BY <2>2 DEF Asked
  <2>4. \A b \in DOMAIN bridges' \ DOMAIN bridges :
           b[1] \in Starting /\ b[1] \in DOMAIN NewBook.book /\ NewBook.book[b[1]] = b
    BY <1>1, <1>3, <2>3, RoundTasks
  <2>5. ASSUME NEW b \in DOMAIN bridges' \ DOMAIN bridges, NEW c \in DOMAIN bridges,
               b[1] = c[1], b[1] \in OnDemand
        PROVE  FALSE
    <3>1. PICK p : p = b[1] /\ p = c[1] /\ p \in OnDemand /\ p \in Starting
      BY <2>4, <2>5
    <3>2. p \in RoundPlan.start
      BY <3>1 DEF Starting, Restarting, Residents, OnDemand
    <3>3. PICK P : P = StandingsOf(KeptUp) /\ RoundPlan = Plan(WaitingExternals, P)
      BY DEF RoundPlan
    <3>4. p \in Presets /\ P[p].state = "Stopped"
      BY <3>1, <3>2, <3>3 DEF Plan, Startable, IsStartable, OnDemand
    <3>5. SessionOf(p) = {} /\ p \notin KeptUp
      BY <1>1, <3>3, <3>4, StandingIs
    <3>6. CASE bridges[c].asked
      <4>1. Attached(c)
        BY <2>1, <3>1, <3>6 DEF HeldOn, Holds
      <4>2. bridges[c].session \in SessionOf(p)
        BY <1>1, <3>1, <4>1 DEF Attached, BridgeSessions, SessionOf
      <4> QED BY <3>5, <4>2
    <3>7. CASE p \in DOMAIN running /\ running[p] = c
      BY <3>5, <3>7 DEF KeptUp, Reaped
    <3> QED BY <1>1, <3>1, <3>6, <3>7 DEF Booked
  <2> QED BY <2>4, <2>5 DEF Single
<1> QED BY <1>2, <1>3

LEMMA NextNoGone ==
    ASSUME Entries, FromSessions, NamesInv, NoGone, [Next]_vars
    PROVE  NoGone'
<1> SUFFICES ASSUME NEW c \in DOMAIN conns', NEW k \in DOMAIN requests',
                    requests'[k].ask = "Gone", requests'[k].session = c
             PROVE  FALSE
  BY DEF NoGone
<1>1. CASE Handle
  <2> DEFINE r == Head(requests)
  <2>1. /\ requests # <<>> /\ requests' = Tail(requests)
        /\ \/ Reject(r.bridge) \/ Accept(r.identity, r.bridge, Holder(r.identity))
           \/ Touch(r.session) \/ Ready(r.session) \/ Gone(r.session)
    BY <1>1, HandleIs
  <2> HIDE DEF r
  <2>2. PICK j \in DOMAIN requests : requests[j].ask = "Gone" /\ requests[j].session = c
    BY <2>1, QueuedAfterTake
  <2>3. ASSUME NEW token, NEW bridge, NEW killed, Accept(token, bridge, killed)
        PROVE  c \in DOMAIN conns
    <3>1. PICK id : id \in FreshSession(token) /\ \E open : Opened(id, token, open)
      BY <2>3, AcceptedIs
    <3>2. c \in DOMAIN conns \/ c = id
      BY <3>1 DEF Opened
    <3>3. id \notin {q.session : q \in Queued}
      BY <3>1 DEF FreshSession, Fresh
    <3>4. requests[j] \in Queued
      BY DEF Queued
    <3> QED BY <2>2, <3>2, <3>3, <3>4
  <2>4. c \in DOMAIN conns
    BY <2>1, <2>3 DEF Reject, Touch, Ready, Gone
  <2> QED BY <2>2, <2>4 DEF NoGone
<1>2. CASE ~Handle
  <2>1. RoundDue => UNCHANGED <<requests, conns>>
    BY RoundIs
  <2>2. \A b : BridgeEnds(b) => requests' = requests /\ DOMAIN conns' = DOMAIN conns
    BY DEF BridgeEnds
  <2>3. ASSUME requests' = requests, DOMAIN conns' = DOMAIN conns PROVE FALSE
    BY <2>3 DEF NoGone
  <2>4. ASSUME NEW r, requests' = Append(requests, r), DOMAIN conns' \subseteq DOMAIN conns,
               r.ask = "Gone" => r.session \notin DOMAIN conns'
        PROVE  FALSE
    BY <2>4, QueuedAfterSend DEF NoGone
  <2>5. ASSUME NEW b, BridgeLogsIn(b) PROVE FALSE
    <3>1. requests' = Append(requests, Login(b[1], b)) /\ conns' = conns
      BY <2>5, BridgeLogsInIs
    <3>2. Login(b[1], b).ask = "Login"
      BY RequestFields
    <3> QED BY <2>4, <3>1, <3>2
  <2>6. ASSUME NEW token, Sent(Login(token, NoBridge)), UNCHANGED conns PROVE FALSE
    <3>1. Login(token, NoBridge).ask = "Login"
      BY RequestFields
    <3> QED BY <2>4, <2>6, <3>1 DEF Sent
  <2>7. ASSUME NEW d, NEW ask \in {"Ready", "Touch"}, Sent(From(ask, d)),
               DOMAIN conns' = DOMAIN conns
        PROVE  FALSE
    <3>1. From(ask, d).ask = ask
      BY RequestFields
    <3> QED BY <2>4, <2>7, <3>1 DEF Sent
  <2>8. ASSUME NEW d, Sent(From("Gone", d)), conns' = Without(conns, {d}) PROVE FALSE
    <3>1. From("Gone", d).session = d
      BY RequestFields
    <3>2. d \notin DOMAIN conns' /\ DOMAIN conns' \subseteq DOMAIN conns
      BY <2>8 DEF Without
    <3> QED BY <2>4, <2>8, <3>1, <3>2 DEF Sent
  <2> QED BY <1>2, <2>1, <2>2, <2>3, <2>5, <2>6, <2>7, <2>8, StepKinds
<1> QED BY <1>1, <1>2

LEMMA NextSameToken ==
    ASSUME Entries, FromSessions, Linked, SameToken, [Next]_vars
    PROVE  SameToken'
<1> SUFFICES ASSUME NEW c \in DOMAIN conns', c \in DOMAIN sessions'
             PROVE  conns'[c].identity = sessions'[c].identity
  BY DEF SameToken
<1>1. CASE /\ c \in DOMAIN sessions /\ sessions'[c].identity = sessions[c].identity
           /\ c \in DOMAIN conns
  BY <1>1, NextLinked DEF Likewise, SameToken
<1>2. ASSUME NEW token, NEW open, Opened(c, token, open), sessions'[c].identity = token
      PROVE  conns'[c].identity = sessions'[c].identity
  BY <1>2 DEF Opened, Link
<1> QED BY <1>1, <1>2, ComesFrom

\* What keeps an on-demand preset to one process.
SoloInv == Single /\ HeldOn /\ NoGone /\ SameToken

LEMMA SoloInit == Init => SoloInv
<1> SUFFICES ASSUME Init PROVE SoloInv
  OBVIOUS
<1> DEFINE name(p) == <<p, CHOOSE n \in Names : \A m \in Names : n <= m>>
<1>1. /\ DOMAIN conns = {}
      /\ bridges = [b \in {name(p) : p \in Residents} |-> NewBridge(b[1])]
  BY DEF Init, Empty
<1>2. \A p : name(p)[1] = p
  OBVIOUS
<1> HIDE DEF name
<1>3. \A b \in DOMAIN bridges : b[1] \notin OnDemand
  BY <1>1, <1>2 DEF OnDemand, Residents
<1> QED BY <1>1, <1>3 DEF SoloInv, Single, HeldOn, NoGone, SameToken

LEMMA SoloNext ==
    ASSUME StayingEngines
    PROVE  SoloInv /\ Clean /\ Orderly /\ BookInv /\ Registry /\ OwnInv /\ [Next]_vars
             => Single' /\ (Firm' => SoloInv')
<1> SUFFICES ASSUME SoloInv, Clean, Orderly, BookInv, Registry, OwnInv, [Next]_vars
             PROVE  Single' /\ (Firm' => SoloInv')
  OBVIOUS
<1>1. /\ Single /\ HeldOn /\ NoGone /\ SameToken
      /\ Entries /\ FromSessions /\ NamesInv /\ Linked
  BY DEF SoloInv, Registry, OwnInv, BookInv
<1>2. Single'
  BY <1>1, NextSingle
<1>3. Firm' => HeldOn'
  BY <1>1, NextHeldOn
<1>4. NoGone'
  BY <1>1, NextNoGone
<1>5. SameToken'
  BY <1>1, NextSameToken
<1> QED BY <1>2, <1>3, <1>4, <1>5 DEF SoloInv

\* An on-demand preset is never started while a process of it lives: the book forgets one
\* that is asked to stop, but the session it leaves in the registry outlives it
\* (OnDemandIsSingle: presets.rs plan and stop, server.rs preset_standings).
THEOREM OneProcess ==
    ASSUME RoundsApart, OwnEnginesOnly, StayingEngines
    PROVE  Spec => []OnDemandIsSingle
<1>1. OwnInv /\ SoloInv => OnDemandIsSingle
  <2> SUFFICES ASSUME OwnInv, SoloInv, NEW p \in OnDemand
               PROVE  Cardinality(Processes(p)) <= 1
    BY DEF OnDemandIsSingle
  <2>1. \A b \in DOMAIN bridges : bridges[b].preset = b[1]
    <3> SUFFICES ASSUME NEW b \in DOMAIN bridges PROVE bridges[b].preset = b[1]
      OBVIOUS
    <3>1. PICK phase, session, asked : bridges[b] = Task(b[1], phase, session, asked)
      BY DEF OwnInv, NamesInv, Shaped
    <3> QED BY <3>1, TaskFields
  <2>2. CASE Processes(p) = {}
    BY <2>2, FS_EmptySet
  <2>3. ASSUME NEW b \in Processes(p) PROVE Cardinality(Processes(p)) <= 1
    <3>1. Processes(p) = {b}
      BY <2>1, <2>3 DEF Processes, SoloInv, Single
    <3>2. Cardinality({b}) = 1
      BY FS_Singleton
    <3> QED BY <3>1, <3>2
  <2> QED BY <2>2, <2>3
<1>2. CapInv => Clean /\ Orderly
  BY DEF CapInv
<1>3. SoloInv => Single
  BY DEF SoloInv
<1> QED BY <1>1, <1>2, <1>3, RegistryInit, RegistryNext, PoolInit, PoolNext, OwnInit, OwnNextIs,
        BookInit, BookNext, TidyFollows, CapInit, CapNext, FirmFollows, SoloInit, SoloNext,
        PTL DEF Spec, Registry

=============================================================================
