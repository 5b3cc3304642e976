---------------------------- MODULE ClockProofs ----------------------------
(***************************************************************************)
(* Proofs about the arithmetic of a clock and about GameClock, for every   *)
(* time setting, every start and every limit.                              *)
(***************************************************************************)
EXTENDS GameClockProperties, TLAPS

-----------------------------------------------------------------------------
(* Counts. *)

\* A saturating operation stays in a count's range.
LEMMA Counts ==
  /\ \A n \in Nat : Capped(n) \in 0..CountMax
  /\ \A a, b \in 0..CountMax : SatAdd(a, b) \in 0..CountMax
  /\ \A a, b \in 0..CountMax : SatSub(a, b) \in 0..CountMax
BY CountAssumption DEF Capped, SatAdd, SatSub

\* Quotient and remainder make up the dividend.
LEMMA Quotient ==
  ASSUME NEW e \in Nat, NEW u \in Nat \ {0}, NEW q \in Int, NEW r \in Int,
         r = e % u, q = e \div u
  PROVE  e - r = u * q
BY Z3

\* Division leaves a remainder below the divisor.
LEMMA Division ==
  ASSUME NEW e \in Nat, NEW u \in Nat \ {0}
  PROVE  \E q, r \in Nat : /\ q = e \div u /\ r = e % u
                           /\ r < u /\ e = u * q + r
<1>1. e \div u \in Nat
  OBVIOUS
<1>2. e % u \in Nat /\ e % u < u
  OBVIOUS
<1>3. PICK q \in Nat, r \in Nat : q = e \div u /\ r = e % u
  BY <1>1, <1>2
<1>4. e - r = u * q
  BY <1>3, Quotient
<1>5. u * q \in Nat
  BY <1>3
<1>6. e = u * q + r
  BY <1>4, <1>5
<1> QED BY <1>2, <1>3, <1>6

\* Multiplication by a number of ticks keeps the order of counts.
LEMMA Products ==
  ASSUME NEW m \in Nat, NEW n \in Nat, NEW u \in Nat, m <= n
  PROVE  u * m \in Nat /\ u * n \in Nat /\ u * m <= u * n
<1>1. PICK d \in Nat : n = m + d
  <2>1. n - m \in Nat /\ n = m + (n - m)
    OBVIOUS
  <2> QED BY <2>1
<1>2. u * n = u * m + u * d
  BY <1>1
<1>3. u * m \in Nat /\ u * n \in Nat /\ u * d \in Nat
  BY <1>1
<1> QED BY <1>2, <1>3

\* A duration in units is a count (clock.rs units_of).
LEMMA UnitsType ==
  ASSUME NEW cfg \in TimeConfigs, NEW d \in Nat
  PROVE  UnitsOf(d, cfg) \in 0..CountMax
<1>1. cfg.unit \in Nat \ {0}
  BY DEF TimeConfigs
<1> DEFINE n == IF cfg.roundup /\ d % cfg.unit # 0
                THEN d \div cfg.unit + 1 ELSE d \div cfg.unit
<1>2. n \in Nat
  BY <1>1, Division
<1>3. UnitsOf(d, cfg) = Capped(n)
  BY DEF UnitsOf
<1> HIDE DEF n
<1> QED BY <1>2, <1>3, Counts

\* What a configuration counts are counts (clock.rs total_units, increment_units).
LEMMA ConfigTypes ==
  ASSUME NEW cfg \in TimeConfigs
  PROVE  /\ cfg.unit \in Nat \ {0} /\ cfg.roundup \in BOOLEAN
         /\ cfg.reduced \in Sides \cup {"none"}
         /\ UnitsOf(cfg.least, cfg) \in 0..CountMax
         /\ UnitsOf(cfg.reduction, cfg) \in 0..CountMax
         /\ TotalUnits(cfg) \in 0..CountMax
         /\ ByoyomiUnits(cfg) \in 0..CountMax
         /\ IncrementUnits(cfg) \in 0..CountMax
<1>1. /\ cfg.unit \in Nat \ {0} /\ cfg.roundup \in BOOLEAN
      /\ cfg.reduced \in Sides \cup {"none"}
      /\ cfg.least \in Nat /\ cfg.reduction \in Nat /\ cfg.total \in Nat
      /\ cfg.byoyomi \in Nat /\ cfg.increment \in Nat
  BY DEF TimeConfigs
<1> QED BY <1>1, UnitsType DEF TotalUnits, ByoyomiUnits, IncrementUnits

\* A charge is a count (clock.rs charged_units).
LEMMA ChargeType ==
  ASSUME NEW cfg \in TimeConfigs, NEW e \in Nat
  PROVE  ChargedUnits(e, cfg) \in 0..CountMax
BY UnitsType, ConfigTypes DEF ChargedUnits

\* An allowance is a count, or no limit.
LEMMA AllowanceType ==
  ASSUME NEW cfg \in TimeConfigs, NEW r \in 0..CountMax
  PROVE  TurnAllowance(r, cfg) \in 0..CountMax \cup {NoLimit}
BY Counts, ConfigTypes DEF TurnAllowance

-----------------------------------------------------------------------------
(* The deadline. *)

\* Truncated, what was used reaches a count at that many whole units.
LEMMA Truncated ==
  ASSUME NEW e \in Nat, NEW u \in Nat \ {0}, NEW a \in Nat
  PROVE  e \div u >= a <=> e >= a * u
<1>1. PICK q \in Nat, r \in Nat :
        q = e \div u /\ r = e % u /\ r < u /\ e = u * q + r
  BY Division
<1>2. CASE q >= a
  <2>1. u * a \in Nat /\ u * q \in Nat /\ u * a <= u * q
    BY <1>1, <1>2, Products
  <2>2. u * a = a * u
    OBVIOUS
  <2> QED BY <1>1, <1>2, <2>1, <2>2
<1>3. CASE q < a
  <2>1. u * (q + 1) \in Nat /\ u * a \in Nat /\ u * (q + 1) <= u * a
    BY <1>1, <1>3, Products
  <2>2. u * (q + 1) = u * q + u /\ u * a = a * u /\ u * q \in Nat
    BY <1>1
  <2>3. e < a * u
    BY <1>1, <2>1, <2>2
  <2> QED BY <1>1, <1>3, <2>1, <2>2, <2>3
<1> QED BY <1>1, <1>2, <1>3

\* Rounded up, it reaches one the moment the unit before is exceeded.
LEMMA RoundedUp ==
  ASSUME NEW e \in Nat, NEW u \in Nat \ {0}, NEW a \in Nat \ {0}
  PROVE  (IF e % u # 0 THEN e \div u + 1 ELSE e \div u) >= a <=> e >= (a - 1) * u + 1
<1>1. PICK q \in Nat, r \in Nat :
        q = e \div u /\ r = e % u /\ r < u /\ e = u * q + r
  BY Division
<1>b. PICK b \in Nat : b = a - 1 /\ a = b + 1
  OBVIOUS
<1>2. q >= b <=> e >= b * u
  BY <1>1, <1>b, Truncated
<1>3. q >= a <=> e >= a * u
  BY <1>1, <1>b, Truncated
<1>4. a * u = b * u + u /\ b * u \in Nat /\ u * b = b * u
  BY <1>1, <1>b
<1>5. CASE q > b
  BY <1>1, <1>b, <1>3, <1>4, <1>5
<1>6. CASE q = b
  <2>1. e = b * u + r
    BY <1>1, <1>4, <1>6
  <2> QED BY <1>1, <1>b, <1>4, <1>6, <2>1
<1>7. CASE q < b
  BY <1>1, <1>b, <1>2, <1>4, <1>7
<1> QED BY <1>1, <1>b, <1>5, <1>6, <1>7

\* The timer and the charge agree to the tick, under either rounding, with any
\* floor, and where counts saturate (clock.rs flag_after: "the earliest elapsed
\* duration whose charge reaches it").
THEOREM FlagAfterIsExact ==
  ASSUME NEW cfg \in TimeConfigs, NEW a \in 0..CountMax, NEW e \in Nat
  PROVE  e >= FlagAfter(a, cfg) <=> ChargedUnits(e, cfg) >= a
<1> DEFINE u == cfg.unit
           n == IF cfg.roundup /\ e % u # 0 THEN e \div u + 1 ELSE e \div u
           floor == UnitsOf(cfg.least, cfg)
<1>1. u \in Nat \ {0} /\ cfg.roundup \in BOOLEAN /\ floor \in 0..CountMax
  BY ConfigTypes
<1>2. e \div u \in Nat /\ n \in Nat
  BY <1>1, Division
<1>3. UnitsOf(e, cfg) = Capped(n)
  BY DEF UnitsOf
<1>4. Capped(n) >= a <=> n >= a
  <2> HIDE DEF n
  <2> QED BY <1>2, CountAssumption DEF Capped
<1>5. Capped(n) \in 0..CountMax
  BY <1>2, Counts
<1>6. ChargedUnits(e, cfg) >= a <=> floor >= a \/ n >= a
  <2> HIDE DEF n, floor
  <2>1. ChargedUnits(e, cfg) = IF Capped(n) > floor THEN Capped(n) ELSE floor
    BY <1>3 DEF ChargedUnits, floor
  <2> QED BY <1>1, <1>4, <1>5, <2>1
<1>7. CASE floor >= a
  BY <1>1, <1>6, <1>7 DEF FlagAfter
<1>8. CASE floor < a /\ cfg.roundup
  <2>1. a \in Nat \ {0}
    BY <1>1, <1>8
  <2>2. FlagAfter(a, cfg) = (a - 1) * u + 1
    BY <1>1, <1>8 DEF FlagAfter
  <2>3. n >= a <=> e >= (a - 1) * u + 1
    BY <1>1, <1>8, <2>1, RoundedUp
  <2> HIDE DEF n, floor
  <2> QED BY <1>1, <1>6, <1>8, <2>2, <2>3
<1>9. CASE floor < a /\ ~cfg.roundup
  <2>1. FlagAfter(a, cfg) = a * u
    BY <1>1, <1>9 DEF FlagAfter
  <2>2. n >= a <=> e >= a * u
    BY <1>1, <1>9, Truncated
  <2> HIDE DEF n, floor
  <2> QED BY <1>1, <1>6, <1>9, <2>1, <2>2
<1> QED BY <1>1, <1>7, <1>8, <1>9

-----------------------------------------------------------------------------
(* Type correctness. *)

\* A queue of a set is one of any larger set: lines stay typed as time passes.
LEMMA Widened ==
  ASSUME NEW S, NEW T, S \subseteq T, NEW q \in Seq(S)
  PROVE  q \in Seq(T)
OBVIOUS

\* Restamped lines are lines of the new turn (pairing.rs apply, the restamp of relayed).
LEMMA Restamping ==
  ASSUME NEW S, NEW T, NEW q \in Seq(S), \A m \in S : [m EXCEPT !.at = 0] \in T
  PROVE  Restamped(q) \in Seq(T)
<1>1. \A i \in DOMAIN q : q[i] \in S
  OBVIOUS
<1>2. \A i \in DOMAIN q : [q[i] EXCEPT !.at = 0] \in T
  BY <1>1
<1>3. DOMAIN q = 1..Len(q) /\ Len(q) \in Nat
  OBVIOUS
<1> QED BY <1>2, <1>3 DEF Restamped

\* Appending, taking and dropping keep a queue's type.
LEMMA Queues ==
  ASSUME NEW S, NEW q \in Seq(S)
  PROVE  /\ \A m \in S : Append(q, m) \in Seq(S)
         /\ q # <<>> => Head(q) \in S /\ Tail(q) \in Seq(S)
OBVIOUS

\* A new game is typed (game_task.rs Game::new).
LEMMA InitTyped == ASSUME Init PROVE TypeOK
<1> USE DEF Init
<1>1. time \in TimeConfigs /\ TotalUnits(time) \in 0..CountMax
  BY ConfigAssumption, ConfigTypes
<1>2. setup \in Nat
  BY GameAssumption DEF EffectiveSetup
<1>3. lines \in [Sides -> Seq(Lines)] /\ inbox \in Seq(Messages)
  BY DEF NoLines
<1> QED BY <1>1, <1>2, <1>3 DEF TypeOK, Outcomes, None

\* A settlement leaves a count, a reckoning a natural number.
LEMMA Settling ==
  ASSUME TypeOK, NEW s \in Sides, NEW t \in 0..CountMax
  PROVE  /\ Settle(s, t) => remaining' \in [Sides -> 0..CountMax]
         /\ Reckon(s, t) => reckoned' \in [Sides -> Nat]
<1>1. IncrementUnits(time) \in 0..CountMax
  BY ConfigAssumption, ConfigTypes DEF TypeOK
<1>2. Settled(remaining[s], IncrementUnits(time), t) \in 0..CountMax
  BY <1>1, Counts DEF TypeOK, Settled
<1>3. Settle(s, t) => remaining' \in [Sides -> 0..CountMax]
  BY <1>2 DEF TypeOK, Settle
<1>4. Reckon(s, t) => reckoned' \in [Sides -> Nat]
  <2> DEFINE left == reckoned[s] + IncrementUnits(time) - t
  <2>1. left \in Int
    BY <1>1, CountAssumption DEF TypeOK
  <2>2. (IF left < 0 THEN 0 ELSE left) \in Nat
    BY <2>1
  <2> QED BY <2>2 DEF TypeOK, Reckon
<1> QED BY <1>3, <1>4

\* What the message at hand is.
LEMMA AtHand ==
  ASSUME TypeOK, inbox # <<>>
  PROVE  /\ Mover \in Sides /\ Charge \in 0..CountMax
         /\ Head(inbox).at \in 0..elapsed /\ Tail(inbox) \in Seq(Messages)
<1>1. Head(inbox) \in Messages /\ Tail(inbox) \in Seq(Messages)
  BY Queues DEF TypeOK
<1>2. Head(inbox).at \in Nat
  BY <1>1 DEF Messages, TypeOK
<1> QED BY <1>1, <1>2, ChargeType, ConfigAssumption DEF TypeOK, Messages, Mover, Charge

\* An end leaves the variables typed (pairing.rs terminate).
LEMMA EndTyped ==
  ASSUME TypeOK, NEW kind, NEW by, Ends(kind, by),
         [kind |-> kind, by |-> by] \in Outcomes
  PROVE  /\ outcome' \in Outcomes
         /\ inbox' \in Seq(Messages') /\ lines' \in [Sides -> Seq(Lines')]
BY DEF Ends, NoLines

\* A message that changed nothing leaves them typed (pairing.rs Step::Continue).
LEMMA GoesOnTyped ==
  ASSUME TypeOK, inbox # <<>>, GoesOn, elapsed' = elapsed
  PROVE  /\ outcome' \in Outcomes
         /\ inbox' \in Seq(Messages') /\ lines' \in [Sides -> Seq(Lines')]
<1>1. Messages' = Messages /\ Lines' = Lines
  BY DEF Messages, Lines
<1> QED BY <1>1, AtHand DEF TypeOK, GoesOn

\* One case per action.
LEMMA TypeStep == ASSUME TypeOK, [Next]_vars PROVE TypeOK'
<1> USE DEF TypeOK
<1>0. /\ time \in TimeConfigs /\ SetupTValue(plies, time) \in 0..CountMax
      /\ SetupMover(plies) \in Sides /\ Other(turn) \in Sides
  BY ConfigAssumption, ConfigTypes, Counts DEF SetupTValue, SetupMover, Other, Sides
<1>1. CASE Seed
  <2>1. remaining' \in [Sides -> 0..CountMax] /\ reckoned' \in [Sides -> Nat]
    BY <1>0, <1>1, Settling DEF Seed
  <2>2. Lines' = Lines /\ Messages' = Messages
    BY <1>1 DEF Seed, Lines, Messages
  <2>3. /\ plies < setup /\ plies' = plies + 1 /\ turn' = Other(turn)
        /\ UNCHANGED <<time, setup, elapsed, lines, inbox, outcome>>
    BY <1>1 DEF Seed
  <2> QED BY <1>0, <2>1, <2>2, <2>3
<1>2. CASE Tick
  <2>1. Lines \subseteq Lines' /\ Messages \subseteq Messages'
    BY <1>2 DEF Tick, Lines, Messages
  <2>2. \A s \in Sides : lines[s] \in Seq(Lines')
    BY <2>1, Widened
  <2>3. inbox \in Seq(Messages')
    BY <2>1, Widened
  <2> QED BY <1>2, <2>2, <2>3 DEF Tick, clockVars
<1>3. ASSUME NEW s \in Sides, Stamp(s) PROVE TypeOK'
  <2>1. PICK kind \in SideLines[s] :
          lines' = [lines EXCEPT ![s] = Append(@, [kind |-> kind, at |-> elapsed])]
    BY <1>3 DEF Stamp
  <2>2. [kind |-> kind, at |-> elapsed] \in Lines
    BY GameAssumption DEF Lines
  <2>3. Append(lines[s], [kind |-> kind, at |-> elapsed]) \in Seq(Lines)
    BY <2>2, Queues
  <2>4. Lines' = Lines /\ Messages' = Messages
    BY <1>3 DEF Stamp, Lines, Messages
  <2> QED BY <1>3, <2>1, <2>3, <2>4 DEF Stamp, clockVars
<1>4. ASSUME NEW s \in Sides, Forward(s) PROVE TypeOK'
  <2> DEFINE line == Head(lines[s])
             m == [kind |-> line.kind, side |-> s,
                   at |-> IF line.kind = "KEEPALIVE" THEN 0 ELSE line.at]
  <2>1. line \in Lines /\ Tail(lines[s]) \in Seq(Lines)
    BY <1>4, Queues DEF Forward
  <2>2. m \in Messages
    BY <2>1 DEF Lines, Messages
  <2>3. Append(inbox, m) \in Seq(Messages)
    BY <2>2, Queues
  <2>4. inbox' = Append(inbox, m) /\ lines' = [lines EXCEPT ![s] = Tail(@)]
    BY <1>4 DEF Forward
  <2>5. Lines' = Lines /\ Messages' = Messages
    BY <1>4 DEF Forward, Lines, Messages
  <2> QED BY <1>4, <2>1, <2>3, <2>4, <2>5 DEF Forward, clockVars
<1>5. CASE Late
  <2>1. [kind |-> "timeout", by |-> Mover] \in Outcomes
    BY <1>5, AtHand DEF Late, Received, Outcomes
  <2> QED BY <1>5, <2>1, EndTyped DEF Late, Received, clockVars
<1>6. CASE Ignored
  BY <1>6, GoesOnTyped DEF Ignored, Received, clockVars
<1>7. CASE Relay
  <2>1. remaining' \in [Sides -> 0..CountMax] /\ reckoned' \in [Sides -> Nat]
    BY <1>7, AtHand, Settling DEF Relay, Received
  <2>2. /\ outcome' \in Outcomes
        /\ inbox' \in Seq(Messages') /\ lines' \in [Sides -> Seq(Lines')]
    <3>1. CASE \E s \in Sides \cup {"none"} : Ends("repetition", s)
      <4>1. PICK s \in Sides \cup {"none"} : Ends("repetition", s)
        BY <3>1
      <4> QED BY <4>1, EndTyped DEF Outcomes
    <3>2. CASE Ends("max_moves", "none")
      BY <3>2, EndTyped DEF Outcomes
    <3>3. CASE /\ inbox' = Restamped(Tail(inbox))
               /\ lines' = [s \in Sides |-> Restamped(lines[s])]
               /\ UNCHANGED outcome
      <4>1. elapsed' = 0
        BY <1>7 DEF Relay
      <4>2. \A m \in Lines : [m EXCEPT !.at = 0] \in Lines'
        <5>1. 0 \in 0..elapsed'
          BY <4>1
        <5> QED BY <5>1 DEF Lines
      <4>3. \A m \in Messages : [m EXCEPT !.at = 0] \in Messages'
        <5>1. 0 \in 0..elapsed'
          BY <4>1
        <5> QED BY <5>1 DEF Messages
      <4>4. \A s \in Sides : Restamped(lines[s]) \in Seq(Lines')
        BY <4>2, Restamping
      <4>5. Restamped(Tail(inbox)) \in Seq(Messages')
        BY <1>7, <4>3, AtHand, Restamping DEF Relay, Received
      <4> QED BY <3>3, <4>4, <4>5
    <3> QED BY <1>7, <3>1, <3>2, <3>3 DEF Relay
  <2>3. /\ time' \in Configs /\ setup' \in Nat /\ turn' \in Sides
        /\ plies' \in Nat /\ elapsed' \in Nat
    BY <1>0, <1>7 DEF Relay, Received
  <2> QED BY <2>1, <2>2, <2>3
<1>8. CASE Penalise
  <2>1. remaining' \in [Sides -> 0..CountMax] /\ reckoned' \in [Sides -> Nat]
    BY <1>8, AtHand, Settling DEF Penalise, Received
  <2>2. [kind |-> "illegal", by |-> Mover] \in Outcomes
    BY <1>8, AtHand DEF Penalise, Received, Outcomes
  <2> QED BY <1>8, <2>1, <2>2, EndTyped DEF Penalise, Received
<1>9. CASE Unreadable
  <2>1. reckoned' \in [Sides -> Nat]
    BY <1>9, AtHand, Settling DEF Unreadable, Received
  <2>2. [kind |-> "illegal", by |-> Mover] \in Outcomes
    BY <1>9, AtHand DEF Unreadable, Received, Outcomes
  <2> QED BY <1>9, <2>1, <2>2, EndTyped DEF Unreadable, Received
<1>10. CASE Resign
  <2>1. remaining' \in [Sides -> 0..CountMax] /\ reckoned' \in [Sides -> Nat]
    BY <1>10, AtHand, Settling DEF Resign, Received
  <2>2. [kind |-> "resignation", by |-> Mover] \in Outcomes
    BY <1>10, AtHand DEF Resign, Received, Outcomes
  <2> QED BY <1>10, <2>1, <2>2, EndTyped DEF Resign, Received
<1>11. CASE Declare
  <2>1. PICK verdict \in {"declared", "undeclared"} : Ends(verdict, Mover)
    BY <1>11 DEF Declare
  <2>2. [kind |-> verdict, by |-> Mover] \in Outcomes
    BY <1>11, AtHand DEF Declare, Received, Outcomes
  <2> QED BY <1>11, <2>1, <2>2, EndTyped DEF Declare, Received, clockVars
<1>12. CASE KeepAlive
  <2>1. [kind |-> "timeout", by |-> turn] \in Outcomes
    BY DEF Outcomes
  <2> QED BY <1>12, <2>1, EndTyped, GoesOnTyped DEF KeepAlive, Received, clockVars
<1>13. CASE Deadline
  <2>1. [kind |-> "timeout", by |-> turn] \in Outcomes
    BY DEF Outcomes
  <2> QED BY <1>13, <2>1, EndTyped DEF Deadline, clockVars
<1>14. CASE UNCHANGED vars
  BY <1>14 DEF vars, clockVars, Lines, Messages
<1> QED BY <1>1, <1>2, <1>3, <1>4, <1>5, <1>6, <1>7, <1>8, <1>9, <1>10, <1>11,
           <1>12, <1>13, <1>14 DEF Next, TaskStep

\* Clocks stay in range and stamps in their turn (game_task.rs, connection.rs).
THEOREM TypeCorrect == Spec => []TypeOK
BY InitTyped, TypeStep, PTL DEF Spec

-----------------------------------------------------------------------------
(* The flag. *)

\* A flag and a deadline that has passed are the same, for the side to move.
LEMMA FlagMeansDeadline ==
  ASSUME TypeOK, NEW e \in Nat
  PROVE  Flagged(turn, ChargedUnits(e, time)) <=>
           /\ Allowance(turn) # NoLimit
           /\ e >= FlagAfter(Allowance(turn), time)
<1>1. time \in TimeConfigs /\ remaining[turn] \in 0..CountMax
  BY ConfigAssumption DEF TypeOK
<1>2. Allowance(turn) \in 0..CountMax \cup {NoLimit}
  BY <1>1, AllowanceType DEF Allowance
<1>3. ChargedUnits(e, time) \in 0..CountMax
  BY <1>1, ChargeType
<1>4. CASE Allowance(turn) = NoLimit
  BY <1>3, <1>4, CountAssumption DEF Flagged, NoLimit
<1>5. CASE Allowance(turn) \in 0..CountMax
  <2>1. Allowance(turn) # NoLimit
    BY <1>5, CountAssumption DEF NoLimit
  <2> QED BY <1>1, <1>5, <2>1, FlagAfterIsExact DEF Flagged
<1> QED BY <1>2, <1>4, <1>5

\* In every reachable turn the timer and the charge agree to the tick (clock.rs
\* flag_after, game_task.rs flagged).
THEOREM TimerMeetsCharge == Spec => []DeadlineIsExact
<1>1. TypeOK => DeadlineIsExact
  BY FlagMeansDeadline DEF DeadlineIsExact, TypeOK
<1> QED BY <1>1, TypeCorrect, PTL

\* So a line that is flagged by its stamp was sent past the deadline.
LEMMA FlaggedLate ==
  ASSUME TypeOK, NEW e \in 0..elapsed, Flagged(turn, ChargedUnits(e, time))
  PROVE  /\ Allowance(turn) # NoLimit
         /\ elapsed >= FlagAfter(Allowance(turn), time)
<1>1. e \in Nat /\ elapsed \in Nat /\ e <= elapsed
  BY DEF TypeOK
<1>2. Allowance(turn) # NoLimit /\ e >= FlagAfter(Allowance(turn), time)
  BY <1>1, FlagMeansDeadline
<1>3. time \in TimeConfigs /\ Allowance(turn) \in 0..CountMax
  BY <1>2, ConfigAssumption, AllowanceType DEF TypeOK, Allowance
<1>4. FlagAfter(Allowance(turn), time) \in Int
  <2>1. time.unit \in Nat
    BY <1>3, ConfigTypes
  <2>2. \A a, u \in Nat : (a - 1) * u + 1 \in Int /\ a * u \in Int
    OBVIOUS
  <2> QED BY <1>3, <2>1, <2>2 DEF FlagAfter
<1> QED BY <1>1, <1>2, <1>4

\* What an ended game keeps of its last turn.
FlagInv ==
    /\ TypeOK /\ NoEarlyFlag
    /\ outcome # None => plies >= setup

\* Every step keeps the flag to the side to move and to its deadline
\* (game_task.rs flagged, expired).
LEMMA FlagStep == ASSUME FlagInv, [Next]_vars PROVE FlagInv'
<1> USE DEF FlagInv
<1>0. TypeOK'
  BY TypeStep
<1>1. CASE Seed \/ Tick \/ \E s \in Sides : Stamp(s) \/ Forward(s)
  <2>1. Seed => outcome = None /\ outcome' = outcome
    BY DEF Seed, TypeOK
  <2>2. Tick => outcome = None /\ outcome' = outcome
    BY DEF Tick, Playing
  <2>3. \A s \in Sides : Stamp(s) \/ Forward(s) => outcome = None /\ outcome' = outcome
    BY DEF Stamp, Forward, Playing
  <2> QED BY <1>0, <1>1, <2>1, <2>2, <2>3 DEF NoEarlyFlag, None
<1>2. ASSUME Playing, NEW by, Ends("timeout", by), by = turn,
             NEW e \in 0..elapsed, Flagged(turn, ChargedUnits(e, time)),
             UNCHANGED <<time, setup, clockVars, elapsed>>
      PROVE  FlagInv'
  <2>1. /\ Allowance(turn) # NoLimit
        /\ elapsed >= FlagAfter(Allowance(turn), time)
    BY <1>2, FlaggedLate
  <2>2. Allowance(turn)' = Allowance(turn)
    BY <1>2 DEF clockVars, Allowance
  <2> QED BY <1>0, <1>2, <2>1, <2>2 DEF NoEarlyFlag, Ends, clockVars, Playing
<1>3. CASE Late
  <2>1. inbox # <<>> /\ Mover = turn /\ Flagged(turn, Charge)
    BY <1>3 DEF Late, Received, Flagged
  <2> QED BY <1>2, <1>3, <2>1, AtHand DEF Late, Received, Charge
<1>4. CASE KeepAlive \/ Deadline
  <2>1. elapsed \in 0..elapsed
    BY DEF TypeOK
  <2>2. CASE Flagged(turn, ChargedUnits(elapsed, time))
    BY <1>2, <1>4, <2>1, <2>2 DEF KeepAlive, Deadline, Received
  <2>3. CASE ~Flagged(turn, ChargedUnits(elapsed, time))
    <3>1. Playing /\ GoesOn
      BY <1>4, <2>3 DEF KeepAlive, Deadline, Received
    <3> QED BY <1>0, <3>1 DEF GoesOn, Playing, NoEarlyFlag, None
  <2> QED BY <2>2, <2>3
<1>5. CASE Ignored
  BY <1>0, <1>5 DEF Ignored, Received, GoesOn, Playing, NoEarlyFlag, None
<1>6. CASE Relay \/ Penalise \/ Unreadable \/ Resign \/ Declare
  <2>1. outcome'.kind # "timeout" /\ plies' >= setup'
    BY <1>6 DEF Relay, Penalise, Unreadable, Resign, Declare, Received, Ends,
                Playing, None, TypeOK, clockVars
  <2> QED BY <1>0, <2>1 DEF NoEarlyFlag
<1>7. CASE UNCHANGED vars
  BY <1>0, <1>7 DEF vars, clockVars, NoEarlyFlag, Allowance
<1> QED BY <1>1, <1>3, <1>4, <1>5, <1>6, <1>7 DEF Next, TaskStep

\* Only the side to move loses on time, never before its deadline, whichever of
\* a timer, a line and a keep-alive found it (game_task.rs flagged, expired).
THEOREM FlagsInTime == Spec => []NoEarlyFlag
<1>1. Init => FlagInv
  BY InitTyped DEF Init, FlagInv, NoEarlyFlag, None
<1>2. FlagInv /\ [Next]_vars => FlagInv'
  BY FlagStep
<1>3. FlagInv => NoEarlyFlag
  BY DEF FlagInv
<1> QED BY <1>1, <1>2, <1>3, PTL DEF Spec

-----------------------------------------------------------------------------
(* The clocks at START. *)

\* What the first n setup plies took off a side's total.
Cut(s, n) ==
    IF s = time.reduced /\ FirstMoveIndex(s) < n
    THEN UnitsOf(time.reduction, time) ELSE 0

\* Ply by ply, a setup leaves a side its total, less its reduction from the ply
\* that carried it.
StartInv ==
    /\ TypeOK
    /\ outcome # None => plies >= setup
    /\ time.reduced # "none" => FirstMoveIndex(time.reduced) < setup
    /\ (plies <= setup /\ outcome = None) =>
          \A s \in Sides : remaining[s] = SatSub(TotalUnits(time), Cut(s, plies))

\* Every step keeps the clocks of the setup on their way to the announced ones
\* (game_task.rs Game::new).
LEMMA StartStep == ASSUME StartInv, [Next]_vars PROVE StartInv'
<1> USE DEF StartInv
<1>0. TypeOK'
  BY TypeStep
<1>1. CASE Seed
  <2> DEFINE s == SetupMover(plies)
             inc == IncrementUnits(time)
             total == TotalUnits(time)
             red == UnitsOf(time.reduction, time)
  <2>1. /\ inc \in Nat /\ total \in Nat /\ red \in Nat
        /\ total + inc <= CountMax /\ inc + red <= CountMax
    BY ConfigAssumption, ConfigTypes, FitAssumption DEF TypeOK
  <2>2. outcome = None /\ outcome' = outcome /\ time' = time /\ setup' = setup
    BY <1>1 DEF Seed, TypeOK
  <2>3. plies \in Nat /\ plies' = plies + 1 /\ s \in Sides /\ setup \in Nat
        /\ plies < setup
    BY <1>1 DEF Seed, TypeOK, SetupMover, Sides
  <2>4. remaining[s] = SatSub(total, Cut(s, plies))
    BY <2>2, <2>3
  <2>5. remaining' = [remaining EXCEPT ![s] = Settled(@, inc, SetupTValue(plies, time))]
    BY <1>1 DEF Seed, Settle
  <2>6. \A r \in Sides \ {s} : Cut(r, plies + 1) = Cut(r, plies)
    BY <2>3 DEF Cut, FirstMoveIndex, SetupMover, Sides
  <2>7. Settled(remaining[s], inc, SetupTValue(plies, time))
          = SatSub(total, Cut(s, plies + 1))
    <3>1. CASE time.reduced # "none" /\ plies = FirstMoveIndex(time.reduced)
      <4>1. time.reduced \in Sides
        BY <3>1, ConfigAssumption, ConfigTypes DEF TypeOK
      <4>2. s = time.reduced
        BY <3>1, <4>1 DEF SetupMover, FirstMoveIndex, Sides
      <4>3. Cut(s, plies) = 0 /\ Cut(s, plies + 1) = red
        BY <2>3, <3>1, <4>2 DEF Cut
      <4>4. remaining[s] = total
        BY <2>1, <2>4, <4>3 DEF SatSub
      <4>5. SetupTValue(plies, time) = inc + red
        BY <2>1, <3>1, CountAssumption DEF SetupTValue, SatAdd, Capped
      <4> HIDE DEF inc, total, red, s
      <4> QED BY <2>1, <4>3, <4>4, <4>5, CountAssumption
              DEF Settled, SatAdd, SatSub, Capped
    <3>2. CASE ~(time.reduced # "none" /\ plies = FirstMoveIndex(time.reduced))
      <4>1. Cut(s, plies + 1) = Cut(s, plies)
        BY <2>3, <3>2 DEF Cut, FirstMoveIndex, Sides
      <4>2. SetupTValue(plies, time) = inc
        BY <3>2 DEF SetupTValue
      <4>3. remaining[s] \in Nat /\ remaining[s] <= total
        <5>1. Cut(s, plies) \in Nat
          BY <2>1 DEF Cut
        <5> HIDE DEF inc, total, red, s
        <5> QED BY <2>1, <2>4, <5>1 DEF SatSub
      <4>4. Settled(remaining[s], inc, inc) = remaining[s]
        <5> HIDE DEF inc, total, red, s
        <5> QED BY <2>1, <4>3, CountAssumption DEF Settled, SatAdd, SatSub, Capped
      <4> QED BY <2>4, <4>1, <4>2, <4>4
    <3> QED BY <3>1, <3>2
  <2>8. \A r \in Sides : remaining'[r] = SatSub(total, Cut(r, plies + 1))
    BY <2>2, <2>3, <2>5, <2>6, <2>7 DEF TypeOK
  <2>9. \A r \in Sides : Cut(r, plies)' = Cut(r, plies + 1)
    BY <2>2, <2>3 DEF Cut
  <2> QED BY <1>0, <2>2, <2>3, <2>8, <2>9
<1>2. CASE Tick \/ (\E s \in Sides : Stamp(s) \/ Forward(s)) \/ UNCHANGED vars
  <2>1. UNCHANGED <<time, setup, remaining, plies, outcome>>
    BY <1>2 DEF Tick, Stamp, Forward, vars, clockVars
  <2> QED BY <1>0, <2>1 DEF Cut
<1>3. CASE TaskStep
  <2>1. UNCHANGED <<time, setup>> /\ plies >= setup /\ plies' >= plies
    BY <1>3 DEF TaskStep, Late, Ignored, Relay, Penalise, Unreadable, Resign, Declare,
                KeepAlive, Deadline, Received, Playing, clockVars, TypeOK
  <2>2. CASE Ignored \/ KeepAlive
    <3>1. UNCHANGED <<time, setup, remaining, plies>> /\ outcome = None
      BY <2>2 DEF Ignored, KeepAlive, Received, Playing, clockVars
    <3> QED BY <1>0, <2>1, <3>1 DEF Cut, TypeOK
  <2>3. CASE Relay
    <3>1. plies' > setup'
      BY <2>1, <2>3 DEF Relay, TypeOK
    <3> QED BY <1>0, <2>1, <3>1 DEF TypeOK
  <2>4. CASE Late \/ Penalise \/ Unreadable \/ Resign \/ Declare \/ Deadline
    <3>1. outcome'.kind # "none"
      BY <2>4 DEF Late, Penalise, Unreadable, Resign, Declare, Deadline, Ends
    <3>2. outcome' # None
      BY <3>1 DEF None
    <3> QED BY <1>0, <2>1, <3>2 DEF TypeOK
  <2> QED BY <1>3, <2>2, <2>3, <2>4 DEF TaskStep
<1> QED BY <1>1, <1>2, <1>3 DEF Next

\* At START both clocks hold what the summary announces, whatever the setup and
\* the increment (game_task.rs Game::new, clock.rs setup_t_values).
THEOREM ClocksAtStart == Spec => []StartAllowances
<1>1. Init => StartInv
  <2> SUFFICES ASSUME Init PROVE StartInv
    OBVIOUS
  <2>1. TotalUnits(time) \in 0..CountMax
    BY ConfigAssumption, ConfigTypes DEF Init
  <2>2. \A s \in Sides : Cut(s, 0) = 0
    BY DEF Cut, FirstMoveIndex
  <2> QED BY <2>1, <2>2, InitTyped DEF Init, StartInv, SatSub
<1>2. StartInv /\ [Next]_vars => StartInv'
  BY StartStep
<1>3. StartInv => StartAllowances
  <2> SUFFICES ASSUME StartInv, plies = setup, outcome = None, NEW s \in Sides
               PROVE  remaining[s] = SatSub(TotalUnits(time),
                        IF s = time.reduced THEN UnitsOf(time.reduction, time) ELSE 0)
    BY DEF StartAllowances
  <2>1. s = time.reduced => FirstMoveIndex(s) < plies
    BY DEF StartInv, Sides
  <2> QED BY <2>1 DEF StartInv, TypeOK, Cut
<1> QED BY <1>1, <1>2, <1>3, PTL DEF Spec

-----------------------------------------------------------------------------
(* Play ends. *)

\* A move that leaves the game open is short of the limit (game_task.rs
\* reached_max_moves).
THEOREM WithinTheLimit == Spec => []GameIsBounded
<1> DEFINE Inv == TypeOK /\ GameIsBounded
<1>1. Init => Inv
  BY InitTyped, GameAssumption DEF Init, GameIsBounded, TypeOK
<1>2. Inv /\ [Next]_vars => Inv'
  <2> SUFFICES ASSUME Inv, [Next]_vars PROVE Inv'
    OBVIOUS
  <2>0. TypeOK'
    BY TypeStep
  <2>1. CASE Seed
    BY <2>0, <2>1 DEF Seed, GameIsBounded, TypeOK
  <2>2. CASE Relay
    <3>1. outcome' # None \/ ~Full(plies + 1)
      <4>1. \A by : Ends("repetition", by) \/ Ends("max_moves", by) => outcome' # None
        BY DEF Ends, None
      <4>2. \/ \E by \in Sides \cup {"none"} : Ends("repetition", by)
            \/ Ends("max_moves", "none")
            \/ ~Full(plies + 1)
        BY <2>2 DEF Relay
      <4> QED BY <4>1, <4>2
    <3>2. Full(plies + 1) \/ MaxMoves = 0 \/ plies + 1 < MaxMoves
      BY GameAssumption DEF Full, TypeOK
    <3>3. plies' = plies + 1
      BY <2>2 DEF Relay
    <3> QED BY <2>0, <3>1, <3>2, <3>3 DEF GameIsBounded, Playing
  <2>3. CASE UNCHANGED <<setup, plies>> /\ Playing
    BY <2>0, <2>3 DEF GameIsBounded, Playing
  <2>4. CASE UNCHANGED vars
    BY <2>0, <2>4 DEF vars, clockVars, GameIsBounded, Playing
  <2>5. CASE Tick \/ \E s \in Sides : Stamp(s) \/ Forward(s)
    BY <2>3, <2>5 DEF Tick, Stamp, Forward, clockVars
  <2>6. CASE Late \/ Ignored \/ Penalise \/ Unreadable \/ Resign \/ Declare
             \/ KeepAlive \/ Deadline
    BY <2>3, <2>6 DEF Late, Ignored, Penalise, Unreadable, Resign, Declare, KeepAlive,
                      Deadline, Received, clockVars
  <2> QED BY <2>1, <2>2, <2>4, <2>5, <2>6 DEF Next, TaskStep
<1>3. Inv => GameIsBounded
  OBVIOUS
<1> QED BY <1>1, <1>2, <1>3, PTL DEF Spec

\* The clocks of an open game without byoyomi, from START on.
DryInv ==
    (/\ Playing /\ ByoyomiUnits(time) = 0
     /\ TotalUnits(time) > UnitsOf(time.reduction, time))
      => \A s \in Sides : remaining[s] > 0

\* A charge short of the allowance leaves time on the clock.
LEMMA ShortOfTheAllowance ==
  ASSUME TypeOK, NEW t \in 0..CountMax, ~Flagged(turn, t),
         ByoyomiUnits(time) = 0, TotalUnits(time) > 0
  PROVE  Settled(remaining[turn], IncrementUnits(time), t) > 0
<1> DEFINE rem == remaining[turn]
           inc == IncrementUnits(time)
<1>1. rem \in 0..CountMax /\ inc \in 0..CountMax
  BY ConfigAssumption, ConfigTypes DEF TypeOK
<1>2. TurnAllowance(rem, time) = SatAdd(SatAdd(rem, 0), inc)
  BY DEF TurnAllowance
<1>3. SatAdd(rem, 0) = rem
  <2> HIDE DEF rem, inc
  <2> QED BY <1>1, CountAssumption DEF SatAdd, Capped
<1>4. ~(t >= SatAdd(rem, inc))
  BY <1>2, <1>3 DEF Flagged, Allowance
<1>5. SatAdd(rem, inc) \in 0..CountMax
  <2> HIDE DEF rem, inc
  <2> QED BY <1>1, Counts
<1>6. SatSub(SatAdd(rem, inc), t) > 0
  <2> DEFINE sum == SatAdd(rem, inc)
  <2>1. sum \in Nat /\ t \in Nat /\ sum > t
    BY <1>4, <1>5, CountAssumption
  <2>2. \A a, b \in Nat : a > b => SatSub(a, b) > 0
    BY DEF SatSub
  <2> QED BY <2>1, <2>2
<1> QED BY <1>6 DEF Settled

\* Every step leaves time on a clock that had some (game_task.rs settle, flagged).
LEMMA DryStep == ASSUME StartInv, StartAllowances', DryInv, [Next]_vars PROVE DryInv'
<1> SUFFICES ASSUME Playing', ByoyomiUnits(time') = 0,
                    TotalUnits(time') > UnitsOf(time.reduction, time)',
                    NEW s \in Sides
             PROVE  remaining'[s] > 0
  BY DEF DryInv, ByoyomiUnits, TotalUnits
<1> USE DEF StartInv
<1>0. TypeOK' /\ time' = time /\ time \in TimeConfigs
  BY TypeStep, ConfigAssumption DEF TypeOK, Next, Seed, Tick, Stamp, Forward, TaskStep,
     Late, Ignored, Relay, Penalise, Unreadable, Resign, Declare, KeepAlive, Deadline,
     Received, vars
<1>1. /\ TotalUnits(time) \in Nat /\ UnitsOf(time.reduction, time) \in Nat
      /\ TotalUnits(time) > UnitsOf(time.reduction, time) /\ TotalUnits(time) > 0
  BY <1>0, ConfigTypes
<1>2. CASE Seed
  <2>1. plies' = setup' /\ outcome' = None
    BY <1>2 DEF Seed, Playing, TypeOK
  <2>2. remaining'[s] = SatSub(TotalUnits(time),
          IF s = time.reduced THEN UnitsOf(time.reduction, time) ELSE 0)
    BY <1>0, <2>1 DEF StartAllowances
  <2> QED BY <1>1, <2>2 DEF SatSub
<1>3. CASE Playing /\ remaining' = remaining
  BY <1>0, <1>1, <1>3 DEF DryInv
<1>4. CASE Relay
  <2>1. Playing /\ Mover = turn /\ ~Flagged(turn, Charge) /\ Settle(turn, Charge)
        /\ Charge \in 0..CountMax
    BY <1>4, AtHand DEF Relay, Received
  <2>2. Settled(remaining[turn], IncrementUnits(time), Charge) > 0
    BY <1>0, <1>1, <2>1, ShortOfTheAllowance
  <2>3. remaining[s] > 0
    BY <1>0, <1>1, <2>1 DEF DryInv
  <2> QED BY <2>1, <2>2, <2>3 DEF Settle, TypeOK
<1>5. CASE Late \/ Penalise \/ Unreadable \/ Resign \/ Declare \/ Deadline
  <2>1. outcome'.kind # "none"
    BY <1>5 DEF Late, Penalise, Unreadable, Resign, Declare, Deadline, Ends
  <2> QED BY <2>1 DEF Playing, None
<1>6. CASE Tick \/ (\E r \in Sides : Stamp(r) \/ Forward(r)) \/ Ignored \/ KeepAlive
  BY <1>3, <1>6 DEF Tick, Stamp, Forward, Ignored, KeepAlive, Received, clockVars
<1>7. CASE UNCHANGED vars
  BY <1>3, <1>7 DEF vars, clockVars, Playing
<1> QED BY <1>2, <1>4, <1>5, <1>6, <1>7 DEF Next, TaskStep

\* Without byoyomi a clock never runs dry in play (clock.rs turn_allowance).
THEOREM TimeIsLeft == Spec => []ClockNeverRunsDry
<1>1. Init => StartInv /\ DryInv
  <2> SUFFICES ASSUME Init PROVE StartInv /\ DryInv
    OBVIOUS
  <2>1. TotalUnits(time) \in Nat /\ UnitsOf(time.reduction, time) \in Nat
    BY ConfigAssumption, ConfigTypes DEF Init
  <2>2. \A s \in Sides : Cut(s, 0) = 0
    BY DEF Cut, FirstMoveIndex
  <2>3. DryInv
    BY <2>1 DEF Init, DryInv
  <2> QED BY <2>1, <2>2, <2>3, InitTyped DEF Init, StartInv, SatSub
<1>2. StartInv /\ StartAllowances' /\ DryInv /\ [Next]_vars => StartInv' /\ DryInv'
  BY StartStep, DryStep
<1>3. StartInv /\ DryInv => ClockNeverRunsDry
  <2> SUFFICES ASSUME StartInv, DryInv, time.byoyomi = 0 PROVE ByoyomiUnits(time) = 0
    BY DEF DryInv, ClockNeverRunsDry
  <2>1. time.unit \in Nat \ {0} /\ 0 % time.unit = 0 /\ 0 \div time.unit = 0
    BY ConfigAssumption, ConfigTypes DEF StartInv, TypeOK
  <2> QED BY <2>1, CountAssumption DEF ByoyomiUnits, UnitsOf, Capped
<1> QED BY <1>1, <1>2, <1>3, ClocksAtStart, PTL DEF Spec

-----------------------------------------------------------------------------
(* The clients' clocks. *)

\* The increments of a whole game do not carry a clock to the last count.
NeverCapped == \A cfg \in Configs :
    TotalUnits(cfg) + IncrementUnits(cfg) * PlyBound <= CountMax

\* A turn adds at most its increment to a clock, so the clocks stay below what
\* the total and the increments so far can make of them.
AgreeInv ==
    /\ StartInv /\ ClientsAgree
    /\ outcome = None => \A s \in Sides :
         remaining[s] <= TotalUnits(time) + IncrementUnits(time) * plies

\* Short of the last count the server's settlement and the client's reckoning
\* are one sum, which leaves at most the clock and its increment (clock.rs
\* settle; "remaining + increment - T").
LEMMA OneSum ==
  ASSUME TypeOK, ClientsAgree, outcome = None, NEW s \in Sides, NEW t \in 0..CountMax,
         remaining[s] + IncrementUnits(time) <= CountMax, Settle(s, t), Reckon(s, t)
  PROVE  /\ reckoned' = remaining'
         /\ \A r \in Sides : remaining'[r] <= remaining[r] + IncrementUnits(time)
<1> DEFINE inc == IncrementUnits(time)
           rem == remaining[s]
           left == rem + inc - t
<1>1. inc \in Nat /\ rem \in Nat /\ rem + inc <= CountMax /\ t \in Nat /\ CountMax \in Nat
  BY ConfigAssumption, ConfigTypes, CountAssumption DEF TypeOK
<1>2. reckoned = remaining
  BY DEF ClientsAgree
<1>3. /\ Settled(rem, inc, t) = IF left < 0 THEN 0 ELSE left
      /\ Settled(rem, inc, t) <= rem + inc
  <2> HIDE DEF inc, rem
  <2> QED BY <1>1 DEF Settled, SatAdd, SatSub, Capped
<1>4. remaining' = [remaining EXCEPT ![s] = Settled(rem, inc, t)]
  BY DEF Settle
<1>5. reckoned' = [remaining EXCEPT ![s] = IF left < 0 THEN 0 ELSE left]
  BY <1>2 DEF Reckon
<1>6. \A r \in Sides : remaining[r] \in Nat
  BY CountAssumption DEF TypeOK
<1>7. ASSUME NEW r \in Sides PROVE remaining'[r] <= remaining[r] + inc
  <2>1. CASE r = s
    BY <1>3, <1>4, <2>1 DEF TypeOK
  <2>2. CASE r # s
    <3>1. remaining'[r] = remaining[r]
      BY <1>4, <2>2 DEF TypeOK
    <3> HIDE DEF inc
    <3> QED BY <1>1, <1>6, <3>1
  <2> QED BY <2>1, <2>2
<1> QED BY <1>3, <1>4, <1>5, <1>7

\* Every step of an open game keeps the two clocks one (game_task.rs settle).
LEMMA AgreeStep ==
  ASSUME NeverCapped, AgreeInv, [Next]_vars
  PROVE  AgreeInv'
<1> USE DEF AgreeInv
<1> DEFINE inc == IncrementUnits(time)
           total == TotalUnits(time)
<1>0. TypeOK /\ StartInv' /\ time' = time
  BY StartStep DEF StartInv, Next, Seed, Tick, Stamp, Forward, TaskStep,
     Late, Ignored, Relay, Penalise, Unreadable, Resign, Declare, KeepAlive, Deadline,
     Received, vars
<1>1. /\ inc \in Nat /\ total \in Nat /\ CountMax \in Nat /\ PlyBound \in Nat
      /\ plies \in Nat /\ setup \in Nat
      /\ total + inc <= CountMax /\ total + inc * PlyBound <= CountMax
  BY <1>0, ConfigAssumption, ConfigTypes, FitAssumption, GameAssumption, CountAssumption
     DEF TypeOK, NeverCapped
<1>2. inc * (plies + 1) = inc * plies + inc /\ inc * plies \in Nat
  BY <1>1
<1>3. SUFFICES ASSUME outcome' = None
               PROVE  /\ reckoned' = remaining'
                      /\ \A s \in Sides : remaining'[s] <= total + inc * plies'
  BY <1>0 DEF ClientsAgree
<1>4. CASE UNCHANGED <<remaining, reckoned, plies, outcome>>
  BY <1>3, <1>4 DEF ClientsAgree
<1>5. ASSUME outcome = None, NEW s \in Sides, NEW t \in 0..CountMax, remaining[s] + inc <= CountMax,
             Settle(s, t), Reckon(s, t), plies' = plies + 1
      PROVE  /\ reckoned' = remaining'
             /\ \A r \in Sides : remaining'[r] <= total + inc * plies'
  <2>1. /\ reckoned' = remaining'
        /\ \A r \in Sides : remaining'[r] <= remaining[r] + inc
    BY <1>0, <1>5, OneSum
  <2>2. ASSUME NEW r \in Sides PROVE remaining'[r] <= total + inc * plies'
    <3>1. remaining'[r] <= remaining[r] + inc /\ remaining[r] <= total + inc * plies
      BY <1>5, <2>1
    <3>2. remaining[r] \in Nat /\ remaining'[r] \in Nat
      BY <1>0, CountAssumption DEF TypeOK, StartInv
    <3>3. inc * plies' = inc * plies + inc
      BY <1>2, <1>5
    <3> DEFINE grown == inc * plies
    <3>4. \A a, b, c, d, g \in Nat : a <= b + d /\ b <= c + g => a <= c + (g + d)
      OBVIOUS
    <3> HIDE DEF inc, total, grown
    <3> QED BY <1>1, <1>2, <3>1, <3>2, <3>3, <3>4 DEF grown
  <2> QED BY <2>1, <2>2
<1>6. CASE Seed
  <2> DEFINE s == SetupMover(plies)
  <2>1. /\ s \in Sides /\ plies' = plies + 1 /\ plies < setup /\ outcome' = outcome
        /\ Settle(s, SetupTValue(plies, time)) /\ Reckon(s, SetupTValue(plies, time))
    BY <1>6 DEF Seed, SetupMover, Sides
  <2>2. SetupTValue(plies, time) \in 0..CountMax
    BY <1>0, ConfigAssumption, ConfigTypes, Counts DEF SetupTValue, TypeOK
  <2>3. remaining[s] = SatSub(total, Cut(s, plies))
    BY <1>1, <1>3, <2>1 DEF StartInv
  <2>4. Cut(s, plies) \in Nat
    BY <1>0, ConfigAssumption, ConfigTypes DEF Cut, TypeOK
  <2>5. remaining[s] + inc <= CountMax
    <3>1. \A a, b \in Nat : SatSub(a, b) \in Nat /\ SatSub(a, b) <= a
      BY DEF SatSub
    <3> HIDE DEF inc, total, s
    <3> QED BY <1>1, <2>3, <2>4, <3>1
  <2> HIDE DEF s, inc, total
  <2> QED BY <1>3, <1>5, <2>1, <2>2, <2>5
<1>7. CASE Relay
  <2>1. /\ outcome = None /\ Mover \in Sides /\ Charge \in 0..CountMax
        /\ Settle(Mover, Charge) /\ Reckon(Mover, Charge)
        /\ plies' = plies + 1 /\ plies < PlyBound
    BY <1>0, <1>7, AtHand DEF Relay, Received, Playing
  <2>2. inc * (plies + 1) <= inc * PlyBound /\ inc * PlyBound \in Nat
    BY <1>1, <2>1, Products
  <2>3. remaining[Mover] <= total + inc * plies /\ remaining[Mover] \in Nat
    BY <1>0, <2>1, CountAssumption DEF TypeOK
  <2>4. remaining[Mover] + inc <= CountMax
    <3> DEFINE grown == inc * plies
               most == inc * PlyBound
    <3>1. grown \in Nat /\ most \in Nat /\ grown + inc <= most /\ total + most <= CountMax
      BY <1>1, <1>2, <2>2
    <3>2. remaining[Mover] <= total + grown
      BY <2>3
    <3> HIDE DEF inc, total, grown, most
    <3> QED BY <1>1, <2>3, <3>1, <3>2
  <2> HIDE DEF inc, total
  <2> QED BY <1>5, <2>1, <2>4
<1>8. CASE Late \/ Penalise \/ Unreadable \/ Resign \/ Declare \/ Deadline
  <2>1. outcome'.kind # "none"
    BY <1>8 DEF Late, Penalise, Unreadable, Resign, Declare, Deadline, Ends
  <2> QED BY <1>3, <2>1 DEF None
<1>9. CASE Tick \/ (\E s \in Sides : Stamp(s) \/ Forward(s)) \/ UNCHANGED vars
  BY <1>4, <1>9 DEF Tick, Stamp, Forward, vars, clockVars
<1>10. CASE Ignored
  BY <1>4, <1>10 DEF Ignored, GoesOn, clockVars
<1>11. CASE KeepAlive
  <2>1. UNCHANGED <<remaining, reckoned, plies>> /\ outcome = None
    BY <1>11 DEF KeepAlive, Received, Playing, clockVars
  <2> QED BY <1>3, <1>4, <2>1
<1> QED BY <1>6, <1>7, <1>8, <1>9, <1>10, <1>11 DEF Next, TaskStep

\* While a game is open its clients' clocks are the server's, through the setup
\* and at every move, as long as its increments stay short of the last count:
\* there the server's clock stands still and a client's goes on ("The T-value
\* written equals the time deducted", clock.rs:3-5).
THEOREM OneClock == ASSUME NeverCapped PROVE Spec => []ClientsAgree
<1>1. Init => AgreeInv
  <2> SUFFICES ASSUME Init PROVE AgreeInv
    OBVIOUS
  <2>1. TotalUnits(time) \in Nat /\ IncrementUnits(time) \in Nat
    BY ConfigAssumption, ConfigTypes DEF Init
  <2>2. \A s \in Sides : Cut(s, 0) = 0
    BY DEF Cut, FirstMoveIndex
  <2>3. StartInv
    BY <2>1, <2>2, InitTyped DEF Init, StartInv, SatSub
  <2>4. IncrementUnits(time) * 0 = 0
    BY <2>1
  <2> QED BY <2>1, <2>3, <2>4 DEF Init, AgreeInv, ClientsAgree
<1>2. AgreeInv /\ [Next]_vars => AgreeInv'
  BY AgreeStep
<1>3. AgreeInv => ClientsAgree
  BY DEF AgreeInv
<1> QED BY <1>1, <1>2, <1>3, PTL DEF Spec
=============================================================================
