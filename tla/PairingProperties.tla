------------------------- MODULE PairingProperties -------------------------
(***************************************************************************)
(* What the pairing of Pairing promises: the type invariant, the safety    *)
(* invariants, the action properties and the liveness properties its runs  *)
(* check.                                                                  *)
(***************************************************************************)
EXTENDS Pairing

ClientLines == [cmd : Commands, game : Nat]
Todos       == [to : Side, line : OutLines]

ClientsOK ==
    /\ open \in [Side -> BOOLEAN]
    /\ seen \in [Side -> Prompts \cup {"ANSWERED"}]
    /\ heard \in [Side -> Nat]
    /\ lines \in [Side -> Seq(ClientLines)]

WritersOK ==
    /\ out \in [Side -> Seq(OutLines)]
    /\ writer \in [Side -> BOOLEAN]

SessionsOK ==
    /\ pc \in [Side -> {"loop", "closing", "gone", "closed"}]
    /\ sess \in [Side -> States]
    /\ game \in [Side -> BOOLEAN]
    /\ pend \in [Side -> Seq(OutLines \cup GameMessages)]

ControlOK  == control \in [Side -> Seq(Controls)]
InboxOK    == inbox \in Seq(Messages)
RequestsOK == requests \in [Side -> Seq({"Ready", "Gone"})]

TaskOK ==
    /\ phase \in Phases
    /\ todo \in Seq(Todos)
    /\ alive \in [Side -> BOOLEAN]
    /\ agreed \subseteq Side
    /\ turn \in Side
    /\ outcome \in Outcomes \cup {NoOutcome}

CoordinatorOK ==
    /\ registered \subseteq Side
    /\ pool \subseteq Side
    /\ playing \subseteq Side
    /\ games \in Nat

\* Every variable holds a value of its kind: the shape of connection.rs's
\* Session, pairing.rs's Task and server.rs's Coordinator.
TypeOK ==
    /\ ClientsOK /\ WritersOK /\ SessionsOK /\ ControlOK
    /\ TaskOK /\ InboxOK /\ RequestsOK /\ CoordinatorOK

-----------------------------------------------------------------------------
(* Safety *)

\* A session in the pool is done with its last game: it is not counted as
\* playing, holds no game's inbox, and neither a control message nor a report
\* of its own is still on the way that would end or replace the next pairing
\* (server.rs ready / offer against connection.rs on_control).
PoolIsFree ==
    \A s \in pool :
        /\ s \in registered
        /\ s \notin playing
        /\ ~game[s]
        /\ control[s] = <<>>
        /\ "Ready" \notin {requests[s][i] : i \in DOMAIN requests[s]}

\* A round never pairs sessions whose earlier game task is still running: by
\* the time both are back in the pool, that task has filed its game and
\* returned (pairing.rs terminate: GameEnded is its last step).
OneTaskAtATime == pool = Side => phase \in {"idle", "over"}

\* "Waiting: logged in and in the matchmaking pool" (handler.rs SessionState).
WaitingInPool == \A s \in pool : sess[s] = "Waiting"

\* Every control message a session is about to take is an arrow of its state
\* machine: no message is stale, early or repeated (handler.rs after,
\* connection.rs advance).
ControlIsAnArrow ==
    \A s \in Side :
        (Idle(s) /\ control[s] # <<>>) =>
            \/ Head(control[s]) = "Close"
            \/ HasArrow(sess[s], IF Head(control[s]) = "Started"
                                 THEN "BothAgreed" ELSE Head(control[s]))

\* The edges queued for one connection never reach the channel's capacity, so
\* the try_send that carries each of them never drops one on a session that is
\* merely slow (connection.rs CONTROL_CAPACITY, pairing.rs notify).
NoEdgeDropped == \A s \in Side : Len(control[s]) <= 4

\* A session the coordinator knows and whose machine has a pairing or a game is
\* one it counts as playing: the duplicate-login rule and the preset plan never
\* take a player for an idle session (server.rs log_in, standing).
PlayerIsCounted ==
    \A s \in registered :
        (pc[s] = "loop" /\ sess[s] \in {"Agreeing", "Playing"}) => s \in playing

\* A session takes a move, a resignation or a declaration to a game that both
\* sides agreed to: one that was left over from the game before finds it Waiting
\* or Agreeing, and is refused (connection.rs route_game after leave_game,
\* pairing.rs Agreement).
PlaysWhatBothAgreedTo ==
    \A s \in Side :
        (Idle(s) /\ control[s] = <<>> /\ game[s] /\ sess[s] = "Playing" /\ GameOpen)
            => agreed = Side

\* The prompts queued for a client tell one story per game: a START is followed
\* by moves and one ending before the next summary, and an ending follows only a
\* START, or is the supervisor's cut-off of a pairing (pairing.rs terminate,
\* server.rs watch).
Follows == [SUMMARY  |-> {"START", "REJECTED", "SUMMARY", "CUTOFF"},
            REJECTED |-> {"SUMMARY"},
            START    |-> {"RELAY", "OVER", "CUTOFF"},
            RELAY    |-> {"RELAY", "OVER", "CUTOFF"},
            OVER     |-> {"SUMMARY"},
            CUTOFF   |-> {"SUMMARY"}]

\* Of what a client read last and what is queued behind it, the first and the
\* others.
Told(first, queue, i) == IF i = 0 THEN first ELSE queue[i]

\* j is the prompt that comes next after i.
NextPrompt(first, queue, i, j) ==
    /\ i < j /\ Told(first, queue, j) \in Prompts
    /\ \A k \in i + 1..j - 1 : Told(first, queue, k) \notin Prompts

Orderly(first, queue) ==
    \A i, j \in 0..Len(queue) :
        (Told(first, queue, i) \in Prompts /\ NextPrompt(first, queue, i, j))
            => Told(first, queue, j) \in Follows[Told(first, queue, i)]

PromptsInOrder == \A s \in Side : Orderly(seen[s], out[s])

\* A game is scored as a disconnect only against a side whose connection has
\* ended, and its peer's has not been charged with it (pairing.rs play).
DisconnectIsTrue ==
    outcome.kind = "disconnect" => pc[outcome.by] # "loop"

-----------------------------------------------------------------------------
(* Why the pool is free: the inductive strengthening of the two invariants     *)
(* above.  A session has one claim to its next game, which is on the way in one *)
(* place at a time: the running task, an ending queued for the session, a Ready *)
(* queued for the coordinator, or the pool.                                    *)

LastEdges == {"PairingDiscarded", "GameEnded"}

Has(queue, kinds) == \E i \in 1..Len(queue) : queue[i] \in kinds

OnlyClose(queue) == \A i \in 1..Len(queue) : queue[i] = "Close"

\* Only a Close can be queued behind an ending.
EndingLast(queue) ==
    \A i, j \in 1..Len(queue) :
        (queue[i] \in LastEdges /\ i < j) => queue[j] = "Close"

OneReady(queue) ==
    \A i, j \in 1..Len(queue) :
        (queue[i] = "Ready" /\ queue[j] = "Ready") => i = j

TaskRuns == phase \notin {"idle", "over"}

\* The claim of one session, from the task to the pool.
Claim(s) ==
    /\ TaskRuns =>
         s \notin pool /\ ~Has(requests[s], {"Ready"}) /\ ~Has(control[s], LastEdges)
    /\ Has(control[s], LastEdges) =>
         s \notin pool /\ ~Has(requests[s], {"Ready"})
    /\ EndingLast(control[s])
    /\ Has(requests[s], {"Ready"}) =>
         s \notin pool /\ ~game[s] /\ OnlyClose(control[s])
    /\ OneReady(requests[s])
    /\ s \in pool =>
         /\ s \in registered /\ s \notin playing
         /\ ~game[s] /\ control[s] = <<>>
    /\ s \in registered => ~Has(control[s], {"Close"})

\* Every session has at most one claim, whatever the order its messages take
\* (connection.rs on_control, server.rs ready, gone, kill and offer).
OneClaim == \A s \in Side : Claim(s)

-----------------------------------------------------------------------------
(* Steps *)

\* "Drop the session and discard the offered pairing" (handler.rs
\* DisconnectAnswer::DiscardPairing): the game task that takes that answer ends
\* the pairing.
DiscardAnswerDiscards ==
    [][ (/\ inbox # <<>> /\ Head(inbox).msg = "DiscardPairing"
         /\ inbox' = Tail(inbox) /\ games' = games)
        => phase' = "over" ]_vars

\* What a client writes in answer to the summary of the pairing still on offer
\* finds its session Agreeing, and what it writes after START finds it
\* Playing: neither is ever refused as unexpected (server.rs offer and
\* pairing.rs run send the edge before the line, connection.rs run takes
\* control first).
RoutesWhatWasPrompted ==
    \A s \in Side :
        (lines[s] # <<>> /\ lines'[s] = Tail(lines[s]) /\ pc[s] = "loop") =>
            LET line == Head(lines[s]) IN
            line.game = games =>
                /\ (line.cmd \in AgreementCommands /\ phase = "proposing")
                     => sess[s] = "Agreeing"
                /\ (line.cmd \in GameCommands /\ phase = "playing")
                     => sess[s] = "Playing"

PromptedLineIsRouted == [][RoutesWhatWasPrompted]_vars

-----------------------------------------------------------------------------
(* Liveness *)

\* A pairing on offer is agreed to, refused, expired or abandoned.
OfferIsResolved == phase = "proposing" ~> phase # "proposing"

\* A session in a game, or in a pairing, comes back to the pool or leaves the
\* registry: no game holds a connection forever.
SeatIsReturned ==
    \A s \in Side : s \in playing ~> (s \in pool \/ s \notin registered)

\* A connection whose socket closed leaves the registry, whatever its session
\* was waiting on.
ClosedSocketLeaves ==
    \A s \in Side : ~open[s] ~> s \notin registered

\* An abort the coordinator got into a preset game's channel frees the slot it
\* was asked for: the game or its offer ends and both seats are given back
\* (server.rs abort_preset_game, pairing.rs run and play).
AbortFreesTheSlot ==
    (\E i \in DOMAIN inbox : inbox[i].msg = "ABORT") ~> playing = {}
=============================================================================
