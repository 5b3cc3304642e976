--------------------------- MODULE SessionMachine ---------------------------
(***************************************************************************)
(* The session state machine of src/session/handler.rs: what each state    *)
(* does with a line, which arrow an edge takes, and what a disconnect is   *)
(* answered with.  Pure operators, no state: the tasks that run the        *)
(* machine are in Pairing.                                                 *)
(***************************************************************************)

States == {"Connected", "Waiting", "Agreeing", "Playing", "Finished"}

Edges == {"LoginAccepted", "Paired", "BothAgreed",
          "PairingDiscarded", "GameEnded", "NextGame"}

\* The arrows, as <<from, edge, to>>.
Arrows == { <<"Connected", "LoginAccepted",    "Waiting">>,
            <<"Waiting",   "Paired",           "Agreeing">>,
            <<"Agreeing",  "BothAgreed",       "Playing">>,
            <<"Agreeing",  "PairingDiscarded", "Waiting">>,
            <<"Playing",   "GameEnded",        "Finished">>,
            <<"Finished",  "NextGame",         "Waiting">> }

HasArrow(state, edge) == \E to \in States : <<state, edge, to>> \in Arrows

\* A missing arrow is logged and leaves the state as it was.
Advance(state, edge) ==
    IF HasArrow(state, edge)
    THEN CHOOSE to \in States : <<state, edge, to>> \in Arrows
    ELSE state

\* What a line is, as far as routing tells lines apart.
AgreementCommands == {"AGREE", "REJECT"}
GameCommands      == {"MOVE", "RESIGN", "DECLARE", "SUSPEND"}
LoginCommands     == {"LOGIN", "BADLOGIN"}
OtherCommands     == {"KEEPALIVE", "LOGOUT", "EXTENSION", "BLANK", "JUNK"}
Commands == AgreementCommands \cup GameCommands \cup LoginCommands \cup OtherCommands

\* The other commands are answered without reading the state: the rest are accepted
\* by one state each.  A login that does not parse is malformed once logged in.
Route(state, command) ==
    IF command \in AgreementCommands
    THEN IF state = "Agreeing" THEN "RouteAgreement" ELSE "Unexpected"
    ELSE IF command \in GameCommands
    THEN IF state = "Playing" THEN "RouteGame" ELSE "Unexpected"
    ELSE IF command = "LOGIN"
    THEN IF state = "Connected" THEN "RouteLogin" ELSE "Unexpected"
    ELSE IF command = "BADLOGIN"
    THEN IF state = "Connected" THEN "LoginIncorrect" ELSE "Malformed"
    ELSE [KEEPALIVE |-> "KeepAlive", LOGOUT |-> "Logout", EXTENSION |-> "Warn",
          BLANK |-> "Ignore", JUNK |-> "Malformed"][command]

\* What the pairing is owed when a session of this state goes.
OnDisconnect(state) ==
    IF state = "Agreeing" THEN "DiscardPairing"
    ELSE IF state = "Playing" THEN "CensorGame"
    ELSE "DropSession"
=============================================================================
