----------------------------- MODULE MCPairing -----------------------------
(***************************************************************************)
(* The instances TLC checks: which commands the clients of a run use.      *)
(***************************************************************************)
EXTENDS PairingProperties

Both(commands) == [s \in Side |-> commands]

Agreeing == Both({"AGREE"})
Moving   == Both({"AGREE", "MOVE"})
Playing  == [black |-> {"AGREE", "REJECT", "MOVE"}, white |-> {"AGREE", "MOVE"}]
Leaving  == [black |-> {"AGREE", "MOVE"}, white |-> {"AGREE", "KEEPALIVE", "LOGOUT", "EXTENSION", "JUNK"}]
Ending   == [black |-> {"AGREE", "RESIGN", "REJECT"}, white |-> {"AGREE", "DECLARE", "SUSPEND"}]
=============================================================================
