------------------------------ MODULE MCLobby ------------------------------
EXTENDS LobbyProperties
CONSTANTS x
OneOnDemand == <<"OnDemand">>
OneResident == <<"Resident">>
TwoAndHand == <<"OnDemand", "OnDemand", "ExternallyRun">>
NoRating == [i \in Identities |-> {}]
=============================================================================
