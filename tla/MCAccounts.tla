----------------------------- MODULE MCAccounts -----------------------------
EXTENDS AccountsProperties
CONSTANTS nobody, ann, bob, here, there
HereAnn == [b \in Browsers |-> IF b = here THEN ann ELSE bob]
=============================================================================
