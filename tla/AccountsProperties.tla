------------------------- MODULE AccountsProperties -------------------------
(***************************************************************************)
(* What a sign-in and an issuance keep to, whatever requests are served at  *)
(* the same time.                                                          *)
(***************************************************************************)
EXTENDS Accounts

Requests ==
    {Idle}
      \cup [at : {"exchange"}, browser : Browsers, attempt : Ids, person : People]
      \cup [at : {"count", "insert uncounted"}, person : People]
      \cup [at : {"insert"}, person : People, stale : BOOLEAN]

\* The variables hold what their types let them hold.
TypeOK ==
    /\ minted \in 0..IdBound
    /\ DOMAIN records \subseteq 1..minted
    /\ \A id \in DOMAIN records :
         records[id] \in [person : People \cup {Nobody}, expired : BOOLEAN]
    /\ cookie \in [Browsers -> {NoId} \cup 1..minted]
    /\ redirected \in [Browsers -> {NoId} \cup 1..minted]
    /\ links \subseteq [state : 1..minted, person : People]
    /\ accounts \in [People -> {"none", "owner only", "published"}]
    /\ tokens \in Seq([owner : People, active : BOOLEAN])
    /\ handler \in [Handlers -> Requests]

\* An account that is not exempt never holds more tokens, or more active tokens,
\* than its caps, however its issuances and revocations are interleaved (storage
\* tokens.rs issue: "a concurrent issue is an error the caller reports, never a row
\* past the cap").
CapsHold ==
    \A p \in People \ Administrators :
        /\ Cardinality(Held(p)) <= LifetimeCap
        /\ Cardinality(Active(p)) <= ActiveCap

\* A browser is signed in as whoever authorized at github.com in it: a callback URL
\* made in another browser signs nobody in (web sso.rs callback).
SignedInAsSitter ==
    \A b \in Browsers : SignedIn(b) \in {Nobody, Sitter[b]}

Exchanging == {h \in Handlers : handler[h].at = "exchange"}

\* An attempt is used once: a callback requested twice, or again while the exchange
\* of the first one is under way, finds nothing (web sessions.rs take_attempt).
AttemptIsUsedOnce ==
    \A h \in Exchanging :
        /\ handler[h].attempt \notin DOMAIN records
        /\ \A k \in Exchanging \ {h} : handler[k].attempt # handler[h].attempt

\* A session ends when it expires, when a browser that holds its cookie signs out,
\* or with the process; a callback that is none of this visitor's does not end it.
SessionOutlivesStrayLinks ==
    [][\A id \in DOMAIN records \ DOMAIN records' :
          \/ IsAttempt(id) \/ records[id].expired \/ Restart
          \/ \E b \in Browsers : cookie[b] = id /\ cookie'[b] = NoId]_vars
=============================================================================
