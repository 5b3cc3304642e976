------------------------------ MODULE Accounts ------------------------------
(***************************************************************************)
(* The signed-in half of the web server: sign-in attempts and sessions over *)
(* the browsers' cookies, the callback from github.com, and the tokens an   *)
(* account issues under its two caps and revokes.                           *)
(*                                                                         *)
(* Requests are served at once: each await of a handler (the exchange, a    *)
(* statement of a transaction) is a step of its own.  The session records   *)
(* are in memory behind one lock that no await is made under; accounts and  *)
(* tokens are rows of a database in WAL mode, where a transaction writes    *)
(* only if nobody has committed since it took its snapshot.                 *)
(***************************************************************************)
EXTENDS Integers, Sequences, FiniteSets

CONSTANTS
    People,          \* GitHub accounts
    Nobody,          \* the person of an attempt
    Browsers,
    Sitter,          \* whose GitHub session each browser holds
    Administrators,  \* the accounts no cap is consulted for
    ActiveCap, LifetimeCap,
    Handlers,        \* bound: requests served at once
    IdBound,         \* bound: session identifiers generated
    TokenBound       \* bound: tokens issued

ASSUME AccountsAssumption ==
    /\ Nobody \notin People
    /\ Sitter \in [Browsers -> People]
    /\ Administrators \subseteq People
    /\ ActiveCap \in Nat /\ LifetimeCap \in Nat
    /\ IdBound \in Nat /\ TokenBound \in Nat

NoId == 0
Ids  == 1..IdBound

VARIABLES
    minted,     \* how many identifiers have been generated
    records,    \* the session records: an attempt is nobody's
    cookie,     \* by browser: the identifier its cookie names
    redirected, \* by browser: the state it was sent to github.com with
    links,      \* the callback URLs github.com has sent somebody to
    accounts,   \* by account: no row, or who its profile is shown to
    tokens,     \* the rows, in the order they were inserted
    handler     \* what each handler is in the middle of

web == <<minted, records, cookie, redirected, links>>
database == <<accounts, tokens>>
vars == <<web, database, handler>>

Idle == [at |-> "idle"]

Record(person) == [person |-> person, expired |-> FALSE]
IsAttempt(id)  == records[id].person = Nobody
Without(f, key) == [k \in DOMAIN f \ {key} |-> f[k]]

\* Expired records go whenever one is created or destroyed.
Swept(live) ==
    [id \in {id \in DOMAIN live : ~live[id].expired} |-> live[id]]
With(id, record) ==
    [k \in DOMAIN Swept(records) \cup {id} |-> IF k = id THEN record ELSE records[k]]

\* Who a request is from: the live session its cookie names.
SignedIn(b) ==
    IF cookie[b] \in DOMAIN records /\ ~records[cookie[b]].expired
    THEN records[cookie[b]].person ELSE Nobody

\* Every commit leaves the snapshots taken before it unable to write.
Outdated ==
    [h \in Handlers |->
       IF handler[h].at = "insert" THEN [handler[h] EXCEPT !.stale = TRUE] ELSE handler[h]]

-----------------------------------------------------------------------------
(* Signing in and out *)

\* GET /sign-in: the cookie of an attempt, whatever the browser held before.
Start(b) ==
    /\ minted < IdBound
    /\ minted' = minted + 1
    /\ records' = With(minted', Record(Nobody))
    /\ cookie' = [cookie EXCEPT ![b] = minted']
    /\ redirected' = [redirected EXCEPT ![b] = minted']
    /\ UNCHANGED <<links, database, handler>>

\* github.com sends whoever sits there back, with a code for that person.
Authorize(b) ==
    /\ redirected[b] # NoId
    /\ links' = links \cup {[state |-> redirected[b], person |-> Sitter[b]]}
    /\ redirected' = [redirected EXCEPT ![b] = NoId]
    /\ UNCHANGED <<minted, records, cookie, database, handler>>

\* Faulty: whatever the cookie names is taken.
TakesAnything(id) == id \in DOMAIN records

Takes(id) == id \in DOMAIN records /\ IsAttempt(id)

\* Faulty: the record is left until the exchange is over.
TakenLater(id) == records

Taken(id) == Without(records, id)

\* Faulty: any state will do.
AnyState(id, state) == TRUE

Matches(id, state) == id = state

\* GET /sign-in/callback: a link may be followed in any browser, any number of
\* times.  The attempt is removed before its state is compared.
Callback(h, b, link) ==
    /\ handler[h] = Idle
    /\ LET id == cookie[b] IN
         /\ Takes(id)
         /\ records' = Taken(id)
         /\ handler' = [handler EXCEPT ![h] =
                IF ~records[id].expired /\ Matches(id, link.state)
                THEN [at |-> "exchange", browser |-> b, attempt |-> id, person |-> link.person]
                ELSE Idle]
    /\ UNCHANGED <<minted, cookie, redirected, links, database>>

\* The row is created, or refreshed with its switch left alone, and a session of
\* a new identifier established.
SignsIn(h) ==
    /\ handler[h].at = "exchange" /\ minted < IdBound
    /\ minted' = minted + 1
    /\ records' = With(minted', Record(handler[h].person))
    /\ cookie' = [cookie EXCEPT ![handler[h].browser] = minted']
    /\ accounts' = [accounts EXCEPT ![handler[h].person] =
                      IF @ = "none" THEN "owner only" ELSE @]
    /\ handler' = [Outdated EXCEPT ![h] = Idle]
    /\ UNCHANGED <<redirected, links, tokens>>

\* The exchange fails, times out or is refused.
ExchangeFails(h) ==
    /\ handler[h].at = "exchange"
    /\ handler' = [handler EXCEPT ![h] = Idle]
    /\ UNCHANGED <<web, database>>

\* POST /sign-out.
SignOut(b) ==
    /\ cookie[b] # NoId
    /\ records' = Swept(Without(records, cookie[b]))
    /\ cookie' = [cookie EXCEPT ![b] = NoId]
    /\ UNCHANGED <<minted, redirected, links, database, handler>>

Expires(id) ==
    /\ id \in DOMAIN records /\ ~records[id].expired
    /\ records' = [records EXCEPT ![id].expired = TRUE]
    /\ UNCHANGED <<minted, cookie, redirected, links, database, handler>>

-----------------------------------------------------------------------------
(* Tokens *)

Held(p)   == {t \in DOMAIN tokens : tokens[t].owner = p}
Active(p) == {t \in Held(p) : tokens[t].active}

AtACap(p) ==
    Cardinality(Held(p)) >= LifetimeCap \/ Cardinality(Active(p)) >= ActiveCap

\* POST /tokens/issue: the rows are read for the bound on a provisional rating.
IssueBegins(h, b) ==
    /\ handler[h] = Idle /\ SignedIn(b) # Nobody
    /\ handler' = [handler EXCEPT ![h] = [at |-> "count", person |-> SignedIn(b)]]
    /\ UNCHANGED <<web, database>>

\* The transaction counts, which takes its snapshot; an administrator's does not.
IssueCounts(h) ==
    /\ handler[h].at = "count"
    /\ LET p == handler[h].person IN
       handler' = [handler EXCEPT ![h] =
         IF p \in Administrators THEN [at |-> "insert uncounted", person |-> p]
         ELSE IF AtACap(p) THEN Idle
         ELSE [at |-> "insert", person |-> p, stale |-> FALSE]]
    /\ UNCHANGED <<web, database>>

\* Faulty: the counts and the insert are two transactions.
NeverConflicts(h) == FALSE

\* The insert would write from a snapshot that is no longer the newest.
Conflicts(h) == handler[h].at = "insert" /\ handler[h].stale

\* The insert and the commit, or the error of a snapshot that is out of date.
IssueInserts(h) ==
    /\ handler[h].at \in {"insert", "insert uncounted"}
    /\ IF Conflicts(h)
       THEN handler' = [handler EXCEPT ![h] = Idle] /\ UNCHANGED tokens
       ELSE /\ Len(tokens) < TokenBound
            /\ tokens' = Append(tokens, [owner |-> handler[h].person, active |-> TRUE])
            /\ handler' = [Outdated EXCEPT ![h] = Idle]
    /\ UNCHANGED <<web, accounts>>

\* POST /tokens/revoke: the owner's own row, while it is active.
Revoke(b, t) ==
    /\ SignedIn(b) # Nobody
    /\ t \in Active(SignedIn(b))
    /\ tokens' = [tokens EXCEPT ![t].active = FALSE]
    /\ handler' = Outdated
    /\ UNCHANGED <<web, accounts>>

\* POST /account/visibility: the state asked for is the state written.
SetVisibility(b) ==
    /\ SignedIn(b) # Nobody /\ accounts[SignedIn(b)] # "none"
    /\ \E visibility \in {"owner only", "published"} :
         accounts' = [accounts EXCEPT ![SignedIn(b)] = visibility]
    /\ handler' = Outdated
    /\ UNCHANGED <<web, tokens>>

\* The process ends and starts again: sessions and requests are lost, rows are not.
Restart ==
    /\ records' = [id \in {} |-> Record(Nobody)]
    /\ handler' = [h \in Handlers |-> Idle]
    /\ UNCHANGED <<minted, cookie, redirected, links, database>>

-----------------------------------------------------------------------------
Init ==
    /\ minted = 0
    /\ records = [id \in {} |-> Record(Nobody)]
    /\ cookie = [b \in Browsers |-> NoId]
    /\ redirected = [b \in Browsers |-> NoId]
    /\ links = {}
    /\ accounts = [p \in People |-> "none"]
    /\ tokens = <<>>
    /\ handler = [h \in Handlers |-> Idle]

Next ==
    \/ \E b \in Browsers :
         \/ Start(b) \/ Authorize(b) \/ SignOut(b) \/ SetVisibility(b)
         \/ \E t \in DOMAIN tokens : Revoke(b, t)
    \/ \E h \in Handlers :
         \/ SignsIn(h) \/ ExchangeFails(h) \/ IssueCounts(h) \/ IssueInserts(h)
         \/ \E b \in Browsers :
              IssueBegins(h, b) \/ \E link \in links : Callback(h, b, link)
    \/ \E id \in Ids : Expires(id)
    \/ Restart

Spec == Init /\ [][Next]_vars
=============================================================================
