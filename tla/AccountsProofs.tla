--------------------------- MODULE AccountsProofs ---------------------------
(***************************************************************************)
(* Proofs about Accounts, for any people, browsers, caps and number of     *)
(* requests served at once.  Two inductive invariants: one follows an      *)
(* identifier from the browser it was made for through the links and the   *)
(* exchanges that carry it, the other says what a snapshot that can still  *)
(* write has seen.                                                         *)
(***************************************************************************)
EXTENDS AccountsProperties, FiniteSetTheorems, SequenceTheorems, TLAPS

USE DEF Ids, NoId, Idle

Exchange == [at : {"exchange"}, browser : Browsers, attempt : Ids, person : People]
Count    == [at : {"count", "insert uncounted"}, person : People]
Insert   == [at : {"insert"}, person : People, stale : BOOLEAN]

LEMMA RequestsAre == Requests = {Idle} \cup Exchange \cup Count \cup Insert
BY DEF Requests, Exchange, Count, Insert

\* A request that is at a step is a record of that step.
LEMMA RequestKinds ==
    ASSUME NEW r \in Requests
    PROVE  /\ r.at = "exchange" => r \in Exchange
           /\ r.at = "insert" => r \in Insert
           /\ r.at \in {"count", "insert uncounted"} => r \in Count
<1>1. CASE r = Idle
  BY <1>1
<1>2. CASE r \in Exchange
  <2>1. r.at = "exchange" BY <1>2 DEF Exchange
  <2> QED BY <1>2, <2>1
<1>3. CASE r \in Count
  <2>1. r.at \in {"count", "insert uncounted"} BY <1>3 DEF Count
  <2> QED BY <1>3, <2>1
<1>4. CASE r \in Insert
  <2>1. r.at = "insert" BY <1>4 DEF Insert
  <2> QED BY <1>4, <2>1
<1> QED BY <1>1, <1>2, <1>3, <1>4, RequestsAre

\* Whose request it is, at each step it can be at.
LEMMA RequestPerson ==
    ASSUME NEW r \in Requests
    PROVE  /\ r.at = "exchange" => r.person \in People /\ r.browser \in Browsers
           /\ r.at \in {"count", "insert", "insert uncounted"} => r.person \in People
<1>1. ASSUME r \in Exchange PROVE r.person \in People /\ r.browser \in Browsers
  BY <1>1 DEF Exchange
<1>2. ASSUME r \in Count PROVE r.person \in People
  BY <1>2 DEF Count
<1>3. ASSUME r \in Insert PROVE r.person \in People
  BY <1>3 DEF Insert
<1> QED BY <1>1, <1>2, <1>3, RequestKinds

\* Outdated changes what a request at its insert knows, and nothing else.
LEMMA OutdatedRequests ==
    ASSUME handler \in [Handlers -> Requests]
    PROVE  /\ Outdated \in [Handlers -> Requests]
           /\ \A h \in Handlers :
                /\ handler[h].at # "insert" => Outdated[h] = handler[h]
                /\ handler[h].at = "insert" =>
                     /\ Outdated[h].at = "insert" /\ Outdated[h].stale
                     /\ Outdated[h].person = handler[h].person
<1>1. ASSUME NEW r \in Insert
      PROVE  /\ [r EXCEPT !.stale = TRUE] \in Insert
             /\ [r EXCEPT !.stale = TRUE].at = "insert"
             /\ [r EXCEPT !.stale = TRUE].stale
             /\ [r EXCEPT !.stale = TRUE].person = r.person
  BY <1>1 DEF Insert
<1> DEFINE step(h) == IF handler[h].at = "insert" THEN [handler[h] EXCEPT !.stale = TRUE]
                                                  ELSE handler[h]
<1>2. Outdated = [h \in Handlers |-> step(h)]
  BY DEF Outdated
<1>3. ASSUME NEW h \in Handlers
      PROVE  /\ step(h) \in Requests
             /\ handler[h].at # "insert" => step(h) = handler[h]
             /\ handler[h].at = "insert" =>
                  /\ step(h).at = "insert" /\ step(h).stale
                  /\ step(h).person = handler[h].person
  <2>1. CASE handler[h].at = "insert"
    <3>1. handler[h] \in Insert
      BY <2>1, RequestKinds
    <3> QED BY <2>1, <3>1, <1>1, RequestsAre
  <2>2. CASE handler[h].at # "insert"
    BY <2>2
  <2> QED BY <2>1, <2>2
<1> HIDE DEF step
<1> QED BY <1>2, <1>3

\* A swept table is part of the table, and a new record joins what is left.
LEMMA WithRecord ==
    ASSUME NEW id, NEW record
    PROVE  /\ DOMAIN With(id, record) \subseteq DOMAIN records \cup {id}
           /\ id \in DOMAIN With(id, record)
           /\ With(id, record)[id] = record
           /\ \A k \in DOMAIN With(id, record) \ {id} :
                k \in DOMAIN records /\ With(id, record)[k] = records[k]
BY DEF With, Swept

LEMMA WithoutRecord ==
    ASSUME NEW id
    PROVE  /\ DOMAIN Without(records, id) = DOMAIN records \ {id}
           /\ \A k \in DOMAIN records \ {id} : Without(records, id)[k] = records[k]
           /\ DOMAIN Swept(Without(records, id)) \subseteq DOMAIN records \ {id}
           /\ \A k \in DOMAIN Swept(Without(records, id)) :
                Swept(Without(records, id))[k] = records[k]
BY DEF Without, Swept
\* The rows: appended to, and one at a time no longer active.
Row == [owner : People, active : BOOLEAN]

LEMMA RowAppended ==
    ASSUME NEW p \in People, tokens \in Seq(Row),
           tokens' = Append(tokens, [owner |-> p, active |-> TRUE])
    PROVE  /\ tokens' \in Seq(Row)
           /\ DOMAIN tokens = 1..Len(tokens) /\ Len(tokens) \in Nat
           /\ DOMAIN tokens' = DOMAIN tokens \cup {Len(tokens) + 1}
           /\ \A i \in DOMAIN tokens : tokens'[i] = tokens[i]
           /\ tokens'[Len(tokens) + 1] = [owner |-> p, active |-> TRUE]
<1>1. [owner |-> p, active |-> TRUE] \in Row
  BY DEF Row
<1> HIDE DEF Row
<1>2. Len(tokens) \in Nat /\ DOMAIN tokens = 1..Len(tokens)
  BY LenProperties
<1>3. /\ tokens' \in Seq(Row) /\ Len(tokens') = Len(tokens) + 1
      /\ \A i \in 1..Len(tokens) : tokens'[i] = tokens[i]
      /\ tokens'[Len(tokens) + 1] = [owner |-> p, active |-> TRUE]
  BY <1>1, AppendProperties
<1>4. DOMAIN tokens' = 1..Len(tokens')
  BY <1>3, LenProperties
<1> QED BY <1>2, <1>3, <1>4

LEMMA RowRevoked ==
    ASSUME tokens \in Seq(Row), NEW t \in DOMAIN tokens,
           tokens' = [tokens EXCEPT ![t].active = FALSE]
    PROVE  /\ tokens' \in Seq(Row) /\ DOMAIN tokens' = DOMAIN tokens
           /\ \A i \in DOMAIN tokens : /\ tokens'[i].owner = tokens[i].owner
                                       /\ tokens'[i].active => tokens[i].active
<1>1. ASSUME NEW row \in Row
      PROVE  /\ [row EXCEPT !.active = FALSE] \in Row
             /\ [row EXCEPT !.active = FALSE].owner = row.owner
             /\ ~[row EXCEPT !.active = FALSE].active
  BY DEF Row
<1> HIDE DEF Row
<1>2. t \in 1..Len(tokens) /\ DOMAIN tokens = 1..Len(tokens)
  BY LenProperties
<1>3. tokens[t] \in Row
  BY <1>2, ElementOfSeq
<1> DEFINE revoked == [tokens[t] EXCEPT !.active = FALSE]
<1>4. revoked \in Row /\ revoked.owner = tokens[t].owner /\ ~revoked.active
  BY <1>1, <1>3
<1>5. tokens' = [tokens EXCEPT ![t] = revoked]
  OBVIOUS
<1> HIDE DEF revoked
<1>6. /\ tokens' \in Seq(Row) /\ Len(tokens') = Len(tokens)
      /\ \A i \in 1..Len(tokens) : tokens'[i] = IF i = t THEN revoked ELSE tokens[i]
  <2>1. LET s == [tokens EXCEPT ![t] = revoked] IN
          /\ s \in Seq(Row) /\ Len(s) = Len(tokens)
          /\ \A i \in 1..Len(tokens) : s[i] = IF i = t THEN revoked ELSE tokens[i]
    BY <1>2, <1>4, ExceptSeq, Zenon
  <2> QED BY <1>5, <2>1
<1>7. DOMAIN tokens' = 1..Len(tokens')
  BY <1>6, LenProperties
<1> QED BY <1>2, <1>4, <1>6, <1>7
-----------------------------------------------------------------------------
(* Types. *)

Kept == [person : People \cup {Nobody}, expired : BOOLEAN]

MintedTyped  == minted \in 0..IdBound
RecordsTyped == /\ DOMAIN records \subseteq 1..minted
                /\ \A id \in DOMAIN records : records[id] \in Kept
CookiesTyped == /\ cookie \in [Browsers -> 0..minted]
                /\ redirected \in [Browsers -> 0..minted]
                /\ \A link \in links : link.state \in 1..minted
LinksTyped   == links \subseteq [state : Ids, person : People]
RowsTyped    == /\ accounts \in [People -> {"none", "owner only", "published"}]
                /\ tokens \in Seq(Row)
HandlerTyped == /\ handler \in [Handlers -> Requests]
                /\ \A h \in Handlers :
                     handler[h].at = "exchange" => handler[h].attempt \in 1..minted

\* The tables hold what their types let them hold, and requests in an exchange
\* name an identifier that exists.
Typed == /\ MintedTyped /\ RecordsTyped /\ CookiesTyped /\ LinksTyped /\ RowsTyped
         /\ HandlerTyped

LEMMA TypedIsTypeOK == Typed => TypeOK
<1> SUFFICES ASSUME Typed PROVE TypeOK OBVIOUS
<1>1. \A n \in Nat : 0..n = {NoId} \cup 1..n
  OBVIOUS
<1>2. minted \in Nat
  BY AccountsAssumption DEF Typed, MintedTyped
<1>3. ASSUME NEW link \in links PROVE link \in [state : 1..minted, person : People]
  <2>1. link \in [state : Ids, person : People] /\ link.state \in 1..minted
    BY DEF Typed, CookiesTyped, LinksTyped
  <2> QED BY <2>1
<1> QED BY <1>1, <1>2, <1>3 DEF Typed, MintedTyped, RecordsTyped, CookiesTyped, RowsTyped,
             HandlerTyped, TypeOK, Kept, Row

LEMMA TypedInit == Init => Typed
<1> SUFFICES ASSUME Init PROVE Typed OBVIOUS
<1>1. MintedTyped /\ CookiesTyped
  BY AccountsAssumption DEF Init, MintedTyped, CookiesTyped
<1>2. RecordsTyped /\ LinksTyped
  BY DEF Init, RecordsTyped, LinksTyped
<1>3. RowsTyped
  BY DEF Init, RowsTyped
<1>4. HandlerTyped
  <2>1. Idle \in Requests
    BY RequestsAre
  <2>2. \A h \in Handlers : handler[h] = Idle
    BY DEF Init
  <2>3. handler \in [Handlers -> Requests]
    BY <2>1 DEF Init
  <2> QED BY <2>2, <2>3 DEF HandlerTyped
<1> QED BY <1>1, <1>2, <1>3, <1>4 DEF Typed

\* A new identifier is one more than those there are.
LEMMA Minting ==
    ASSUME MintedTyped, minted < IdBound, minted' = minted + 1
    PROVE  /\ MintedTyped'
           /\ minted' \in Ids /\ minted' \notin 0..minted /\ minted' \in 1..minted'
           /\ 0..minted \subseteq 0..minted' /\ 1..minted \subseteq 1..minted'
BY AccountsAssumption DEF MintedTyped

\* The handler's part of the types is kept by a step that sets one request, with
\* or without the others' snapshots growing old.
LEMMA HandlerStep ==
    ASSUME HandlerTyped, NEW h \in Handlers, NEW r \in Requests,
           \/ handler' = [handler EXCEPT ![h] = r]
           \/ handler' = [Outdated EXCEPT ![h] = r],
           1..minted \subseteq 1..minted',
           r.at = "exchange" => r.attempt \in 1..minted'
    PROVE  /\ HandlerTyped'
           /\ handler'[h] = r
           /\ \A g \in Handlers \ {h} :
                \/ handler'[g] = handler[g]
                \/ /\ handler[g].at = "insert" /\ handler'[g].at = "insert"
                   /\ handler'[g].stale /\ handler'[g].person = handler[g].person
<1>1. handler \in [Handlers -> Requests]
  BY DEF HandlerTyped
<1>2. \A g \in Handlers \ {h} : handler'[g] \in {handler[g], Outdated[g]}
  BY <1>1, OutdatedRequests
<1>3. handler' \in [Handlers -> Requests] /\ handler'[h] = r
  BY <1>1, OutdatedRequests
<1>4. \A g \in Handlers \ {h} :
         \/ handler'[g] = handler[g]
         \/ /\ handler[g].at = "insert" /\ handler'[g].at = "insert"
            /\ handler'[g].stale /\ handler'[g].person = handler[g].person
  BY <1>1, <1>2, OutdatedRequests
<1>5. ASSUME NEW g \in Handlers, handler'[g].at = "exchange"
      PROVE  handler'[g].attempt \in 1..minted'
  <2>1. CASE g = h
    BY <2>1, <1>3, <1>5
  <2>2. CASE g # h
    <3>1. handler'[g] = handler[g]
      BY <2>2, <1>4, <1>5
    <3> QED BY <3>1, <1>5 DEF HandlerTyped
  <2> QED BY <2>1, <2>2
<1> QED BY <1>3, <1>4, <1>5 DEF HandlerTyped

LEMMA HandlersOutdated ==
    ASSUME HandlerTyped, handler' = Outdated, UNCHANGED minted
    PROVE  /\ HandlerTyped'
           /\ \A g \in Handlers :
                \/ handler'[g] = handler[g] /\ handler[g].at # "insert"
                \/ /\ handler[g].at = "insert" /\ handler'[g].at = "insert"
                   /\ handler'[g].stale /\ handler'[g].person = handler[g].person
BY OutdatedRequests DEF HandlerTyped

LEMMA TypedNext == Typed /\ [Next]_vars => Typed'
<1> SUFFICES ASSUME Typed, [Next]_vars PROVE Typed' OBVIOUS
<1>a. MintedTyped /\ RecordsTyped /\ CookiesTyped /\ LinksTyped /\ RowsTyped /\ HandlerTyped
  BY DEF Typed
<1>b. minted \in Nat /\ handler \in [Handlers -> Requests] /\ Idle \in Requests
  BY <1>a, AccountsAssumption, RequestsAre DEF MintedTyped, HandlerTyped
<1>1. ASSUME NEW b \in Browsers, Start(b) PROVE Typed'
  <2>1. minted < IdBound /\ minted' = minted + 1
    BY <1>1 DEF Start
  <2>2. RecordsTyped'
    <3>1. Record(Nobody) \in Kept
      BY DEF Record, Kept
    <3>2. records' = With(minted', Record(Nobody))
      BY <1>1 DEF Start
    <3> QED BY <1>a, <2>1, <3>1, <3>2, Minting, WithRecord DEF RecordsTyped
  <2>3. CookiesTyped'
    BY <1>1, <1>a, <2>1, Minting DEF Start, CookiesTyped
  <2>4. HandlerTyped'
    BY <1>1, <1>a, <2>1, Minting DEF Start, HandlerTyped
  <2> QED BY <1>1, <1>a, <2>1, <2>2, <2>3, <2>4, Minting DEF Start, Typed, LinksTyped, RowsTyped, database
<1>2. ASSUME NEW b \in Browsers, Authorize(b) PROVE Typed'
  <2>1. redirected[b] \in 1..minted
    BY <1>2, <1>a, <1>b DEF Authorize, CookiesTyped
  <2>2. LinksTyped' /\ CookiesTyped'
    <3>1. redirected[b] \in Ids /\ Sitter[b] \in People
      BY <2>1, <1>a, AccountsAssumption DEF MintedTyped
    <3>2. [state |-> redirected[b], person |-> Sitter[b]] \in [state : Ids, person : People]
      BY <3>1
    <3>3. LinksTyped'
      BY <1>2, <1>a, <3>2 DEF Authorize, LinksTyped
    <3>4. CookiesTyped'
      BY <1>2, <1>a, <1>b, <2>1 DEF Authorize, CookiesTyped
    <3> QED BY <3>3, <3>4
  <2> QED BY <1>2, <1>a, <2>2 DEF Authorize, Typed, MintedTyped, RecordsTyped, RowsTyped,
            HandlerTyped, database
<1>3. ASSUME NEW h \in Handlers, NEW b \in Browsers, NEW link \in links, Callback(h, b, link)
      PROVE Typed'
  <2>1. cookie[b] \in 1..minted
    BY <1>3, <1>a DEF Callback, Takes, RecordsTyped
  <2> DEFINE r == [at |-> "exchange", browser |-> b, attempt |-> cookie[b], person |-> link.person]
  <2>2. r \in Exchange
    <3>1. link.person \in People /\ cookie[b] \in Ids
      BY <2>1, <1>a, AccountsAssumption DEF LinksTyped, MintedTyped
    <3> QED BY <3>1 DEF Exchange
  <2>3. r.attempt = cookie[b] /\ r \in Requests
    BY <2>2, RequestsAre
  <2> HIDE DEF r
  <2>4. handler' = [handler EXCEPT ![h] = r] \/ handler' = [handler EXCEPT ![h] = Idle]
    BY <1>3 DEF Callback, r
  <2>5. minted' = minted
    BY <1>3 DEF Callback
  <2>6. HandlerTyped'
    <3>1. CASE handler' = [handler EXCEPT ![h] = r]
      BY <3>1, <1>a, <2>1, <2>3, <2>5, HandlerStep
    <3>2. CASE handler' = [handler EXCEPT ![h] = Idle]
      BY <3>2, <1>a, <1>b, <2>5, HandlerStep
    <3> QED BY <2>4, <3>1, <3>2
  <2>7. RecordsTyped'
    BY <1>3, <1>a, <2>5, WithoutRecord DEF Callback, Taken, RecordsTyped
  <2> QED BY <1>3, <1>a, <2>6, <2>7 DEF Callback, Typed, MintedTyped, CookiesTyped, LinksTyped,
            RowsTyped, database
<1>4. ASSUME NEW h \in Handlers, SignsIn(h) PROVE Typed'
  <2>1. minted < IdBound /\ minted' = minted + 1
    BY <1>4 DEF SignsIn
  <2>2. handler[h].person \in People /\ handler[h].browser \in Browsers
    BY <1>4, <1>b, RequestPerson DEF SignsIn
  <2>3. RecordsTyped'
    <3>1. Record(handler[h].person) \in Kept
      BY <2>2 DEF Record, Kept
    <3>2. records' = With(minted', Record(handler[h].person))
      BY <1>4 DEF SignsIn
    <3> QED BY <1>a, <2>1, <3>1, <3>2, Minting, WithRecord DEF RecordsTyped
  <2>4. HandlerTyped'
    <3>1. handler' = [Outdated EXCEPT ![h] = Idle]
      BY <1>4 DEF SignsIn
    <3> QED BY <3>1, <1>a, <1>b, <2>1, HandlerStep, Minting
  <2>5. CookiesTyped'
    <3>5. minted' \in 0..minted' /\ 0..minted \subseteq 0..minted' /\ 1..minted \subseteq 1..minted'
      BY <1>a, <1>b, <2>1, Minting
    <3>1. cookie' = [cookie EXCEPT ![handler[h].browser] = minted']
      BY <1>4 DEF SignsIn
    <3>2. cookie' \in [Browsers -> 0..minted']
      BY <1>a, <2>2, <3>1, <3>5 DEF CookiesTyped
    <3>3. redirected' \in [Browsers -> 0..minted']
      BY <1>4, <1>a, <3>5 DEF SignsIn, CookiesTyped
    <3>4. \A link \in links' : link.state \in 1..minted'
      BY <1>4, <1>a, <3>5 DEF SignsIn, CookiesTyped
    <3> QED BY <3>2, <3>3, <3>4 DEF CookiesTyped
  <2>6. RowsTyped'
    BY <1>4, <1>a, <2>2 DEF SignsIn, RowsTyped
  <2> QED BY <1>4, <1>a, <2>1, <2>3, <2>4, <2>5, <2>6, Minting DEF SignsIn, Typed, LinksTyped
<1>5. ASSUME NEW h \in Handlers, ExchangeFails(h) PROVE Typed'
  <2>1. HandlerTyped'
    BY <1>5, <1>a, <1>b, HandlerStep DEF ExchangeFails, web
  <2> QED BY <1>5, <1>a, <2>1 DEF ExchangeFails, Typed, MintedTyped, RecordsTyped, CookiesTyped,
            LinksTyped, RowsTyped, web, database
<1>6. ASSUME NEW b \in Browsers, SignOut(b) PROVE Typed'
  <2>1. RecordsTyped'
    BY <1>6, <1>a, WithoutRecord DEF SignOut, RecordsTyped
  <2>2. CookiesTyped'
    BY <1>6, <1>a, <1>b DEF SignOut, CookiesTyped
  <2> QED BY <1>6, <1>a, <2>1, <2>2 DEF SignOut, Typed, MintedTyped, LinksTyped, RowsTyped,
            HandlerTyped, database
<1>7. ASSUME NEW id \in Ids, Expires(id) PROVE Typed'
  <2>1. records[id] \in Kept /\ [records[id] EXCEPT !.expired = TRUE] \in Kept
    BY <1>7, <1>a DEF Expires, RecordsTyped, Kept
  <2>2. RecordsTyped'
    BY <1>7, <1>a, <2>1 DEF Expires, RecordsTyped
  <2> QED BY <1>7, <1>a, <2>2 DEF Expires, Typed, MintedTyped, CookiesTyped, LinksTyped, RowsTyped,
            HandlerTyped, database
<1>8. ASSUME NEW h \in Handlers, NEW b \in Browsers, IssueBegins(h, b) PROVE Typed'
  <2>1. SignedIn(b) \in People
    <3>1. SignedIn(b) # Nobody
      BY <1>8 DEF IssueBegins
    <3>2. cookie[b] \in DOMAIN records /\ SignedIn(b) = records[cookie[b]].person
      BY <3>1 DEF SignedIn
    <3> QED BY <1>a, <3>1, <3>2 DEF RecordsTyped, Kept
  <2> DEFINE r == [at |-> "count", person |-> SignedIn(b)]
  <2>2. r \in Requests /\ r.at = "count"
    BY <2>1, RequestsAre DEF Count
  <2> HIDE DEF r
  <2>3. HandlerTyped'
    <3>1. handler' = [handler EXCEPT ![h] = r] /\ minted' = minted
      BY <1>8 DEF IssueBegins, web, r
    <3> QED BY <3>1, <1>a, <2>2, HandlerStep
  <2> QED BY <1>8, <1>a, <2>3 DEF IssueBegins, Typed, MintedTyped, RecordsTyped, CookiesTyped,
            LinksTyped, RowsTyped, web, database
<1>9. ASSUME NEW h \in Handlers, IssueCounts(h) PROVE Typed'
  <2>1. handler[h].person \in People
    BY <1>9, <1>b, RequestPerson DEF IssueCounts
  <2> DEFINE p == handler[h].person
             r == IF p \in Administrators THEN [at |-> "insert uncounted", person |-> p]
                  ELSE IF AtACap(p) THEN Idle
                  ELSE [at |-> "insert", person |-> p, stale |-> FALSE]
  <2>2. r \in Requests /\ r.at # "exchange"
    <3>1. [at |-> "insert uncounted", person |-> p] \in Count
      BY <2>1 DEF Count
    <3>2. [at |-> "insert", person |-> p, stale |-> FALSE] \in Insert
      BY <2>1 DEF Insert
    <3> QED BY <3>1, <3>2, RequestsAre
  <2>3. handler' = [handler EXCEPT ![h] = r] /\ minted' = minted
    BY <1>9 DEF IssueCounts, web
  <2> HIDE DEF r
  <2>4. HandlerTyped'
    BY <2>2, <2>3, <1>a, HandlerStep
  <2> QED BY <1>9, <1>a, <2>4 DEF IssueCounts, Typed, MintedTyped, RecordsTyped, CookiesTyped,
            LinksTyped, RowsTyped, web, database
<1>10. ASSUME NEW h \in Handlers, IssueInserts(h) PROVE Typed'
  <2>1. handler[h].person \in People
    BY <1>10, <1>b, RequestPerson DEF IssueInserts
  <2>2. minted' = minted
    BY <1>10 DEF IssueInserts, web
  <2>3. HandlerTyped'
    <3>1. handler' = [handler EXCEPT ![h] = Idle] \/ handler' = [Outdated EXCEPT ![h] = Idle]
      BY <1>10 DEF IssueInserts
    <3> QED BY <3>1, <2>2, <1>a, <1>b, HandlerStep
  <2>4. RowsTyped'
    <3>2. tokens' = tokens \/ tokens' = Append(tokens, [owner |-> handler[h].person, active |-> TRUE])
      BY <1>10 DEF IssueInserts
    <3> QED BY <1>10, <1>a, <2>1, <3>2, RowAppended DEF IssueInserts, RowsTyped
  <2> QED BY <1>10, <1>a, <2>3, <2>4 DEF IssueInserts, Typed, MintedTyped, RecordsTyped,
            CookiesTyped, LinksTyped, web
<1>11. ASSUME NEW b \in Browsers, NEW t \in DOMAIN tokens, Revoke(b, t) PROVE Typed'
  <2>1. HandlerTyped'
    BY <1>11, <1>a, HandlersOutdated DEF Revoke, web
  <2>2. RowsTyped'
    <3>4. tokens' \in Seq(Row)
      BY <1>11, <1>a, RowRevoked DEF Revoke, RowsTyped
    <3> QED BY <1>11, <1>a, <3>4 DEF Revoke, RowsTyped
  <2> QED BY <1>11, <1>a, <2>1, <2>2 DEF Revoke, Typed, MintedTyped, RecordsTyped, CookiesTyped,
            LinksTyped, web
<1>12. ASSUME NEW b \in Browsers, SetVisibility(b) PROVE Typed'
  <2>1. HandlerTyped'
    BY <1>12, <1>a, HandlersOutdated DEF SetVisibility, web
  <2>2. RowsTyped'
    BY <1>12, <1>a DEF SetVisibility, RowsTyped
  <2> QED BY <1>12, <1>a, <2>1, <2>2 DEF SetVisibility, Typed, MintedTyped, RecordsTyped,
            CookiesTyped, LinksTyped, web
<1>13. ASSUME Restart PROVE Typed'
  <2>1. HandlerTyped'
    <3>1. handler' = [h \in Handlers |-> Idle]
      BY <1>13 DEF Restart
    <3>2. \A h \in Handlers : handler'[h] = Idle
      BY <3>1
    <3>3. handler' \in [Handlers -> Requests]
      BY <3>1, <1>b
    <3> QED BY <3>2, <3>3 DEF HandlerTyped
  <2>2. RecordsTyped'
    BY <1>13 DEF Restart, RecordsTyped
  <2> QED BY <1>13, <1>a, <2>1, <2>2 DEF Restart, Typed, MintedTyped, CookiesTyped, LinksTyped,
            RowsTyped, database
<1>14. ASSUME UNCHANGED vars PROVE Typed'
  BY <1>14, <1>a DEF vars, web, database, Typed, MintedTyped, RecordsTyped, CookiesTyped, LinksTyped,
     RowsTyped, HandlerTyped
<1> QED BY <1>1, <1>2, <1>3, <1>4, <1>5, <1>6, <1>7, <1>8, <1>9, <1>10, <1>11, <1>12,
           <1>13, <1>14 DEF Next

\* The variables of the web server and of its tables keep to their types.
THEOREM TypeCorrect == Spec => []TypeOK
<1> QED BY TypedInit, TypedNext, TypedIsTypeOK, PTL DEF Spec
-----------------------------------------------------------------------------
(* An attempt is used once. *)

\* Which requests are in an exchange, and with which attempt, changes only where
\* the step says.
LEMMA ExchangesKept ==
    ASSUME AttemptIsUsedOnce, DOMAIN records' \subseteq DOMAIN records,
           \A g \in Handlers : handler'[g].at = "exchange" => handler'[g] = handler[g]
    PROVE  AttemptIsUsedOnce'
BY DEF AttemptIsUsedOnce, Exchanging

\* A new record's identifier is no attempt's that is being exchanged.
LEMMA ExchangesAvoidNew ==
    ASSUME Typed, AttemptIsUsedOnce, minted < IdBound, minted' = minted + 1,
           NEW record, records' = With(minted', record),
           \A g \in Handlers : handler'[g].at = "exchange" => handler'[g] = handler[g]
    PROVE  AttemptIsUsedOnce'
<1>1. DOMAIN records' \subseteq DOMAIN records \cup {minted'}
  BY WithRecord
<1>2. ASSUME NEW g \in Handlers, handler[g].at = "exchange"
      PROVE  handler[g].attempt # minted'
  <2>1. handler[g].attempt \in 1..minted
    BY <1>2 DEF Typed, HandlerTyped
  <2>2. minted' \notin 0..minted
    BY Minting DEF Typed
  <2> QED BY <2>1, <2>2
<1> QED BY <1>1, <1>2 DEF AttemptIsUsedOnce, Exchanging

LEMMA UsedOnceNext == Typed /\ AttemptIsUsedOnce /\ [Next]_vars => AttemptIsUsedOnce'
<1> SUFFICES ASSUME Typed, AttemptIsUsedOnce, [Next]_vars PROVE AttemptIsUsedOnce'
  OBVIOUS
<1>a. handler \in [Handlers -> Requests]
  BY DEF Typed, HandlerTyped
<1>b. ASSUME NEW h \in Handlers,
             handler' = [handler EXCEPT ![h] = Idle] \/ handler' = [Outdated EXCEPT ![h] = Idle]
      PROVE  \A g \in Handlers : handler'[g].at = "exchange" => handler'[g] = handler[g]
  <2>1. Idle.at # "exchange"
    OBVIOUS
  <2> QED BY <1>a, <1>b, <2>1, OutdatedRequests
<1>c. ASSUME handler' = Outdated
      PROVE  \A g \in Handlers : handler'[g].at = "exchange" => handler'[g] = handler[g]
  BY <1>a, <1>c, OutdatedRequests
<1>1. ASSUME NEW b \in Browsers, Start(b) PROVE AttemptIsUsedOnce'
  BY <1>1, ExchangesAvoidNew DEF Start
<1>2. ASSUME NEW b \in Browsers, Authorize(b) PROVE AttemptIsUsedOnce'
  BY <1>2, ExchangesKept DEF Authorize
<1>3. ASSUME NEW h \in Handlers, NEW b \in Browsers, NEW link \in links, Callback(h, b, link)
      PROVE AttemptIsUsedOnce'
  <2>1. cookie[b] \in DOMAIN records /\ DOMAIN records' = DOMAIN records \ {cookie[b]}
    BY <1>3, WithoutRecord DEF Callback, Takes, Taken
  <2>2. CASE handler' = [handler EXCEPT ![h] = Idle]
    BY <1>b, <2>1, <2>2, ExchangesKept
  <2> DEFINE r == [at |-> "exchange", browser |-> b, attempt |-> cookie[b], person |-> link.person]
  <2>3. CASE handler' = [handler EXCEPT ![h] = r]
    <3>1. r.attempt = cookie[b]
      OBVIOUS
    <3> HIDE DEF r
    <3>2. handler'[h] = r /\ \A g \in Handlers \ {h} : handler'[g] = handler[g]
      BY <1>a, <2>3
    <3>3. ASSUME NEW g \in Handlers \ {h}, handler[g].at = "exchange"
          PROVE  handler[g].attempt \notin DOMAIN records
      BY <3>3 DEF AttemptIsUsedOnce, Exchanging
    <3>4. ASSUME NEW g \in Exchanging' PROVE handler'[g].attempt \notin DOMAIN records'
      <4>1. CASE g = h
        BY <2>1, <3>1, <3>2, <4>1
      <4>2. CASE g # h
        BY <2>1, <3>2, <3>3, <3>4, <4>2 DEF Exchanging
      <4> QED BY <4>1, <4>2
    <3>5. ASSUME NEW g \in Exchanging', NEW k \in Exchanging' \ {g}
          PROVE  handler'[k].attempt # handler'[g].attempt
      <4>1. CASE g # h /\ k # h
        <5>1. /\ g \in Exchanging /\ k \in Exchanging \ {g}
              /\ handler'[g] = handler[g] /\ handler'[k] = handler[k]
          BY <3>2, <3>5, <4>1 DEF Exchanging
        <5> QED BY <5>1 DEF AttemptIsUsedOnce
      <4>2. CASE g = h
        BY <2>1, <3>1, <3>2, <3>3, <3>5, <4>2 DEF Exchanging
      <4>3. CASE k = h
        BY <2>1, <3>1, <3>2, <3>3, <3>5, <4>3 DEF Exchanging
      <4> QED BY <4>1, <4>2, <4>3
    <3> QED BY <3>4, <3>5 DEF AttemptIsUsedOnce
  <2> QED BY <1>3, <2>2, <2>3 DEF Callback
<1>4. ASSUME NEW h \in Handlers, SignsIn(h) PROVE AttemptIsUsedOnce'
  BY <1>4, <1>b, ExchangesAvoidNew DEF SignsIn
<1>5. ASSUME NEW h \in Handlers, ExchangeFails(h) PROVE AttemptIsUsedOnce'
  BY <1>5, <1>b, ExchangesKept DEF ExchangeFails, web
<1>6. ASSUME NEW b \in Browsers, SignOut(b) PROVE AttemptIsUsedOnce'
  BY <1>6, WithoutRecord, ExchangesKept DEF SignOut
<1>7. ASSUME NEW id \in Ids, Expires(id) PROVE AttemptIsUsedOnce'
  BY <1>7, ExchangesKept DEF Expires
<1>8. ASSUME NEW h \in Handlers, NEW b \in Browsers, IssueBegins(h, b) PROVE AttemptIsUsedOnce'
  BY <1>8, <1>a, ExchangesKept DEF IssueBegins, web
<1>9. ASSUME NEW h \in Handlers, IssueCounts(h) PROVE AttemptIsUsedOnce'
  BY <1>9, <1>a, ExchangesKept DEF IssueCounts, web
<1>10. ASSUME NEW h \in Handlers, IssueInserts(h) PROVE AttemptIsUsedOnce'
  BY <1>10, <1>b, ExchangesKept DEF IssueInserts, web
<1>11. ASSUME NEW b \in Browsers, NEW t \in DOMAIN tokens, Revoke(b, t) PROVE AttemptIsUsedOnce'
  BY <1>11, <1>c, ExchangesKept DEF Revoke, web
<1>12. ASSUME NEW b \in Browsers, SetVisibility(b) PROVE AttemptIsUsedOnce'
  BY <1>12, <1>c, ExchangesKept DEF SetVisibility, web
<1>13. ASSUME Restart PROVE AttemptIsUsedOnce'
  <2>1. \A g \in Handlers : handler'[g].at # "exchange"
    BY <1>13 DEF Restart
  <2> QED BY <2>1 DEF AttemptIsUsedOnce, Exchanging
<1>14. ASSUME UNCHANGED vars PROVE AttemptIsUsedOnce'
  BY <1>14 DEF vars, web, AttemptIsUsedOnce, Exchanging
<1> QED BY <1>1, <1>2, <1>3, <1>4, <1>5, <1>6, <1>7, <1>8, <1>9, <1>10, <1>11, <1>12,
           <1>13, <1>14 DEF Next

\* However many times and wherever a callback URL is followed, the attempt it names
\* is exchanged once: it leaves the table before github.com is asked.
THEOREM AttemptUsedOnce == Spec => []AttemptIsUsedOnce
<1>1. Init => AttemptIsUsedOnce
  BY DEF Init, AttemptIsUsedOnce, Exchanging
<1> QED BY <1>1, TypedInit, TypedNext, UsedOnceNext, PTL DEF Spec
-----------------------------------------------------------------------------
(* A browser is signed in as whoever sits at it. *)

\* An identifier is in one browser's cookie at most, and the browser github.com was
\* given it by is that browser.
OneHolder ==
    /\ \A b, c \in Browsers : cookie[b] = cookie[c] => cookie[b] = NoId \/ b = c
    /\ \A b, c \in Browsers : redirected[b] = cookie[c] => cookie[c] = NoId \/ b = c

\* A link that carries a browser's identifier, an exchange begun in it and a session
\* it holds are of the person who sits there.
Followed ==
    /\ \A b \in Browsers : \A link \in links :
         link.state = cookie[b] => link.person = Sitter[b]
    /\ \A h \in Exchanging : handler[h].person = Sitter[handler[h].browser]
    /\ \A b \in Browsers : cookie[b] \in DOMAIN records =>
         records[cookie[b]].person \in {Nobody, Sitter[b]}

\* What a step that makes no identifier keeps.
LEMMA FollowedKept ==
    ASSUME OneHolder, Followed, Typed,
           \A b \in Browsers : cookie'[b] \in {cookie[b], NoId},
           \A b \in Browsers : redirected'[b] \in {redirected[b], NoId},
           \A link \in links' : link \in links \/
              \E b \in Browsers : /\ redirected[b] # NoId
                                  /\ link.state = redirected[b] /\ link.person = Sitter[b],
           \A id \in DOMAIN records' :
              id \in DOMAIN records /\ records'[id].person = records[id].person,
           \A h \in Exchanging' :
              \/ h \in Exchanging /\ handler'[h] = handler[h]
              \/ handler'[h].person = Sitter[handler'[h].browser]
    PROVE  OneHolder' /\ Followed'
<1>1. OneHolder'
  BY DEF OneHolder
<1>2. NoId \notin DOMAIN records /\ \A link \in links : link.state # NoId
  BY DEF Typed, RecordsTyped, CookiesTyped
<1>3. ASSUME NEW b \in Browsers, NEW link \in links', link.state = cookie'[b]
      PROVE  link.person = Sitter[b]
  <2>1. CASE link \in links
    BY <1>2, <1>3, <2>1 DEF Followed
  <2>2. ASSUME NEW c \in Browsers, redirected[c] # NoId,
               link.state = redirected[c], link.person = Sitter[c]
        PROVE  link.person = Sitter[b]
    <3>1. redirected[c] = cookie[b]
      BY <1>3, <2>2
    <3>2. b = c
      BY <2>2, <3>1 DEF OneHolder
    <3> QED BY <2>2, <3>2
  <2> QED BY <2>1, <2>2
<1>4. \A h \in Exchanging' : handler'[h].person = Sitter[handler'[h].browser]
  BY DEF Followed
<1>5. ASSUME NEW b \in Browsers, cookie'[b] \in DOMAIN records'
      PROVE  records'[cookie'[b]].person \in {Nobody, Sitter[b]}
  <2>1. cookie'[b] \in DOMAIN records /\ cookie'[b] # NoId
    BY <1>2, <1>5
  <2>2. cookie'[b] = cookie[b]
    BY <2>1
  <2> QED BY <1>5, <2>1, <2>2 DEF Followed
<1> QED BY <1>1, <1>3, <1>4, <1>5 DEF Followed

\* What a step keeps that gives one browser a new identifier.
LEMMA FollowedNew ==
    ASSUME OneHolder, Followed, Typed, minted < IdBound, minted' = minted + 1,
           NEW b \in Browsers, cookie' = [cookie EXCEPT ![b] = minted'],
           NEW record, records' = With(minted', record),
           record.person \in {Nobody, Sitter[b]},
           \/ redirected' = [redirected EXCEPT ![b] = minted']
           \/ redirected' = redirected,
           links' = links,
           \A h \in Exchanging' : h \in Exchanging /\ handler'[h] = handler[h]
    PROVE  OneHolder' /\ Followed'
<1>1. minted' # NoId /\ minted' \notin 0..minted
  BY Minting DEF Typed, MintedTyped
<1>2. /\ \A c \in Browsers : cookie[c] \in 0..minted /\ redirected[c] \in 0..minted
      /\ \A link \in links : link.state \in 0..minted
  BY DEF Typed, CookiesTyped
<1>3. /\ cookie'[b] = minted'
      /\ \A c \in Browsers \ {b} : cookie'[c] = cookie[c] /\ redirected'[c] = redirected[c]
      /\ redirected'[b] \in {minted', redirected[b]}
  BY DEF Typed, CookiesTyped
<1>4. ASSUME NEW c \in Browsers, NEW d \in Browsers, cookie'[c] = cookie'[d]
      PROVE  cookie'[c] = NoId \/ c = d
  BY <1>1, <1>2, <1>3, <1>4 DEF OneHolder
<1>5. ASSUME NEW c \in Browsers, NEW d \in Browsers, redirected'[c] = cookie'[d]
      PROVE  cookie'[d] = NoId \/ c = d
  <2>1. CASE d = b
    <3>1. redirected'[c] = minted'
      BY <1>3, <1>5, <2>1
    <3>2. c = b
      BY <1>1, <1>2, <1>3, <3>1
    <3> QED BY <2>1, <3>2
  <2>2. CASE d # b
    <3>1. cookie'[d] = cookie[d] /\ cookie[d] # minted'
      BY <1>1, <1>2, <1>3, <2>2
    <3>2. redirected[c] = cookie[d]
      BY <1>3, <1>5, <3>1
    <3> QED BY <3>1, <3>2 DEF OneHolder
  <2> QED BY <2>1, <2>2
<1>6. ASSUME NEW c \in Browsers, NEW link \in links', link.state = cookie'[c]
      PROVE  link.person = Sitter[c]
  <2>1. c # b
    BY <1>1, <1>2, <1>3, <1>6
  <2> QED BY <1>3, <1>6, <2>1 DEF Followed
<1>7. ASSUME NEW c \in Browsers, cookie'[c] \in DOMAIN records'
      PROVE  records'[cookie'[c]].person \in {Nobody, Sitter[c]}
  <2>1. CASE c = b
    BY <1>3, <2>1, WithRecord
  <2>2. CASE c # b
    <3>1. cookie'[c] = cookie[c] /\ cookie[c] # minted'
      BY <1>1, <1>2, <1>3, <2>2
    <3>2. cookie[c] \in DOMAIN records /\ records'[cookie[c]] = records[cookie[c]]
      BY <1>7, <3>1, WithRecord
    <3> QED BY <3>1, <3>2 DEF Followed
  <2> QED BY <2>1, <2>2
<1>8. OneHolder'
  BY <1>4, <1>5 DEF OneHolder
<1>9. \A h \in Exchanging' : handler'[h].person = Sitter[handler'[h].browser]
  BY DEF Followed
<1> QED BY <1>6, <1>7, <1>8, <1>9 DEF Followed

LEMMA FollowedNext == Typed /\ OneHolder /\ Followed /\ [Next]_vars => OneHolder' /\ Followed'
<1> SUFFICES ASSUME Typed, OneHolder, Followed, [Next]_vars PROVE OneHolder' /\ Followed'
  OBVIOUS
<1>a. handler \in [Handlers -> Requests] /\ Idle.at # "exchange"
  BY DEF Typed, HandlerTyped
<1>b. ASSUME NEW h \in Handlers,
             handler' = [handler EXCEPT ![h] = Idle] \/ handler' = [Outdated EXCEPT ![h] = Idle]
      PROVE  \A g \in Exchanging' : g \in Exchanging /\ handler'[g] = handler[g]
  BY <1>a, <1>b, OutdatedRequests DEF Exchanging
<1>c. ASSUME handler' = Outdated
      PROVE  \A g \in Exchanging' : g \in Exchanging /\ handler'[g] = handler[g]
  BY <1>a, <1>c, OutdatedRequests DEF Exchanging
<1>d. ASSUME handler' = handler
      PROVE  \A g \in Exchanging' : g \in Exchanging /\ handler'[g] = handler[g]
  BY <1>d DEF Exchanging
<1>1. ASSUME NEW b \in Browsers, Start(b) PROVE OneHolder' /\ Followed'
  <2>1. Record(Nobody).person \in {Nobody, Sitter[b]}
    BY DEF Record
  <2>2. /\ minted < IdBound /\ minted' = minted + 1 /\ handler' = handler /\ links' = links
        /\ cookie' = [cookie EXCEPT ![b] = minted']
        /\ records' = With(minted', Record(Nobody))
        /\ redirected' = [redirected EXCEPT ![b] = minted']
    BY <1>1 DEF Start
  <2> QED BY <1>d, <2>1, <2>2, FollowedNew
<1>2. ASSUME NEW b \in Browsers, Authorize(b) PROVE OneHolder' /\ Followed'
  <2>1. /\ redirected[b] # NoId /\ redirected' = [redirected EXCEPT ![b] = NoId]
        /\ links' = links \cup {[state |-> redirected[b], person |-> Sitter[b]]}
        /\ records' = records /\ cookie' = cookie /\ handler' = handler
    BY <1>2 DEF Authorize
  <2>2. \A c \in Browsers : redirected'[c] \in {redirected[c], NoId}
    BY <2>1 DEF Typed, CookiesTyped
  <2>3. \A link \in links' : link \in links \/
           \E c \in Browsers : /\ redirected[c] # NoId
                               /\ link.state = redirected[c] /\ link.person = Sitter[c]
    BY <2>1
  <2> QED BY <1>d, <2>1, <2>2, <2>3, FollowedKept
<1>3. ASSUME NEW h \in Handlers, NEW b \in Browsers, NEW link \in links, Callback(h, b, link)
      PROVE OneHolder' /\ Followed'
  <2>1. /\ \A id \in DOMAIN records' : id \in DOMAIN records /\ records'[id] = records[id]
        /\ cookie' = cookie /\ redirected' = redirected /\ links' = links
    BY <1>3, WithoutRecord DEF Callback, Taken
  <2>2. CASE handler' = [handler EXCEPT ![h] = Idle]
    BY <1>b, <2>1, <2>2, FollowedKept
  <2> DEFINE r == [at |-> "exchange", browser |-> b, attempt |-> cookie[b], person |-> link.person]
  <2>3. CASE handler' = [handler EXCEPT ![h] = r] /\ link.state = cookie[b]
    <3>1. r.person = Sitter[r.browser]
      BY <2>3 DEF Followed
    <3> HIDE DEF r
    <3>2. \A g \in Exchanging' : \/ g \in Exchanging /\ handler'[g] = handler[g]
                                 \/ handler'[g].person = Sitter[handler'[g].browser]
      BY <1>a, <2>3, <3>1 DEF Exchanging
    <3> QED BY <2>1, <3>2, FollowedKept
  <2> QED BY <1>3, <2>2, <2>3 DEF Callback, Matches
<1>4. ASSUME NEW h \in Handlers, SignsIn(h) PROVE OneHolder' /\ Followed'
  <2>1. handler[h].browser \in Browsers /\ handler[h].person = Sitter[handler[h].browser]
    BY <1>4, <1>a, RequestPerson DEF SignsIn, Followed, Exchanging
  <2>2. Record(handler[h].person).person \in {Nobody, Sitter[handler[h].browser]}
    BY <2>1 DEF Record
  <2>3. /\ minted < IdBound /\ minted' = minted + 1 /\ links' = links
        /\ redirected' = redirected
        /\ cookie' = [cookie EXCEPT ![handler[h].browser] = minted']
        /\ records' = With(minted', Record(handler[h].person))
        /\ handler' = [Outdated EXCEPT ![h] = Idle]
    BY <1>4 DEF SignsIn
  <2> QED BY <1>b, <2>1, <2>2, <2>3, FollowedNew
<1>5. ASSUME NEW h \in Handlers, ExchangeFails(h) PROVE OneHolder' /\ Followed'
  BY <1>5, <1>b, FollowedKept DEF ExchangeFails, web
<1>6. ASSUME NEW b \in Browsers, SignOut(b) PROVE OneHolder' /\ Followed'
  <2>1. \A id \in DOMAIN records' : id \in DOMAIN records /\ records'[id] = records[id]
    BY <1>6, WithoutRecord DEF SignOut
  <2>2. \A c \in Browsers : cookie'[c] \in {cookie[c], NoId}
    BY <1>6 DEF SignOut, Typed, CookiesTyped
  <2> QED BY <1>6, <1>d, <2>1, <2>2, FollowedKept DEF SignOut
<1>7. ASSUME NEW id \in Ids, Expires(id) PROVE OneHolder' /\ Followed'
  <2>1. ASSUME NEW r \in Kept PROVE [r EXCEPT !.expired = TRUE].person = r.person
    BY <2>1 DEF Kept
  <2>2. \A k \in DOMAIN records : records[k] \in Kept
    BY DEF Typed, RecordsTyped
  <2>3. /\ id \in DOMAIN records
        /\ records' = [records EXCEPT ![id] = [records[id] EXCEPT !.expired = TRUE]]
    BY <1>7 DEF Expires
  <2>4. \A k \in DOMAIN records' : k \in DOMAIN records /\ records'[k].person = records[k].person
    BY <2>1, <2>2, <2>3
  <2> QED BY <1>7, <1>d, <2>4, FollowedKept DEF Expires
<1>8. ASSUME NEW h \in Handlers, NEW b \in Browsers, IssueBegins(h, b)
      PROVE OneHolder' /\ Followed'
  <2>1. \A g \in Exchanging' : g \in Exchanging /\ handler'[g] = handler[g]
    BY <1>8, <1>a DEF IssueBegins, Exchanging
  <2> QED BY <1>8, <2>1, FollowedKept DEF IssueBegins, web
<1>9. ASSUME NEW h \in Handlers, IssueCounts(h) PROVE OneHolder' /\ Followed'
  <2>1. \A g \in Exchanging' : g \in Exchanging /\ handler'[g] = handler[g]
    BY <1>9, <1>a DEF IssueCounts, Exchanging
  <2> QED BY <1>9, <2>1, FollowedKept DEF IssueCounts, web
<1>10. ASSUME NEW h \in Handlers, IssueInserts(h) PROVE OneHolder' /\ Followed'
  BY <1>10, <1>b, FollowedKept DEF IssueInserts, web
<1>11. ASSUME NEW b \in Browsers, NEW t \in DOMAIN tokens, Revoke(b, t)
       PROVE OneHolder' /\ Followed'
  BY <1>11, <1>c, FollowedKept DEF Revoke, web
<1>12. ASSUME NEW b \in Browsers, SetVisibility(b) PROVE OneHolder' /\ Followed'
  BY <1>12, <1>c, FollowedKept DEF SetVisibility, web
<1>13. ASSUME Restart PROVE OneHolder' /\ Followed'
  <2>1. DOMAIN records' = {} /\ Exchanging' = {}
    BY <1>13 DEF Restart, Exchanging
  <2> QED BY <1>13, <2>1, FollowedKept DEF Restart
<1>14. ASSUME UNCHANGED vars PROVE OneHolder' /\ Followed'
  BY <1>14, <1>d, FollowedKept DEF vars, web
<1> QED BY <1>1, <1>2, <1>3, <1>4, <1>5, <1>6, <1>7, <1>8, <1>9, <1>10, <1>11, <1>12,
           <1>13, <1>14 DEF Next

\* However the links of one browser's sign-in are followed in another, a browser is
\* signed in as nobody but the person who authorized in it.
THEOREM SignedInIsSitter == Spec => []SignedInAsSitter
<1>1. Init => OneHolder /\ Followed
  BY DEF Init, OneHolder, Followed, Exchanging
<1>2. Followed => SignedInAsSitter
  BY DEF Followed, SignedInAsSitter, SignedIn
<1> QED BY <1>1, <1>2, TypedInit, TypedNext, FollowedNext, PTL DEF Spec
-----------------------------------------------------------------------------
(* The caps. *)

\* What a request that is about to insert has seen: of an account that is counted,
\* rows under both caps, unless its snapshot is out of date.
Counted ==
    \A h \in Handlers :
        /\ handler[h].at = "insert uncounted" => handler[h].person \in Administrators
        /\ handler[h].at = "insert" =>
             /\ handler[h].person \notin Administrators
             /\ ~handler[h].stale => ~AtACap(handler[h].person)

LEMMA HeldFinite ==
    ASSUME RowsTyped, NEW p
    PROVE  /\ IsFiniteSet(Held(p)) /\ IsFiniteSet(Active(p))
           /\ Cardinality(Held(p)) \in Nat /\ Cardinality(Active(p)) \in Nat
<1>1. DOMAIN tokens = 1..Len(tokens) /\ Len(tokens) \in Nat
  BY LenProperties DEF RowsTyped
<1>2. IsFiniteSet(DOMAIN tokens)
  BY <1>1, FS_Interval
<1>3. Held(p) \in SUBSET DOMAIN tokens /\ Active(p) \in SUBSET DOMAIN tokens
  BY DEF Held, Active
<1> QED BY <1>2, <1>3, FS_Subset, FS_CardinalityType

\* A step that leaves the rows alone: a request goes on, or its snapshot grows old,
\* or it has just counted.
LEMMA CountedKept ==
    ASSUME CapsHold, Counted, tokens' = tokens,
           \A g \in Handlers :
              \/ handler'[g] = handler[g]
              \/ /\ handler[g].at = "insert" /\ handler'[g].at = "insert"
                 /\ handler'[g].stale /\ handler'[g].person = handler[g].person
              \/ handler'[g].at \notin {"insert", "insert uncounted"}
              \/ /\ handler'[g].at = "insert uncounted"
                 /\ handler'[g].person \in Administrators
              \/ /\ handler'[g].at = "insert" /\ handler'[g].person \notin Administrators
                 /\ ~AtACap(handler'[g].person)
    PROVE  CapsHold' /\ Counted'
<1>1. \A p : /\ Cardinality(Held(p))' = Cardinality(Held(p))
             /\ Cardinality(Active(p))' = Cardinality(Active(p))
  BY DEF Held, Active
<1>2. \A p : AtACap(p)' <=> AtACap(p)
  BY <1>1 DEF AtACap
<1>3. CapsHold'
  BY <1>1 DEF CapsHold
<1>4. ASSUME NEW g \in Handlers
      PROVE  /\ handler'[g].at = "insert uncounted" => handler'[g].person \in Administrators
             /\ handler'[g].at = "insert" =>
                  /\ handler'[g].person \notin Administrators
                  /\ ~handler'[g].stale => ~AtACap(handler'[g].person)
  BY DEF Counted
<1>5. \A g \in Handlers : AtACap(handler'[g].person) <=> AtACap(handler[g].person)'
  BY <1>2 DEF AtACap, Held, Active
<1> QED BY <1>3, <1>4, <1>5 DEF Counted

\* A step that writes to the rows leaves no snapshot that can still write.
LEMMA CountedOld ==
    ASSUME Counted,
           \A g \in Handlers :
              \/ handler'[g] = handler[g] /\ handler[g].at # "insert"
              \/ /\ handler[g].at = "insert" /\ handler'[g].at = "insert"
                 /\ handler'[g].stale /\ handler'[g].person = handler[g].person
              \/ handler'[g].at \notin {"insert", "insert uncounted"}
    PROVE  Counted'
<1>1. ASSUME NEW g \in Handlers, handler'[g].at = "insert uncounted"
      PROVE  handler'[g].person \in Administrators
  <2>1. handler'[g] = handler[g]
    BY <1>1
  <2> QED BY <1>1, <2>1 DEF Counted
<1>2. ASSUME NEW g \in Handlers, handler'[g].at = "insert"
      PROVE  handler'[g].person \notin Administrators /\ handler'[g].stale
  <2>1. /\ handler[g].at = "insert" /\ handler'[g].stale
        /\ handler'[g].person = handler[g].person
    BY <1>2
  <2> QED BY <2>1 DEF Counted
<1> QED BY <1>1, <1>2 DEF Counted

LEMMA CountedNext == Typed /\ CapsHold /\ Counted /\ [Next]_vars => CapsHold' /\ Counted'
<1> SUFFICES ASSUME Typed, CapsHold, Counted, [Next]_vars PROVE CapsHold' /\ Counted'
  OBVIOUS
<1>a. /\ handler \in [Handlers -> Requests] /\ HandlerTyped /\ RowsTyped
      /\ Idle.at \notin {"insert", "insert uncounted", "exchange"}
  BY DEF Typed, HandlerTyped
<1>b. ASSUME NEW h \in Handlers,
             handler' = [handler EXCEPT ![h] = Idle] \/ handler' = [Outdated EXCEPT ![h] = Idle],
             tokens' = tokens
      PROVE  CapsHold' /\ Counted'
  <2>1. \A g \in Handlers :
          \/ handler'[g] = handler[g]
          \/ /\ handler[g].at = "insert" /\ handler'[g].at = "insert"
             /\ handler'[g].stale /\ handler'[g].person = handler[g].person
          \/ handler'[g].at \notin {"insert", "insert uncounted"}
    BY <1>a, <1>b, OutdatedRequests
  <2> QED BY <1>b, <2>1, CountedKept
<1>c. ASSUME handler' = handler, tokens' = tokens PROVE CapsHold' /\ Counted'
  BY <1>c, CountedKept
<1>1. ASSUME NEW b \in Browsers, Start(b) PROVE CapsHold' /\ Counted'
  BY <1>1, <1>c DEF Start, database
<1>2. ASSUME NEW b \in Browsers, Authorize(b) PROVE CapsHold' /\ Counted'
  BY <1>2, <1>c DEF Authorize, database
<1>3. ASSUME NEW h \in Handlers, NEW b \in Browsers, NEW link \in links, Callback(h, b, link)
      PROVE CapsHold' /\ Counted'
  <2>1. tokens' = tokens
    BY <1>3 DEF Callback, database
  <2>2. CASE handler' = [handler EXCEPT ![h] = Idle]
    BY <1>b, <2>1, <2>2
  <2> DEFINE r == [at |-> "exchange", browser |-> b, attempt |-> cookie[b], person |-> link.person]
  <2>3. CASE handler' = [handler EXCEPT ![h] = r]
    <3>1. r.at \notin {"insert", "insert uncounted"}
      OBVIOUS
    <3> HIDE DEF r
    <3>2. \A g \in Handlers : handler'[g] = handler[g] \/ handler'[g].at \notin {"insert", "insert uncounted"}
      BY <1>a, <2>3, <3>1
    <3> QED BY <2>1, <3>2, CountedKept
  <2> QED BY <1>3, <2>2, <2>3 DEF Callback
<1>4. ASSUME NEW h \in Handlers, SignsIn(h) PROVE CapsHold' /\ Counted'
  BY <1>4, <1>b DEF SignsIn
<1>5. ASSUME NEW h \in Handlers, ExchangeFails(h) PROVE CapsHold' /\ Counted'
  BY <1>5, <1>b DEF ExchangeFails, database
<1>6. ASSUME NEW b \in Browsers, SignOut(b) PROVE CapsHold' /\ Counted'
  BY <1>6, <1>c DEF SignOut, database
<1>7. ASSUME NEW id \in Ids, Expires(id) PROVE CapsHold' /\ Counted'
  BY <1>7, <1>c DEF Expires, database
<1>8. ASSUME NEW h \in Handlers, NEW b \in Browsers, IssueBegins(h, b) PROVE CapsHold' /\ Counted'
  <2>1. \A g \in Handlers : handler'[g] = handler[g] \/ handler'[g].at \notin {"insert", "insert uncounted"}
    BY <1>8, <1>a DEF IssueBegins
  <2> QED BY <1>8, <2>1, CountedKept DEF IssueBegins, database
<1>9. ASSUME NEW h \in Handlers, IssueCounts(h) PROVE CapsHold' /\ Counted'
  <2> DEFINE p == handler[h].person
  <2>0. tokens' = tokens
    BY <1>9 DEF IssueCounts, database
  <2>1. CASE p \in Administrators
    <3>1. handler' = [handler EXCEPT ![h] = [at |-> "insert uncounted", person |-> p]]
      BY <1>9, <2>1 DEF IssueCounts
    <3>2. \A g \in Handlers : \/ handler'[g] = handler[g]
                              \/ handler'[g].at = "insert uncounted" /\ handler'[g].person \in Administrators
      BY <1>a, <2>1, <3>1
    <3> QED BY <2>0, <3>2, CountedKept
  <2>2. CASE p \notin Administrators /\ AtACap(p)
    BY <1>9, <1>b, <2>0, <2>2 DEF IssueCounts
  <2>3. CASE p \notin Administrators /\ ~AtACap(p)
    <3>1. handler' = [handler EXCEPT ![h] = [at |-> "insert", person |-> p, stale |-> FALSE]]
      BY <1>9, <2>3 DEF IssueCounts
    <3>2. handler'[h].at = "insert" /\ handler'[h].person = p
      BY <1>a, <3>1
    <3>3. \A g \in Handlers \ {h} : handler'[g] = handler[g]
      BY <1>a, <3>1
    <3>4. \A g \in Handlers :
             \/ handler'[g] = handler[g]
             \/ /\ handler'[g].at = "insert" /\ handler'[g].person \notin Administrators
                /\ ~AtACap(handler'[g].person)
      BY <2>3, <3>2, <3>3
    <3> QED BY <2>0, <3>4, CountedKept
  <2> QED BY <2>1, <2>2, <2>3
<1>10. ASSUME NEW h \in Handlers, IssueInserts(h) PROVE CapsHold' /\ Counted'
  <2>1. CASE Conflicts(h)
    BY <1>10, <1>b, <2>1 DEF IssueInserts
  <2>2. CASE ~Conflicts(h)
    <3> DEFINE p == handler[h].person
               n == Len(tokens) + 1
    <3>1. /\ tokens' = Append(tokens, [owner |-> p, active |-> TRUE])
          /\ handler' = [Outdated EXCEPT ![h] = Idle]
          /\ handler[h].at \in {"insert", "insert uncounted"} /\ p \in People
      BY <1>10, <1>a, <2>2, RequestPerson DEF IssueInserts
    <3>2. Counted'
      <4>1. \A g \in Handlers :
              \/ handler'[g] = handler[g] /\ handler[g].at # "insert"
              \/ /\ handler[g].at = "insert" /\ handler'[g].at = "insert"
                 /\ handler'[g].stale /\ handler'[g].person = handler[g].person
              \/ handler'[g].at \notin {"insert", "insert uncounted"}
        BY <1>a, <3>1, OutdatedRequests
      <4> QED BY <4>1, CountedOld
    <3>3. p \in People \ Administrators => ~AtACap(p)
      BY <2>2, <3>1 DEF Conflicts, Counted
    <3>4. /\ DOMAIN tokens' = DOMAIN tokens \cup {n} /\ n \notin DOMAIN tokens
          /\ \A i \in DOMAIN tokens : tokens'[i] = tokens[i]
          /\ tokens'[n].owner = p
      <4>1. /\ DOMAIN tokens = 1..Len(tokens) /\ Len(tokens) \in Nat
            /\ DOMAIN tokens' = DOMAIN tokens \cup {Len(tokens) + 1}
            /\ \A i \in DOMAIN tokens : tokens'[i] = tokens[i]
            /\ tokens'[Len(tokens) + 1] = [owner |-> p, active |-> TRUE]
        BY <1>a, <3>1, RowAppended DEF RowsTyped
      <4>2. [owner |-> p, active |-> TRUE].owner = p
        OBVIOUS
      <4> HIDE DEF p
      <4> QED BY <4>1, <4>2
    <3> HIDE DEF n, p
    <3>5. ASSUME NEW q \in People \ Administrators
          PROVE  Cardinality(Held(q))' <= LifetimeCap /\ Cardinality(Active(q))' <= ActiveCap
      <4>1. Cardinality(Held(q)) <= LifetimeCap /\ Cardinality(Active(q)) <= ActiveCap
        BY DEF CapsHold
      <4>2. CASE q # p
        <5>1. Held(q)' = Held(q) /\ Active(q)' = Active(q)
          BY <3>4, <4>2 DEF Held, Active
        <5> QED BY <4>1, <5>1
      <4>3. CASE q = p
        <5>1. Cardinality(Held(q)) < LifetimeCap /\ Cardinality(Active(q)) < ActiveCap
          BY <1>a, <3>3, <4>3, HeldFinite, AccountsAssumption DEF AtACap
        <5>2. Held(q)' \subseteq Held(q) \cup {n} /\ Active(q)' \subseteq Active(q) \cup {n}
          BY <3>4 DEF Held, Active
        <5>3. /\ Cardinality(Held(q) \cup {n}) <= Cardinality(Held(q)) + 1
              /\ Cardinality(Active(q) \cup {n}) <= Cardinality(Active(q)) + 1
              /\ IsFiniteSet(Held(q) \cup {n}) /\ IsFiniteSet(Active(q) \cup {n})
          <6>1. \A S : IsFiniteSet(S) /\ Cardinality(S) \in Nat =>
                   /\ IsFiniteSet(S \cup {n}) /\ Cardinality(S \cup {n}) <= Cardinality(S) + 1
            <7> TAKE S
            <7> HAVE IsFiniteSet(S) /\ Cardinality(S) \in Nat
            <7>1. IsFiniteSet(S \cup {n}) /\ Cardinality(S \cup {n}) =
                    IF n \in S THEN Cardinality(S) ELSE Cardinality(S) + 1
              BY FS_AddElement, Zenon
            <7> QED BY <7>1
          <6> QED BY <1>a, <6>1, HeldFinite
        <5>4. /\ IsFiniteSet(Held(q)') /\ Cardinality(Held(q)') <= Cardinality(Held(q) \cup {n})
              /\ IsFiniteSet(Active(q)') /\ Cardinality(Active(q)') <= Cardinality(Active(q) \cup {n})
          BY <5>2, <5>3, FS_Subset
        <5>5. /\ Cardinality(Held(q)) \in Nat /\ Cardinality(Active(q)) \in Nat
              /\ Cardinality(Held(q)') \in Nat /\ Cardinality(Active(q)') \in Nat
              /\ Cardinality(Held(q) \cup {n}) \in Nat /\ Cardinality(Active(q) \cup {n}) \in Nat
          BY <1>a, <5>3, <5>4, HeldFinite, FS_CardinalityType
        <5> QED BY <5>1, <5>3, <5>4, <5>5, AccountsAssumption
      <4> QED BY <4>2, <4>3
    <3> QED BY <3>2, <3>5 DEF CapsHold
  <2> QED BY <2>1, <2>2
<1>11. ASSUME NEW b \in Browsers, NEW t \in DOMAIN tokens, Revoke(b, t) PROVE CapsHold' /\ Counted'
  <2>1. handler' = Outdated /\ tokens' = [tokens EXCEPT ![t].active = FALSE]
    BY <1>11 DEF Revoke
  <2>2. Counted'
    <3>1. \A g \in Handlers :
            \/ handler'[g] = handler[g] /\ handler[g].at # "insert"
            \/ /\ handler[g].at = "insert" /\ handler'[g].at = "insert"
               /\ handler'[g].stale /\ handler'[g].person = handler[g].person
      BY <1>a, <2>1, OutdatedRequests
    <3> QED BY <3>1, CountedOld
  <2>3. /\ DOMAIN tokens' = DOMAIN tokens
        /\ \A i \in DOMAIN tokens : /\ tokens'[i].owner = tokens[i].owner
                                    /\ tokens'[i].active => tokens[i].active
    BY <1>a, <2>1, RowRevoked DEF RowsTyped
  <2>4. ASSUME NEW q \in People \ Administrators
        PROVE  Cardinality(Held(q))' <= LifetimeCap /\ Cardinality(Active(q))' <= ActiveCap
    <3>1. Held(q)' = Held(q) /\ Active(q)' \subseteq Active(q)
      BY <2>3 DEF Held, Active
    <3>2. Cardinality(Active(q)') <= Cardinality(Active(q)) /\ Cardinality(Active(q)') \in Nat
      BY <1>a, <3>1, HeldFinite, FS_Subset, FS_CardinalityType
    <3> QED BY <1>a, <3>1, <3>2, HeldFinite, AccountsAssumption DEF CapsHold
  <2> QED BY <2>2, <2>4 DEF CapsHold
<1>12. ASSUME NEW b \in Browsers, SetVisibility(b) PROVE CapsHold' /\ Counted'
  <2>1. \A g \in Handlers :
          \/ handler'[g] = handler[g]
          \/ /\ handler[g].at = "insert" /\ handler'[g].at = "insert"
             /\ handler'[g].stale /\ handler'[g].person = handler[g].person
    BY <1>12, <1>a, OutdatedRequests DEF SetVisibility
  <2> QED BY <1>12, <2>1, CountedKept DEF SetVisibility
<1>13. ASSUME Restart PROVE CapsHold' /\ Counted'
  <2>1. \A g \in Handlers : handler'[g].at \notin {"insert", "insert uncounted"}
    BY <1>13, <1>a DEF Restart
  <2> QED BY <1>13, <2>1, CountedKept DEF Restart, database
<1>14. ASSUME UNCHANGED vars PROVE CapsHold' /\ Counted'
  BY <1>14, <1>c DEF vars, database
<1> QED BY <1>1, <1>2, <1>3, <1>4, <1>5, <1>6, <1>7, <1>8, <1>9, <1>10, <1>11, <1>12,
           <1>13, <1>14 DEF Next

\* However many issuances of an account are served at once, and however revocations
\* fall between their steps, it is never past a cap: the transaction that counted too
\* long ago is the one that cannot write.
THEOREM CapsAreKept == Spec => []CapsHold
<1>1. Init => CapsHold /\ Counted
  <2> SUFFICES ASSUME Init PROVE CapsHold /\ Counted OBVIOUS
  <2>1. tokens = <<>> /\ \A h \in Handlers : handler[h] = Idle
    BY DEF Init
  <2>2. \A p : Held(p) = {} /\ Active(p) = {}
    BY <2>1 DEF Held, Active
  <2>3. CapsHold
    BY <2>2, FS_EmptySet, AccountsAssumption DEF CapsHold
  <2>4. Idle.at \notin {"insert", "insert uncounted"}
    OBVIOUS
  <2> QED BY <2>1, <2>3, <2>4 DEF Counted
<1> QED BY <1>1, TypedInit, TypedNext, CountedNext, PTL DEF Spec
-----------------------------------------------------------------------------
(* A session ends for a reason of its own. *)

EndsForAReason ==
    \A id \in DOMAIN records \ DOMAIN records' :
       \/ IsAttempt(id) \/ records[id].expired \/ Restart
       \/ \E b \in Browsers : cookie[b] = id /\ cookie'[b] = NoId

\* What a sweep takes has expired.
LEMMA SweptRecords ==
    ASSUME NEW live, NEW id \in DOMAIN live, id \notin DOMAIN Swept(live)
    PROVE  live[id].expired
BY DEF Swept

LEMMA NothingEnds == records' = records => EndsForAReason
BY DEF EndsForAReason

LEMMA MintingEndsNothing ==
    ASSUME NEW record, NEW new, records' = With(new, record)
    PROVE  EndsForAReason
<1> SUFFICES ASSUME NEW id \in DOMAIN records \ DOMAIN records' PROVE records[id].expired
  BY DEF EndsForAReason
<1>1. id \notin DOMAIN Swept(records)
  BY DEF With
<1> QED BY <1>1, SweptRecords

LEMMA SurvivesNext == Typed /\ [Next]_vars => EndsForAReason
<1> SUFFICES ASSUME Typed, [Next]_vars PROVE EndsForAReason OBVIOUS
<1>1. ASSUME NEW b \in Browsers, Start(b) PROVE EndsForAReason
  BY <1>1, MintingEndsNothing DEF Start
<1>2. ASSUME NEW b \in Browsers, Authorize(b) PROVE EndsForAReason
  BY <1>2, NothingEnds DEF Authorize
<1>3. ASSUME NEW h \in Handlers, NEW b \in Browsers, NEW link \in links, Callback(h, b, link)
      PROVE EndsForAReason
  <2>1. IsAttempt(cookie[b]) /\ DOMAIN records' = DOMAIN records \ {cookie[b]}
    BY <1>3, WithoutRecord DEF Callback, Takes, Taken
  <2> QED BY <2>1 DEF EndsForAReason
<1>4. ASSUME NEW h \in Handlers, SignsIn(h) PROVE EndsForAReason
  BY <1>4, MintingEndsNothing DEF SignsIn
<1>5. ASSUME NEW h \in Handlers, ExchangeFails(h) PROVE EndsForAReason
  BY <1>5, NothingEnds DEF ExchangeFails, web
<1>6. ASSUME NEW b \in Browsers, SignOut(b) PROVE EndsForAReason
  <2> SUFFICES ASSUME NEW id \in DOMAIN records \ DOMAIN records',
                      ~records[id].expired
               PROVE  cookie[b] = id /\ cookie'[b] = NoId
    BY DEF EndsForAReason
  <2>1. cookie'[b] = NoId
    BY <1>6 DEF SignOut, Typed, CookiesTyped
  <2> DEFINE rest == Without(records, cookie[b])
  <2>2. \A k \in DOMAIN records \ {cookie[b]} : k \in DOMAIN rest /\ rest[k] = records[k]
    BY DEF Without
  <2>3. records' = Swept(rest)
    BY <1>6 DEF SignOut
  <2> HIDE DEF rest
  <2> QED BY <2>1, <2>2, <2>3, SweptRecords
<1>7. ASSUME NEW id \in Ids, Expires(id) PROVE EndsForAReason
  <2>1. DOMAIN records' = DOMAIN records
    BY <1>7 DEF Expires
  <2> QED BY <2>1 DEF EndsForAReason
<1>8. ASSUME NEW h \in Handlers, NEW b \in Browsers, IssueBegins(h, b) PROVE EndsForAReason
  BY <1>8, NothingEnds DEF IssueBegins, web
<1>9. ASSUME NEW h \in Handlers, IssueCounts(h) PROVE EndsForAReason
  BY <1>9, NothingEnds DEF IssueCounts, web
<1>10. ASSUME NEW h \in Handlers, IssueInserts(h) PROVE EndsForAReason
  BY <1>10, NothingEnds DEF IssueInserts, web
<1>11. ASSUME NEW b \in Browsers, NEW t \in DOMAIN tokens, Revoke(b, t) PROVE EndsForAReason
  BY <1>11, NothingEnds DEF Revoke, web
<1>12. ASSUME NEW b \in Browsers, SetVisibility(b) PROVE EndsForAReason
  BY <1>12, NothingEnds DEF SetVisibility, web
<1>13. ASSUME Restart PROVE EndsForAReason
  BY <1>13 DEF EndsForAReason
<1>14. ASSUME UNCHANGED vars PROVE EndsForAReason
  BY <1>14, NothingEnds DEF vars, web
<1> QED BY <1>1, <1>2, <1>3, <1>4, <1>5, <1>6, <1>7, <1>8, <1>9, <1>10, <1>11, <1>12,
           <1>13, <1>14 DEF Next

\* Whatever callback URLs are followed, a session ends when it expires, when a browser
\* that holds its cookie signs out, or with the process.
THEOREM SessionsSurvive == Spec => SessionOutlivesStrayLinks
<1>1. EndsForAReason => [\A id \in DOMAIN records \ DOMAIN records' :
          \/ IsAttempt(id) \/ records[id].expired \/ Restart
          \/ \E b \in Browsers : cookie[b] = id /\ cookie'[b] = NoId]_vars
  BY DEF EndsForAReason
<1> QED BY <1>1, TypedInit, TypedNext, SurvivesNext, PTL DEF Spec, SessionOutlivesStrayLinks
=============================================================================
