------------------------- MODULE PasswordStoreProofs -------------------------
(* Theorems about PasswordStore, for any sets of calls, requests, values. *)
EXTENDS PasswordListing, SequenceTheorems, FiniteSetTheorems, TLAPS

Data == INSTANCE FoldTheorems WITH Op <- Append

-----------------------------------------------------------------------------
(* Facts about the helpers. *)

\* An accepted request has a key.
LEMMA KeyOfAccepted ==
    ASSUME NEW q \in Requests, Accepted(q)
    PROVE  KeyOf(q) \in Keys
  BY DEF Keys

\* Requests that are the same and accepted have the same key.
LEMMA SameKey ==
    ASSUME NEW p \in Requests, NEW q \in Requests,
           Accepted(p), Accepted(q), SameRequest(p, q)
    PROVE  KeyOf(p) = KeyOf(q)
  BY RequestsAssumption
  DEF SameRequest, Accepted, LengthAccepted, KeyOf, NormalizeLength

\* Every reply has its type.
LEMMA ReplyTypes ==
    ASSUME rows \in Seq(Row)
    PROVE  /\ NoReply \in Reply
           /\ Failure \in Reply
           /\ \A i \in DOMAIN rows : Found(i) \in Reply
           /\ \A i \in Nat, v \in Values : Created(i, v) \in Reply
  <1>1. \A i \in DOMAIN rows : i \in Nat /\ rows[i].value \in Values
    <2>1. \A i \in DOMAIN rows : i \in Nat /\ rows[i] \in Row
      OBVIOUS
    <2> QED BY <2>1 DEF Row
  <1> QED
    BY <1>1 DEF NoReply, Failure, Found, Created, Reply

\* A table with one more row keeps those it had.
LEMMA AddRowKeeps ==
    ASSUME NEW row \in Row, rows \in Seq(Row), rows' = Append(rows, row)
    PROVE  /\ rows' \in Seq(Row)
           /\ Len(rows) \in Nat
           /\ DOMAIN rows = 1..Len(rows)
           /\ DOMAIN rows' = 1..(Len(rows) + 1)
           /\ DOMAIN rows \subseteq DOMAIN rows'
           /\ Len(rows) + 1 \in DOMAIN rows'
           /\ Len(rows) + 1 \notin DOMAIN rows
           /\ rows'[Len(rows) + 1] = row
           /\ \A i \in DOMAIN rows : rows'[i] = rows[i]
           /\ \A i \in DOMAIN rows' : i \in DOMAIN rows \/ i = Len(rows) + 1
  OBVIOUS

-----------------------------------------------------------------------------
(* Types and the state of a call. *)

\* What is true of a PasswordGet at each of its steps.
CallOK(h) ==
    /\ pc[h] = "idle" => req[h] = None /\ reply[h] = NoReply
    /\ pc[h] # "idle" => req[h] \in Requests
    /\ pc[h] \in {"lookup", "generate", "insert", "relookup"} =>
          Accepted(req[h]) /\ reply[h] = NoReply
    /\ pc[h] = "insert" => draft[h] \in Row /\ draft[h].key = KeyOf(req[h])
    /\ pc[h] # "insert" => draft[h] = None
    /\ pc[h] = "done" => \/ reply[h] = Failure
                         \/ /\ reply[h].status = "answered"
                            /\ Accepted(req[h])
                            /\ reply[h].row \in DOMAIN rows
                            /\ rows[reply[h].row].key = KeyOf(req[h])
                            /\ reply[h].value = rows[reply[h].row].value

CallsOK == \A h \in Getters : CallOK(h)

\* UNIQUE (service, name, length, type).
UniqueKeys == \A i, j \in DOMAIN rows : rows[i].key = rows[j].key => i = j

TypeInv == TypeOK /\ CallsOK /\ UniqueKeys

\* The initial state has its type.
LEMMA TypeInit == Init => TypeInv
  <1> SUFFICES ASSUME Init PROVE TypeInv
    OBVIOUS
  <1>1. TypeOK
    BY ClockAssumption, ReplyTypes DEF Init, TypeOK, IdleReader
  <1>2. CallsOK
    BY DEF Init, CallsOK, CallOK
  <1>3. UniqueKeys
    BY DEF Init, UniqueKeys
  <1> QED
    BY <1>1, <1>2, <1>3 DEF TypeInv

\* Every step that leaves the table and the calls alone keeps the state of the calls.
LEMMA CallsFrame ==
    ASSUME CallsOK, UniqueKeys, rows' = rows, UNCHANGED getVars
    PROVE  CallsOK' /\ UniqueKeys'
  BY DEF CallsOK, CallOK, UniqueKeys, getVars, Lookup

\* Every step keeps the types, the state of the calls and the keys unique.
LEMMA TypeNext == TypeInv /\ [Next]_vars => TypeInv'
  <1> SUFFICES ASSUME TypeInv, [Next]_vars PROVE TypeInv'
    OBVIOUS
  <1> USE DEF TypeInv
  <1>1. ASSUME NEW h \in Getters, NEW q \in Requests, BeginGet(h, q) PROVE TypeInv'
    <2>1. TypeOK'
      BY <1>1, ReplyTypes DEF TypeOK, BeginGet, tableVars, historyVars
    <2>2. CallsOK' /\ UniqueKeys'
      BY <1>1 DEF TypeOK, BeginGet, tableVars, CallsOK, CallOK, UniqueKeys
    <2> QED BY <2>1, <2>2
  <1>2. ASSUME NEW h \in Getters, LookupFirst(h) PROVE TypeInv'
    <2>1. TypeOK'
      <3>1. reply' \in [Getters -> Reply]
        <4>1. \A i \in Lookup(KeyOf(req[h])) : Found(i) \in Reply
          BY ReplyTypes DEF Lookup, TypeOK
        <4>2. CASE Lookup(KeyOf(req[h])) = {}
          BY <1>2, <4>2 DEF TypeOK, LookupFirst
        <4>3. CASE Lookup(KeyOf(req[h])) # {}
          <5>1. PICK i \in Lookup(KeyOf(req[h])) : reply' = [reply EXCEPT ![h] = Found(i)]
            BY <1>2, <4>3 DEF LookupFirst
          <5> QED BY <4>1, <5>1 DEF TypeOK
        <4> QED BY <4>2, <4>3
      <3> QED BY <1>2, <3>1 DEF TypeOK, LookupFirst, tableVars, historyVars
    <2>2. CallsOK' /\ UniqueKeys'
      BY <1>2 DEF TypeOK, LookupFirst, tableVars, CallsOK, CallOK, UniqueKeys, Found, Lookup
    <2> QED BY <2>1, <2>2
  <1>3. ASSUME NEW h \in Getters, Generate(h) PROVE TypeInv'
    <2>1. KeyOf(req[h]) \in Keys
      BY <1>3, KeyOfAccepted DEF Generate, CallsOK, CallOK
    <2>2. PICK v \in Values :
            draft' = [draft EXCEPT ![h] = [key |-> KeyOf(req[h]), value |-> v, date |-> clock]]
      <3>1. PICK v \in Passwords(KeyOf(req[h]).length, req[h].type) :
              draft' = [draft EXCEPT ![h] = [key |-> KeyOf(req[h]), value |-> v, date |-> clock]]
        BY <1>3 DEF Generate
      <3>2. KeyOf(req[h]).type = req[h].type
        BY DEF KeyOf
      <3>3. v \in Values
        BY <2>1, <3>1, <3>2 DEF Values
      <3> QED BY <3>1, <3>3
    <2>3. [key |-> KeyOf(req[h]), value |-> v, date |-> clock] \in Row
      BY <2>1 DEF Row, TypeOK
    <2>4. TypeOK'
      BY <1>3, <2>2, <2>3 DEF TypeOK, Generate, tableVars, historyVars
    <2>5. CallsOK' /\ UniqueKeys'
      BY <1>3, <2>2, <2>3 DEF TypeOK, Generate, tableVars, CallsOK, CallOK, UniqueKeys
    <2> QED BY <2>4, <2>5
  <1>4. ASSUME NEW h \in Getters, GenerateRefused(h) PROVE TypeInv'
    <2>1. TypeOK'
      BY <1>4, ReplyTypes DEF TypeOK, GenerateRefused, tableVars, historyVars
    <2>2. CallsOK' /\ UniqueKeys'
      BY <1>4 DEF TypeOK, GenerateRefused, tableVars, CallsOK, CallOK, UniqueKeys
    <2> QED BY <2>1, <2>2
  <1>5. ASSUME NEW h \in Getters, InsertCreates(h) \/ InsertUntold(h) PROVE TypeInv'
    <2>1. draft[h] \in Row /\ draft[h].key = KeyOf(req[h]) /\ Accepted(req[h])
      BY <1>5 DEF InsertCreates, InsertUntold, CallsOK, CallOK
    <2>2. rows' = Append(rows, draft[h])
      BY <1>5 DEF InsertCreates, InsertUntold, AddRow
    <2>3. /\ rows' \in Seq(Row)
          /\ Len(rows) \in Nat
          /\ DOMAIN rows \subseteq DOMAIN rows'
          /\ Len(rows) + 1 \in DOMAIN rows'
          /\ rows'[Len(rows) + 1] = draft[h]
          /\ \A i \in DOMAIN rows : rows'[i] = rows[i]
          /\ \A i \in DOMAIN rows' : i \in DOMAIN rows \/ i = Len(rows) + 1
      BY <2>1, <2>2, AddRowKeeps DEF TypeOK
    <2>4. precedes' = precedes \cup {<<i, Len(rows) + 1>> : i \in seen[h]}
      BY <1>5 DEF InsertCreates, InsertUntold, AddRow
    <2>5. \A i \in seen[h] : <<i, Len(rows) + 1>> \in Nat \X Nat
      BY <2>3 DEF TypeOK
    <2>6. precedes' \in SUBSET (Nat \X Nat)
      BY <2>4, <2>5 DEF TypeOK
    <2>7. draft[h].value \in Values
      BY <2>1 DEF Row
    <2>8. TypeOK'
      <3>1. reply' \in [Getters -> Reply]
        <4>1. Created(Len(rows) + 1, draft[h].value) \in Reply /\ Failure \in Reply
          <5>1. Len(rows) + 1 \in Nat
            BY <2>3
          <5> QED BY <5>1, <2>7, ReplyTypes DEF TypeOK
        <4> QED BY <1>5, <4>1 DEF TypeOK, InsertCreates, InsertUntold
      <3>2. draft' \in [Getters -> Row \cup {None}]
        BY <1>5 DEF TypeOK, InsertCreates, InsertUntold
      <3> QED BY <1>5, <2>3, <2>6, <3>1, <3>2 DEF TypeOK, InsertCreates, InsertUntold
    <2>9. CallsOK'
      <3>1. \A g \in Getters \ {h} : CallOK(g)'
        BY <1>5, <2>3 DEF TypeOK, InsertCreates, InsertUntold, CallsOK, CallOK
      <3>2. /\ pc'[h] = "done" /\ req'[h] = req[h] /\ req[h] \in Requests /\ draft'[h] = None
            /\ reply'[h] = Failure \/ reply'[h] = Created(Len(rows) + 1, draft[h].value)
        BY <1>5 DEF TypeOK, InsertCreates, InsertUntold, CallsOK, CallOK
      <3>3. CallOK(h)'
        BY <2>1, <2>3, <3>2 DEF CallOK, Created
      <3> QED BY <3>1, <3>3 DEF CallsOK
    <2>10. UniqueKeys'
      BY <1>5, <2>3 DEF UniqueKeys, InsertCreates, InsertUntold, Conflicts
    <2> QED BY <2>8, <2>9, <2>10
  <1>6. ASSUME NEW h \in Getters, InsertIgnored(h) PROVE TypeInv'
    <2>1. TypeOK'
      BY <1>6 DEF TypeOK, InsertIgnored, tableVars, historyVars
    <2>2. CallsOK' /\ UniqueKeys'
      BY <1>6 DEF TypeOK, InsertIgnored, tableVars, CallsOK, CallOK, UniqueKeys
    <2> QED BY <2>1, <2>2
  <1>7. ASSUME NEW h \in Getters, LookupAgain(h) PROVE TypeInv'
    <2>1. TypeOK'
      <3>1. reply' \in [Getters -> Reply]
        BY <1>7, ReplyTypes DEF TypeOK, LookupAgain, Lookup
      <3> QED BY <1>7, <3>1 DEF TypeOK, LookupAgain, tableVars, historyVars
    <2>2. CallsOK' /\ UniqueKeys'
      BY <1>7 DEF TypeOK, LookupAgain, tableVars, CallsOK, CallOK, UniqueKeys, Found, Lookup
    <2> QED BY <2>1, <2>2
  <1>8. ASSUME NEW h \in Getters, FailGet(h) PROVE TypeInv'
    <2>1. TypeOK'
      BY <1>8, ReplyTypes DEF TypeOK, FailGet, tableVars, historyVars
    <2>2. CallsOK' /\ UniqueKeys'
      BY <1>8 DEF TypeOK, FailGet, tableVars, CallsOK, CallOK, UniqueKeys
    <2> QED BY <2>1, <2>2
  <1>9. ASSUME NEW h \in Getters, ReturnGet(h) PROVE TypeInv'
    <2>1. TypeOK'
      <3>1. req[h] \in Requests
        BY <1>9 DEF ReturnGet, CallsOK, CallOK
      <3>2. reply[h].status = "answered" => reply[h].row \in DOMAIN rows
        BY <1>9 DEF ReturnGet, CallsOK, CallOK, Failure
      <3>3. reply[h].status = "answered" => reply[h].value \in Values
        <4>0. \A i \in DOMAIN rows : rows[i] \in Row
          BY DEF TypeOK
        <4>1. \A i \in DOMAIN rows : rows[i].value \in Values
          BY <4>0 DEF Row
        <4> QED
          BY <1>9, <3>2, <4>1 DEF ReturnGet, CallsOK, CallOK, Failure
      <3>4. told' \in SUBSET [req : Requests, value : Values]
        BY <1>9, <3>1, <3>3 DEF ReturnGet, TypeOK
      <3>5. news' \in [Requests -> Nat]
        <4>1. CASE reply[h].status = "answered"
          <5>1. news' = [news EXCEPT ![req[h]] = IF reply[h].new THEN @ + 1 ELSE @]
            BY <1>9, <4>1 DEF ReturnGet
          <5> QED BY <5>1, <3>1 DEF TypeOK
        <4>2. CASE reply[h].status # "answered"
          BY <1>9, <4>2 DEF ReturnGet, TypeOK
        <4> QED BY <4>1, <4>2
      <3>6. acked' \in SUBSET Nat
        <4>1. reply[h].row \in Nat
          BY DEF TypeOK, Reply
        <4> QED BY <1>9, <4>1 DEF ReturnGet, TypeOK
      <3> QED
        BY <1>9, <3>4, <3>5, <3>6, ReplyTypes DEF TypeOK, ReturnGet, tableVars
    <2>2. CallsOK' /\ UniqueKeys'
      BY <1>9 DEF TypeOK, ReturnGet, tableVars, CallsOK, CallOK, UniqueKeys
    <2> QED BY <2>1, <2>2
  <1>10. ASSUME NEW r \in Readers, NEW a \in Accounts, BeginRead(r, a) PROVE TypeInv'
    <2>1. TypeOK'
      BY <1>10 DEF TypeOK, BeginRead, tableVars, getVars, historyVars
    <2> QED BY <1>10, <2>1, CallsFrame DEF BeginRead, tableVars
  <1>11. ASSUME NEW r \in Readers, Read(r) \/ FailRead(r) PROVE TypeInv'
    <2>1. \A i \in DOMAIN rows : i \in Nat
      BY DEF TypeOK
    <2>2. TypeOK'
      <3>1. CASE FailRead(r)
        BY <3>1 DEF TypeOK, FailRead, tableVars, getVars, historyVars
      <3>2. CASE Read(r)
        <4>1. reader' \in [Readers -> [pc : {"idle", "read", "done", "failed"},
                                      account : Accounts \cup {None}, row : Nat]]
          <5>1. CASE reader' = [reader EXCEPT ![r].pc = "done"]
            BY <5>1 DEF TypeOK
          <5>2. ASSUME NEW i \in Newest(reader[r].account),
                       reader' = [reader EXCEPT ![r].pc = "done", ![r].row = i]
                PROVE  reader' \in [Readers -> [pc : {"idle", "read", "done", "failed"},
                                      account : Accounts \cup {None}, row : Nat]]
            <6>1. i \in Nat
              BY <2>1 DEF Newest, RowsOf
            <6> QED BY <5>2, <6>1 DEF TypeOK
          <5> QED BY <3>2, <5>1, <5>2 DEF Read
        <4> QED BY <3>2, <4>1 DEF TypeOK, Read, tableVars, getVars, historyVars
      <3> QED BY <1>11, <3>1, <3>2
    <2> QED BY <1>11, <2>2, CallsFrame DEF Read, FailRead, tableVars
  <1>12. ASSUME NEW r \in Readers, ReturnRead(r) PROVE TypeInv'
    <2>1. TypeOK'
      BY <1>12 DEF TypeOK, ReturnRead, tableVars, getVars, IdleReader
    <2> QED BY <1>12, <2>1, CallsFrame DEF ReturnRead, tableVars
  <1>13. CASE Tick
    <2>1. TypeOK'
      <3>1. clock' \in 0..MaxTime
        BY <1>13 DEF Tick
      <3> QED BY <1>13, <3>1 DEF TypeOK, Tick, getVars, historyVars
    <2> QED BY <1>13, <2>1, CallsFrame DEF Tick
  <1>14. CASE Crash
    <2>1. TypeOK'
      BY <1>14, ReplyTypes DEF TypeOK, Crash, tableVars, historyVars, IdleReader
    <2>2. CallsOK' /\ UniqueKeys'
      BY <1>14 DEF Crash, tableVars, CallsOK, CallOK, UniqueKeys
    <2> QED BY <2>1, <2>2
  <1>15. CASE UNCHANGED vars
    <2>1. TypeOK'
      BY <1>15 DEF TypeOK, vars
    <2> QED BY <1>15, <2>1, CallsFrame DEF vars, getVars
  <1> QED
    BY <1>1, <1>2, <1>3, <1>4, <1>5, <1>6, <1>7, <1>8, <1>9, <1>10, <1>11, <1>12,
       <1>13, <1>14, <1>15 DEF Next, Get

\* The types of the variables and the state of each call are invariant: a call
\* never answers with a value other than the one in the row it found or made.
THEOREM TypeCorrect == Spec => []TypeOK
  <1>1. Spec => []TypeInv
    BY TypeInit, TypeNext, PTL DEF Spec
  <1> QED
    BY <1>1, PTL DEF TypeInv

-----------------------------------------------------------------------------
(* What the clients were told. *)

\* Rows are added and never changed: no step of the store overwrites a password.
LEMMA RowsGrow ==
    ASSUME TypeInv, [Next]_vars
    PROVE  \A i \in DOMAIN rows : i \in DOMAIN rows' /\ rows'[i] = rows[i]
  <1>1. ASSUME NEW h \in Getters, InsertCreates(h) \/ InsertUntold(h)
        PROVE  \A i \in DOMAIN rows : i \in DOMAIN rows' /\ rows'[i] = rows[i]
    <2>1. draft[h] \in Row /\ rows' = Append(rows, draft[h]) /\ rows \in Seq(Row)
      BY <1>1 DEF InsertCreates, InsertUntold, AddRow, TypeInv, TypeOK, CallsOK, CallOK
    <2> QED BY <2>1, AddRowKeeps
  <1>2. ASSUME rows' = rows
        PROVE  \A i \in DOMAIN rows : i \in DOMAIN rows' /\ rows'[i] = rows[i]
    BY <1>2
  <1> QED
    BY <1>1, <1>2 DEF Next, Get, vars, tableVars, BeginGet, LookupFirst, Generate,
       GenerateRefused, InsertIgnored, LookupAgain, FailGet, ReturnGet, BeginRead, Read,
       FailRead, ReturnRead, Tick, Crash

\* A password told to a client is in the row of its request's key.
ToldRows ==
    \A t \in told :
        /\ Accepted(t.req)
        /\ \E i \in DOMAIN rows : rows[i].key = KeyOf(t.req) /\ rows[i].value = t.value

\* Every step keeps the rows of the answers clients received.
LEMMA ToldNext ==
    ASSUME TypeInv, ToldRows, [Next]_vars
    PROVE  ToldRows'
  <1>1. CASE told' = told
    BY <1>1, RowsGrow DEF ToldRows
  <1>2. ASSUME NEW h \in Getters, ReturnGet(h), reply[h].status = "answered"
        PROVE  ToldRows'
    <2>1. /\ Accepted(req[h])
          /\ reply[h].row \in DOMAIN rows
          /\ rows[reply[h].row].key = KeyOf(req[h])
          /\ rows[reply[h].row].value = reply[h].value
      BY <1>2 DEF TypeInv, CallsOK, CallOK, ReturnGet, Failure
    <2>2. told' = told \cup {[req |-> req[h], value |-> reply[h].value]} /\ rows' = rows
      BY <1>2 DEF ReturnGet, tableVars
    <2> QED
      BY <2>1, <2>2 DEF ToldRows
  <1> QED
    BY <1>1, <1>2 DEF Next, Get, vars, historyVars, BeginGet, LookupFirst, Generate,
       GenerateRefused, InsertCreates, InsertUntold, InsertIgnored, LookupAgain, FailGet,
       ReturnGet, BeginRead, Read, FailRead, ReturnRead, Tick, Crash

\* The row an INSERT collided with is still there at the next lookup.
LEMMA ConflictNext ==
    ASSUME TypeInv, ConflictFindsRow, [Next]_vars
    PROVE  ConflictFindsRow'
  <1> SUFFICES ASSUME NEW g \in Getters, pc'[g] = "relookup"
               PROVE  (Lookup(KeyOf(req[g])) # {})'
    BY DEF ConflictFindsRow
  <1>1. CASE pc[g] = "relookup" /\ req'[g] = req[g]
    <2>1. PICK i \in DOMAIN rows : rows[i].key = KeyOf(req[g])
      BY <1>1 DEF ConflictFindsRow, Lookup
    <2>2. i \in DOMAIN rows' /\ rows'[i].key = KeyOf(req[g])
      BY <2>1, RowsGrow
    <2>3. KeyOf(req'[g]) = KeyOf(req[g])
      BY <1>1
    <2> QED BY <2>2, <2>3 DEF Lookup
  <1>2. CASE InsertIgnored(g)
    <2>1. draft[g].key = KeyOf(req[g])
      BY <1>2 DEF TypeInv, CallsOK, CallOK, InsertIgnored
    <2>2. rows' = rows /\ req' = req
      BY <1>2 DEF InsertIgnored, tableVars
    <2>3. Conflicts(draft[g]) # {}
      BY <1>2 DEF InsertIgnored
    <2> QED BY <2>1, <2>2, <2>3 DEF Conflicts, Lookup
  <1>3. pc \in [Getters -> {"idle", "lookup", "generate", "insert", "relookup", "done"}]
    BY DEF TypeInv, TypeOK
  <1>4. req \in [Getters -> Requests \cup {None}]
    BY DEF TypeInv, TypeOK
  <1>5. ASSUME NEW h \in Getters, Get(h), h # g
        PROVE  pc'[g] = pc[g] /\ req'[g] = req[g]
    BY <1>3, <1>4, <1>5 DEF Get, BeginGet, LookupFirst, Generate, GenerateRefused,
       InsertCreates, InsertUntold, InsertIgnored, LookupAgain, FailGet, ReturnGet
  <1>6. ASSUME Get(g)
        PROVE  InsertIgnored(g)
    BY <1>3, <1>6 DEF Get, BeginGet, LookupFirst, Generate, GenerateRefused,
       InsertCreates, InsertUntold, LookupAgain, FailGet, ReturnGet
  <1>7. CASE pc' = pc /\ req' = req
    BY <1>1, <1>7
  <1>8. CASE Crash
    BY <1>8 DEF Crash
  <1> QED
    BY <1>1, <1>2, <1>5, <1>6, <1>7, <1>8
    DEF Next, vars, getVars, BeginRead, Read, FailRead, ReturnRead, Tick

\* The rows a client has been told are new: at most one call claims each.
NewsOK ==
    /\ \A q \in Requests : news[q] =< 1
    /\ \A q \in Requests : news[q] # 0 => Accepted(q) /\ Lookup(KeyOf(q)) # {}
    /\ \A p, q \in Requests :
          p # q /\ KeyOf(p) = KeyOf(q) => news[p] = 0 \/ news[q] = 0

\* A call about to claim a row is the only one that ever does.
ClaimsOK ==
    /\ \A h \in Getters : pc[h] = "done" /\ reply[h].new =>
          \A q \in Requests : KeyOf(q) = KeyOf(req[h]) => news[q] = 0
    /\ \A g, h \in Getters :
          g # h /\ pc[g] = "done" /\ reply[g].new /\ pc[h] = "done" /\ reply[h].new =>
              KeyOf(req[g]) # KeyOf(req[h])

\* No step but an insert makes a claim, no step but a return counts one.
LEMMA NewsFrame ==
    ASSUME TypeInv, [Next]_vars, NewsOK, ClaimsOK, news' = news,
           \A h \in Getters : pc'[h] = "done" /\ reply'[h].new =>
              pc[h] = "done" /\ reply[h].new /\ req'[h] = req[h]
    PROVE  NewsOK' /\ ClaimsOK'
  <1>1. \A q \in Requests : Lookup(KeyOf(q)) # {} => (Lookup(KeyOf(q)) # {})'
    BY RowsGrow DEF Lookup, KeyOf
  <1>2. NewsOK'
    BY <1>1 DEF NewsOK, KeyOf, Accepted
  <1>3. ASSUME NEW h \in Getters, NEW q \in Requests, (pc[h] = "done" /\ reply[h].new)',
               KeyOf(q) = KeyOf(req'[h])
        PROVE  news'[q] = 0
    BY <1>3 DEF ClaimsOK
  <1>4. ASSUME NEW g \in Getters, NEW h \in Getters, g # h,
               (pc[g] = "done" /\ reply[g].new)', (pc[h] = "done" /\ reply[h].new)'
        PROVE  KeyOf(req'[g]) # KeyOf(req'[h])
    BY <1>4 DEF ClaimsOK
  <1>5. ClaimsOK'
    BY <1>3, <1>4 DEF ClaimsOK, KeyOf
  <1> QED
    BY <1>2, <1>5

\* A password that a client was told is new is claimed by no other call.
LEMMA NewsNext ==
    ASSUME TypeInv, NewsOK, ClaimsOK, [Next]_vars
    PROVE  NewsOK' /\ ClaimsOK'
  <1>1. /\ pc \in [Getters -> {"idle", "lookup", "generate", "insert", "relookup", "done"}]
        /\ req \in [Getters -> Requests \cup {None}]
        /\ reply \in [Getters -> Reply]
        /\ news \in [Requests -> Nat]
    BY DEF TypeInv, TypeOK
  <1>2. ASSUME NEW h \in Getters, InsertCreates(h)
        PROVE  NewsOK' /\ ClaimsOK'
    <2>1. /\ draft[h] \in Row /\ draft[h].key = KeyOf(req[h]) /\ rows \in Seq(Row)
          /\ req[h] \in Requests
      BY <1>2 DEF InsertCreates, TypeInv, TypeOK, CallsOK, CallOK
    <2>2. Lookup(KeyOf(req[h])) = {}
      BY <1>2, <2>1 DEF InsertCreates, Conflicts, Lookup
    <2>3. \A q \in Requests : KeyOf(q) = KeyOf(req[h]) => news[q] = 0
      BY <2>2 DEF NewsOK
    <2>4. \A g \in Getters : pc[g] = "done" /\ reply[g].new => KeyOf(req[g]) # KeyOf(req[h])
      <3> SUFFICES ASSUME NEW g \in Getters, pc[g] = "done", reply[g].new
                   PROVE  KeyOf(req[g]) # KeyOf(req[h])
        OBVIOUS
      <3>1. Lookup(KeyOf(req[g])) # {}
        BY DEF TypeInv, CallsOK, CallOK, Failure, Lookup
      <3> QED BY <3>1, <2>2
    <2>5. /\ news' = news /\ req' = req
          /\ \A g \in Getters \ {h} : pc'[g] = pc[g] /\ reply'[g] = reply[g]
      BY <1>1, <1>2 DEF InsertCreates
    <2>6. \A q \in Requests : Lookup(KeyOf(q)) # {} => (Lookup(KeyOf(q)) # {})'
      BY RowsGrow DEF Lookup, KeyOf
    <2>7. NewsOK'
      BY <2>5, <2>6 DEF NewsOK, KeyOf, Accepted
    <2>8. ClaimsOK'
      BY <2>3, <2>4, <2>5 DEF ClaimsOK, KeyOf
    <2> QED BY <2>7, <2>8
  <1>3. ASSUME NEW h \in Getters, ReturnGet(h)
        PROVE  NewsOK' /\ ClaimsOK'
    <2>1. /\ rows' = rows
          /\ pc'[h] = "idle"
          /\ \A g \in Getters \ {h} : pc'[g] = pc[g] /\ reply'[g] = reply[g] /\ req'[g] = req[g]
      BY <1>1, <1>3 DEF ReturnGet, tableVars
    <2>2. CASE reply[h].status = "answered" /\ reply[h].new
      <3>1. /\ req[h] \in Requests /\ Accepted(req[h]) /\ pc[h] = "done"
            /\ Lookup(KeyOf(req[h])) # {}
        BY <1>3, <2>2 DEF ReturnGet, TypeInv, CallsOK, CallOK, Failure, Lookup
      <3>2. news' = [news EXCEPT ![req[h]] = @ + 1]
        BY <1>3, <2>2 DEF ReturnGet
      <3>3. news[req[h]] = 0 /\ \A q \in Requests : KeyOf(q) = KeyOf(req[h]) => news[q] = 0
        BY <2>2, <3>1 DEF ClaimsOK
      <3>4. news'[req[h]] = 1 /\ \A q \in Requests \ {req[h]} : news'[q] = news[q]
        BY <1>1, <3>1, <3>2, <3>3
      <3>5. NewsOK'
        BY <2>1, <3>1, <3>3, <3>4 DEF NewsOK, Lookup, KeyOf, Accepted
      <3>6. \A g \in Getters \ {h} : pc[g] = "done" /\ reply[g].new => KeyOf(req[g]) # KeyOf(req[h])
        BY <2>2, <3>1 DEF ClaimsOK
      <3>7. ClaimsOK'
        <4>1. ASSUME NEW g \in Getters, NEW q \in Requests,
                     (pc[g] = "done" /\ reply[g].new)', KeyOf(q) = KeyOf(req'[g])
              PROVE  news'[q] = 0
          <5>1. g # h /\ pc[g] = "done" /\ reply[g].new /\ KeyOf(q) = KeyOf(req[g])
            BY <2>1, <4>1
          <5>2. news[q] = 0 /\ q # req[h]
            BY <3>6, <5>1 DEF ClaimsOK
          <5> QED BY <3>4, <5>2
        <4>2. ASSUME NEW f \in Getters, NEW g \in Getters, f # g,
                     (pc[f] = "done" /\ reply[f].new)', (pc[g] = "done" /\ reply[g].new)'
              PROVE  KeyOf(req'[f]) # KeyOf(req'[g])
          BY <2>1, <4>2 DEF ClaimsOK
        <4> QED BY <4>1, <4>2 DEF ClaimsOK, KeyOf
      <3> QED BY <3>5, <3>7
    <2>3. CASE ~(reply[h].status = "answered" /\ reply[h].new)
      <3>1. news' = news
        <4>1. CASE reply[h].status = "answered"
          <5>1. req[h] \in Requests
            BY <1>3 DEF ReturnGet, TypeInv, CallsOK, CallOK
          <5>2. news' = [news EXCEPT ![req[h]] = @]
            BY <1>3, <2>3, <4>1 DEF ReturnGet
          <5> QED BY <1>1, <5>1, <5>2
        <4> QED BY <1>3, <4>1 DEF ReturnGet
      <3> QED BY <2>1, <3>1, NewsFrame
    <2> QED BY <2>2, <2>3
  <1>4. ASSUME news' = news,
               \A h \in Getters : pc'[h] = "done" /\ reply'[h].new =>
                  pc[h] = "done" /\ reply[h].new /\ req'[h] = req[h]
        PROVE  NewsOK' /\ ClaimsOK'
    BY <1>4, NewsFrame
  <1>5. ASSUME NEW h \in Getters, Get(h), ~InsertCreates(h), ~ReturnGet(h)
        PROVE  NewsOK' /\ ClaimsOK'
    <2>1. news' = news
      BY <1>5 DEF Get, BeginGet, LookupFirst, Generate, GenerateRefused, InsertUntold,
         InsertIgnored, LookupAgain, FailGet, historyVars
    <2>2. ASSUME NEW g \in Getters \ {h}
          PROVE  pc'[g] = pc[g] /\ reply'[g] = reply[g] /\ req'[g] = req[g]
      BY <1>1, <1>5 DEF Get, BeginGet, LookupFirst, Generate, GenerateRefused, InsertUntold,
         InsertIgnored, LookupAgain, FailGet
    <2>3. pc'[h] = "done" => ~reply'[h].new
      BY <1>1, <1>5 DEF Get, BeginGet, LookupFirst, Generate, GenerateRefused, InsertUntold,
         InsertIgnored, LookupAgain, FailGet, Failure, Found
    <2> QED BY <2>1, <2>2, <2>3, <1>4
  <1>6. CASE Crash
    BY <1>4, <1>6 DEF Crash, historyVars
  <1>7. CASE UNCHANGED getVars /\ news' = news
    BY <1>4, <1>7 DEF getVars
  <1> QED
    BY <1>2, <1>3, <1>5, <1>6, <1>7
    DEF Next, vars, getVars, historyVars, BeginRead, Read, FailRead, ReturnRead, Tick

-----------------------------------------------------------------------------
(* The theorems on PasswordGet. *)

GetInv == TypeInv /\ ToldRows /\ ConflictFindsRow /\ NewsOK /\ ClaimsOK

\* All that PasswordGet relies on is invariant.
LEMMA GetInvariant == Spec => []GetInv
  <1>1. Init => GetInv
    <2> SUFFICES ASSUME Init PROVE GetInv
      OBVIOUS
    <2>1. ToldRows /\ ConflictFindsRow /\ NewsOK /\ ClaimsOK
      BY DEF Init, ToldRows, ConflictFindsRow, NewsOK, ClaimsOK
    <2> QED BY <2>1, TypeInit DEF GetInv
  <1>2. GetInv /\ [Next]_vars => GetInv'
    BY TypeNext, ToldNext, ConflictNext, NewsNext DEF GetInv
  <1> QED
    BY <1>1, <1>2, PTL DEF Spec

\* PasswordGet is idempotent: all the clients that ever asked for the same
\* password received the same value.
THEOREM Idempotent == Spec => []AnswersAgree
  <1>1. GetInv => AnswersAgree
    <2> SUFFICES ASSUME GetInv, NEW s \in told, NEW t \in told, SameRequest(s.req, t.req)
                 PROVE  s.value = t.value
      BY DEF AnswersAgree
    <2>1. s.req \in Requests /\ t.req \in Requests
      BY DEF GetInv, TypeInv, TypeOK
    <2>2. Accepted(s.req) /\ Accepted(t.req)
      BY DEF GetInv, ToldRows
    <2>3. KeyOf(s.req) = KeyOf(t.req)
      BY <2>1, <2>2, SameKey
    <2>4. PICK i \in DOMAIN rows : rows[i].key = KeyOf(s.req) /\ rows[i].value = s.value
      BY DEF GetInv, ToldRows
    <2>5. PICK j \in DOMAIN rows : rows[j].key = KeyOf(t.req) /\ rows[j].value = t.value
      BY DEF GetInv, ToldRows
    <2> QED
      BY <2>3, <2>4, <2>5 DEF GetInv, TypeInv, UniqueKeys
  <1> QED
    BY <1>1, GetInvariant, PTL

\* Every password a client has received stays in the table.
THEOREM Durable == Spec => []ToldIsStored
  <1>1. GetInv => ToldIsStored
    <2> SUFFICES ASSUME GetInv, NEW t \in told
                 PROVE  \E i \in DOMAIN rows : /\ rows[i].value = t.value
                                               /\ rows[i].key.account = t.req.account
                                               /\ rows[i].key.type = t.req.type
      BY DEF ToldIsStored
    <2>1. PICK i \in DOMAIN rows : rows[i].key = KeyOf(t.req) /\ rows[i].value = t.value
      BY DEF GetInv, ToldRows
    <2>2. rows[i].key.account = t.req.account /\ rows[i].key.type = t.req.type
      BY <2>1 DEF KeyOf
    <2> QED BY <2>1, <2>2
  <1> QED
    BY <1>1, GetInvariant, PTL

\* At most one client is told that a password is new.
THEOREM Claimed == Spec => []OneCreator
  <1>1. GetInv => OneCreator
    <2> SUFFICES ASSUME GetInv, NEW p \in Requests, NEW q \in Requests, SameRequest(p, q)
                 PROVE  IF p = q THEN news[p] =< 1 ELSE news[p] + news[q] =< 1
      BY DEF OneCreator
    <2>1. news[p] \in Nat /\ news[q] \in Nat /\ news[p] =< 1 /\ news[q] =< 1
      BY DEF GetInv, TypeInv, TypeOK, NewsOK
    <2>2. p # q => news[p] = 0 \/ news[q] = 0
      BY SameKey DEF GetInv, NewsOK
    <2> QED BY <2>1, <2>2
  <1> QED
    BY <1>1, GetInvariant, PTL

\* The "conflicted but not found" error of Get is unreachable.
THEOREM Reconciled == Spec => []ConflictFindsRow
  BY GetInvariant, PTL DEF GetInv

-----------------------------------------------------------------------------
(* PasswordRead returns the newest password. *)

\* Rows that are known to somebody are rows of the table.
SeenOK ==
    /\ acked \subseteq DOMAIN rows
    /\ \A x \in Getters \cup Readers : seen[x] \subseteq DOMAIN rows
    /\ \A r \in Readers : reader[r].row # 0 => reader[r].row \in DOMAIN rows

\* No row is from the future, and a call dates its row no earlier than those
\* that were known when it began.
DatesOK ==
    /\ \A i \in DOMAIN rows : rows[i].date =< clock
    /\ \A h \in Getters : pc[h] = "insert" =>
          /\ draft[h].date =< clock
          /\ \A i \in seen[h] : rows[i].date =< draft[h].date

\* The order of the table is the order in which the passwords were asked for.
OrderOK ==
    \A i, j \in Nat : <<i, j>> \in precedes =>
        /\ i \in DOMAIN rows /\ j \in DOMAIN rows
        /\ i < j
        /\ rows[i].date =< rows[j].date

ReadInv == SeenOK /\ DatesOK /\ OrderOK /\ ReadNotStale

\* What the arithmetic on rows needs.
LEMMA RowTypes ==
    ASSUME TypeInv
    PROVE  /\ \A i \in DOMAIN rows : i \in Nat /\ rows[i] \in Row /\ rows[i].date \in Nat
           /\ clock \in Nat
           /\ \A x \in Getters \cup Readers : seen[x] \in SUBSET Nat
           /\ acked \in SUBSET Nat
           /\ precedes \in SUBSET (Nat \X Nat)
  <1>1. \A i \in DOMAIN rows : i \in Nat /\ rows[i] \in Row
    BY DEF TypeInv, TypeOK
  <1>2. \A i \in DOMAIN rows : rows[i].date \in Nat
    BY <1>1, ClockAssumption DEF Row
  <1> QED
    BY <1>1, <1>2, ClockAssumption DEF TypeInv, TypeOK

\* A step that adds no row, forgets no knowledge, finishes no read and turns
\* back no clock keeps the invariant, whatever else it does.
LEMMA ReadFrame ==
    ASSUME TypeInv, TypeInv', ReadInv, rows' = rows, precedes' = precedes,
           clock' \in Nat, clock' >= clock,
           acked' \subseteq DOMAIN rows,
           \A x \in Getters \cup Readers : seen'[x] \in {seen[x], acked, {}},
           \A h \in Getters : pc'[h] = "insert" =>
              \/ pc[h] = "insert" /\ draft'[h] = draft[h] /\ seen'[h] = seen[h]
              \/ draft'[h].date = clock,
           \A r \in Readers :
              \/ reader'[r] = reader[r] /\ seen'[r] = seen[r]
              \/ reader'[r].pc # "done" /\ reader'[r].row \in {0, reader[r].row}
    PROVE  ReadInv'
  <1>1. SeenOK'
    BY DEF ReadInv, SeenOK
  <1>2. DatesOK'
    <2>1. \A i \in DOMAIN rows' : rows'[i].date =< clock'
      BY RowTypes DEF ReadInv, DatesOK
    <2>2. ASSUME NEW h \in Getters, pc'[h] = "insert"
          PROVE  draft'[h].date =< clock' /\ \A i \in seen'[h] : rows'[i].date =< draft'[h].date
      <3>1. CASE pc[h] = "insert" /\ draft'[h] = draft[h] /\ seen'[h] = seen[h]
        <4>1. draft[h] \in Row
          BY <3>1 DEF TypeInv, CallsOK, CallOK
        <4>2. draft[h].date \in Nat
          BY <4>1, ClockAssumption DEF Row
        <4> QED BY <3>1, <4>2, RowTypes DEF ReadInv, DatesOK
      <3>2. CASE draft'[h].date = clock
        <4>1. seen'[h] \subseteq DOMAIN rows
          BY DEF ReadInv, SeenOK
        <4> QED BY <3>2, <4>1, RowTypes DEF ReadInv, DatesOK
      <3> QED BY <2>2, <3>1, <3>2
    <2> QED BY <2>1, <2>2 DEF DatesOK
  <1>3. OrderOK'
    BY DEF ReadInv, OrderOK
  <1>4. ReadNotStale'
    BY DEF ReadInv, ReadNotStale
  <1> QED
    BY <1>1, <1>2, <1>3, <1>4 DEF ReadInv

\* The row a call inserts follows those it knew of.
LEMMA ReadInsert ==
    ASSUME TypeInv, ReadInv, NEW h \in Getters, InsertCreates(h) \/ InsertUntold(h)
    PROVE  ReadInv'
  <1>1. /\ draft[h] \in Row /\ rows \in Seq(Row) /\ rows' = Append(rows, draft[h])
        /\ precedes' = precedes \cup {<<i, Len(rows) + 1>> : i \in seen[h]}
        /\ pc[h] = "insert"
    BY DEF InsertCreates, InsertUntold, AddRow, TypeInv, TypeOK, CallsOK, CallOK
  <1>2. /\ Len(rows) \in Nat
        /\ DOMAIN rows = 1..Len(rows)
        /\ DOMAIN rows \subseteq DOMAIN rows'
        /\ Len(rows) + 1 \in DOMAIN rows'
        /\ Len(rows) + 1 \notin DOMAIN rows
        /\ rows'[Len(rows) + 1] = draft[h]
        /\ \A i \in DOMAIN rows : rows'[i] = rows[i]
        /\ \A i \in DOMAIN rows' : i \in DOMAIN rows \/ i = Len(rows) + 1
    BY <1>1, AddRowKeeps
  <1>3. /\ clock' = clock /\ acked' = acked /\ seen' = seen /\ reader' = reader
        /\ \A g \in Getters : pc'[g] = "insert" => pc[g] = "insert" /\ draft'[g] = draft[g]
    BY DEF InsertCreates, InsertUntold, TypeInv, TypeOK
  <1>4. SeenOK'
    BY <1>2, <1>3 DEF ReadInv, SeenOK
  <1>5. DatesOK'
    <2>1. \A g \in Getters : seen[g] \subseteq DOMAIN rows
      BY DEF ReadInv, SeenOK
    <2> QED BY <1>1, <1>2, <1>3, <2>1 DEF ReadInv, DatesOK
  <1>6. OrderOK'
    <2> SUFFICES ASSUME NEW i \in Nat, NEW j \in Nat, <<i, j>> \in precedes'
                 PROVE  /\ i \in DOMAIN rows' /\ j \in DOMAIN rows' /\ i < j
                        /\ rows'[i].date =< rows'[j].date
      BY DEF OrderOK
    <2>1. CASE <<i, j>> \in precedes
      BY <1>2, <2>1 DEF ReadInv, OrderOK
    <2>2. CASE i \in seen[h] /\ j = Len(rows) + 1
      <3>1. i \in DOMAIN rows /\ rows[i].date =< draft[h].date
        BY <1>1, <2>2 DEF ReadInv, SeenOK, DatesOK
      <3> QED BY <1>2, <2>2, <3>1
    <2> QED BY <1>1, <2>1, <2>2
  <1>7. ReadNotStale'
    <2> SUFFICES ASSUME NEW r \in Readers, reader[r].pc = "done", NEW j \in seen[r],
                        rows'[j].key.account = reader[r].account
                 PROVE  reader[r].row # 0 /\ <<reader[r].row, j>> \notin precedes'
      BY <1>3 DEF ReadNotStale
    <2>1. j \in DOMAIN rows
      BY DEF ReadInv, SeenOK
    <2>2. reader[r].row # 0 /\ <<reader[r].row, j>> \notin precedes
      BY <1>2, <2>1 DEF ReadInv, ReadNotStale
    <2>3. j # Len(rows) + 1
      BY <1>2, <2>1
    <2> QED BY <1>1, <2>2, <2>3
  <1> QED
    BY <1>4, <1>5, <1>6, <1>7 DEF ReadInv

\* The row a read selects follows all others of its account.
LEMMA ReadSelects ==
    ASSUME TypeInv, ReadInv, NEW r \in Readers, Read(r)
    PROVE  ReadInv'
  <1>1. /\ rows' = rows /\ clock' = clock /\ acked' = acked /\ seen' = seen /\ precedes' = precedes
        /\ pc' = pc /\ draft' = draft
        /\ \A q \in Readers \ {r} : reader'[q] = reader[q]
    BY DEF Read, tableVars, getVars, historyVars, TypeInv, TypeOK
  <1>2. reader'[r].account = reader[r].account /\ reader'[r].pc = "done"
    BY DEF Read, TypeInv, TypeOK
  <1>3. CASE RowsOf(reader[r].account) = {}
    <2>1. reader'[r].row = reader[r].row
      BY <1>3 DEF Read, TypeInv, TypeOK
    <2>2. SeenOK' /\ DatesOK' /\ OrderOK'
      BY <1>1, <2>1 DEF ReadInv, SeenOK, DatesOK, OrderOK
    <2>3. \A j \in seen[r] : rows[j].key.account # reader[r].account
      BY <1>3 DEF ReadInv, SeenOK, RowsOf
    <2>4. ReadNotStale'
      BY <1>1, <1>2, <2>3 DEF ReadInv, ReadNotStale
    <2> QED BY <2>2, <2>4 DEF ReadInv
  <1>4. CASE RowsOf(reader[r].account) # {}
    <2>1. PICK i \in Newest(reader[r].account) : reader'[r].row = i
      BY <1>4 DEF Read, TypeInv, TypeOK
    <2>2. i \in DOMAIN rows /\ i # 0
      BY DEF Newest, RowsOf, TypeInv, TypeOK
    <2>3. SeenOK' /\ DatesOK' /\ OrderOK'
      BY <1>1, <2>1, <2>2 DEF ReadInv, SeenOK, DatesOK, OrderOK
    <2>4. ASSUME NEW j \in seen[r], rows[j].key.account = reader[r].account
          PROVE  <<i, j>> \notin precedes
      <3>1. j \in DOMAIN rows /\ i \in Nat /\ j \in Nat
        BY <2>2, RowTypes DEF ReadInv, SeenOK
      <3>2. i = j \/ Older(j, i)
        BY <2>4, <3>1 DEF Newest, RowsOf
      <3>3. <<i, j>> \in precedes => i < j /\ rows[i].date =< rows[j].date
        BY <3>1 DEF ReadInv, OrderOK
      <3>4. rows[i].date \in Nat /\ rows[j].date \in Nat
        BY <2>2, <3>1, RowTypes
      <3> QED BY <3>1, <3>2, <3>3, <3>4 DEF Older
    <2>5. ReadNotStale'
      BY <1>1, <1>2, <2>1, <2>2, <2>4 DEF ReadInv, ReadNotStale
    <2> QED BY <2>3, <2>5 DEF ReadInv
  <1> QED
    BY <1>3, <1>4

\* Every step keeps what each read may miss.
LEMMA ReadNext ==
    ASSUME MonotonicClock, TypeInv, ReadInv, [Next]_vars
    PROVE  ReadInv'
  <1> USE TypeNext
  <1>1. /\ pc \in [Getters -> {"idle", "lookup", "generate", "insert", "relookup", "done"}]
        /\ draft \in [Getters -> Row \cup {None}]
        /\ seen \in [Getters \cup Readers -> SUBSET Nat]
        /\ reader \in [Readers -> [pc : {"idle", "read", "done", "failed"},
                                  account : Accounts \cup {None}, row : Nat]]
        /\ clock \in Nat /\ clock >= clock
        /\ acked \subseteq DOMAIN rows
    BY RowTypes DEF TypeInv, TypeOK, ReadInv, SeenOK
  <1>2. ASSUME NEW h \in Getters, Get(h), ~InsertCreates(h), ~InsertUntold(h)
        PROVE  ReadInv'
    <2>1. rows' = rows /\ precedes' = precedes /\ clock' = clock /\ reader' = reader
      BY <1>2 DEF Get, BeginGet, LookupFirst, Generate, GenerateRefused,
         InsertIgnored, LookupAgain, FailGet, ReturnGet, tableVars, historyVars
    <2>2. acked' \subseteq DOMAIN rows
      <3>1. CASE ReturnGet(h)
        BY <1>1, <3>1 DEF ReturnGet, TypeInv, CallsOK, CallOK, Failure
      <3>2. CASE ~ReturnGet(h)
        BY <1>1, <1>2, <3>2 DEF Get, BeginGet, LookupFirst, Generate, GenerateRefused,
           InsertIgnored, LookupAgain, FailGet, historyVars
      <3> QED BY <3>1, <3>2
    <2>3. \A g \in (Getters \cup Readers) \ {h} : seen'[g] = seen[g]
      BY <1>1, <1>2 DEF Get, BeginGet, LookupFirst, Generate, GenerateRefused,
         InsertIgnored, LookupAgain, FailGet, ReturnGet
    <2>4. seen'[h] \in {seen[h], acked, {}}
      BY <1>1, <1>2 DEF Get, BeginGet, LookupFirst, Generate, GenerateRefused,
         InsertIgnored, LookupAgain, FailGet, ReturnGet
    <2>5. \A g \in Getters \ {h} : pc'[g] = pc[g] /\ draft'[g] = draft[g]
      BY <1>1, <1>2 DEF Get, BeginGet, LookupFirst, Generate, GenerateRefused,
         InsertIgnored, LookupAgain, FailGet, ReturnGet
    <2>6. pc'[h] = "insert" => draft'[h].date = clock
      <3>1. CASE Generate(h)
        BY <1>1, <3>1 DEF Generate
      <3>2. CASE ~Generate(h)
        BY <1>1, <1>2, <3>2 DEF Get, BeginGet, LookupFirst, GenerateRefused,
           InsertIgnored, LookupAgain, FailGet, ReturnGet
      <3> QED BY <3>1, <3>2
    <2>7. \A r \in Readers : seen'[r] = seen[r]
      BY <2>3, CallsAssumption
    <2> QED
      BY <1>1, <2>1, <2>2, <2>3, <2>4, <2>5, <2>6, <2>7, ReadFrame
  <1>3. ASSUME NEW r \in Readers,
               FailRead(r) \/ ReturnRead(r) \/ \E a \in Accounts : BeginRead(r, a)
        PROVE  ReadInv'
    <2>1. rows' = rows /\ precedes' = precedes /\ clock' = clock /\ pc' = pc /\ draft' = draft
      BY <1>3 DEF BeginRead, FailRead, ReturnRead, tableVars, getVars, historyVars
    <2>2. acked' \subseteq DOMAIN rows
      BY <1>1, <1>3 DEF BeginRead, FailRead, ReturnRead, historyVars, ReadInv, SeenOK
    <2>3. \A g \in (Getters \cup Readers) \ {r} : seen'[g] = seen[g]
      BY <1>1, <1>3 DEF BeginRead, FailRead, ReturnRead
    <2>4. seen'[r] \in {seen[r], acked, {}}
      BY <1>1, <1>3 DEF BeginRead, FailRead, ReturnRead
    <2>5. \A q \in Readers \ {r} : reader'[q] = reader[q]
      BY <1>1, <1>3 DEF BeginRead, FailRead, ReturnRead
    <2>6. reader'[r].pc # "done" /\ reader'[r].row \in {0, reader[r].row}
      BY <1>1, <1>3 DEF BeginRead, FailRead, ReturnRead, IdleReader
    <2>7. \A h \in Getters : seen'[h] = seen[h]
      BY <2>3, CallsAssumption
    <2> QED
      BY <1>1, <2>1, <2>2, <2>3, <2>4, <2>5, <2>6, <2>7, ReadFrame
  <1>4. CASE Crash
    <2>1. rows' = rows /\ precedes' = precedes /\ clock' = clock /\ acked' = acked
      BY <1>4 DEF Crash, tableVars, historyVars
    <2>2. \A x \in Getters \cup Readers : seen'[x] = {}
      BY <1>4 DEF Crash
    <2>3. \A h \in Getters : pc'[h] # "insert"
      BY <1>4 DEF Crash
    <2>4. \A r \in Readers : reader'[r].pc # "done" /\ reader'[r].row = 0
      BY <1>4 DEF Crash, IdleReader
    <2> QED
      BY <1>1, <2>1, <2>2, <2>3, <2>4, ReadFrame
  <1>5. CASE Tick \/ UNCHANGED vars
    <2>1. /\ rows' = rows /\ precedes' = precedes /\ acked' = acked /\ seen' = seen
          /\ reader' = reader /\ pc' = pc /\ draft' = draft
      BY <1>5 DEF Tick, vars, getVars, historyVars
    <2>2. clock' \in Nat /\ clock' >= clock
      BY <1>1, <1>5, ClockAssumption DEF Tick, vars
    <2> QED
      BY <1>1, <2>1, <2>2, ReadFrame
  <1> QED
    BY <1>2, <1>3, <1>4, <1>5, ReadInsert, ReadSelects DEF Next, Get

\* If the clock is never set back, no PasswordRead is stale.
THEOREM UpToDate == MonotonicClock => (Spec => []ReadNotStale)
  <1> SUFFICES ASSUME MonotonicClock PROVE Spec => []ReadNotStale
    OBVIOUS
  <1>1. Init => ReadInv
    BY DEF Init, ReadInv, SeenOK, DatesOK, OrderOK, ReadNotStale, IdleReader
  <1>2. TypeInv /\ ReadInv /\ [Next]_vars => TypeInv' /\ ReadInv'
    BY TypeNext, ReadNext
  <1>3. Spec => [](TypeInv /\ ReadInv)
    BY <1>1, <1>2, TypeInit, PTL DEF Spec
  <1> QED
    BY <1>3, PTL DEF ReadInv

-----------------------------------------------------------------------------
(* Shuffling: the loop comes down from n to 1, and f[i] is what it has made  *)
(* of s when it has come to i.                                               *)

\* The function Shuffled defines, from n down to m.
IsShuffle(f, s, d, m, n) ==
    f = [i \in m..n |-> IF i = n THEN s ELSE Swapped(f[i + 1], i + 1, d[i + 1])]

TheShuffle(s, d, n) == CHOOSE f : IsShuffle(f, s, d, 1, n)

\* Induction from n down to 1.
LEMMA Downward ==
    ASSUME NEW n \in Nat \ {0}, NEW T, n \in T,
           \A i \in 1..n : i + 1 \in T /\ i # n => i \in T
    PROVE  \A i \in 1..n : i \in T
  <1> DEFINE U == {k \in Nat : k < n => n - k \in T}
  <1>1. 0 \in U
    OBVIOUS
  <1>2. ASSUME NEW k \in Nat, k \in U
        PROVE  k + 1 \in U
    <2> SUFFICES ASSUME k + 1 < n PROVE n - (k + 1) \in T
      OBVIOUS
    <2>1. n - k \in T
      BY <1>2
    <2>2. /\ n - (k + 1) \in 1..n
          /\ n - (k + 1) # n
          /\ (n - (k + 1)) + 1 = n - k
      OBVIOUS
    <2> QED BY <2>1, <2>2
  <1> HIDE DEF U
  <1>3. Nat \subseteq U
    BY <1>1, <1>2, Data!Induction
  <1> SUFFICES ASSUME NEW i \in 1..n PROVE i \in T
    OBVIOUS
  <1>4. n - i \in Nat /\ n - i < n /\ n - (n - i) = i
    OBVIOUS
  <1>5. n - i \in U
    BY <1>3, <1>4
  <1> QED BY <1>4, <1>5 DEF U

\* The loop comes down to 1, whatever it swaps.
LEMMA ShuffleExists ==
    ASSUME NEW s, NEW d, NEW n \in Nat \ {0}
    PROVE  \E f : IsShuffle(f, s, d, 1, n)
  <1> DEFINE T == {m \in 1..n : \E f : IsShuffle(f, s, d, m, n)}
  <1>1. n \in T
    <2> DEFINE f == [i \in n..n |-> s]
    <2>1. IsShuffle(f, s, d, n, n)
      BY DEF IsShuffle
    <2>2. n \in 1..n
      OBVIOUS
    <2> HIDE DEF f
    <2> QED BY <2>1, <2>2
  <1>2. ASSUME NEW m \in 1..n, m + 1 \in T, m # n
        PROVE  m \in T
    <2>1. PICK f : IsShuffle(f, s, d, m + 1, n)
      BY <1>2
    <2> DEFINE g == [i \in m..n |->
                        IF i = m THEN Swapped(f[m + 1], m + 1, d[m + 1]) ELSE f[i]]
    <2>2. ASSUME NEW i \in m..n
          PROVE  g[i] = IF i = n THEN s ELSE Swapped(g[i + 1], i + 1, d[i + 1])
      <3>1. CASE i = m
        <4>1. m + 1 \in m..n /\ m + 1 # m
          BY <1>2
        <4>2. g[m + 1] = f[m + 1]
          BY <4>1
        <4> QED BY <1>2, <3>1, <4>2
      <3>2. CASE i # m
        <4>1. i \in (m + 1)..n
          BY <3>2
        <4>2. f[i] = IF i = n THEN s ELSE Swapped(f[i + 1], i + 1, d[i + 1])
          BY <2>1, <4>1 DEF IsShuffle
        <4>3. i # n => i + 1 \in m..n /\ i + 1 # m
          BY <4>1
        <4>4. g[i] = f[i] /\ (i # n => g[i + 1] = f[i + 1])
          BY <3>2, <4>3
        <4> QED BY <4>2, <4>4
      <3> QED BY <3>1, <3>2
    <2>3. IsShuffle(g, s, d, m, n)
      BY <2>2 DEF IsShuffle
    <2> HIDE DEF g
    <2> QED BY <2>3
  <1> HIDE DEF T
  <1>3. 1 \in 1..n /\ \A i \in 1..n : i \in T
    BY <1>1, <1>2, Downward
  <1> QED BY <1>3 DEF T

\* Each step of the loop is a swap.
LEMMA ShuffleUnfolds ==
    ASSUME NEW s, NEW d, NEW n \in Nat \ {0}, NEW f, IsShuffle(f, s, d, 1, n)
    PROVE  /\ f[n] = s
           /\ \A i \in 1..n : i # n => f[i] = Swapped(f[i + 1], i + 1, d[i + 1])
  <1>1. n \in 1..n
    OBVIOUS
  <1> QED BY <1>1 DEF IsShuffle

\* Shuffled is where the loop ends.
LEMMA ShuffledIs ==
    ASSUME NEW S, NEW n \in Nat \ {0}, NEW s \in [1..n -> S], NEW d
    PROVE  /\ IsShuffle(TheShuffle(s, d, n), s, d, 1, n)
           /\ Shuffled(s, d) = TheShuffle(s, d, n)[1]
  <1>1. IsShuffle(TheShuffle(s, d, n), s, d, 1, n)
    BY ShuffleExists DEF TheShuffle
  <1>2. s \in Seq(S) /\ Len(s) = n /\ s # << >>
    OBVIOUS
  <1>3. Shuffled(s, d) = TheShuffle(s, d, n)[1]
    BY <1>2 DEF Shuffled, TheShuffle, IsShuffle
  <1> QED BY <1>1, <1>3

\* v is w with its places p and x exchanged, x no higher than p.
Exchanged(w, v, p, x, n) ==
    /\ p \in 1..n /\ x \in 1..n /\ x =< p
    /\ v[p] = w[x] /\ v[x] = w[p]
    /\ \A k \in 1..n : k # p /\ k # x => v[k] = w[k]

\* v has every byte of w.
Has(v, w, n) == \A k \in 1..n : \E j \in 1..n : v[j] = w[k]

\* A place the loop has passed keeps its byte.
Settled(f, n) == \A i, k, j \in 1..n : i =< k /\ k < j => f[i][j] = f[k][j]

\* Loops that draw alike above place k make the same of s until there.
AgreeAbove(f, d, g, e, n) ==
    \A k \in 1..n : (\A i \in 2..n : i > k => d[i] = e[i]) => f[k] = g[k]

\* No byte is at two places.
Apart(w, n) == \A j, k \in 1..n : w[j] = w[k] => j = k

\* A swap exchanges two places.
LEMMA SwappedIs ==
    ASSUME NEW S, NEW n, NEW w \in [1..n -> S], NEW i \in 1..n, NEW x \in 1..n, x =< i
    PROVE  /\ Swapped(w, i, x) \in [1..n -> S]
           /\ Exchanged(w, Swapped(w, i, x), i, x, n)
  BY DEF Swapped, Exchanged

\* A draw is a place no higher than the one it is drawn for.
LEMMA DrawIs ==
    ASSUME NEW n \in Nat \ {0}, NEW d \in ShuffleDraws(n), NEW i \in 1..n, i # n
    PROVE  i + 1 \in 1..n /\ d[i + 1] \in 1..n /\ d[i + 1] =< i + 1
  <1>1. i + 1 \in 2..n
    OBVIOUS
  <1>2. d[i + 1] \in Places(i + 1)
    BY <1>1 DEF ShuffleDraws
  <1> QED BY <1>1, <1>2 DEF Places

\* A step of the loop exchanges the byte it has come to with one below it.
LEMMA ShuffleSteps ==
    ASSUME NEW S, NEW n \in Nat \ {0}, NEW s \in [1..n -> S], NEW d \in ShuffleDraws(n),
           NEW f, IsShuffle(f, s, d, 1, n)
    PROVE  /\ f[n] = s
           /\ \A i \in 1..n : f[i] \in [1..n -> S]
           /\ \A i \in 1..n : i # n => Exchanged(f[i + 1], f[i], i + 1, d[i + 1], n)
  <1>0. f[n] = s
    BY ShuffleUnfolds
  <1>1. \A i \in 1..n : i # n => f[i] = Swapped(f[i + 1], i + 1, d[i + 1])
    BY ShuffleUnfolds
  <1>2. ASSUME NEW i \in 1..n, i # n, f[i + 1] \in [1..n -> S]
        PROVE  f[i] \in [1..n -> S] /\ Exchanged(f[i + 1], f[i], i + 1, d[i + 1], n)
    <2>1. PICK w \in [1..n -> S] : w = f[i + 1]
      BY <1>2
    <2>2. PICK x : x = d[i + 1]
      OBVIOUS
    <2>3. PICK p : p = i + 1
      OBVIOUS
    <2>4. p \in 1..n /\ x \in 1..n /\ x =< p
      BY <1>2, <2>2, <2>3, DrawIs
    <2>5. Swapped(w, p, x) \in [1..n -> S] /\ Exchanged(w, Swapped(w, p, x), p, x, n)
      BY <2>4, SwappedIs
    <2>6. f[i] = Swapped(w, p, x)
      BY <1>1, <1>2, <2>1, <2>2, <2>3
    <2> QED BY <2>1, <2>2, <2>3, <2>5, <2>6
  <1> DEFINE T == {i \in 1..n : f[i] \in [1..n -> S]}
  <1>3. n \in T
    BY <1>0
  <1>4. \A i \in 1..n : i + 1 \in T /\ i # n => i \in T
    BY <1>2
  <1> HIDE DEF T
  <1>5. \A i \in 1..n : i \in T
    BY <1>3, <1>4, Downward
  <1>6. \A i \in 1..n : f[i] \in [1..n -> S]
    BY <1>5 DEF T
  <1>7. \A i \in 1..n : i # n => i + 1 \in 1..n
    OBVIOUS
  <1> QED BY <1>0, <1>2, <1>6, <1>7

\* An exchange makes no byte and loses none, and keeps apart what is apart.
LEMMA ExchangedKeeps ==
    ASSUME NEW n \in Nat \ {0}, NEW w, NEW v, NEW p, NEW x, Exchanged(w, v, p, x, n)
    PROVE  /\ Has(v, w, n)
           /\ Apart(w, n) => Apart(v, n)
  <1>1. \A k \in 1..n : v[IF k = p THEN x ELSE IF k = x THEN p ELSE k] = w[k]
    BY DEF Exchanged
  <1>2. \A k \in 1..n : (IF k = p THEN x ELSE IF k = x THEN p ELSE k) \in 1..n
    BY DEF Exchanged
  <1>3. \A k \in 1..n : v[k] = w[IF k = p THEN x ELSE IF k = x THEN p ELSE k]
    BY DEF Exchanged
  <1>4. ASSUME Apart(w, n), NEW j \in 1..n, NEW k \in 1..n, v[j] = v[k]
        PROVE  j = k
    BY <1>2, <1>3, <1>4 DEF Apart
  <1>5. \A k \in 1..n : \E j \in 1..n : v[j] = w[k]
    BY <1>1, <1>2
  <1> QED BY <1>4, <1>5 DEF Apart, Has

\* The loop moves bytes about: it makes none and loses none.
LEMMA ShuffleKeeps ==
    ASSUME NEW S, NEW n \in Nat \ {0}, NEW s \in [1..n -> S], NEW d \in ShuffleDraws(n),
           NEW f, IsShuffle(f, s, d, 1, n)
    PROVE  \A i \in 1..n : Has(f[i], s, n) /\ (Apart(s, n) => Apart(f[i], n))
  <1>0. f[n] = s
    BY ShuffleUnfolds
  <1>1. \A i \in 1..n : i # n => Exchanged(f[i + 1], f[i], i + 1, d[i + 1], n)
    BY ShuffleSteps
  <1> DEFINE T == {i \in 1..n : Has(f[i], s, n) /\ (Apart(s, n) => Apart(f[i], n))}
  <1>2. n \in T
    BY <1>0 DEF Has
  <1>3. ASSUME NEW i \in 1..n, i + 1 \in T, i # n
        PROVE  i \in T
    <2>1. PICK w : w = f[i + 1] /\ Has(w, s, n) /\ (Apart(s, n) => Apart(w, n))
      BY <1>3
    <2>2. PICK v : v = f[i]
      OBVIOUS
    <2>3. Exchanged(w, v, i + 1, d[i + 1], n)
      BY <1>1, <1>3, <2>1, <2>2
    <2>4. Has(v, w, n) /\ (Apart(w, n) => Apart(v, n))
      BY <2>3, ExchangedKeeps
    <2>5. Has(v, s, n)
      <3> SUFFICES ASSUME NEW k \in 1..n PROVE \E j \in 1..n : v[j] = s[k]
        BY DEF Has
      <3>1. PICK j \in 1..n : w[j] = s[k]
        BY <2>1 DEF Has
      <3>2. PICK l \in 1..n : v[l] = w[j]
        BY <2>4 DEF Has
      <3> QED BY <3>1, <3>2
    <2> QED BY <2>1, <2>2, <2>4, <2>5
  <1> HIDE DEF T
  <1>4. \A i \in 1..n : i \in T
    BY <1>2, <1>3, Downward
  <1> QED BY <1>4 DEF T

\* A place the loop has passed keeps its byte.
LEMMA ShuffleSettles ==
    ASSUME NEW S, NEW n \in Nat \ {0}, NEW s \in [1..n -> S], NEW d \in ShuffleDraws(n),
           NEW f, IsShuffle(f, s, d, 1, n)
    PROVE  Settled(f, n)
  <1>1. \A i \in 1..n : i # n => Exchanged(f[i + 1], f[i], i + 1, d[i + 1], n)
    BY ShuffleSteps
  <1> SUFFICES ASSUME NEW k \in 1..n, NEW j \in 1..n, j > k
               PROVE  \A i \in 1..n : i =< k => f[i][j] = f[k][j]
    BY DEF Settled
  <1> DEFINE T == {i \in 1..n : i =< k => f[i][j] = f[k][j]}
  <1>2. n \in T
    OBVIOUS
  <1>3. ASSUME NEW i \in 1..n, i + 1 \in T, i # n
        PROVE  i \in T
    <2> SUFFICES ASSUME i < k PROVE f[i][j] = f[k][j]
      BY <1>3
    <2>1. f[i + 1][j] = f[k][j]
      BY <1>3
    <2>2. Exchanged(f[i + 1], f[i], i + 1, d[i + 1], n)
      BY <1>1, <1>3
    <2>3. PICK x : x = d[i + 1]
      OBVIOUS
    <2>4. /\ x \in 1..n /\ x =< i + 1
          /\ \A m \in 1..n : m # i + 1 /\ m # x => f[i][m] = f[i + 1][m]
      BY <2>2, <2>3 DEF Exchanged
    <2>5. j # x /\ j # i + 1
      BY <2>4
    <2> QED BY <2>1, <2>4, <2>5
  <1> HIDE DEF T
  <1>4. \A i \in 1..n : i \in T
    BY <1>2, <1>3, Downward
  <1> QED BY <1>4 DEF T

\* Two shuffles that draw alike above place k make the same of s until there.
LEMMA ShuffleAgrees ==
    ASSUME NEW s, NEW n \in Nat \ {0}, NEW d, NEW e,
           NEW f, IsShuffle(f, s, d, 1, n), NEW g, IsShuffle(g, s, e, 1, n)
    PROVE  AgreeAbove(f, d, g, e, n)
  <1>0. /\ f[n] = s /\ g[n] = s
        /\ \A i \in 1..n : i # n => f[i] = Swapped(f[i + 1], i + 1, d[i + 1])
        /\ \A i \in 1..n : i # n => g[i] = Swapped(g[i + 1], i + 1, e[i + 1])
    BY ShuffleUnfolds
  <1> SUFFICES ASSUME NEW k \in 1..n, \A i \in 2..n : i > k => d[i] = e[i]
               PROVE  f[k] = g[k]
    BY DEF AgreeAbove
  <1> DEFINE T == {i \in 1..n : i >= k => f[i] = g[i]}
  <1>1. n \in T
    BY <1>0
  <1>2. ASSUME NEW i \in 1..n, i + 1 \in T, i # n
        PROVE  i \in T
    <2> SUFFICES ASSUME i >= k PROVE f[i] = g[i]
      OBVIOUS
    <2>1. i + 1 \in 2..n /\ i + 1 > k /\ i + 1 >= k
      BY <1>2
    <2>2. d[i + 1] = e[i + 1] /\ f[i + 1] = g[i + 1]
      BY <1>2, <2>1
    <2> HIDE DEF T
    <2> QED BY <1>0, <1>2, <2>2
  <1> HIDE DEF T
  <1>3. \A i \in 1..n : i \in T
    BY <1>1, <1>2, Downward
  <1> QED BY <1>3 DEF T

\* A shuffled string has the bytes it had, in other places.
LEMMA ShuffledKeeps ==
    ASSUME NEW S, NEW n \in Nat \ {0}, NEW s \in [1..n -> S], NEW d \in ShuffleDraws(n)
    PROVE  /\ Shuffled(s, d) \in [1..n -> S]
           /\ Has(Shuffled(s, d), s, n)
           /\ Apart(s, n) => Apart(Shuffled(s, d), n)
  <1>1. PICK f : IsShuffle(f, s, d, 1, n) /\ Shuffled(s, d) = f[1]
    BY ShuffledIs
  <1>2. 1 \in 1..n
    OBVIOUS
  <1>3. f[1] \in [1..n -> S]
    BY <1>1, <1>2, ShuffleSteps
  <1>4. Has(f[1], s, n) /\ (Apart(s, n) => Apart(f[1], n))
    BY <1>1, <1>2, ShuffleKeeps
  <1> QED BY <1>1, <1>2, <1>3, <1>4

\* Other draws, another order: nothing is drawn in vain.
LEMMA ShuffledOnce ==
    ASSUME NEW S, NEW n \in Nat \ {0}, NEW s \in [1..n -> S], Apart(s, n),
           NEW d \in ShuffleDraws(n), NEW e \in ShuffleDraws(n),
           Shuffled(s, d) = Shuffled(s, e)
    PROVE  d = e
  <1>1. PICK f : IsShuffle(f, s, d, 1, n) /\ Shuffled(s, d) = f[1]
    BY ShuffledIs
  <1>2. PICK g : IsShuffle(g, s, e, 1, n) /\ Shuffled(s, e) = g[1]
    BY ShuffledIs
  <1>3. \A i \in 1..n : i # n => Exchanged(f[i + 1], f[i], i + 1, d[i + 1], n)
    BY <1>1, ShuffleSteps
  <1>4. \A i \in 1..n : i # n => Exchanged(g[i + 1], g[i], i + 1, e[i + 1], n)
    BY <1>2, ShuffleSteps
  <1>5. f[1] = g[1]
    BY <1>1, <1>2
  <1>6. \A i \in 1..n : Apart(f[i], n)
    BY <1>1, ShuffleKeeps
  <1>a. AgreeAbove(f, d, g, e, n)
    BY <1>1, <1>2, ShuffleAgrees
  <1>b. Settled(f, n)
    BY <1>1, ShuffleSettles
  <1>c. Settled(g, n)
    BY <1>2, ShuffleSettles
  <1> DEFINE T == {i \in 1..n : \A j \in 2..n : j > i => d[j] = e[j]}
  <1>7. n \in T
    OBVIOUS
  <1>8. ASSUME NEW i \in 1..n, i + 1 \in T, i # n
        PROVE  i \in T
    <2>1. i + 1 \in 1..n /\ i + 1 > i /\ 1 \in 1..n /\ 1 =< i
      BY <1>8
    <2>2. \A j \in 2..n : j > i + 1 => d[j] = e[j]
      BY <1>8
    <2>3. f[i + 1] = g[i + 1]
      BY <1>a, <2>1, <2>2 DEF AgreeAbove
    <2>4. f[i][i + 1] = g[i][i + 1]
      <3>1. f[1][i + 1] = f[i][i + 1]
        BY <1>b, <2>1 DEF Settled
      <3>2. g[1][i + 1] = g[i][i + 1]
        BY <1>c, <2>1 DEF Settled
      <3> QED BY <1>5, <3>1, <3>2
    <2>5. f[i + 1][d[i + 1]] = f[i + 1][e[i + 1]] /\ d[i + 1] \in 1..n /\ e[i + 1] \in 1..n
      BY <1>3, <1>4, <1>8, <2>3, <2>4 DEF Exchanged
    <2>6. d[i + 1] = e[i + 1]
      BY <1>6, <2>1, <2>5 DEF Apart
    <2>7. \A j \in 2..n : j > i => j = i + 1 \/ j > i + 1
      OBVIOUS
    <2> QED BY <2>2, <2>6, <2>7
  <1> HIDE DEF T
  <1>9. 1 \in 1..n /\ \A i \in 1..n : i \in T
    BY <1>7, <1>8, Downward
  <1>10. \A j \in 2..n : d[j] = e[j]
    <2>1. \A j \in 2..n : j > 1
      OBVIOUS
    <2> QED BY <1>9, <2>1 DEF T
  <1>11. d \in [2..n -> 1..n] /\ e \in [2..n -> 1..n]
    BY DEF ShuffleDraws
  <1> QED BY <1>10, <1>11

\* The draws of a loop that comes to place i with the bytes of p above it.
Ends(s, p, i, n, d) ==
    \E f : IsShuffle(f, s, d, 1, n) /\ \A j \in 1..n : j > i => f[i][j] = p[j]

\* The next place can be given its byte too, whichever it is.
LEMMA ShuffledFurther ==
    ASSUME NEW S, NEW n \in Nat \ {0}, NEW s \in [1..n -> S], NEW p \in [1..n -> S],
           Apart(p, n), Has(s, p, n),
           NEW d \in ShuffleDraws(n), NEW i \in 1..n, i # n, Ends(s, p, i + 1, n, d)
    PROVE  \E e \in ShuffleDraws(n) : Ends(s, p, i, n, e)
  <1>1. PICK q \in 2..n : q = i + 1 /\ q \in 1..n /\ \A j \in 1..n : j > i => j = q \/ j > q
    OBVIOUS
  <1>2. PICK f : IsShuffle(f, s, d, 1, n) /\ \A j \in 1..n : j > q => f[q][j] = p[j]
    BY <1>1 DEF Ends
  <1>3. Has(f[q], s, n)
    BY <1>1, <1>2, ShuffleKeeps
  <1>4. PICK k \in 1..n : f[q][k] = p[q]
    <2>1. PICK j \in 1..n : s[j] = p[q]
      BY <1>1 DEF Has
    <2> QED BY <1>3, <2>1 DEF Has
  <1>5. k =< q
    <2>1. k > q => p[k] = p[q]
      BY <1>2, <1>4
    <2>2. k > q => k = q
      BY <1>1, <2>1 DEF Apart
    <2> QED BY <2>2
  <1> DEFINE e == [d EXCEPT ![q] = k]
  <1>6. d \in [2..n -> 1..n] /\ \A j \in 2..n : d[j] \in Places(j)
    BY DEF ShuffleDraws
  <1>7. e \in [2..n -> 1..n] /\ e[q] = k /\ \A j \in 2..n : j # q => e[j] = d[j]
    BY <1>6
  <1> HIDE DEF e
  <1>8. k \in Places(q)
    BY <1>1, <1>5 DEF Places
  <1>9. e \in ShuffleDraws(n)
    <2>1. \A j \in 2..n : e[j] \in Places(j)
      BY <1>6, <1>7, <1>8
    <2> QED BY <1>7, <2>1 DEF ShuffleDraws
  <1>10. PICK g : IsShuffle(g, s, e, 1, n)
    BY ShuffleExists
  <1>11. g[q] = f[q]
    <2>1. AgreeAbove(g, e, f, d, n)
      BY <1>2, <1>10, ShuffleAgrees
    <2>2. \A j \in 2..n : j > q => e[j] = d[j]
      BY <1>7
    <2> QED BY <1>1, <2>1, <2>2 DEF AgreeAbove
  <1>12. Exchanged(g[q], g[i], q, k, n)
    <2>1. \A j \in 1..n : j # n => Exchanged(g[j + 1], g[j], j + 1, e[j + 1], n)
      BY <1>9, <1>10, ShuffleSteps
    <2> QED BY <1>1, <1>7, <2>1
  <1>13. ASSUME NEW j \in 1..n, j > i
         PROVE  g[i][j] = p[j]
    <2>1. CASE j = q
      BY <1>4, <1>11, <1>12, <2>1 DEF Exchanged
    <2>2. CASE j > q
      <3>1. j # q /\ j # k
        BY <1>1, <1>5, <2>2
      <3>2. g[i][j] = g[q][j]
        BY <1>12, <3>1 DEF Exchanged
      <3> QED BY <1>2, <1>11, <2>2, <3>2
    <2> QED BY <1>1, <1>13, <2>1, <2>2
  <1>14. Ends(s, p, i, n, e)
    BY <1>10, <1>13 DEF Ends
  <1> QED BY <1>9, <1>14

\* Some draws make p of s.
Drawn(s, p, n) == \E d \in ShuffleDraws(n) : Shuffled(s, d) = p

\* Every order of the bytes can be drawn.
LEMMA ShuffledOnto ==
    ASSUME NEW S, NEW n \in Nat \ {0}, NEW s \in [1..n -> S], NEW p \in [1..n -> S],
           Apart(p, n), Has(s, p, n)
    PROVE  Drawn(s, p, n)
  <1> DEFINE T == {i \in 1..n : \E d \in ShuffleDraws(n) : Ends(s, p, i, n, d)}
  <1>1. n \in T
    <2> DEFINE d == [i \in 2..n |-> 1]
    <2>1. d \in ShuffleDraws(n)
      <3>1. d \in [2..n -> 1..n] /\ \A i \in 2..n : d[i] = 1
        OBVIOUS
      <3>2. \A i \in 2..n : 1 \in 1..i
        OBVIOUS
      <3> HIDE DEF d
      <3> QED BY <3>1, <3>2 DEF ShuffleDraws, Places
    <2>2. PICK f : IsShuffle(f, s, d, 1, n)
      <3> HIDE DEF d
      <3> QED BY ShuffleExists
    <2>3. Ends(s, p, n, n, d)
      <3>1. \A j \in 1..n : ~(j > n)
        OBVIOUS
      <3> HIDE DEF d
      <3> QED BY <2>2, <3>1 DEF Ends
    <2> HIDE DEF d
    <2> QED BY <2>1, <2>3
  <1>2. ASSUME NEW i \in 1..n, i + 1 \in T, i # n
        PROVE  i \in T
    <2>1. PICK d \in ShuffleDraws(n) : Ends(s, p, i + 1, n, d)
      BY <1>2
    <2>2. \E e \in ShuffleDraws(n) : Ends(s, p, i, n, e)
      BY <1>2, <2>1, ShuffledFurther
    <2> QED BY <2>2
  <1> HIDE DEF T
  <1>3. \A i \in 1..n : i \in T
    BY <1>1, <1>2, Downward
  <1>4. 1 \in 1..n
    OBVIOUS
  <1>5. PICK d \in ShuffleDraws(n) : Ends(s, p, 1, n, d)
    BY <1>3, <1>4 DEF T
  <1>6. PICK f : IsShuffle(f, s, d, 1, n) /\ \A j \in 1..n : j > 1 => f[1][j] = p[j]
    BY <1>5 DEF Ends
  <1>7. f[1] \in [1..n -> S]
    BY <1>4, <1>6, ShuffleSteps
  <1>8. Has(f[1], s, n)
    BY <1>4, <1>6, ShuffleKeeps
  <1>9. PICK k \in 1..n : f[1][k] = p[1]
    <2>1. PICK j \in 1..n : s[j] = p[1]
      BY <1>4 DEF Has
    <2> QED BY <1>8, <2>1 DEF Has
  <1>10. k = 1
    <2>1. k > 1 => p[k] = p[1]
      BY <1>6, <1>9
    <2>2. k > 1 => k = 1
      BY <1>4, <2>1 DEF Apart
    <2> QED BY <2>2
  <1>11. \A j \in 1..n : f[1][j] = p[j]
    <2>1. \A j \in 1..n : j = 1 \/ j > 1
      OBVIOUS
    <2> QED BY <1>6, <1>9, <1>10, <2>1
  <1>12. f[1] = p
    BY <1>7, <1>11
  <1>13. PICK g : IsShuffle(g, s, d, 1, n) /\ Shuffled(s, d) = g[1]
    BY ShuffledIs
  <1>14. AgreeAbove(g, d, f, d, n)
    BY <1>6, <1>13, ShuffleAgrees
  <1>15. g[1] = f[1]
    BY <1>4, <1>14 DEF AgreeAbove
  <1> QED BY <1>12, <1>13, <1>15 DEF Drawn

-----------------------------------------------------------------------------
(* Every order is as likely as any other. *)

\* There are finitely many functions between finite sets.
LEMMA FunctionsFinite ==
    ASSUME NEW S, NEW T, IsFiniteSet(S), IsFiniteSet(T)
    PROVE  IsFiniteSet([S -> T])
  <1> DEFINE Graph == [f \in [S -> T] |-> {<<x, f[x]>> : x \in S}]
  <1>1. IsFiniteSet(SUBSET (S \X T))
    BY FS_Product, FS_SUBSET
  <1>2. Graph \in [[S -> T] -> SUBSET (S \X T)]
    OBVIOUS
  <1>3. ASSUME NEW f \in [S -> T], NEW g \in [S -> T], Graph[f] = Graph[g]
        PROVE  f = g
    <2>1. ASSUME NEW x \in S PROVE f[x] = g[x]
      <3>1. <<x, f[x]>> \in Graph[f]
        OBVIOUS
      <3>2. <<x, f[x]>> \in {<<y, g[y]>> : y \in S}
        BY <1>3, <3>1
      <3> QED BY <3>2
    <2> QED BY <2>1
  <1> HIDE DEF Graph
  <1>4. Graph \in Injection([S -> T], SUBSET (S \X T))
    BY <1>2, <1>3 DEF Injection, IsInjective
  <1> QED BY <1>1, <1>4, FS_Injection

\* The loop has finitely many draws.
LEMMA DrawsFinite ==
    ASSUME NEW n \in Nat
    PROVE  IsFiniteSet(ShuffleDraws(n))
  <1>1. IsFiniteSet(2..n) /\ IsFiniteSet(1..n)
    BY FS_Interval
  <1>2. IsFiniteSet([2..n -> 1..n])
    BY <1>1, FunctionsFinite
  <1>3. ShuffleDraws(n) \in SUBSET [2..n -> 1..n]
    BY DEF ShuffleDraws
  <1> QED BY <1>2, <1>3, FS_Subset

\* Every order of n bytes comes from exactly one sequence of draws.
LEMMA ShuffleUniform ==
    ASSUME NEW n \in 1..MaxLength
    PROVE  Uniform[n]
  <1> DEFINE identity == [i \in 1..n |-> i]
             orders == {Shuffled(identity, d) : d \in ShuffleDraws(n)}
             all == {s \in [1..n -> 1..n] : \A i, j \in 1..n : s[i] = s[j] => i = j}
  <1>1. n \in Nat \ {0}
    BY LengthAssumption
  <1>2. identity \in [1..n -> 1..n] /\ \A i \in 1..n : identity[i] = i
    OBVIOUS
  <1>3. Apart(identity, n)
    BY <1>2 DEF Apart
  <1> HIDE DEF identity
  <1>4. orders \subseteq all
    <2> SUFFICES ASSUME NEW d \in ShuffleDraws(n) PROVE Shuffled(identity, d) \in all
      OBVIOUS
    <2>1. Shuffled(identity, d) \in [1..n -> 1..n] /\ Apart(Shuffled(identity, d), n)
      BY <1>1, <1>2, <1>3, ShuffledKeeps
    <2> QED BY <2>1 DEF Apart
  <1>5. all \subseteq orders
    <2> SUFFICES ASSUME NEW p \in all PROVE p \in orders
      OBVIOUS
    <2>1. p \in [1..n -> 1..n] /\ Apart(p, n)
      BY DEF Apart
    <2>2. Has(identity, p, n)
      BY <1>2, <2>1 DEF Has
    <2>3. Drawn(identity, p, n)
      BY <1>1, <1>2, <2>1, <2>2, ShuffledOnto
    <2> QED BY <2>3 DEF Drawn
  <1> DEFINE F == [d \in ShuffleDraws(n) |-> Shuffled(identity, d)]
  <1>6. F \in [ShuffleDraws(n) -> orders] /\ \A t \in orders : \E d \in ShuffleDraws(n) : F[d] = t
    OBVIOUS
  <1>7. ASSUME NEW d \in ShuffleDraws(n), NEW e \in ShuffleDraws(n), F[d] = F[e]
        PROVE  d = e
    <2>1. Shuffled(identity, d) = Shuffled(identity, e)
      BY <1>7
    <2> QED BY <1>1, <1>2, <1>3, <2>1, ShuffledOnce
  <1>8. ExistsBijection(ShuffleDraws(n), orders)
    <2> HIDE DEF F, orders
    <2>1. F \in Bijection(ShuffleDraws(n), orders)
      BY <1>6, <1>7 DEF Bijection, Injection, Surjection, IsInjective
    <2> QED BY <2>1 DEF ExistsBijection
  <1>9. Cardinality(orders) = Cardinality(ShuffleDraws(n))
    <2>1. IsFiniteSet(ShuffleDraws(n))
      BY <1>1, DrawsFinite
    <2> HIDE DEF orders
    <2> QED BY <1>8, <2>1, FS_Bijection
  <1> QED BY <1>4, <1>5, <1>9 DEF Uniform, identity

-----------------------------------------------------------------------------
(* The policies. *)

\* What is generated with required sets has a byte of each of them.
LEMMA RequiredKept ==
    ASSUME NEW n \in Nat \ {0}, NEW type,
           NEW v \in RandomStringsWithRequiredSets(n, type),
           NEW k \in DOMAIN RequiredSets(type),
           DOMAIN RequiredSets(type) = 1..Len(RequiredSets(type)),
           Len(RequiredSets(type)) \in Nat
    PROVE  v \in [1..n -> Alphabet(type)] /\ \E j \in 1..n : v[j] \in RequiredSets(type)[k]
  <1>1. n >= Len(RequiredSets(type))
    BY DEF RandomStringsWithRequiredSets
  <1>2. PICK s \in Filled(n, type), d \in ShuffleDraws(n) : v = Shuffled(s, d)
    BY <1>1 DEF RandomStringsWithRequiredSets
  <1>3. s \in [1..n -> Alphabet(type)] /\ s[k] \in RequiredSets(type)[k] /\ k \in 1..n
    BY <1>1 DEF Filled
  <1>4. v \in [1..n -> Alphabet(type)] /\ Has(v, s, n)
    BY <1>2, <1>3, ShuffledKeeps
  <1> QED BY <1>3, <1>4 DEF Has

\* What Generate returns meets the policy of its type.
LEMMA PasswordsMeetPolicy ==
    ASSUME NEW n \in Nat \ {0}, NEW type \in PasswordTypes, type # "UUID_V7",
           NEW v \in Passwords(n, type)
    PROVE  MeetsPolicy(v, n, type)
  <1>1. CASE type = "UPPERCASE"
    <2>1. RequiredSets(type) = <<Lowercase, Uppercase>> /\ Alphabet(type) = Lowercase \cup Uppercase
      BY <1>1 DEF RequiredSets, Alphabet
    <2>2. /\ 2 \in DOMAIN RequiredSets(type) /\ RequiredSets(type)[2] = Uppercase
          /\ DOMAIN RequiredSets(type) = 1..Len(RequiredSets(type))
          /\ Len(RequiredSets(type)) \in Nat
      BY <2>1
    <2>3. v \in RandomStringsWithRequiredSets(n, type)
      BY <1>1 DEF Passwords
    <2>4. v \in [1..n -> Lowercase \cup Uppercase] /\ \E j \in 1..n : v[j] \in Uppercase
      BY <2>1, <2>2, <2>3, RequiredKept
    <2> QED BY <1>1, <2>4 DEF MeetsPolicy
  <1>2. CASE type = "SYMBOL"
    <2>1. /\ RequiredSets(type) = <<Lowercase, Uppercase, Symbols>>
          /\ Alphabet(type) = Lowercase \cup Uppercase \cup Symbols
      BY <1>2 DEF RequiredSets, Alphabet
    <2>2. /\ RequiredSets(type)[1] = Lowercase /\ RequiredSets(type)[2] = Uppercase
          /\ RequiredSets(type)[3] = Symbols
          /\ {1, 2, 3} \subseteq DOMAIN RequiredSets(type)
          /\ DOMAIN RequiredSets(type) = 1..Len(RequiredSets(type))
          /\ Len(RequiredSets(type)) \in Nat
      BY <2>1
    <2>3. v \in RandomStringsWithRequiredSets(n, type)
      BY <1>2 DEF Passwords
    <2>4. \A k \in {1, 2, 3} : /\ v \in [1..n -> Alphabet(type)]
                               /\ \E j \in 1..n : v[j] \in RequiredSets(type)[k]
      BY <2>2, <2>3, RequiredKept
    <2>5. /\ v \in [1..n -> Lowercase \cup Uppercase \cup Symbols]
          /\ \E j \in 1..n : v[j] \in Lowercase
          /\ \E j \in 1..n : v[j] \in Uppercase
          /\ \E j \in 1..n : v[j] \in Symbols
      BY <2>1, <2>2, <2>4
    <2> QED BY <1>2, <2>5 DEF MeetsPolicy
  <1>3. CASE type \in {"LOWERCASE", "DIGIT", "HEX_LOWER", "HEX_UPPER"}
    <2>1. v \in [1..n -> Alphabet(type)]
      BY <1>3 DEF Passwords, RandomStrings
    <2> QED BY <1>3, <2>1 DEF MeetsPolicy, Alphabet
  <1>4. type # "UNSPECIFIED"
    BY DEF Passwords
  <1> QED BY <1>1, <1>2, <1>3, <1>4 DEF PasswordTypes

-----------------------------------------------------------------------------
(* The theorems on what PasswordGet generates. *)

\* What Generate may return for a key.
Generated(row) == row.value \in Passwords(row.key.length, row.key.type)

\* Every row, and every row that is about to be one, was generated for its key.
GeneratedOK ==
    /\ \A i \in DOMAIN rows : Generated(rows[i])
    /\ \A h \in Getters : pc[h] = "insert" => Generated(draft[h])

\* Whoever inserts a row generated it, whichever call reads it later.
LEMMA GeneratedNext ==
    ASSUME TypeInv, GeneratedOK, [Next]_vars
    PROVE  GeneratedOK'
  <1>1. /\ pc \in [Getters -> {"idle", "lookup", "generate", "insert", "relookup", "done"}]
        /\ rows \in Seq(Row) /\ DOMAIN draft = Getters
    BY DEF TypeInv, TypeOK
  <1>2. ASSUME rows' = rows,
               \A g \in Getters : pc'[g] = "insert" => pc[g] = "insert" /\ draft'[g] = draft[g]
        PROVE  GeneratedOK'
    BY <1>2 DEF GeneratedOK, Generated
  <1>3. ASSUME NEW h \in Getters, Generate(h)
        PROVE  GeneratedOK'
    <2>1. PICK v \in Passwords(KeyOf(req[h]).length, req[h].type) :
            draft' = [draft EXCEPT ![h] = [key |-> KeyOf(req[h]), value |-> v, date |-> clock]]
      BY <1>3 DEF Generate
    <2>2. KeyOf(req[h]).type = req[h].type
      BY DEF KeyOf
    <2>3. draft'[h].key = KeyOf(req[h]) /\ draft'[h].value = v
      BY <1>1, <2>1
    <2>4. Generated(draft'[h])
      BY <2>1, <2>2, <2>3 DEF Generated
    <2>5. rows' = rows /\ \A g \in Getters \ {h} : pc'[g] = pc[g] /\ draft'[g] = draft[g]
      BY <1>1, <1>3, <2>1 DEF Generate, tableVars
    <2> QED BY <2>4, <2>5 DEF GeneratedOK, Generated
  <1>4. ASSUME NEW h \in Getters, InsertCreates(h) \/ InsertUntold(h)
        PROVE  GeneratedOK'
    <2>1. draft[h] \in Row /\ rows' = Append(rows, draft[h]) /\ Generated(draft[h])
      BY <1>4 DEF InsertCreates, InsertUntold, AddRow, TypeInv, CallsOK, CallOK, GeneratedOK
    <2>2. /\ \A i \in DOMAIN rows : rows'[i] = rows[i]
          /\ rows'[Len(rows) + 1] = draft[h]
          /\ \A i \in DOMAIN rows' : i \in DOMAIN rows \/ i = Len(rows) + 1
      BY <1>1, <2>1, AddRowKeeps
    <2>3. \A i \in DOMAIN rows' : Generated(rows'[i])
      BY <2>1, <2>2 DEF GeneratedOK
    <2>4. \A g \in Getters : pc'[g] = "insert" => g # h /\ pc[g] = "insert" /\ draft'[g] = draft[g]
      BY <1>1, <1>4 DEF InsertCreates, InsertUntold
    <2> QED BY <2>3, <2>4 DEF GeneratedOK, Generated
  <1>5. ASSUME NEW h \in Getters, Get(h), ~Generate(h), ~InsertCreates(h), ~InsertUntold(h)
        PROVE  GeneratedOK'
    <2>1. rows' = rows
      BY <1>5 DEF Get, BeginGet, LookupFirst, GenerateRefused, InsertIgnored, LookupAgain,
         FailGet, ReturnGet, tableVars
    <2>2. \A g \in Getters : pc'[g] = "insert" => pc[g] = "insert" /\ draft'[g] = draft[g]
      BY <1>1, <1>5 DEF Get, BeginGet, LookupFirst, GenerateRefused, InsertIgnored,
         LookupAgain, FailGet, ReturnGet
    <2> QED BY <1>2, <2>1, <2>2
  <1>6. CASE Crash
    BY <1>2, <1>6 DEF Crash, tableVars
  <1>7. CASE rows' = rows /\ UNCHANGED getVars
    BY <1>2, <1>7 DEF getVars
  <1> QED
    BY <1>3, <1>4, <1>5, <1>6, <1>7
    DEF Next, vars, getVars, tableVars, BeginRead, Read, FailRead, ReturnRead, Tick

\* All the passwords there are were generated for the keys they are under.
LEMMA GeneratedInvariant == Spec => []GeneratedOK
  <1>1. Init => GeneratedOK
    BY DEF Init, GeneratedOK
  <1>2. TypeInv /\ GeneratedOK /\ [Next]_vars => TypeInv' /\ GeneratedOK'
    BY TypeNext, GeneratedNext
  <1>3. Spec => [](TypeInv /\ GeneratedOK)
    BY <1>1, <1>2, TypeInit, PTL DEF Spec
  <1> QED
    BY <1>3, PTL

\* Every password a client receives meets the policy of the type and of the
\* length it asked for, whichever call generated it and whenever.
THEOREM PolicyMet == Spec => []ToldMeetsPolicy
  <1>1. ASSUME TypeInv, ToldRows, GeneratedOK
        PROVE  ToldMeetsPolicy
    <2> SUFFICES ASSUME NEW t \in told
                 PROVE  IF t.req.type = "UUID_V7" THEN t.value \in Uuids
                        ELSE MeetsPolicy(t.value, t.req.length, t.req.type)
      BY DEF ToldMeetsPolicy
    <2>1. PICK i \in DOMAIN rows : rows[i].key = KeyOf(t.req) /\ rows[i].value = t.value
      BY <1>1 DEF ToldRows
    <2>2. t.value \in Passwords(NormalizeLength(t.req.length, t.req.type), t.req.type)
      <3>1. /\ KeyOf(t.req).length = NormalizeLength(t.req.length, t.req.type)
            /\ KeyOf(t.req).type = t.req.type
        BY DEF KeyOf
      <3> QED BY <1>1, <2>1, <3>1 DEF GeneratedOK, Generated
    <2>3. t.req \in Requests /\ Accepted(t.req)
      BY <1>1 DEF TypeInv, TypeOK, ToldRows
    <2>4. t.req.type \in PasswordTypes /\ t.req.length \in Int
      BY <2>3, RequestsAssumption
    <2>5. CASE t.req.type = "UUID_V7"
      <3>1. t.value \in Uuids
        BY <2>2, <2>5 DEF Passwords
      <3> QED BY <2>5, <3>1
    <2>6. CASE t.req.type # "UUID_V7"
      <3>1. t.req.length \in Nat \ {0}
        BY <2>3, <2>4, <2>6 DEF Accepted, LengthAccepted
      <3>2. NormalizeLength(t.req.length, t.req.type) = t.req.length
        BY <2>6 DEF NormalizeLength
      <3>3. MeetsPolicy(t.value, t.req.length, t.req.type)
        BY <2>2, <2>4, <2>6, <3>1, <3>2, PasswordsMeetPolicy
      <3> QED BY <2>6, <3>3
    <2> QED BY <2>5, <2>6
  <1>2. Spec => [](TypeInv /\ ToldRows /\ GeneratedOK)
    BY GetInvariant, GeneratedInvariant, PTL DEF GetInv
  <1> QED
    BY <1>1, <1>2, PTL

\* The bytes of a password are as likely in one order as in any other.
THEOREM FairlyShuffled == Spec => []ShuffleIsFair
  <1>1. ASSUME TypeInv
        PROVE  ShuffleIsFair
    <2> SUFFICES ASSUME NEW h \in Getters, pc[h] = "generate", RequiredSets(req[h].type) # << >>,
                        NEW n \in req[h].length..MaxLength
                 PROVE  Uniform[n]
      BY DEF ShuffleIsFair
    <2>1. req[h] \in Requests /\ Accepted(req[h])
      BY <1>1 DEF TypeInv, CallsOK, CallOK
    <2>2. req[h].type # "UUID_V7"
      BY DEF RequiredSets
    <2>3. req[h].length \in Int /\ req[h].length > 0
      BY <2>1, <2>2, RequestsAssumption DEF Accepted, LengthAccepted
    <2>4. n \in 1..MaxLength
      BY <2>3, LengthAssumption
    <2> QED BY <2>4, ShuffleUniform
  <1>2. Spec => []TypeInv
    BY TypeInit, TypeNext, PTL DEF Spec
  <1> QED
    BY <1>1, <1>2, PTL

-----------------------------------------------------------------------------
(* PasswordList. *)

\* Of some rows there is one that is listed before the others.
LEMMA FirstListed ==
    ASSUME TypeInv, NEW I \in SUBSET DOMAIN rows, I # {}
    PROVE  \E i \in I : \A j \in I \ {i} : ListedBefore(i, j)
  <1> DEFINE P(i) == Place[rows[i].key.account]
             D(i) == rows[i].date
  <1>1. \A i \in I : P(i) \in Nat /\ D(i) \in Nat /\ i \in Nat
    <2> SUFFICES ASSUME NEW i \in I PROVE P(i) \in Nat /\ D(i) \in Nat /\ i \in Nat
      OBVIOUS
    <2>1. i \in Nat /\ rows[i] \in Row
      BY DEF TypeInv, TypeOK
    <2>2. rows[i].key \in Keys /\ rows[i].date \in 0..MaxTime
      BY <2>1 DEF Row
    <2>3. PICK q \in Requests : rows[i].key = KeyOf(q)
      BY <2>2 DEF Keys
    <2>4. rows[i].key.account \in Accounts
      BY <2>3, RequestsAssumption DEF KeyOf
    <2>5. rows[i].date \in Nat
      BY <2>2, ClockAssumption
    <2> QED BY <2>1, <2>4, <2>5, PlaceAssumption
  <1>2. \A i, j : ListedBefore(i, j) <=> \/ P(i) < P(j)
                                         \/ P(i) = P(j) /\ D(i) < D(j)
                                         \/ P(i) = P(j) /\ D(i) = D(j) /\ i < j
    BY DEF ListedBefore
  <1> HIDE DEF P, D
  <1>3. PICK p \in {P(i) : i \in I} : \A x \in {P(i) : i \in I} : p =< x
    <2>1. {P(i) : i \in I} \in SUBSET Nat /\ {P(i) : i \in I} # {}
      BY <1>1
    <2> QED BY <2>1, Data!LeastNumber
  <1> DEFINE J == {i \in I : P(i) = p}
  <1>4. PICK d \in {D(i) : i \in J} : \A x \in {D(i) : i \in J} : d =< x
    <2>1. {D(i) : i \in J} \in SUBSET Nat /\ {D(i) : i \in J} # {}
      BY <1>1, <1>3
    <2> QED BY <2>1, Data!LeastNumber
  <1> DEFINE K == {i \in J : D(i) = d}
  <1>5. PICK i \in K : \A x \in K : i =< x
    <2>1. K \in SUBSET Nat /\ K # {}
      BY <1>1, <1>4
    <2> QED BY <2>1, Data!LeastNumber
  <1>6. ASSUME NEW j \in I, j # i
        PROVE  ListedBefore(i, j)
    <2>1. P(i) = p /\ D(i) = d /\ i \in I /\ p =< P(j)
      BY <1>3, <1>5
    <2>2. P(j) = p => d =< D(j)
      BY <1>4
    <2>3. P(j) = p /\ D(j) = d => i =< j
      BY <1>5
    <2> QED BY <1>1, <1>2, <1>6, <2>1, <2>2, <2>3
  <1> QED BY <1>5, <1>6

\* PasswordList shows every row once, in the order it asks for.
LEMMA ListedRows ==
    ASSUME TypeInv
    PROVE  /\ \A i \in DOMAIN rows : \E m \in DOMAIN Listed : Listed[m] = i
           /\ \A m \in DOMAIN Listed : m \in Nat /\ Listed[m] \in DOMAIN rows
           /\ \A m, n \in DOMAIN Listed : m < n => ListedBefore(Listed[m], Listed[n])
  <1> DEFINE S == DOMAIN rows
             R == {e \in S \X S : ListedBefore(e[1], e[2])}
  <1>1. PICK n \in Nat : n = Cardinality(S) /\ S = 1..n
    <2>1. rows \in Seq(Row)
      BY DEF TypeInv, TypeOK
    <2>2. S = 1..Len(rows) /\ Len(rows) \in Nat
      BY <2>1
    <2>3. PICK n : n = Len(rows)
      OBVIOUS
    <2>4. n \in Nat /\ S = 1..n
      BY <2>2, <2>3
    <2>5. Cardinality(1..n) = n
      <3>1. Cardinality(1..n) = IF 1 > n THEN 0 ELSE n-1+1
        BY <2>4, FS_Interval
      <3> QED BY <2>4, <3>1
    <2> HIDE DEF S
    <2>6. n = Cardinality(S)
      BY <2>4, <2>5
    <2> QED BY <2>4, <2>6
  <1>a. Data!Counts([i \in 1..n |-> i], n, S)
    BY <1>1 DEF Data!Counts
  <1>2. Data!HasFirsts(S, R)
    <2> SUFFICES ASSUME NEW I \in SUBSET S, I # {}
                 PROVE  \E i \in I : \A j \in I \ {i} : <<i, j>> \in R
      BY DEF Data!HasFirsts
    <2>1. PICK i \in I : \A j \in I \ {i} : ListedBefore(i, j)
      BY FirstListed
    <2> QED BY <2>1
  <1>3. \A i, j : <<i, j>> \in R => ListedBefore(i, j)
    OBVIOUS
  <1> HIDE DEF R
  <1>4. PICK f : Data!Lists(f, n, S, R)
    BY <1>2, <1>a, Data!ListExists
  <1>5. f \in SetToSeqs(S) /\ \A i, j \in DOMAIN f : i < j => ListedBefore(f[i], f[j])
    BY <1>1, <1>3, <1>4 DEF Data!Lists, SetToSeqs
  <1>6. PICK s : s = Listed
    OBVIOUS
  <1>7. s \in SetToSeqs(S) /\ \A i, j \in DOMAIN s : i < j => ListedBefore(s[i], s[j])
    BY <1>5, <1>6 DEF Listed
  <1>9. s \in [1..n -> S] /\ \A i, j \in 1..n : i # j => s[i] # s[j]
    BY <1>1, <1>7 DEF SetToSeqs
  <1>10. Data!Lists(s, n, S, S \X S)
    BY <1>9 DEF Data!Lists
  <1>11. \A i \in S : \E m \in 1..n : s[m] = i
    BY <1>a, <1>10, Data!ListsAll
  <1>12. \A m \in 1..n : m \in Nat /\ s[m] \in S
    BY <1>9
  <1> QED BY <1>6, <1>7, <1>9, <1>11, <1>12

\* The last password of an account in the listing is the one PasswordRead finds.
THEOREM ListingAgrees == Spec => []LastListedIsRead
  <1>1. ASSUME TypeInv
        PROVE  LastListedIsRead
    <2> SUFFICES ASSUME NEW a \in Accounts, NEW n \in DOMAIN Listed, Listed[n] \in RowsOf(a),
                        \A m \in DOMAIN Listed : m > n => Listed[m] \notin RowsOf(a)
                 PROVE  Newest(a) = {Listed[n]}
      BY DEF LastListedIsRead
    <2>1. PICK i : i = Listed[n]
      OBVIOUS
    <2>2. i \in RowsOf(a) /\ i \in DOMAIN rows
      BY <2>1 DEF RowsOf
    <2>3. \A k \in DOMAIN rows : k \in Nat /\ rows[k].date \in Nat
      <3>1. \A k \in DOMAIN rows : k \in Nat /\ rows[k] \in Row
        BY <1>1 DEF TypeInv, TypeOK
      <3>2. \A k \in DOMAIN rows : rows[k].date \in 0..MaxTime
        BY <3>1 DEF Row
      <3> QED BY <3>1, <3>2, ClockAssumption
    <2>4. ASSUME NEW j \in RowsOf(a), j # i
          PROVE  Older(j, i)
      <3>1. PICK m \in DOMAIN Listed : Listed[m] = j
        BY <1>1, ListedRows DEF RowsOf
      <3>2. m # n /\ ~(m > n) /\ m \in Nat /\ n \in Nat
        BY <1>1, <2>1, <2>4, <3>1, ListedRows
      <3>3. m < n
        BY <3>2
      <3>4. ListedBefore(j, i)
        BY <1>1, <2>1, <3>1, <3>3, ListedRows
      <3>5. rows[j].key.account = a /\ rows[i].key.account = a
        BY <2>2 DEF RowsOf
      <3>6. ~(Place[a] < Place[a])
        BY PlaceAssumption
      <3> QED BY <3>4, <3>5, <3>6 DEF ListedBefore, Older
    <2>5. i \in Newest(a)
      BY <2>2, <2>4 DEF Newest
    <2>6. ASSUME NEW k \in Newest(a), k # i
          PROVE  FALSE
      <3>1. k \in RowsOf(a) /\ Older(i, k)
        BY <2>2, <2>6 DEF Newest
      <3>2. Older(k, i) /\ k \in DOMAIN rows
        BY <2>4, <2>6, <3>1 DEF RowsOf
      <3> QED BY <2>2, <2>3, <3>1, <3>2 DEF Older
    <2> QED BY <2>1, <2>5, <2>6
  <1>2. Spec => []TypeInv
    BY TypeInit, TypeNext, PTL DEF Spec
  <1> QED
    BY <1>1, <1>2, PTL

-----------------------------------------------------------------------------
(* PasswordGet implements GetOrCreate. *)

\* The abstract store of a table, and the abstract call of a PasswordGet.
StoreOf(table) ==
    [k \in Keys |->
        IF {i \in DOMAIN table : table[i].key = k} = {} THEN None
        ELSE table[CHOOSE i \in {j \in DOMAIN table : table[j].key = k} : TRUE].value]

CallOf(at, q, r) ==
    [phase |-> CASE at = "idle" -> "idle" [] at = "done" -> r.status [] OTHER -> "pending",
     key |-> IF at = "idle" \/ r.status = "failed" THEN None ELSE KeyOf(q),
     value |-> r.value,
     new |-> r.new]

Busy == {"lookup", "generate", "insert", "relookup"}

\* The abstract state of a call without an answer.
LEMMA CallCases ==
    ASSUME NEW q
    PROVE  /\ CallOf("idle", None, NoReply) = Abstract!Idle
           /\ \A at \in Busy : CallOf(at, q, NoReply) = Abstract!Pending(KeyOf(q))
           /\ CallOf("done", q, Failure) = Abstract!Failed
  BY DEF CallOf, Busy, NoReply, Failure, Abstract!Idle, Abstract!Pending, Abstract!Failed

\* The abstract state of a call with one.
LEMMA AnsweredCall ==
    ASSUME NEW q, NEW i, NEW v
    PROVE  /\ CallOf("done", q, Found(i)) = Abstract!Answered(KeyOf(q), rows[i].value, FALSE)
           /\ CallOf("done", q, Created(i, v)) = Abstract!Answered(KeyOf(q), v, TRUE)
  BY DEF CallOf, Found, Created, Abstract!Answered

\* A table whose keys are unique gives each key the value of its row.
LEMMA StoreCases ==
    ASSUME NEW table,
           \A i, j \in DOMAIN table : table[i].key = table[j].key => i = j
    PROVE  /\ \A i \in DOMAIN table :
                table[i].key \in Keys => StoreOf(table)[table[i].key] = table[i].value
           /\ \A k \in Keys : (\A i \in DOMAIN table : table[i].key # k) => StoreOf(table)[k] = None
  <1>1. ASSUME NEW i \in DOMAIN table, table[i].key \in Keys
        PROVE  StoreOf(table)[table[i].key] = table[i].value
    <2> DEFINE S == {j \in DOMAIN table : table[j].key = table[i].key}
    <2>1. S = {i}
      OBVIOUS
    <2>2. (CHOOSE j \in S : TRUE) = i
      BY <2>1
    <2> QED BY <1>1, <2>1, <2>2 DEF StoreOf
  <1>2. ASSUME NEW k \in Keys, \A i \in DOMAIN table : table[i].key # k
        PROVE  StoreOf(table)[k] = None
    BY <1>2 DEF StoreOf
  <1> QED
    BY <1>1, <1>2

\* The refinement mapping, written as functions of the state it maps.
LEMMA Bars ==
    ASSUME TRUE
    PROVE  /\ storeBar = StoreOf(rows) /\ storeBar' = StoreOf(rows')
           /\ callBar = [h \in Getters |-> CallOf(pc[h], req[h], reply[h])]
           /\ callBar' = [h \in Getters |-> CallOf(pc'[h], req'[h], reply'[h])]
  BY DEF storeBar, StoreOf, Lookup, callBar, CallOf, KeyOf

\* The types of what the rows hold.
LEMMA RowFacts ==
    ASSUME TypeInv
    PROVE  \A i \in DOMAIN rows : /\ rows[i].key \in Keys /\ rows[i].value \in Values
                                  /\ rows[i].value # None
                                  /\ storeBar[rows[i].key] = rows[i].value
  <1>1. \A i \in DOMAIN rows : rows[i] \in Row
    BY DEF TypeInv, TypeOK
  <1>2. \A i \in DOMAIN rows : rows[i].key \in Keys /\ rows[i].value \in Values
    BY <1>1 DEF Row
  <1> QED
    BY <1>2, StoreCases, Bars, ValuesAssumption DEF TypeInv, UniqueKeys

\* A step of one call changes the abstract call of that call only.
LEMMA OneCall ==
    ASSUME NEW h \in Getters,
           \A g \in Getters \ {h} : pc'[g] = pc[g] /\ req'[g] = req[g] /\ reply'[g] = reply[g]
    PROVE  callBar' = [callBar EXCEPT ![h] = CallOf(pc'[h], req'[h], reply'[h])]
  BY Bars

\* Every step is one of the abstract store, or none.
LEMMA RefineNext ==
    ASSUME TypeInv, ConflictFindsRow, [Next]_vars
    PROVE  [Abstract!Next]_(Abstract!vars)
  <1> DEFINE Frame(h) ==
        \A g \in Getters \ {h} : pc'[g] = pc[g] /\ req'[g] = req[g] /\ reply'[g] = reply[g]
  <1>1. /\ pc \in [Getters -> {"idle", "lookup", "generate", "insert", "relookup", "done"}]
        /\ req \in [Getters -> Requests \cup {None}]
        /\ reply \in [Getters -> Reply]
        /\ rows \in Seq(Row)
        /\ \A h \in Getters : callBar[h] = CallOf(pc[h], req[h], reply[h])
    BY Bars DEF TypeInv, TypeOK
  <1>2. ASSUME NEW h \in Getters, NEW q \in Requests, BeginGet(h, q)
        PROVE  Abstract!Next
    <2>1. Frame(h) /\ rows' = rows /\ req'[h] = q /\ pc[h] = "idle"
      BY <1>1, <1>2 DEF BeginGet, tableVars
    <2>2. storeBar' = storeBar /\ callBar[h] = Abstract!Idle
      BY <1>1, <2>1, Bars, CallCases DEF TypeInv, CallsOK, CallOK
    <2>3. CASE Accepted(q)
      <3>1. pc'[h] = "lookup" /\ reply'[h] = NoReply /\ KeyOf(q) \in Keys
        BY <1>1, <1>2, <2>1, <2>3, KeyOfAccepted DEF BeginGet, TypeInv, CallsOK, CallOK
      <3>2. callBar' = [callBar EXCEPT ![h] = Abstract!Pending(KeyOf(q))]
        BY <2>1, <3>1, OneCall, CallCases DEF Busy
      <3> QED BY <2>2, <3>1, <3>2 DEF Abstract!Next, Abstract!Begin
    <2>4. CASE ~Accepted(q)
      <3>1. pc'[h] = "done" /\ reply'[h] = Failure
        BY <1>1, <1>2, <2>4 DEF BeginGet
      <3>2. callBar' = [callBar EXCEPT ![h] = Abstract!Failed]
        BY <2>1, <3>1, OneCall, CallCases
      <3> QED BY <2>2, <3>2 DEF Abstract!Next, Abstract!Refuse
    <2> QED BY <2>3, <2>4
  <1>3. ASSUME NEW h \in Getters, pc[h] \in Busy
        PROVE  /\ callBar[h] = Abstract!Pending(KeyOf(req[h]))
               /\ callBar[h].phase = "pending" /\ callBar[h].key = KeyOf(req[h])
               /\ KeyOf(req[h]) \in Keys
    <2>1. reply[h] = NoReply /\ Accepted(req[h]) /\ req[h] \in Requests
      BY <1>3 DEF Busy, TypeInv, CallsOK, CallOK
    <2>2. callBar[h] = Abstract!Pending(KeyOf(req[h]))
      BY <1>1, <1>3, <2>1, CallCases
    <2> QED BY <2>1, <2>2, KeyOfAccepted DEF Abstract!Pending
  <1>4. ASSUME NEW h \in Getters, pc[h] \in Busy, Frame(h), req' = req, rows' = rows,
               pc'[h] = "done", reply'[h] = Failure
        PROVE  Abstract!Next
    <2>1. callBar' = [callBar EXCEPT ![h] = Abstract!Failed]
      BY <1>4, OneCall, CallCases
    <2> QED BY <1>3, <1>4, <2>1, Bars DEF Abstract!Next, Abstract!Fail
  <1>5. ASSUME NEW h \in Getters, pc[h] \in Busy, Frame(h), req' = req, rows' = rows,
               pc'[h] \in Busy, reply'[h] = reply[h]
        PROVE  UNCHANGED Abstract!vars
    <2>1. reply[h] = NoReply
      BY <1>5 DEF Busy, TypeInv, CallsOK, CallOK
    <2>2. callBar' = [callBar EXCEPT ![h] = callBar[h]]
      BY <1>3, <1>5, <2>1, OneCall, CallCases
    <2> QED BY <1>5, <2>2, Bars DEF Abstract!vars
  <1>6. ASSUME NEW h \in Getters, pc[h] \in Busy, Frame(h), req' = req, rows' = rows,
               pc'[h] = "done", NEW i \in Lookup(KeyOf(req[h])), reply'[h] = Found(i)
        PROVE  Abstract!Next
    <2>1. i \in DOMAIN rows /\ rows[i].key = KeyOf(req[h])
      BY DEF Lookup
    <2>2. storeBar[KeyOf(req[h])] = rows[i].value /\ rows[i].value # None
      BY <2>1, RowFacts
    <2>3. callBar' = [callBar EXCEPT ![h] = Abstract!Answered(KeyOf(req[h]), rows[i].value, FALSE)]
      <3>1. CallOf("done", req[h], Found(i))
              = Abstract!Answered(KeyOf(req[h]), rows[i].value, FALSE)
        BY AnsweredCall
      <3> QED BY <1>6, <3>1, OneCall
    <2> QED BY <1>3, <1>6, <2>2, <2>3, Bars DEF Abstract!Next, Abstract!Fetch
  <1>7. ASSUME NEW h \in Getters, LookupFirst(h) \/ LookupAgain(h)
        PROVE  [Abstract!Next]_(Abstract!vars)
    <2>1. pc[h] \in Busy /\ Frame(h) /\ req' = req /\ rows' = rows
      BY <1>1, <1>7 DEF LookupFirst, LookupAgain, tableVars, Busy
    <2>2. CASE Lookup(KeyOf(req[h])) = {}
      <3>1. LookupFirst(h)
        BY <1>7, <2>2 DEF LookupAgain, ConflictFindsRow
      <3>2. pc'[h] \in Busy /\ reply'[h] = reply[h]
        BY <1>1, <2>2, <3>1 DEF LookupFirst, Busy
      <3> QED BY <1>5, <2>1, <3>2
    <2>3. CASE Lookup(KeyOf(req[h])) # {}
      <3>1. PICK i \in Lookup(KeyOf(req[h])) : reply' = [reply EXCEPT ![h] = Found(i)]
        BY <1>7, <2>3 DEF LookupFirst, LookupAgain
      <3>2. pc'[h] = "done" /\ reply'[h] = Found(i)
        BY <1>1, <1>7, <2>3, <3>1 DEF LookupFirst, LookupAgain
      <3> QED BY <1>6, <2>1, <3>2
    <2> QED BY <2>2, <2>3
  <1>8. ASSUME NEW h \in Getters, Generate(h) \/ InsertIgnored(h)
        PROVE  UNCHANGED Abstract!vars
    <2>1. /\ pc[h] \in Busy /\ Frame(h) /\ req' = req /\ rows' = rows
          /\ pc'[h] \in Busy /\ reply'[h] = reply[h]
      BY <1>1, <1>8 DEF Generate, InsertIgnored, tableVars, Busy
    <2> QED BY <1>5, <2>1
  <1>9. ASSUME NEW h \in Getters, GenerateRefused(h) \/ FailGet(h)
        PROVE  Abstract!Next
    <2>1. /\ pc[h] \in Busy /\ Frame(h) /\ req' = req /\ rows' = rows
          /\ pc'[h] = "done" /\ reply'[h] = Failure
      BY <1>1, <1>9 DEF GenerateRefused, FailGet, tableVars, Busy
    <2> QED BY <1>4, <2>1
  <1>10. ASSUME NEW h \in Getters, InsertCreates(h) \/ InsertUntold(h)
         PROVE  Abstract!Next
    <2> DEFINE k == KeyOf(req[h])
               v == draft[h].value
    <2>1. /\ draft[h] \in Row /\ draft[h].key = k /\ rows' = Append(rows, draft[h])
          /\ pc[h] \in Busy
      BY <1>10 DEF InsertCreates, InsertUntold, AddRow, TypeInv, TypeOK, CallsOK, CallOK, Busy
    <2>2. /\ k \in Keys /\ v \in Values
      BY <2>1 DEF Row
    <2>3. \A i \in DOMAIN rows : rows[i].key # k
      BY <1>10, <2>1 DEF InsertCreates, InsertUntold, Conflicts
    <2>4. storeBar[k] = None
      BY <2>2, <2>3, StoreCases, Bars DEF TypeInv, UniqueKeys
    <2>5. /\ Len(rows) + 1 \in DOMAIN rows' /\ rows'[Len(rows) + 1] = draft[h]
          /\ \A i \in DOMAIN rows : i \in DOMAIN rows' /\ rows'[i] = rows[i]
          /\ \A i \in DOMAIN rows' : i \in DOMAIN rows \/ i = Len(rows) + 1
      BY <1>1, <2>1, AddRowKeeps
    <2>6. \A i, j \in DOMAIN rows' : rows'[i].key = rows'[j].key => i = j
      BY <2>1, <2>3, <2>5 DEF TypeInv, UniqueKeys
    <2>7. storeBar' = [storeBar EXCEPT ![k] = v]
      <3>1. storeBar'[k] = v
        <4> DEFINE n == Len(rows) + 1
        <4>1. n \in DOMAIN rows' /\ rows'[n].key = k /\ rows'[n].value = v
          BY <2>1, <2>5
        <4> HIDE DEF n
        <4>2. StoreOf(rows')[rows'[n].key] = rows'[n].value
          BY <2>2, <2>6, <4>1, StoreCases
        <4> QED BY <4>1, <4>2, Bars
      <3>2. ASSUME NEW l \in Keys, l # k PROVE storeBar'[l] = storeBar[l]
        <4>1. CASE \A i \in DOMAIN rows : rows[i].key # l
          <5>1. \A i \in DOMAIN rows' : rows'[i].key # l
            BY <2>1, <2>5, <3>2, <4>1
          <5>2. storeBar'[l] = None
            BY <2>6, <5>1, StoreCases, Bars
          <5>3. storeBar[l] = None
            BY <4>1, StoreCases, Bars DEF TypeInv, UniqueKeys
          <5> QED BY <5>2, <5>3
        <4>2. ASSUME NEW i \in DOMAIN rows, rows[i].key = l PROVE storeBar'[l] = storeBar[l]
          <5>1. storeBar[l] = rows[i].value
            BY <4>2, RowFacts
          <5>2. i \in DOMAIN rows' /\ rows'[i].key = l /\ rows'[i].value = rows[i].value
            BY <2>5, <4>2
          <5>3. storeBar'[l] = rows'[i].value
            BY <2>6, <5>2, StoreCases, Bars
          <5> QED BY <5>1, <5>2, <5>3
        <4> QED BY <4>1, <4>2
      <3>3. storeBar' = [l \in Keys |-> storeBar'[l]] /\ storeBar = [l \in Keys |-> storeBar[l]]
        BY Bars DEF StoreOf
      <3> QED BY <2>2, <3>1, <3>2, <3>3
    <2>8. v \in Abstract!Available
      BY <2>2 DEF Abstract!Available
    <2>9. Frame(h) /\ req' = req /\ pc'[h] = "done"
      BY <1>1, <1>10 DEF InsertCreates, InsertUntold
    <2>10. CASE InsertCreates(h)
      <3>1. reply'[h] = Created(Len(rows) + 1, v)
        BY <1>1, <2>10 DEF InsertCreates
      <3>2. callBar' = [callBar EXCEPT ![h] = Abstract!Answered(k, v, TRUE)]
        <4>1. CallOf("done", req[h], Created(Len(rows) + 1, v)) = Abstract!Answered(k, v, TRUE)
          BY AnsweredCall
        <4> QED BY <2>9, <3>1, <4>1, OneCall
      <3>3. Abstract!Create(h, v)
        BY <1>3, <2>1, <2>4, <2>7, <2>8, <3>2 DEF Abstract!Create
      <3> QED BY <2>2, <3>3 DEF Abstract!Next
    <2>11. CASE InsertUntold(h)
      <3>1. reply'[h] = Failure
        BY <1>1, <2>11 DEF InsertUntold
      <3>2. callBar' = [callBar EXCEPT ![h] = Abstract!Failed]
        BY <2>9, <3>1, OneCall, CallCases
      <3>3. Abstract!CreateUntold(h, v)
        BY <1>3, <2>1, <2>4, <2>7, <2>8, <3>2 DEF Abstract!CreateUntold
      <3> QED BY <2>2, <3>3 DEF Abstract!Next
    <2> QED BY <1>10, <2>10, <2>11
  <1>11. ASSUME NEW h \in Getters, ReturnGet(h)
         PROVE  Abstract!Next
    <2>1. /\ Frame(h) /\ rows' = rows /\ pc[h] = "done"
          /\ pc'[h] = "idle" /\ req'[h] = None /\ reply'[h] = NoReply
      BY <1>1, <1>11 DEF ReturnGet, tableVars
    <2>2. callBar' = [callBar EXCEPT ![h] = Abstract!Idle]
      BY <2>1, OneCall, CallCases
    <2>3. callBar[h].phase \in {"answered", "failed"}
      <3>1. reply[h] = Failure \/ reply[h].status = "answered"
        BY <2>1 DEF TypeInv, CallsOK, CallOK
      <3>2. reply[h].status \in {"answered", "failed"}
        BY <3>1 DEF Failure
      <3>3. CallOf("done", req[h], reply[h]).phase = reply[h].status
        BY DEF CallOf
      <3> QED BY <1>1, <2>1, <3>2, <3>3
    <2> QED BY <2>1, <2>2, <2>3, Bars DEF Abstract!Next, Abstract!Return
  <1>12. CASE Crash
    <2>1. rows' = rows /\ callBar' = [h \in Getters |-> Abstract!Idle]
      BY <1>12, Bars, CallCases DEF Crash, tableVars
    <2> QED BY <2>1, Bars DEF Abstract!Next, Abstract!Crash
  <1>13. ASSUME rows' = rows, UNCHANGED getVars
         PROVE  UNCHANGED Abstract!vars
    BY <1>13, Bars DEF getVars, Abstract!vars
  <1> QED
    BY <1>2, <1>7, <1>8, <1>9, <1>10, <1>11, <1>12, <1>13
    DEF Next, Get, vars, getVars, tableVars, BeginRead, Read, FailRead, ReturnRead, Tick

\* Every behaviour of the store is a behaviour of the get-or-create store: each
\* statement of Get is one of its steps or none.
THEOREM Implements == Spec => Refines
  <1>1. Init => Abstract!Init
    <2> SUFFICES ASSUME Init PROVE Abstract!Init
      OBVIOUS
    <2>1. storeBar = [k \in Keys |-> None]
      BY DEF Init, storeBar, Lookup
    <2>2. callBar = [h \in Getters |-> Abstract!Idle]
      BY Bars, CallCases DEF Init
    <2> QED BY <2>1, <2>2 DEF Abstract!Init
  <1>2. TypeInv /\ ConflictFindsRow /\ [Next]_vars => [Abstract!Next]_(Abstract!vars)
    BY RefineNext
  <1>3. Spec => [](TypeInv /\ ConflictFindsRow)
    BY GetInvariant, PTL DEF GetInv
  <1> QED
    BY <1>1, <1>2, <1>3, PTL DEF Spec, Refines, Abstract!Spec
=============================================================================
