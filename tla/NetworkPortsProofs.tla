------------------------- MODULE NetworkPortsProofs --------------------------
(***************************************************************************)
(* Theorems about NetworkPortGet, for any calls, accounts, ranges and      *)
(* other processes.                                                        *)
(***************************************************************************)
EXTENDS NetworkPorts, FiniteSetTheorems, TLAPS

Busy == {"lookup", "query", "scan", "probing", "insert", "relookup"}
Places == {"idle", "lookup", "query", "scan", "probing", "insert", "relookup", "done"}
Refusals == {"failed", "exhausted", "conflicted"}
Reply == [status : {"none", "failed", "exhausted", "conflicted", "answered"},
          port : Ports \cup {None}, new : BOOLEAN]

\* Every reply has its type.
LEMMA ReplyTypes ==
    /\ NoReply \in Reply
    /\ \A why \in Refusals : Refusal(why) \in Reply
    /\ \A p \in Ports : Existing(p) \in Reply /\ Allocated(p) \in Reply
  BY DEF Reply, NoReply, Refusal, Existing, Allocated, Refusals

\* A valid range consists of ports.
LEMMA RangePorts ==
    ASSUME NEW r \in Ranges, ValidRange(r)
    PROVE  r.min..r.max \subseteq Ports
  <1>1. r.min \in Int /\ r.max \in Int /\ LastPort \in Int
    BY RangesAssumption, PortAssumption
  <1> QED
    BY <1>1 DEF ValidRange, Ports

-----------------------------------------------------------------------------
(* Types and the state of a call. *)

\* What is true of a NetworkPortGet at each of its steps.
CallOK(h) ==
    /\ pc[h] = "idle" => account[h] = None /\ reply[h] = NoReply /\ attempt[h] = 0
    /\ pc[h] # "idle" => account[h] \in Accounts
    /\ pc[h] \in Busy =>
          /\ account[h] \notin BlankAccounts
          /\ reply[h] = NoReply
          /\ attempt[h] \in 0..MaxAttempts - 1
    /\ pc[h] \in {"probing", "insert"} => chosen[h] \in Ports
    /\ pc[h] = "done" => \/ \E why \in Refusals : reply[h] = Refusal(why)
                         \/ /\ reply[h].status = "answered"
                            /\ account[h] \notin BlankAccounts
                            /\ [account |-> account[h], port |-> reply[h].port] \in rows

CallsOK == \A h \in Callers : CallOK(h)

\* UNIQUE (service, name) and UNIQUE (port).
UniqueRows == \A r, s \in rows : r.account = s.account \/ r.port = s.port => r = s

TypeInv == TypeOK /\ CallsOK /\ UniqueRows /\ IsFiniteSet(rows)

\* The initial state has its type.
LEMMA TypeInit == Init => TypeInv
  <1> SUFFICES ASSUME Init PROVE TypeInv
    OBVIOUS
  <1>1. TypeOK
    <2>1. 0 \in 0..MaxAttempts
      BY DEF MaxAttempts
    <2> QED BY <2>1, ReplyTypes DEF Init, TypeOK, Reply
  <1>2. CallsOK
    BY DEF Init, CallsOK, CallOK, Busy
  <1>3. UniqueRows /\ IsFiniteSet(rows)
    BY FS_EmptySet DEF Init, UniqueRows
  <1> QED
    BY <1>1, <1>2, <1>3 DEF TypeInv

\* What a port became unusable for is of its type.
LEMMA SpoilType ==
    ASSUME unusable \in [Callers -> SUBSET (Ports \X {"stored", "bound", "probed"})],
           NEW h, NEW p \in Ports, NEW why \in {"stored", "bound", "probed"}, Spoil(h, p, why)
    PROVE  unusable' \in [Callers -> SUBSET (Ports \X {"stored", "bound", "probed"})]
  BY DEF Spoil

\* A call that neither adds a row nor has an answer yet takes a step.
LEMMA CallFrame ==
    ASSUME CallsOK, UniqueRows, IsFiniteSet(rows), rows' = rows, NEW h \in Callers,
           \A g \in Callers \ {h} :
              /\ pc'[g] = pc[g] /\ account'[g] = account[g] /\ reply'[g] = reply[g]
              /\ attempt'[g] = attempt[g] /\ chosen'[g] = chosen[g],
           CallOK(h)'
    PROVE  CallsOK' /\ UniqueRows' /\ IsFiniteSet(rows)'
  <1>1. \A g \in Callers \ {h} : CallOK(g)'
    BY DEF CallsOK, CallOK
  <1> QED
    BY <1>1 DEF CallsOK, UniqueRows

\* A row that collides with none keeps the table's constraints.
LEMMA RowAdded ==
    ASSUME TypeInv, NEW h \in Callers, pc[h] = "insert",
           Conflicts(account[h], chosen[h]) = {}, AddRow(h)
    PROVE  /\ account[h] \in Accounts \ BlankAccounts /\ chosen[h] \in Ports
           /\ rows' = rows \cup {[account |-> account[h], port |-> chosen[h]]}
           /\ rows' \in SUBSET [account : Accounts, port : Ports]
           /\ UniqueRows' /\ IsFiniteSet(rows')
           /\ unusable' \in [Callers -> SUBSET (Ports \X {"stored", "bound", "probed"})]
  <1>1. account[h] \in Accounts \ BlankAccounts /\ chosen[h] \in Ports
    BY DEF TypeInv, CallsOK, CallOK, Busy
  <1>2. rows' = rows \cup {[account |-> account[h], port |-> chosen[h]]}
    BY DEF AddRow
  <1>3. rows' \in SUBSET [account : Accounts, port : Ports]
    BY <1>1, <1>2 DEF TypeInv, TypeOK
  <1>4. \A r \in rows : r.account # account[h] /\ r.port # chosen[h]
    BY DEF Conflicts
  <1>5. UniqueRows'
    BY <1>2, <1>4 DEF TypeInv, UniqueRows
  <1>6. IsFiniteSet(rows')
    BY <1>2, FS_AddElement DEF TypeInv
  <1>7. unusable' \in [Callers -> SUBSET (Ports \X {"stored", "bound", "probed"})]
    <2>1. Spoil(None, chosen[h], "stored")
      BY DEF AddRow
    <2> QED BY <1>1, <2>1, SpoilType DEF TypeInv, TypeOK
  <1> QED
    BY <1>1, <1>2, <1>3, <1>5, <1>6, <1>7

\* Every step keeps the types, the state of the calls and the rows unique.
LEMMA TypeNext == TypeInv /\ [Next]_vars => TypeInv'
  <1> SUFFICES ASSUME TypeInv, [Next]_vars PROVE TypeInv'
    OBVIOUS
  <1> USE DEF TypeInv
  <1>0. /\ pc \in [Callers -> Places]
        /\ account \in [Callers -> Accounts \cup {None}]
        /\ untried \in [Callers -> SUBSET Ports]
        /\ chosen \in [Callers -> Ports \cup {None}]
        /\ attempt \in [Callers -> 0..MaxAttempts]
        /\ reply \in [Callers -> Reply]
        /\ unusable \in [Callers -> SUBSET (Ports \X {"stored", "bound", "probed"})]
        /\ before \in [Callers -> Nat]
    BY DEF TypeOK, Places, Reply
  <1>1. ASSUME NEW h \in Callers, NEW a \in Accounts, Begin(h, a) PROVE TypeInv'
    <2>1. Cardinality(rows) \in Nat
      BY FS_CardinalityType
    <2>2. unusable' \in [Callers -> SUBSET (Ports \X {"stored", "bound", "probed"})]
      <3>1. Stored \subseteq Ports
        BY DEF Stored, TypeOK
      <3>2. Probed(h) \subseteq Ports
        BY DEF Probed, CallsOK, CallOK
      <3>3. bound \subseteq Ports
        BY DEF TypeOK
      <3> QED BY <1>0, <1>1, <3>1, <3>2, <3>3 DEF Begin
    <2>3. TypeOK'
      BY <1>1, <2>1, <2>2, ReplyTypes DEF TypeOK, Begin, toldVars, Reply, Refusals
    <2>4. CallOK(h)'
      <3>1. 0 \in 0..MaxAttempts - 1
        BY DEF MaxAttempts
      <3>2. account'[h] = a /\ attempt'[h] = attempt[h] /\ attempt[h] = 0 /\ reply[h] = NoReply
        BY <1>0, <1>1 DEF Begin, CallsOK, CallOK
      <3>3. \/ a \in BlankAccounts /\ pc'[h] = "done" /\ reply'[h] = Refusal("failed")
            \/ a \notin BlankAccounts /\ pc'[h] = "lookup" /\ reply'[h] = NoReply
        BY <1>0, <1>1, <3>2 DEF Begin
      <3> QED BY <3>1, <3>2, <3>3 DEF CallOK, Busy, Refusals
    <2>5. CallsOK' /\ UniqueRows' /\ IsFiniteSet(rows)'
      BY <1>0, <1>1, <2>4, CallFrame DEF Begin
    <2> QED BY <2>3, <2>5
  <1>2. ASSUME NEW h \in Callers, LookupFirst(h) \/ LookupAgainFinds(h) PROVE TypeInv'
    <2>1. CASE Lookup(account[h]) = {}
      <3>1. LookupFirst(h) /\ pc' = [pc EXCEPT ![h] = "query"] /\ UNCHANGED reply
        BY <1>2, <2>1 DEF LookupFirst, LookupAgainFinds
      <3>2. TypeOK'
        BY <3>1 DEF TypeOK, LookupFirst, toldVars
      <3>3. CallOK(h)'
        BY <1>0, <3>1 DEF LookupFirst, CallsOK, CallOK, Busy
      <3> QED BY <1>0, <3>1, <3>2, <3>3, CallFrame DEF LookupFirst
    <2>2. CASE Lookup(account[h]) # {}
      <3>1. PICK r \in Lookup(account[h]) : reply' = [reply EXCEPT ![h] = Existing(r.port)]
        BY <1>2, <2>2 DEF LookupFirst, LookupAgainFinds
      <3>2. r \in rows /\ r.account = account[h] /\ r \in [account : Accounts, port : Ports]
        BY DEF Lookup, TypeOK
      <3>3. r = [account |-> account[h], port |-> r.port] /\ r.port \in Ports
        BY <3>2
      <3>4. pc' = [pc EXCEPT ![h] = "done"] /\ pc[h] \in Busy
        BY <1>2, <2>2 DEF LookupFirst, LookupAgainFinds, Busy
      <3>5. reply' \in [Callers -> Reply]
        BY <1>0, <3>1, <3>3, ReplyTypes
      <3>6. TypeOK'
        BY <1>2, <3>4, <3>5 DEF TypeOK, LookupFirst, LookupAgainFinds, toldVars, Reply
      <3>7. /\ rows' = rows /\ account' = account /\ attempt' = attempt /\ chosen' = chosen
            /\ pc'[h] = "done" /\ reply'[h] = Existing(r.port)
        BY <1>0, <1>2, <3>1, <3>4 DEF LookupFirst, LookupAgainFinds
      <3>8. CallOK(h)'
        <4>1. account[h] \in Accounts /\ account[h] \notin BlankAccounts
          BY <3>4 DEF CallsOK, CallOK, Busy
        <4>2. /\ reply'[h].status = "answered"
              /\ [account |-> account'[h], port |-> reply'[h].port] \in rows'
          BY <3>2, <3>3, <3>7 DEF Existing
        <4> QED BY <3>7, <4>1, <4>2 DEF CallOK, Busy
      <3> QED BY <1>0, <3>1, <3>4, <3>6, <3>7, <3>8, CallFrame
    <2> QED BY <2>1, <2>2
  <1>3. ASSUME NEW h \in Callers, QueryUsed(h) PROVE TypeInv'
    <2>1. range.min..range.max \subseteq Ports
      BY RangePorts DEF TypeOK
    <2>2. TypeOK'
      BY <1>3, <2>1 DEF TypeOK, QueryUsed, toldVars
    <2>3. CallOK(h)'
      BY <1>0, <1>3 DEF QueryUsed, CallsOK, CallOK, Busy
    <2> QED BY <1>0, <1>3, <2>2, <2>3, CallFrame DEF QueryUsed
  <1>4. ASSUME NEW h \in Callers, ProbeOpens(h) PROVE TypeInv'
    <2>1. PICK p \in untried[h] : chosen' = [chosen EXCEPT ![h] = p] /\ Spoil(h, p, "probed")
      BY <1>4 DEF ProbeOpens
    <2>2. p \in Ports
      BY <1>0
    <2>3. unusable' \in [Callers -> SUBSET (Ports \X {"stored", "bound", "probed"})]
      BY <1>0, <2>1, <2>2, SpoilType
    <2>4. TypeOK'
      BY <1>4, <2>1, <2>2, <2>3 DEF TypeOK, ProbeOpens, toldVars
    <2>5. CallOK(h)'
      BY <1>0, <1>4, <2>1, <2>2 DEF ProbeOpens, CallsOK, CallOK, Busy
    <2> QED BY <1>0, <1>4, <2>1, <2>4, <2>5, CallFrame DEF ProbeOpens
  <1>5. ASSUME NEW h \in Callers, ProbeFails(h) \/ ProbeCloses(h) PROVE TypeInv'
    <2>1. TypeOK'
      BY <1>5 DEF TypeOK, ProbeFails, ProbeCloses, toldVars
    <2>2. CallOK(h)'
      BY <1>0, <1>5 DEF ProbeFails, ProbeCloses, CallsOK, CallOK, Busy
    <2> QED BY <1>0, <1>5, <2>1, <2>2, CallFrame DEF ProbeFails, ProbeCloses
  <1>6. ASSUME NEW h \in Callers, Exhausted(h) \/ FailGet(h) PROVE TypeInv'
    <2>1. PICK why \in Refusals : reply' = [reply EXCEPT ![h] = Refusal(why)]
      BY <1>6 DEF Exhausted, FailGet, Refusals
    <2>2. reply' \in [Callers -> Reply]
      BY <1>0, <2>1, ReplyTypes
    <2>3. TypeOK'
      BY <1>6, <2>2 DEF TypeOK, Exhausted, FailGet, toldVars, Reply
    <2>4. /\ rows' = rows /\ account' = account /\ attempt' = attempt /\ pc[h] \in Busy
          /\ pc'[h] = "done" /\ reply'[h] = Refusal(why)
          /\ \A g \in Callers \ {h} : chosen'[g] = chosen[g] /\ pc'[g] = pc[g]
      BY <1>0, <1>6, <2>1 DEF Exhausted, FailGet, Busy
    <2>5. CallOK(h)'
      BY <2>4 DEF CallsOK, CallOK, Busy
    <2> QED BY <1>0, <2>1, <2>3, <2>4, <2>5, CallFrame
  <1>7. ASSUME NEW h \in Callers, InsertCreates(h) \/ InsertUntold(h) PROVE TypeInv'
    <2>1. /\ account[h] \in Accounts \ BlankAccounts /\ chosen[h] \in Ports
          /\ rows' = rows \cup {[account |-> account[h], port |-> chosen[h]]}
          /\ rows' \in SUBSET [account : Accounts, port : Ports]
          /\ UniqueRows' /\ IsFiniteSet(rows')
          /\ unusable' \in [Callers -> SUBSET (Ports \X {"stored", "bound", "probed"})]
      BY <1>7, RowAdded DEF InsertCreates, InsertUntold
    <2>2. reply' \in [Callers -> Reply]
      BY <1>0, <1>7, <2>1, ReplyTypes DEF InsertCreates, InsertUntold, Refusals
    <2>3. TypeOK'
      BY <1>7, <2>1, <2>2 DEF TypeOK, InsertCreates, InsertUntold, toldVars, Reply
    <2>4. /\ account' = account /\ attempt' = attempt /\ pc'[h] = "done"
          /\ reply'[h] = Allocated(chosen[h]) \/ reply'[h] = Refusal("failed")
          /\ \A g \in Callers \ {h} : /\ chosen'[g] = chosen[g] /\ pc'[g] = pc[g]
                                      /\ reply'[g] = reply[g]
      BY <1>0, <1>7 DEF InsertCreates, InsertUntold
    <2>5. CallOK(h)'
      BY <2>1, <2>4 DEF CallOK, Busy, Refusals, Allocated
    <2>6. \A g \in Callers \ {h} : CallOK(g)'
      BY <2>1, <2>4 DEF CallsOK, CallOK
    <2> QED BY <2>1, <2>3, <2>5, <2>6 DEF CallsOK
  <1>8. ASSUME NEW h \in Callers, InsertIgnored(h) PROVE TypeInv'
    <2>1. TypeOK'
      BY <1>8 DEF TypeOK, InsertIgnored, toldVars
    <2>2. CallOK(h)'
      BY <1>0, <1>8 DEF InsertIgnored, CallsOK, CallOK, Busy
    <2> QED BY <1>0, <1>8, <2>1, <2>2, CallFrame DEF InsertIgnored
  <1>9. ASSUME NEW h \in Callers, LookupAgainRetries(h) PROVE TypeInv'
    <2>1. attempt[h] \in 0..2 /\ attempt'[h] = attempt[h] + 1 /\ MaxAttempts = 3
      <3>1. pc[h] = "relookup" /\ attempt' = [attempt EXCEPT ![h] = @ + 1]
        BY <1>9 DEF LookupAgainRetries
      <3>2. attempt[h] \in 0..MaxAttempts - 1
        BY <3>1 DEF CallsOK, CallOK, Busy
      <3>3. attempt[h] \in 0..2 /\ MaxAttempts = 3
        BY <3>2 DEF MaxAttempts
      <3>4. attempt'[h] = attempt[h] + 1
        BY <1>0, <3>1
      <3> QED BY <3>3, <3>4
    <2>2. attempt'[h] \in 0..MaxAttempts
      BY <2>1
    <2>3. attempt' \in [Callers -> 0..MaxAttempts]
      BY <1>0, <1>9, <2>2 DEF LookupAgainRetries
    <2>4. /\ rows' = rows /\ account' = account /\ chosen' = chosen /\ pc[h] = "relookup"
          /\ \/ attempt[h] + 1 < 3 /\ pc'[h] = "query" /\ reply' = reply
             \/ pc'[h] = "done" /\ reply' = [reply EXCEPT ![h] = Refusal("conflicted")]
          /\ \A g \in Callers \ {h} : /\ attempt'[g] = attempt[g] /\ pc'[g] = pc[g]
                                      /\ reply'[g] = reply[g]
      BY <1>0, <1>9, <2>1 DEF LookupAgainRetries
    <2>5. reply' \in [Callers -> Reply] /\ pc' \in [Callers -> Places]
      BY <1>0, <1>9, <2>4, ReplyTypes DEF LookupAgainRetries, Refusals, Places
    <2>6. TypeOK'
      BY <1>9, <2>3, <2>5 DEF TypeOK, LookupAgainRetries, toldVars, Reply, Places
    <2>7. CallOK(h)'
      <3>1. CASE attempt[h] + 1 < 3 /\ pc'[h] = "query" /\ reply' = reply
        <4>1. attempt'[h] \in 0..MaxAttempts - 1
          BY <2>1, <3>1
        <4> QED BY <1>0, <2>4, <3>1, <4>1 DEF CallsOK, CallOK, Busy
      <3>2. CASE pc'[h] = "done" /\ reply' = [reply EXCEPT ![h] = Refusal("conflicted")]
        <4>1. reply'[h] = Refusal("conflicted")
          BY <1>0, <3>2
        <4> QED BY <2>4, <3>2, <4>1 DEF CallsOK, CallOK, Busy, Refusals
      <3> QED BY <2>4, <3>1, <3>2
    <2> QED BY <2>4, <2>6, <2>7, CallFrame
  <1>10. ASSUME NEW h \in Callers, Return(h) PROVE TypeInv'
    <2>1. account[h] \in Accounts
      BY <1>10 DEF Return, CallsOK, CallOK
    <2>2. reply[h].status = "answered" => reply[h].port \in Ports
      <3>1. reply[h].status = "answered" =>
              [account |-> account[h], port |-> reply[h].port] \in rows
        <4>1. pc[h] = "done"
          BY <1>10 DEF Return
        <4>2. \A why \in Refusals : Refusal(why).status # "answered"
          BY DEF Refusal, Refusals
        <4> QED BY <4>1, <4>2 DEF CallsOK, CallOK
      <3> QED BY <3>1 DEF TypeOK
    <2>3. told' \in SUBSET [account : Accounts, port : Ports]
      BY <1>10, <2>1, <2>2 DEF Return, toldVars, TypeOK
    <2>4. news' \in [Accounts -> Nat]
      <3>1. CASE reply[h].status = "answered"
        <4>1. news' = [news EXCEPT ![account[h]] = IF reply[h].new THEN @ + 1 ELSE @]
          BY <1>10, <3>1 DEF Return
        <4> QED BY <4>1, <2>1 DEF TypeOK
      <3>2. CASE reply[h].status # "answered"
        BY <1>10, <3>2 DEF Return, toldVars, TypeOK
      <3> QED BY <3>1, <3>2
    <2>5. 0 \in 0..MaxAttempts
      BY DEF MaxAttempts
    <2>6. TypeOK'
      BY <1>10, <2>3, <2>4, <2>5, ReplyTypes DEF TypeOK, Return, Reply
    <2>7. CallOK(h)'
      BY <1>0, <1>10 DEF Return, CallOK, Busy
    <2> QED BY <1>0, <1>10, <2>6, <2>7, CallFrame DEF Return
  <1>11. ASSUME NEW p \in BusyPorts, Bind(p) \/ Unbind(p) PROVE TypeInv'
    <2>1. p \in Ports
      BY PortAssumption
    <2>2. unusable' \in [Callers -> SUBSET (Ports \X {"stored", "bound", "probed"})]
      BY <1>0, <1>11, <2>1, SpoilType DEF Bind, Unbind
    <2>3. TypeOK'
      BY <1>11, <2>1, <2>2 DEF TypeOK, Bind, Unbind, callVars, toldVars
    <2>4. CallsOK' /\ UniqueRows' /\ IsFiniteSet(rows)'
      BY <1>11 DEF Bind, Unbind, callVars, CallsOK, CallOK, UniqueRows
    <2> QED BY <2>3, <2>4
  <1>12. CASE Restart
    <2>1. 0 \in 0..MaxAttempts
      BY DEF MaxAttempts
    <2>2. TypeOK'
      BY <1>12, <2>1, ReplyTypes DEF TypeOK, Restart, toldVars, Reply
    <2>3. CallsOK' /\ UniqueRows' /\ IsFiniteSet(rows)'
      BY <1>12 DEF Restart, CallsOK, CallOK, UniqueRows, Busy
    <2> QED BY <2>2, <2>3
  <1>13. CASE UNCHANGED vars
    <2>1. TypeOK'
      BY <1>13 DEF TypeOK, vars, callVars, toldVars
    <2>2. CallsOK' /\ UniqueRows' /\ IsFiniteSet(rows)'
      BY <1>13 DEF vars, callVars, CallsOK, CallOK, UniqueRows
    <2> QED BY <2>1, <2>2
  <1> QED
    BY <1>1, <1>2, <1>3, <1>4, <1>5, <1>6, <1>7, <1>8, <1>9, <1>10, <1>11, <1>12, <1>13
    DEF Next, Step

\* The types of the variables and the state of each call are invariant: no call
\* looks at, chooses, stores or answers with anything but a port.
THEOREM TypeCorrect == Spec => []TypeOK
  <1>1. Spec => []TypeInv
    BY TypeInit, TypeNext, PTL DEF Spec
  <1> QED
    BY <1>1, PTL DEF TypeInv

-----------------------------------------------------------------------------
(* What the clients were told. *)

\* Rows are added and never removed.
LEMMA RowsGrow ==
    ASSUME [Next]_vars
    PROVE  rows \subseteq rows'
  BY DEF Next, Step, vars, Begin, LookupFirst, QueryUsed, ProbeOpens, ProbeFails, ProbeCloses,
     Exhausted, InsertCreates, InsertIgnored, InsertUntold, AddRow, LookupAgainFinds,
     LookupAgainRetries, FailGet, Return, Bind, Unbind, Restart

\* Each answer a client received is a row.
ToldRows == told \subseteq rows

\* Every step keeps the rows of the answers clients received.
LEMMA ToldNext ==
    ASSUME TypeInv, ToldRows, [Next]_vars
    PROVE  ToldRows'
  <1>1. CASE told' = told
    BY <1>1, RowsGrow DEF ToldRows
  <1>2. ASSUME NEW h \in Callers, Return(h) PROVE ToldRows'
    <2>1. pc[h] = "done" /\ rows' = rows
      BY <1>2 DEF Return
    <2>2. \A why \in Refusals : Refusal(why).status # "answered"
      BY DEF Refusal, Refusals
    <2>3. CASE reply[h].status = "answered"
      <3>1. [account |-> account[h], port |-> reply[h].port] \in rows
        BY <2>1, <2>2, <2>3 DEF TypeInv, CallsOK, CallOK
      <3> QED BY <1>2, <2>1, <2>3, <3>1 DEF Return, ToldRows
    <2>4. CASE reply[h].status # "answered"
      BY <1>2, <2>1, <2>4 DEF Return, toldVars, ToldRows
    <2> QED BY <2>3, <2>4
  <1> QED
    BY <1>1, <1>2
    DEF Next, Step, vars, toldVars, Begin, LookupFirst, QueryUsed, ProbeOpens, ProbeFails,
     ProbeCloses, Exhausted, InsertCreates, InsertIgnored, InsertUntold, LookupAgainFinds,
     LookupAgainRetries, FailGet, Bind, Unbind, Restart

\* An account keeps its port and a port its account, for all clients and for
\* ever: what clients are told are rows, rows stay, and their columns are unique.
THEOREM PortsKept == Spec => []PortsAgree
  <1>1. Init => ToldRows
    BY DEF Init, ToldRows
  <1>2. TypeInv /\ ToldRows /\ [Next]_vars => ToldRows'
    BY ToldNext
  <1>3. TypeInv /\ ToldRows => PortsAgree
    BY DEF TypeInv, ToldRows, UniqueRows, PortsAgree
  <1> QED
    BY <1>1, <1>2, <1>3, TypeInit, TypeNext, PTL DEF Spec

\* A call that ended with a port found or stored the row it answers with.
LEMMA AnsweredRow ==
    ASSUME TypeInv, NEW h \in Callers, pc[h] = "done",
           reply[h].status = "answered" \/ reply[h].new
    PROVE  /\ account[h] \in Accounts
           /\ [account |-> account[h], port |-> reply[h].port] \in rows
           /\ Lookup(account[h]) # {}
  <1>1. \A why \in Refusals : Refusal(why).status # "answered" /\ Refusal(why).new = FALSE
    BY DEF Refusal, Refusals
  <1>2. CallOK(h)
    BY DEF TypeInv, CallsOK
  <1>3. account[h] \in Accounts
    BY <1>2 DEF CallOK
  <1>4. ~\E why \in Refusals : reply[h] = Refusal(why)
    BY <1>1
  <1>5. [account |-> account[h], port |-> reply[h].port] \in rows
    BY <1>2, <1>4 DEF CallOK
  <1>6. [account |-> account[h], port |-> reply[h].port].account = account[h]
    OBVIOUS
  <1>7. Lookup(account[h]) # {}
    BY <1>5, <1>6 DEF Lookup
  <1> QED
    BY <1>3, <1>5, <1>7

\* An account has been told a new port at most once, and has one if it was.
NewsOK ==
    \A a \in Accounts : news[a] \in {0, 1} /\ (news[a] # 0 => Lookup(a) # {})

\* A call about to claim a port is the only one that ever does for its account.
ClaimsOK ==
    /\ \A h \in Callers : pc[h] = "done" /\ reply[h].new => news[account[h]] = 0
    /\ \A g, h \in Callers :
          g # h /\ pc[g] = "done" /\ reply[g].new /\ pc[h] = "done" /\ reply[h].new =>
              account[g] # account[h]

\* No step but an insert makes a claim, no step but a return counts one.
LEMMA NewsFrame ==
    ASSUME [Next]_vars, NewsOK, ClaimsOK, news' = news,
           \A h \in Callers : pc'[h] = "done" /\ reply'[h].new =>
              pc[h] = "done" /\ reply[h].new /\ account'[h] = account[h]
    PROVE  NewsOK' /\ ClaimsOK'
  <1>1. \A a \in Accounts : Lookup(a) # {} => (Lookup(a) # {})'
    BY RowsGrow DEF Lookup
  <1>2. NewsOK'
    BY <1>1 DEF NewsOK
  <1>3. ClaimsOK'
    BY DEF ClaimsOK
  <1> QED
    BY <1>2, <1>3

\* A port that a client was told is new is claimed by no other call.
LEMMA NewsNext ==
    ASSUME TypeInv, NewsOK, ClaimsOK, [Next]_vars
    PROVE  NewsOK' /\ ClaimsOK'
  <1>1. /\ pc \in [Callers -> Places]
        /\ account \in [Callers -> Accounts \cup {None}]
        /\ reply \in [Callers -> Reply]
        /\ news \in [Accounts -> Nat]
    BY DEF TypeInv, TypeOK, Places, Reply
  <1>3. ASSUME NEW h \in Callers, InsertCreates(h)
        PROVE  NewsOK' /\ ClaimsOK'
    <2>1. pc[h] = "insert" /\ account[h] \in Accounts
      BY <1>3 DEF InsertCreates, TypeInv, CallsOK, CallOK
    <2>2. Lookup(account[h]) = {}
      BY <1>3 DEF InsertCreates, Conflicts, Lookup
    <2>3. news[account[h]] = 0
      BY <2>1, <2>2 DEF NewsOK
    <2>4. \A g \in Callers : pc[g] = "done" /\ reply[g].new => account[g] # account[h]
      <3> SUFFICES ASSUME NEW g \in Callers, pc[g] = "done", reply[g].new
                   PROVE  account[g] # account[h]
        OBVIOUS
      <3>1. Lookup(account[g]) # {}
        BY AnsweredRow
      <3> QED BY <3>1, <2>2
    <2>5. /\ news' = news /\ account' = account
          /\ \A g \in Callers \ {h} : pc'[g] = pc[g] /\ reply'[g] = reply[g]
      BY <1>1, <1>3 DEF InsertCreates, toldVars
    <2>6. \A a \in Accounts : Lookup(a) # {} => (Lookup(a) # {})'
      BY RowsGrow DEF Lookup
    <2>7. NewsOK'
      BY <2>5, <2>6 DEF NewsOK
    <2>8. ClaimsOK'
      BY <2>3, <2>4, <2>5 DEF ClaimsOK
    <2> QED BY <2>7, <2>8
  <1>4. ASSUME NEW h \in Callers, Return(h)
        PROVE  NewsOK' /\ ClaimsOK'
    <2>1. /\ rows' = rows /\ pc[h] = "done" /\ pc'[h] = "idle"
          /\ \A g \in Callers \ {h} : /\ pc'[g] = pc[g] /\ reply'[g] = reply[g]
                                      /\ account'[g] = account[g]
      BY <1>1, <1>4 DEF Return
    <2>2. CASE reply[h].status = "answered" /\ reply[h].new
      <3>1. account[h] \in Accounts /\ Lookup(account[h]) # {}
        BY <2>1, <2>2, AnsweredRow
      <3>2. news' = [news EXCEPT ![account[h]] = @ + 1]
        BY <1>4, <2>2 DEF Return
      <3>3. news[account[h]] = 0
        BY <2>1, <2>2 DEF ClaimsOK
      <3>4. news'[account[h]] = 1 /\ \A a \in Accounts \ {account[h]} : news'[a] = news[a]
        BY <1>1, <3>1, <3>2, <3>3
      <3>5. NewsOK'
        BY <2>1, <3>1, <3>4 DEF NewsOK, Lookup
      <3>6. \A g \in Callers \ {h} : pc[g] = "done" /\ reply[g].new => account[g] # account[h]
        BY <2>1, <2>2 DEF ClaimsOK
      <3>7. \A g \in Callers : pc[g] = "done" => account[g] \in Accounts
        BY DEF TypeInv, CallsOK, CallOK
      <3>8. ClaimsOK'
        BY <2>1, <3>4, <3>6, <3>7 DEF ClaimsOK
      <3> QED BY <3>5, <3>8
    <2>3. CASE ~(reply[h].status = "answered" /\ reply[h].new)
      <3>1. news' = news
        <4>1. CASE reply[h].status = "answered"
          <5>1. account[h] \in Accounts
            BY <2>1 DEF TypeInv, CallsOK, CallOK
          <5>2. news' = [news EXCEPT ![account[h]] = @]
            BY <1>4, <2>3, <4>1 DEF Return
          <5> QED BY <1>1, <5>1, <5>2
        <4> QED BY <1>4, <4>1 DEF Return, toldVars
      <3> QED BY <2>1, <3>1, NewsFrame
    <2> QED BY <2>2, <2>3
  <1>5. ASSUME NEW h \in Callers, \/ \E a \in Accounts : Begin(h, a)
                                  \/ Step(h) /\ ~InsertCreates(h) /\ ~Return(h)
        PROVE  NewsOK' /\ ClaimsOK'
    <2>1. news' = news
      BY <1>5 DEF Step, Begin, LookupFirst, QueryUsed, ProbeOpens, ProbeFails, ProbeCloses,
         Exhausted, InsertIgnored, InsertUntold, LookupAgainFinds, LookupAgainRetries, FailGet,
         toldVars
    <2>2. ASSUME NEW g \in Callers \ {h}
          PROVE  pc'[g] = pc[g] /\ reply'[g] = reply[g] /\ account'[g] = account[g]
      BY <1>1, <1>5 DEF Step, Begin, LookupFirst, QueryUsed, ProbeOpens, ProbeFails, ProbeCloses,
         Exhausted, InsertIgnored, InsertUntold, LookupAgainFinds, LookupAgainRetries, FailGet
    <2>3. pc'[h] = "done" => ~reply'[h].new
      BY <1>1, <1>5 DEF Step, Begin, LookupFirst, QueryUsed, ProbeOpens, ProbeFails, ProbeCloses,
         Exhausted, InsertIgnored, InsertUntold, LookupAgainFinds, LookupAgainRetries, FailGet,
         Refusal, Existing
    <2> QED BY <2>1, <2>2, <2>3, NewsFrame
  <1>6. CASE Restart
    BY <1>6, NewsFrame DEF Restart, toldVars
  <1>7. CASE (\E p \in BusyPorts : Bind(p) \/ Unbind(p)) \/ UNCHANGED vars
    BY <1>7, NewsFrame DEF Bind, Unbind, vars, callVars, toldVars
  <1> QED
    BY <1>3, <1>4, <1>5, <1>6, <1>7 DEF Next

\* At most one client is told that the port of an account is new.
THEOREM Claimed == Spec => []OneCreator
  <1>1. Init => NewsOK /\ ClaimsOK
    BY DEF Init, NewsOK, ClaimsOK
  <1>2. TypeInv /\ NewsOK /\ ClaimsOK /\ [Next]_vars => NewsOK' /\ ClaimsOK'
    BY NewsNext
  <1>3. NewsOK => OneCreator
    BY DEF NewsOK, OneCreator
  <1> QED
    BY <1>1, <1>2, <1>3, TypeInit, TypeNext, PTL DEF Spec

-----------------------------------------------------------------------------
(* The first port that is available. *)

Whys == {"stored", "bound", "probed"}
Spoiled(h, q) == \E why \in Whys : <<q, why>> \in unusable[h]

\* What stands in a port's way now has been noted by every call in flight.
KnownOK(h) ==
    pc[h] # "idle" => \A p \in Stored \cup bound \cup Probed(h) : Spoiled(h, p)

\* The ports a call has passed over were unusable while it ran.
ScanOK(h) ==
    /\ pc[h] = "scan" => \A q \in range.min..range.max : q \notin untried[h] => Spoiled(h, q)
    /\ pc[h] \in {"probing", "insert"} =>
          \A q \in range.min..range.max : q < chosen[h] => Spoiled(h, q)
    /\ pc[h] = "done" =>
          /\ reply[h].new => \A q \in range.min..range.max : q < reply[h].port => Spoiled(h, q)
          /\ reply[h].status = "exhausted" => \A q \in range.min..range.max : Spoiled(h, q)

ScanInv == \A h \in Callers : KnownOK(h) /\ ScanOK(h)

\* What a call that is not scanning, probing or storing has to say of the range.
LEMMA ScanIdle ==
    ASSUME NEW h \in Callers,
           pc[h] \notin {"scan", "probing", "insert"},
           pc[h] = "done" => ~reply[h].new /\ reply[h].status # "exhausted"
    PROVE  ScanOK(h)
  BY DEF ScanOK

\* A port that a step spoils is noted by the other calls in flight.
LEMMA SpoilGrows ==
    ASSUME NEW h, NEW p, NEW why \in Whys, Spoil(h, p, why), NEW c \in Callers
    PROVE  /\ unusable[c] \subseteq unusable'[c]
           /\ c # h /\ pc[c] # "idle" => <<p, why>> \in unusable'[c]
  BY DEF Spoil

\* What a call knows lasts while nothing new is in a port's way.
LEMMA KnownFrame ==
    ASSUME NEW g \in Callers, KnownOK(g), pc[g] # "idle" \/ pc'[g] = "idle",
           unusable[g] \subseteq unusable'[g],
           \A p \in (Stored \cup bound \cup Probed(g))' :
              p \in Stored \cup bound \cup Probed(g) \/ \E why \in Whys : <<p, why>> \in unusable'[g]
    PROVE  KnownOK(g)'
  BY DEF KnownOK, Spoiled

\* What a call has passed over remains so while others take steps.
LEMMA ScanFrame ==
    ASSUME NEW g \in Callers, ScanOK(g), range' = range, unusable[g] \subseteq unusable'[g],
           pc'[g] = pc[g], untried'[g] = untried[g], chosen'[g] = chosen[g], reply'[g] = reply[g]
    PROVE  ScanOK(g)'
  BY DEF ScanOK, Spoiled

\* Unless a call opens a listener, none is in anybody's way that was not before.
LEMMA ProbedFrame ==
    ASSUME NEW h \in Callers, NEW g, pc'[h] # "probing",
           \A c \in Callers \ {h} : pc'[c] = pc[c] /\ chosen'[c] = chosen[c]
    PROVE  Probed(g)' \subseteq Probed(g)
  BY DEF Probed

\* The calls that take no step keep what they know and have passed over.
LEMMA OthersKeep ==
    ASSUME ScanInv, NEW h \in Callers, pc'[h] # "probing",
           Stored' \subseteq Stored, bound' \subseteq bound, range' = range,
           \A c \in Callers \ {h} :
              /\ pc'[c] = pc[c] /\ untried'[c] = untried[c] /\ chosen'[c] = chosen[c]
              /\ reply'[c] = reply[c] /\ unusable'[c] = unusable[c]
    PROVE  \A g \in Callers \ {h} : KnownOK(g)' /\ ScanOK(g)'
  <1> SUFFICES ASSUME NEW g \in Callers \ {h} PROVE KnownOK(g)' /\ ScanOK(g)'
    OBVIOUS
  <1>1. Probed(g)' \subseteq Probed(g)
    BY ProbedFrame
  <1>2. KnownOK(g)'
    <2>1. KnownOK(g) /\ (pc[g] # "idle" \/ pc'[g] = "idle")
      BY DEF ScanInv, KnownOK
    <2> QED BY <1>1, <2>1, KnownFrame
  <1>3. ScanOK(g)'
    BY ScanFrame DEF ScanInv
  <1> QED
    BY <1>2, <1>3

\* Every step keeps what the calls know and what they have passed over.
LEMMA ScanNext ==
    ASSUME TypeInv, ScanInv, [Next]_vars
    PROVE  ScanInv'
  <1>1. /\ pc \in [Callers -> Places]
        /\ untried \in [Callers -> SUBSET Ports]
        /\ chosen \in [Callers -> Ports \cup {None}]
        /\ reply \in [Callers -> Reply]
        /\ unusable \in [Callers -> SUBSET (Ports \X Whys)]
    BY DEF TypeInv, TypeOK, Places, Reply, Whys
  <1>2. range.min \in Int /\ range.max \in Int /\ Ports \subseteq Int
    BY RangesAssumption, PortAssumption DEF TypeInv, TypeOK, Ports
  <1>3. \A why \in Refusals : Refusal(why).status = why /\ Refusal(why).new = FALSE
    BY DEF Refusal
  <1>4. ASSUME NEW h \in Callers, unusable' = unusable, rows' = rows, bound' = bound, range' = range,
               pc[h] # "idle", pc'[h] # "probing", ScanOK(h)',
               \A c \in Callers \ {h} : /\ pc'[c] = pc[c] /\ untried'[c] = untried[c]
                                        /\ chosen'[c] = chosen[c] /\ reply'[c] = reply[c]
        PROVE  ScanInv'
    <2>1. Stored' = Stored
      BY <1>4 DEF Stored
    <2>2. \A g \in Callers \ {h} : KnownOK(g)' /\ ScanOK(g)'
      BY <1>4, <2>1, OthersKeep
    <2>3. KnownOK(h)'
      <3>1. Probed(h)' \subseteq Probed(h)
        BY <1>4, ProbedFrame
      <3> QED BY <1>4, <2>1, <3>1, KnownFrame DEF ScanInv
    <2> QED BY <1>4, <2>2, <2>3 DEF ScanInv
  <1>5. ASSUME NEW h \in Callers, LookupFirst(h) \/ LookupAgainFinds(h)
        PROVE  ScanInv'
    <2>1. /\ unusable' = unusable /\ rows' = rows /\ bound' = bound /\ range' = range
          /\ pc[h] # "idle" /\ pc'[h] \in {"query", "done"}
          /\ \A c \in Callers \ {h} : /\ pc'[c] = pc[c] /\ untried'[c] = untried[c]
                                      /\ chosen'[c] = chosen[c] /\ reply'[c] = reply[c]
      BY <1>1, <1>5 DEF LookupFirst, LookupAgainFinds
    <2>2. pc'[h] = "done" => \E p : reply'[h] = Existing(p)
      <3>1. pc'[h] = "done" =>
              \E r \in Lookup(account[h]) : reply' = [reply EXCEPT ![h] = Existing(r.port)]
        BY <1>1, <1>5 DEF LookupFirst, LookupAgainFinds
      <3> QED BY <1>1, <3>1
    <2>3. \A p : Existing(p).new = FALSE /\ Existing(p).status = "answered"
      BY DEF Existing
    <2>4. ScanOK(h)'
      BY <2>1, <2>2, <2>3 DEF ScanOK
    <2> QED BY <1>4, <2>1, <2>4
  <1>6. ASSUME NEW h \in Callers, QueryUsed(h)
        PROVE  ScanInv'
    <2>1. ScanOK(h)'
      <3>1. /\ pc'[h] = "scan" /\ untried'[h] = (range.min..range.max) \ Stored
            /\ range' = range /\ unusable' = unusable
        BY <1>1, <1>6 DEF QueryUsed
      <3>2. \A q \in Stored : Spoiled(h, q)
        BY <1>6 DEF QueryUsed, ScanInv, KnownOK
      <3> QED BY <3>1, <3>2 DEF ScanOK, Spoiled
    <2> QED BY <1>1, <1>4, <1>6, <2>1 DEF QueryUsed
  <1>7. ASSUME NEW h \in Callers, ProbeFails(h)
        PROVE  ScanInv'
    <2>1. ScanOK(h)'
      <3>1. PICK p \in untried[h] : /\ ~Bindable(h, p)
                                    /\ untried' = [untried EXCEPT ![h] = @ \ {p}]
        BY <1>7 DEF ProbeFails
      <3>2. Spoiled(h, p)
        BY <1>7, <3>1 DEF ProbeFails, Bindable, ScanInv, KnownOK
      <3>3. \A q \in range.min..range.max : q \notin untried[h] => Spoiled(h, q)
        BY <1>7 DEF ProbeFails, ScanInv, ScanOK
      <3>4. pc'[h] = "scan" /\ range' = range /\ unusable' = unusable
        BY <1>7 DEF ProbeFails
      <3>5. untried'[h] = untried[h] \ {p}
        BY <1>1, <3>1
      <3> QED BY <3>2, <3>3, <3>4, <3>5 DEF ScanOK, Spoiled
    <2> QED BY <1>1, <1>4, <1>7, <2>1 DEF ProbeFails
  <1>8. ASSUME NEW h \in Callers, ProbeCloses(h)
        PROVE  ScanInv'
    <2>1. ScanOK(h)'
      BY <1>1, <1>8 DEF ProbeCloses, ScanInv, ScanOK, Spoiled
    <2> QED BY <1>1, <1>4, <1>8, <2>1 DEF ProbeCloses
  <1>9. ASSUME NEW h \in Callers, Exhausted(h)
        PROVE  ScanInv'
    <2>1. ScanOK(h)'
      <3>1. /\ pc'[h] = "done" /\ reply'[h] = Refusal("exhausted")
            /\ range' = range /\ unusable' = unusable
        BY <1>1, <1>9 DEF Exhausted
      <3>2. \A q \in range.min..range.max : Spoiled(h, q)
        BY <1>9 DEF Exhausted, ScanInv, ScanOK
      <3> QED BY <1>3, <3>1, <3>2 DEF ScanOK, Spoiled, Refusals
    <2> QED BY <1>1, <1>4, <1>9, <2>1 DEF Exhausted
  <1>10. ASSUME NEW h \in Callers, InsertIgnored(h) \/ LookupAgainRetries(h) \/ FailGet(h)
         PROVE  ScanInv'
    <2>1. /\ unusable' = unusable /\ rows' = rows /\ bound' = bound /\ range' = range
          /\ pc[h] # "idle" /\ pc'[h] \in {"relookup", "query", "done"}
          /\ \A c \in Callers \ {h} : /\ pc'[c] = pc[c] /\ untried'[c] = untried[c]
                                      /\ chosen'[c] = chosen[c] /\ reply'[c] = reply[c]
      BY <1>1, <1>10 DEF InsertIgnored, LookupAgainRetries, FailGet
    <2>2. pc'[h] = "done" => reply'[h] \in {Refusal("conflicted"), Refusal("failed")}
      BY <1>1, <1>10 DEF InsertIgnored, LookupAgainRetries, FailGet
    <2>3. ScanOK(h)'
      BY <1>3, <2>1, <2>2 DEF ScanOK, Refusals
    <2> QED BY <1>4, <2>1, <2>3
  <1>11. ASSUME NEW h \in Callers, ProbeOpens(h)
         PROVE  ScanInv'
    <2>1. PICK p \in untried[h] : /\ IsFirst(p, untried[h])
                                  /\ chosen' = [chosen EXCEPT ![h] = p]
                                  /\ Spoil(h, p, "probed")
      BY <1>11 DEF ProbeOpens
    <2>2. /\ rows' = rows /\ bound' = bound /\ range' = range /\ pc[h] = "scan" /\ pc'[h] = "probing"
          /\ chosen'[h] = p /\ p \in Ports
          /\ \A c \in Callers \ {h} : /\ pc'[c] = pc[c] /\ untried'[c] = untried[c]
                                      /\ chosen'[c] = chosen[c] /\ reply'[c] = reply[c]
      BY <1>1, <1>11, <2>1 DEF ProbeOpens
    <2>3. Stored' = Stored
      BY <2>2 DEF Stored
    <2>4. \A c \in Callers : /\ unusable[c] \subseteq unusable'[c]
                             /\ c # h /\ pc[c] # "idle" => <<p, "probed">> \in unusable'[c]
      BY <2>1, SpoilGrows DEF Whys
    <2>5. \A g \in Callers : Probed(g)' \subseteq Probed(g) \cup (IF g = h THEN {} ELSE {p})
      BY <2>2 DEF Probed
    <2>6. ASSUME NEW g \in Callers PROVE KnownOK(g)'
      <3>1. CASE pc[g] = "idle"
        BY <2>2, <3>1 DEF KnownOK
      <3>2. CASE pc[g] # "idle"
        <4>1. \A q \in (Stored \cup bound \cup Probed(g))' :
                \/ q \in Stored \cup bound \cup Probed(g)
                \/ \E why \in Whys : <<q, why>> \in unusable'[g]
          BY <2>2, <2>3, <2>4, <2>5, <3>2 DEF Whys
        <4> QED BY <2>4, <3>2, <4>1, KnownFrame DEF ScanInv
      <3> QED BY <3>1, <3>2
    <2>7. ScanOK(h)'
      <3>1. \A q \in range.min..range.max : q \notin untried[h] => Spoiled(h, q)
        BY <2>2 DEF ScanInv, ScanOK
      <3>2. \A q \in range.min..range.max : q < p => q \notin untried[h]
        BY <1>1, <1>2, <2>1, <2>2 DEF IsFirst
      <3>3. \A q \in range.min..range.max : q < p => Spoiled(h, q)'
        BY <2>4, <3>1, <3>2 DEF Spoiled
      <3> QED BY <2>2, <3>3 DEF ScanOK
    <2>8. ASSUME NEW g \in Callers \ {h} PROVE ScanOK(g)'
      BY <2>2, <2>4, ScanFrame DEF ScanInv
    <2> QED BY <2>6, <2>7, <2>8 DEF ScanInv
  <1>12. ASSUME NEW h \in Callers, InsertCreates(h) \/ InsertUntold(h)
         PROVE  ScanInv'
    <2>1. /\ rows' = rows \cup {[account |-> account[h], port |-> chosen[h]]}
          /\ Spoil(None, chosen[h], "stored")
          /\ bound' = bound /\ range' = range /\ pc[h] = "insert" /\ pc'[h] = "done"
          /\ reply'[h] \in {Allocated(chosen[h]), Refusal("failed")}
          /\ \A c \in Callers \ {h} : /\ pc'[c] = pc[c] /\ untried'[c] = untried[c]
                                      /\ chosen'[c] = chosen[c] /\ reply'[c] = reply[c]
      BY <1>1, <1>12 DEF InsertCreates, InsertUntold, AddRow
    <2>2. Stored' = Stored \cup {chosen[h]}
      <3>1. [account |-> account[h], port |-> chosen[h]].port = chosen[h]
        OBVIOUS
      <3> QED BY <2>1, <3>1 DEF Stored
    <2>3. \A c \in Callers : /\ unusable[c] \subseteq unusable'[c]
                             /\ pc[c] # "idle" => <<chosen[h], "stored">> \in unusable'[c]
      BY <2>1, SpoilGrows, NoneAssumption DEF Whys
    <2>4. ASSUME NEW g \in Callers PROVE KnownOK(g)'
      <3>1. CASE pc[g] = "idle"
        BY <2>1, <3>1 DEF KnownOK
      <3>2. CASE pc[g] # "idle"
        <4>1. Probed(g)' \subseteq Probed(g)
          BY <2>1, ProbedFrame
        <4>2. \A q \in (Stored \cup bound \cup Probed(g))' :
                \/ q \in Stored \cup bound \cup Probed(g)
                \/ \E why \in Whys : <<q, why>> \in unusable'[g]
          BY <2>1, <2>2, <2>3, <3>2, <4>1 DEF Whys
        <4> QED BY <2>3, <3>2, <4>2, KnownFrame DEF ScanInv
      <3> QED BY <3>1, <3>2
    <2>5. ScanOK(h)'
      <3>1. \A q \in range.min..range.max : q < chosen[h] => Spoiled(h, q)'
        BY <2>1, <2>3 DEF ScanInv, ScanOK, Spoiled
      <3>2. \A p : Allocated(p).port = p /\ Allocated(p).status = "answered"
        BY DEF Allocated
      <3> QED BY <1>3, <2>1, <3>1, <3>2 DEF ScanOK, Refusals
    <2>6. ASSUME NEW g \in Callers \ {h} PROVE ScanOK(g)'
      BY <2>1, <2>3, ScanFrame DEF ScanInv
    <2> QED BY <2>4, <2>5, <2>6 DEF ScanInv
  <1>13. ASSUME NEW h \in Callers, NEW a \in Accounts, Begin(h, a)
         PROVE  ScanInv'
    <2>1. /\ rows' = rows /\ bound' = bound /\ range' = range /\ pc[h] = "idle"
          /\ pc'[h] \in {"done", "lookup"}
          /\ pc'[h] = "done" => reply'[h] = Refusal("failed")
          /\ unusable'[h] = {<<p, "stored">> : p \in Stored} \cup {<<p, "bound">> : p \in bound}
                              \cup {<<p, "probed">> : p \in Probed(h)}
          /\ \A c \in Callers \ {h} : /\ pc'[c] = pc[c] /\ untried'[c] = untried[c]
                                      /\ chosen'[c] = chosen[c] /\ reply'[c] = reply[c]
                                      /\ unusable'[c] = unusable[c]
      BY <1>1, <1>13 DEF Begin
    <2>2. Stored' = Stored
      BY <2>1 DEF Stored
    <2>3. \A g \in Callers \ {h} : KnownOK(g)' /\ ScanOK(g)'
      BY <2>1, <2>2, OthersKeep
    <2>4. KnownOK(h)'
      <3>1. Probed(h)' \subseteq Probed(h)
        BY <2>1, ProbedFrame
      <3> QED BY <2>1, <2>2, <3>1 DEF KnownOK, Spoiled, Whys
    <2>5. ScanOK(h)'
      BY <1>3, <2>1 DEF ScanOK, Refusals
    <2> QED BY <2>3, <2>4, <2>5 DEF ScanInv
  <1>14. ASSUME NEW h \in Callers, Return(h)
         PROVE  ScanInv'
    <2>1. /\ rows' = rows /\ bound' = bound /\ range' = range /\ pc'[h] = "idle"
          /\ \A c \in Callers \ {h} : /\ pc'[c] = pc[c] /\ untried'[c] = untried[c]
                                      /\ chosen'[c] = chosen[c] /\ reply'[c] = reply[c]
                                      /\ unusable'[c] = unusable[c]
      BY <1>1, <1>14 DEF Return
    <2>2. Stored' = Stored
      BY <2>1 DEF Stored
    <2>3. \A g \in Callers \ {h} : KnownOK(g)' /\ ScanOK(g)'
      BY <2>1, <2>2, OthersKeep
    <2>4. KnownOK(h)' /\ ScanOK(h)'
      BY <2>1 DEF KnownOK, ScanOK
    <2> QED BY <2>3, <2>4 DEF ScanInv
  <1>15. ASSUME NEW p \in BusyPorts, Bind(p) \/ Unbind(p)
         PROVE  ScanInv'
    <2>1. /\ rows' = rows /\ pc' = pc /\ chosen' = chosen /\ untried' = untried /\ reply' = reply
          /\ range' = range
          /\ \/ bound' = bound \cup {p} /\ Spoil(None, p, "bound")
             \/ bound' \subseteq bound /\ unusable' = unusable
      BY <1>15 DEF Bind, Unbind, callVars
    <2>2. \A c \in Callers : unusable[c] \subseteq unusable'[c]
      BY <2>1, SpoilGrows DEF Whys
    <2>3. \A c \in Callers : pc[c] # "idle" =>
             \A q \in bound' : q \in bound \/ <<q, "bound">> \in unusable'[c]
      <3>1. CASE bound' \subseteq bound
        BY <3>1
      <3>2. CASE bound' = bound \cup {p} /\ Spoil(None, p, "bound")
        <4>1. \A c \in Callers : c # None
          BY NoneAssumption
        <4>2. \A c \in Callers : pc[c] # "idle" => <<p, "bound">> \in unusable'[c]
          BY <3>2, <4>1, SpoilGrows DEF Whys
        <4> QED BY <3>2, <4>2
      <3> QED BY <2>1, <3>1, <3>2
    <2>4. ASSUME NEW g \in Callers PROVE KnownOK(g)'
      <3>1. CASE pc[g] = "idle"
        BY <2>1, <3>1 DEF KnownOK
      <3>2. CASE pc[g] # "idle"
        <4>1. Probed(g)' = Probed(g) /\ Stored' = Stored
          BY <2>1 DEF Probed, Stored
        <4>2. \A q \in (Stored \cup bound \cup Probed(g))' :
                \/ q \in Stored \cup bound \cup Probed(g)
                \/ \E why \in Whys : <<q, why>> \in unusable'[g]
          BY <2>3, <3>2, <4>1 DEF Whys
        <4> QED BY <2>2, <3>2, <4>2, KnownFrame DEF ScanInv
      <3> QED BY <3>1, <3>2
    <2>5. ASSUME NEW g \in Callers PROVE ScanOK(g)'
      BY <2>1, <2>2, ScanFrame DEF ScanInv
    <2> QED BY <2>4, <2>5 DEF ScanInv
  <1>16. CASE Restart
    BY <1>16 DEF Restart, ScanInv, KnownOK, ScanOK
  <1>17. CASE UNCHANGED vars
    BY <1>17 DEF vars, callVars, ScanInv, KnownOK, ScanOK, Spoiled, Stored, Probed
  <1> QED
    BY <1>5, <1>6, <1>7, <1>8, <1>9, <1>10, <1>11, <1>12, <1>13, <1>14, <1>15, <1>16, <1>17
    DEF Next, Step

\* A new port is the first one of the range that the call could have taken, and
\* a range is exhausted only if each of its ports was in use during the call.
THEOREM FirstPort == Spec => []FirstAvailable
  <1>1. Init => ScanInv
    BY DEF Init, ScanInv, KnownOK, ScanOK
  <1>2. TypeInv /\ ScanInv /\ [Next]_vars => ScanInv'
    BY ScanNext
  <1>3. TypeInv /\ ScanInv => FirstAvailable
    <2> SUFFICES ASSUME TypeInv, ScanInv, NEW h \in Callers, pc[h] = "done",
                        NEW q \in range.min..range.max, ~Spoiled(h, q)
                 PROVE  /\ reply[h].new => q >= reply[h].port
                        /\ reply[h].status # "exhausted"
      BY DEF FirstAvailable, Spoiled, Whys
    <2>1. reply[h].new => ~(q < reply[h].port)
      BY DEF ScanInv, ScanOK
    <2>2. reply[h].status # "exhausted"
      BY DEF ScanInv, ScanOK
    <2>3. reply[h].new => reply[h].port \in Ports
      <3>1. reply[h].new => [account |-> account[h], port |-> reply[h].port] \in rows
        BY AnsweredRow
      <3> QED BY <3>1 DEF TypeInv, TypeOK
    <2>4. q \in Int /\ Ports \subseteq Int
      BY PortAssumption DEF Ports
    <2>5. ASSUME reply[h].new PROVE q >= reply[h].port
      <3> DEFINE p == reply[h].port
      <3>1. p \in Int /\ q \in Int /\ ~(q < p)
        BY <2>1, <2>3, <2>4, <2>5
      <3> HIDE DEF p
      <3>2. q >= p
        BY <3>1
      <3> QED BY <3>2 DEF p
    <2> QED BY <2>2, <2>5
  <1> QED
    BY <1>1, <1>2, <1>3, TypeInit, TypeNext, PTL DEF Spec

-----------------------------------------------------------------------------
(* Collisions. *)

\* The rows a scan does not collide with, and those an insert does not.
Passed(h) == {r \in rows : r.port \notin untried[h]}
Apart(h) == {r \in rows : r.port # chosen[h]}

\* Each collision of a call is with a row that was not there when it scanned.
GrewOK(h) ==
    LET Past == before[h] + attempt[h]
    IN  /\ pc[h] \in {"lookup", "query"} => Cardinality(rows) >= Past
        /\ pc[h] = "scan" => Cardinality(Passed(h)) >= Past
        /\ pc[h] \in {"probing", "insert"} => Cardinality(Apart(h)) >= Past
        /\ pc[h] = "relookup" /\ Lookup(account[h]) = {} => Cardinality(rows) >= Past + 1
        /\ reply[h].status = "conflicted" => Cardinality(rows) >= before[h] + 3

\* Finite sets are ordered by their cardinality.
LEMMA Larger ==
    ASSUME NEW T, IsFiniteSet(T), NEW S, S \subseteq T, NEW n \in Nat, Cardinality(S) >= n
    PROVE  Cardinality(T) >= n
  <1>1. IsFiniteSet(S) /\ Cardinality(S) =< Cardinality(T)
    BY FS_Subset
  <1>2. Cardinality(S) \in Nat /\ Cardinality(T) \in Nat
    BY <1>1, FS_CardinalityType
  <1> QED
    BY <1>1, <1>2

\* A subset that lacks an element is smaller.
LEMMA Smaller ==
    ASSUME NEW T, IsFiniteSet(T), NEW S, S \subseteq T, NEW x \in T, x \notin S,
           NEW n \in Nat, Cardinality(S) >= n
    PROVE  Cardinality(T) >= n + 1
  <1>1. IsFiniteSet(S) /\ Cardinality(S) =< Cardinality(T)
        /\ (Cardinality(S) = Cardinality(T) => S = T)
    BY FS_Subset
  <1>2. Cardinality(S) \in Nat /\ Cardinality(T) \in Nat
    BY <1>1, FS_CardinalityType
  <1>3. Cardinality(S) # Cardinality(T)
    BY <1>1
  <1> QED
    BY <1>1, <1>2, <1>3

\* A call that takes no step keeps its count while rows are added.
LEMMA GrewFrame ==
    ASSUME TypeInv, TypeInv', rows \subseteq rows', NEW g \in Callers, GrewOK(g),
           pc'[g] = pc[g], account'[g] = account[g], untried'[g] = untried[g],
           chosen'[g] = chosen[g], attempt'[g] = attempt[g], reply'[g] = reply[g],
           before'[g] = before[g]
    PROVE  GrewOK(g)'
  <1> DEFINE Past == before[g] + attempt[g]
  <1>1. before[g] \in Nat /\ attempt[g] \in Nat
    BY DEF TypeInv, TypeOK, MaxAttempts
  <1>2. Past \in Nat /\ Past + 1 \in Nat /\ before[g] + 3 \in Nat /\ Past' = Past
    BY <1>1
  <1>3. IsFiniteSet(rows')
    BY DEF TypeInv
  <1>4. \A n \in Nat : Cardinality(rows) >= n => Cardinality(rows') >= n
    BY <1>3, Larger
  <1>5. \A n \in Nat : Cardinality(Passed(g)) >= n => Cardinality(Passed(g)') >= n
    <2>1. Passed(g) \subseteq Passed(g)' /\ Passed(g)' \subseteq rows'
      BY DEF Passed
    <2>2. IsFiniteSet(Passed(g)')
      BY <1>3, <2>1, FS_Subset
    <2> QED BY <2>1, <2>2, Larger
  <1>6. \A n \in Nat : Cardinality(Apart(g)) >= n => Cardinality(Apart(g)') >= n
    <2>1. Apart(g) \subseteq Apart(g)' /\ Apart(g)' \subseteq rows'
      BY DEF Apart
    <2>2. IsFiniteSet(Apart(g)')
      BY <1>3, <2>1, FS_Subset
    <2> QED BY <2>1, <2>2, Larger
  <1>7. Lookup(account[g])' = {} => Lookup(account[g]) = {}
    <2>1. Lookup(account[g])' = {r \in rows' : r.account = account[g]}
      BY DEF Lookup
    <2>2. Lookup(account[g]) \subseteq Lookup(account[g])'
      BY <2>1 DEF Lookup
    <2> QED BY <2>2
  <1> HIDE DEF Past
  <1>8. /\ pc[g] \in {"lookup", "query"} => Cardinality(rows) >= Past
        /\ pc[g] = "scan" => Cardinality(Passed(g)) >= Past
        /\ pc[g] \in {"probing", "insert"} => Cardinality(Apart(g)) >= Past
        /\ pc[g] = "relookup" /\ Lookup(account[g]) = {} => Cardinality(rows) >= Past + 1
        /\ reply[g].status = "conflicted" => Cardinality(rows) >= before[g] + 3
    BY DEF GrewOK, Past
  <1>9. /\ pc'[g] \in {"lookup", "query"} => Cardinality(rows') >= Past
        /\ pc'[g] = "scan" => Cardinality(Passed(g)') >= Past
        /\ pc'[g] \in {"probing", "insert"} => Cardinality(Apart(g)') >= Past
        /\ pc'[g] = "relookup" /\ Lookup(account[g])' = {} => Cardinality(rows') >= Past + 1
        /\ reply'[g].status = "conflicted" => Cardinality(rows') >= before'[g] + 3
    BY <1>2, <1>4, <1>5, <1>6, <1>7, <1>8
  <1>10. Past = before'[g] + attempt'[g]
    BY DEF Past
  <1> QED
    BY <1>9, <1>10 DEF GrewOK

\* Every step keeps the count of the collisions.
LEMMA GrewNext ==
    ASSUME TypeInv, TypeInv', \A h \in Callers : GrewOK(h), [Next]_vars
    PROVE  \A h \in Callers : GrewOK(h)'
  <1> DEFINE Quiet(h) == \A g \in Callers \ {h} :
              /\ pc'[g] = pc[g] /\ account'[g] = account[g] /\ untried'[g] = untried[g]
              /\ chosen'[g] = chosen[g] /\ attempt'[g] = attempt[g] /\ reply'[g] = reply[g]
              /\ before'[g] = before[g]
  <1>1. /\ pc \in [Callers -> Places]
        /\ account \in [Callers -> Accounts \cup {None}]
        /\ untried \in [Callers -> SUBSET Ports]
        /\ chosen \in [Callers -> Ports \cup {None}]
        /\ attempt \in [Callers -> 0..MaxAttempts]
        /\ reply \in [Callers -> Reply]
        /\ before \in [Callers -> Nat]
    BY DEF TypeInv, TypeOK, Places, Reply
  <1>2. \A h \in Callers : before[h] \in Nat /\ attempt[h] \in Nat /\ before[h] + attempt[h] \in Nat
    BY <1>1 DEF MaxAttempts
  <1>3. IsFiniteSet(rows) /\ Cardinality(rows) \in Nat
    BY FS_CardinalityType DEF TypeInv
  <1>4. \A why \in Refusals : Refusal(why).status = why
    BY DEF Refusal
  <1>5. ASSUME NEW h \in Callers, Quiet(h), GrewOK(h)'
        PROVE  \A g \in Callers : GrewOK(g)'
    BY <1>5, RowsGrow, GrewFrame
  <1>6. ASSUME NEW h \in Callers, pc[h] \in Busy
        PROVE  reply[h].status = "none"
    <2>1. reply[h] = NoReply
      BY <1>6 DEF TypeInv, CallsOK, CallOK
    <2> QED BY <2>1 DEF NoReply
  <1>7. ASSUME NEW h \in Callers, NEW a \in Accounts, Begin(h, a) PROVE GrewOK(h)'
    <2>1. /\ before'[h] = Cardinality(rows) /\ attempt'[h] = attempt[h] /\ attempt[h] = 0
          /\ rows' = rows /\ reply[h] = NoReply
      BY <1>1, <1>7 DEF Begin, TypeInv, CallsOK, CallOK
    <2>2. /\ pc'[h] \in {"lookup", "done"}
          /\ reply'[h] = NoReply \/ reply'[h] = Refusal("failed")
      BY <1>1, <1>7, <2>1 DEF Begin
    <2>3. reply'[h].status # "conflicted"
      BY <2>2 DEF NoReply, Refusal
    <2> QED BY <1>3, <2>1, <2>2, <2>3 DEF GrewOK
  <1>8. ASSUME NEW h \in Callers, LookupFirst(h) PROVE GrewOK(h)'
    <2>1. CASE Lookup(account[h]) = {}
      <3>1. /\ pc[h] = "lookup" /\ pc'[h] = "query" /\ rows' = rows /\ reply' = reply
            /\ before' = before /\ attempt' = attempt
        BY <1>1, <1>8, <2>1 DEF LookupFirst
      <3> QED BY <1>6, <3>1 DEF GrewOK, Busy
    <2>2. CASE Lookup(account[h]) # {}
      <3>1. pc'[h] = "done" /\ \E r \in Lookup(account[h]) : reply'[h] = Existing(r.port)
        BY <1>1, <1>8, <2>2 DEF LookupFirst
      <3>2. reply'[h].status # "conflicted"
        BY <3>1 DEF Existing
      <3> QED BY <3>1, <3>2 DEF GrewOK
    <2> QED BY <2>1, <2>2
  <1>9. ASSUME NEW h \in Callers, QueryUsed(h) PROVE GrewOK(h)'
    <2>1. /\ pc[h] = "query" /\ pc'[h] = "scan" /\ rows' = rows /\ reply' = reply
          /\ before' = before /\ attempt' = attempt
          /\ untried'[h] = (range.min..range.max) \ Stored
      BY <1>1, <1>9 DEF QueryUsed
    <2>2. \A r \in rows : r.port \in Stored
      BY DEF Stored
    <2>3. Passed(h)' = rows
      BY <2>1, <2>2 DEF Passed
    <2> QED BY <1>6, <2>1, <2>3 DEF GrewOK, Busy
  <1>10. ASSUME NEW h \in Callers, ProbeOpens(h) PROVE GrewOK(h)'
    <2>1. PICK p \in untried[h] : chosen' = [chosen EXCEPT ![h] = p]
      BY <1>10 DEF ProbeOpens
    <2>2. /\ pc[h] = "scan" /\ pc'[h] = "probing" /\ rows' = rows /\ reply' = reply
          /\ before' = before /\ attempt' = attempt /\ chosen'[h] = p
      BY <1>1, <1>10, <2>1 DEF ProbeOpens
    <2>3. Passed(h) \subseteq Apart(h)' /\ Apart(h)' \subseteq rows
      BY <2>1, <2>2 DEF Passed, Apart
    <2>4. IsFiniteSet(Apart(h)')
      BY <1>3, <2>3, FS_Subset
    <2>5. Cardinality(Passed(h)) >= before[h] + attempt[h]
      BY <2>2 DEF GrewOK
    <2>6. Cardinality(Apart(h)') >= before[h] + attempt[h]
      BY <1>2, <2>3, <2>4, <2>5, Larger
    <2> QED BY <1>6, <2>2, <2>6 DEF GrewOK, Busy
  <1>11. ASSUME NEW h \in Callers, ProbeFails(h) PROVE GrewOK(h)'
    <2>1. /\ pc[h] = "scan" /\ pc'[h] = "scan" /\ rows' = rows /\ reply' = reply
          /\ before' = before /\ attempt' = attempt /\ untried'[h] \subseteq untried[h]
      BY <1>1, <1>11 DEF ProbeFails
    <2>2. Passed(h) \subseteq Passed(h)' /\ Passed(h)' \subseteq rows
      BY <2>1 DEF Passed
    <2>3. IsFiniteSet(Passed(h)')
      BY <1>3, <2>2, FS_Subset
    <2>4. Cardinality(Passed(h)) >= before[h] + attempt[h]
      BY <2>1 DEF GrewOK
    <2>5. Cardinality(Passed(h)') >= before[h] + attempt[h]
      BY <1>2, <2>2, <2>3, <2>4, Larger
    <2> QED BY <1>6, <2>1, <2>5 DEF GrewOK, Busy
  <1>12. ASSUME NEW h \in Callers, ProbeCloses(h) PROVE GrewOK(h)'
    <2>1. /\ pc[h] = "probing" /\ pc'[h] = "insert" /\ rows' = rows /\ reply' = reply
          /\ before' = before /\ attempt' = attempt /\ chosen' = chosen
      BY <1>1, <1>12 DEF ProbeCloses
    <2>2. Apart(h)' = Apart(h)
      BY <2>1 DEF Apart
    <2> QED BY <1>6, <2>1, <2>2 DEF GrewOK, Busy
  <1>13. ASSUME NEW h \in Callers, \/ Exhausted(h) \/ InsertCreates(h) \/ InsertUntold(h)
                                   \/ LookupAgainFinds(h) \/ FailGet(h)
         PROVE  GrewOK(h)'
    <2>1. /\ pc'[h] = "done"
          /\ \/ \E p : reply'[h] = Allocated(p) \/ reply'[h] = Existing(p)
             \/ reply'[h] = Refusal("exhausted") \/ reply'[h] = Refusal("failed")
      BY <1>1, <1>13 DEF Exhausted, InsertCreates, InsertUntold, LookupAgainFinds, FailGet
    <2>2. reply'[h].status # "conflicted"
      <3>1. /\ \A p : Allocated(p).status = "answered" /\ Existing(p).status = "answered"
            /\ Refusal("exhausted").status = "exhausted" /\ Refusal("failed").status = "failed"
        BY DEF Allocated, Existing, Refusal
      <3> QED BY <2>1, <3>1
    <2> QED BY <2>1, <2>2 DEF GrewOK
  <1>14. ASSUME NEW h \in Callers, InsertIgnored(h) PROVE GrewOK(h)'
    <2>1. /\ pc[h] = "insert" /\ pc'[h] = "relookup" /\ rows' = rows /\ reply' = reply
          /\ before' = before /\ attempt' = attempt /\ account' = account
          /\ Conflicts(account[h], chosen[h]) # {}
      BY <1>1, <1>14 DEF InsertIgnored
    <2>2. ASSUME Lookup(account[h]) = {}
          PROVE  Cardinality(rows) >= before[h] + attempt[h] + 1
      <3>1. PICK r \in rows : r.port = chosen[h]
        BY <2>1, <2>2 DEF Conflicts, Lookup
      <3>2. Apart(h) \subseteq rows /\ r \notin Apart(h)
        BY <3>1 DEF Apart
      <3>3. Cardinality(Apart(h)) >= before[h] + attempt[h]
        BY <2>1 DEF GrewOK
      <3> QED BY <1>2, <1>3, <3>2, <3>3, Smaller
    <2>3. Lookup(account[h])' = Lookup(account[h])
      BY <2>1 DEF Lookup
    <2> QED BY <1>6, <2>1, <2>2, <2>3 DEF GrewOK, Busy
  <1>15. ASSUME NEW h \in Callers, LookupAgainRetries(h) PROVE GrewOK(h)'
    <2>1. /\ pc[h] = "relookup" /\ Lookup(account[h]) = {} /\ rows' = rows /\ before' = before
          /\ attempt'[h] = attempt[h] + 1
          /\ \/ pc'[h] = "query" /\ reply' = reply
             \/ ~(attempt[h] + 1 < MaxAttempts) /\ pc'[h] = "done"
      BY <1>1, <1>15 DEF LookupAgainRetries
    <2>2. Cardinality(rows) >= before[h] + attempt[h] + 1
      BY <2>1 DEF GrewOK
    <2>3. reply'[h].status = "conflicted" => Cardinality(rows) >= before[h] + 3
      <3>1. CASE pc'[h] = "query" /\ reply' = reply
        BY <1>6, <2>1, <3>1 DEF Busy
      <3>2. CASE ~(attempt[h] + 1 < MaxAttempts)
        BY <1>2, <1>3, <2>2, <3>2 DEF MaxAttempts
      <3> QED BY <2>1, <3>1, <3>2
    <2>4. before[h] + (attempt[h] + 1) = before[h] + attempt[h] + 1
      BY <1>2
    <2> QED BY <2>1, <2>2, <2>3, <2>4 DEF GrewOK
  <1>16. ASSUME NEW h \in Callers, Return(h) PROVE GrewOK(h)'
    <2>1. pc'[h] = "idle" /\ reply'[h] = NoReply
      BY <1>1, <1>16 DEF Return
    <2> QED BY <2>1 DEF GrewOK, NoReply
  <1>17. ASSUME NEW h \in Callers, (\E a \in Accounts : Begin(h, a)) \/ Step(h) PROVE Quiet(h)
    BY <1>1, <1>17 DEF Step, Begin, LookupFirst, QueryUsed, ProbeOpens, ProbeFails, ProbeCloses,
       Exhausted, InsertCreates, InsertIgnored, InsertUntold, LookupAgainFinds,
       LookupAgainRetries, FailGet, Return
  <1>18. ASSUME NEW h \in Callers, (\E a \in Accounts : Begin(h, a)) \/ Step(h)
         PROVE  GrewOK(h)'
    BY <1>7, <1>8, <1>9, <1>10, <1>11, <1>12, <1>13, <1>14, <1>15, <1>16, <1>18 DEF Step
  <1>19. CASE Restart
    BY <1>19 DEF Restart, GrewOK, NoReply
  <1>20. CASE (\E p \in BusyPorts : Bind(p) \/ Unbind(p)) \/ UNCHANGED vars
    <2>1. /\ rows' = rows /\ pc' = pc /\ account' = account /\ untried' = untried
          /\ chosen' = chosen /\ attempt' = attempt /\ reply' = reply /\ before' = before
      BY <1>20 DEF Bind, Unbind, vars, callVars
    <2> QED BY <2>1, GrewFrame
  <1> QED
    BY <1>5, <1>17, <1>18, <1>19, <1>20 DEF Next

\* A call that gave up lost three ports to others while it ran: each retry leaves
\* the row it collided with behind.
THEOREM NoFalseConflict == Spec => []ConflictedByOthers
  <1> DEFINE Grew == \A h \in Callers : GrewOK(h)
  <1>1. Init => Grew
    BY DEF Init, GrewOK, NoReply
  <1>2. TypeInv /\ TypeInv' /\ Grew /\ [Next]_vars => Grew'
    BY GrewNext
  <1>3. Grew => ConflictedByOthers
    BY DEF GrewOK, ConflictedByOthers
  <1> HIDE DEF Grew
  <1> QED
    BY <1>1, <1>2, <1>3, TypeInit, TypeNext, PTL DEF Spec

-----------------------------------------------------------------------------
(* The get-or-create store. *)

\* The abstract store of a table, and the abstract call of a NetworkPortGet.
StoreOf(table) ==
    [a \in Accounts \ BlankAccounts |->
        IF {r \in table : r.account = a} = {} THEN None
        ELSE (CHOOSE r \in {s \in table : s.account = a} : TRUE).port]

CallOf(at, a, r) ==
    [phase |-> CASE at = "idle" -> "idle"
                 [] at = "done" -> IF r.status = "answered" THEN "answered" ELSE "failed"
                 [] OTHER -> "pending",
     key |-> IF at = "done" /\ r.status # "answered" THEN None ELSE a,
     value |-> r.port,
     new |-> r.new]

\* The refinement mapping, written as functions of the state it maps.
LEMMA Bars ==
    ASSUME TRUE
    PROVE  /\ storeBar = StoreOf(rows) /\ storeBar' = StoreOf(rows')
           /\ callBar = [h \in Callers |-> CallOf(pc[h], account[h], reply[h])]
           /\ callBar' = [h \in Callers |-> CallOf(pc'[h], account'[h], reply'[h])]
  BY DEF storeBar, StoreOf, Lookup, callBar, CallOf

\* The abstract state of a call without an answer.
LEMMA CallCases ==
    ASSUME NEW a
    PROVE  /\ CallOf("idle", None, NoReply) = Abstract!Idle
           /\ \A at \in Busy : CallOf(at, a, NoReply) = Abstract!Pending(a)
           /\ \A why \in Refusals : CallOf("done", a, Refusal(why)) = Abstract!Failed
  <1>1. CallOf("idle", None, NoReply) = Abstract!Idle
    BY DEF CallOf, NoReply, Abstract!Idle
  <1>2. \A at \in Busy : CallOf(at, a, NoReply) = Abstract!Pending(a)
    BY DEF CallOf, NoReply, Busy, Abstract!Pending
  <1>3. \A why \in Refusals : CallOf("done", a, Refusal(why)) = Abstract!Failed
    BY DEF CallOf, Refusal, Refusals, Abstract!Failed
  <1> QED
    BY <1>1, <1>2, <1>3

\* The abstract state of a call with one.
LEMMA AnsweredCall ==
    ASSUME NEW a, NEW p
    PROVE  /\ CallOf("done", a, Existing(p)) = Abstract!Answered(a, p, FALSE)
           /\ CallOf("done", a, Allocated(p)) = Abstract!Answered(a, p, TRUE)
  <1>1. CallOf("done", a, Existing(p)) = Abstract!Answered(a, p, FALSE)
    BY DEF CallOf, Existing, Abstract!Answered
  <1>2. CallOf("done", a, Allocated(p)) = Abstract!Answered(a, p, TRUE)
    BY DEF CallOf, Allocated, Abstract!Answered
  <1> QED
    BY <1>1, <1>2

\* A table whose accounts are unique gives each account the port of its row.
LEMMA StoreCases ==
    ASSUME NEW table,
           \A r, s \in table : r.account = s.account => r = s
    PROVE  /\ \A r \in table :
                r.account \in Accounts \ BlankAccounts => StoreOf(table)[r.account] = r.port
           /\ \A a \in Accounts \ BlankAccounts :
                (\A r \in table : r.account # a) => StoreOf(table)[a] = None
  <1>1. ASSUME NEW r \in table, r.account \in Accounts \ BlankAccounts
        PROVE  StoreOf(table)[r.account] = r.port
    <2> DEFINE S == {s \in table : s.account = r.account}
    <2>1. S = {r}
      OBVIOUS
    <2>2. (CHOOSE s \in S : TRUE) = r
      BY <2>1
    <2> QED BY <1>1, <2>1, <2>2 DEF StoreOf
  <1>2. ASSUME NEW a \in Accounts \ BlankAccounts, \A r \in table : r.account # a
        PROVE  StoreOf(table)[a] = None
    BY <1>2 DEF StoreOf
  <1> QED
    BY <1>1, <1>2

\* A step of one call changes the abstract call of that call only.
LEMMA OneCall ==
    ASSUME NEW h \in Callers,
           \A g \in Callers \ {h} : /\ pc'[g] = pc[g] /\ account'[g] = account[g]
                                    /\ reply'[g] = reply[g]
    PROVE  callBar' = [callBar EXCEPT ![h] = CallOf(pc'[h], account'[h], reply'[h])]
  BY Bars

\* An insert gives its account an available port in the abstract store.
LEMMA StoreAdds ==
    ASSUME TypeInv, NEW h \in Callers, pc[h] = "insert",
           Conflicts(account[h], chosen[h]) = {}, AddRow(h)
    PROVE  /\ storeBar[account[h]] = None
           /\ chosen[h] \in Abstract!Available
           /\ storeBar' = [storeBar EXCEPT ![account[h]] = chosen[h]]
  <1> DEFINE a == account[h]
             p == chosen[h]
             row == [account |-> a, port |-> p]
             Keys == Accounts \ BlankAccounts
  <1>1. /\ a \in Keys /\ p \in Ports /\ rows' = rows \cup {row} /\ UniqueRows'
    BY RowAdded
  <1>2. \A r \in rows : r.account # a /\ r.port # p
    BY DEF Conflicts
  <1>3. /\ \A r, s \in rows : r.account = s.account => r = s
        /\ \A r, s \in rows' : r.account = s.account => r = s
    BY <1>1 DEF TypeInv, UniqueRows
  <1>4. row.account = a /\ row.port = p
    OBVIOUS
  <1> HIDE DEF a, p, row
  <1>5. storeBar[a] = None
    BY <1>1, <1>2, <1>3, StoreCases, Bars
  <1>6. ASSUME NEW k \in Keys PROVE storeBar[k] # p
    <2>1. CASE \A r \in rows : r.account # k
      <3>1. storeBar[k] = None
        BY <1>3, <2>1, StoreCases, Bars
      <3> QED BY <1>1, <3>1, NoneAssumption
    <2>2. ASSUME NEW r \in rows, r.account = k PROVE storeBar[k] # p
      <3>1. storeBar[k] = r.port
        BY <1>3, <2>2, StoreCases, Bars
      <3> QED BY <1>2, <3>1
    <2> QED BY <2>1, <2>2
  <1>7. p \in Abstract!Available
    BY <1>1, <1>6 DEF Abstract!Available
  <1>8. storeBar'[a] = p
    <2>1. row \in rows'
      BY <1>1
    <2> QED BY <1>1, <1>3, <1>4, <2>1, StoreCases, Bars
  <1>9. ASSUME NEW k \in Keys, k # a PROVE storeBar'[k] = storeBar[k]
    <2>1. CASE \A r \in rows : r.account # k
      <3>1. \A r \in rows' : r.account # k
        BY <1>1, <1>4, <1>9, <2>1
      <3> QED BY <1>3, <2>1, <3>1, StoreCases, Bars
    <2>2. ASSUME NEW r \in rows, r.account = k PROVE storeBar'[k] = storeBar[k]
      <3>1. r \in rows'
        BY <1>1
      <3>2. storeBar'[k] = r.port
        BY <1>3, <2>2, <3>1, StoreCases, Bars
      <3>3. storeBar[k] = r.port
        BY <1>3, <2>2, StoreCases, Bars
      <3> QED BY <3>2, <3>3
    <2> QED BY <2>1, <2>2
  <1>10. storeBar' = [k \in Keys |-> storeBar'[k]] /\ storeBar = [k \in Keys |-> storeBar[k]]
    BY Bars DEF StoreOf
  <1>11. storeBar' = [storeBar EXCEPT ![a] = p]
    BY <1>1, <1>8, <1>9, <1>10
  <1> QED
    BY <1>5, <1>7, <1>11 DEF a, p

\* Every step is one of the abstract store, or none.
LEMMA RefineNext ==
    ASSUME TypeInv, [Next]_vars
    PROVE  [Abstract!Next]_(Abstract!vars)
  <1> DEFINE Frame(h) ==
        \A g \in Callers \ {h} : /\ pc'[g] = pc[g] /\ account'[g] = account[g]
                                 /\ reply'[g] = reply[g]
  <1>1. /\ pc \in [Callers -> Places]
        /\ account \in [Callers -> Accounts \cup {None}]
        /\ reply \in [Callers -> Reply]
        /\ \A h \in Callers : callBar[h] = CallOf(pc[h], account[h], reply[h])
    BY Bars DEF TypeInv, TypeOK, Places, Reply
  <1>2. ASSUME NEW h \in Callers, NEW a \in Accounts, Begin(h, a)
        PROVE  Abstract!Next
    <2>1. /\ Frame(h) /\ rows' = rows /\ account'[h] = a /\ pc[h] = "idle"
          /\ account[h] = None /\ reply[h] = NoReply
      BY <1>1, <1>2 DEF Begin, TypeInv, CallsOK, CallOK
    <2>2. storeBar' = storeBar /\ callBar[h] = Abstract!Idle
      BY <1>1, <2>1, Bars, CallCases
    <2>3. CASE a \notin BlankAccounts
      <3>1. pc'[h] = "lookup" /\ reply'[h] = NoReply
        BY <1>1, <1>2, <2>1, <2>3 DEF Begin
      <3>2. callBar' = [callBar EXCEPT ![h] = Abstract!Pending(a)]
        BY <2>1, <3>1, OneCall, CallCases DEF Busy
      <3> QED BY <2>2, <2>3, <3>2 DEF Abstract!Next, Abstract!Begin
    <2>4. CASE a \in BlankAccounts
      <3>1. pc'[h] = "done" /\ reply'[h] = Refusal("failed")
        BY <1>1, <1>2, <2>4 DEF Begin
      <3>2. CallOf("done", a, Refusal("failed")) = Abstract!Failed
        BY CallCases DEF Refusals
      <3>3. callBar' = [callBar EXCEPT ![h] = Abstract!Failed]
        BY <2>1, <3>1, <3>2, OneCall
      <3> QED BY <2>2, <3>3 DEF Abstract!Next, Abstract!Refuse
    <2> QED BY <2>3, <2>4
  <1>3. ASSUME NEW h \in Callers, pc[h] \in Busy
        PROVE  /\ callBar[h] = Abstract!Pending(account[h])
               /\ callBar[h].phase = "pending" /\ callBar[h].key = account[h]
               /\ account[h] \in Accounts \ BlankAccounts /\ reply[h] = NoReply
    <2>1. reply[h] = NoReply /\ account[h] \in Accounts \ BlankAccounts
      BY <1>3 DEF Busy, TypeInv, CallsOK, CallOK
    <2>2. callBar[h] = Abstract!Pending(account[h])
      BY <1>1, <1>3, <2>1, CallCases
    <2> QED BY <2>1, <2>2 DEF Abstract!Pending
  <1>4. ASSUME NEW h \in Callers, pc[h] \in Busy, Frame(h), account' = account, rows' = rows,
               pc'[h] = "done", NEW why \in Refusals, reply'[h] = Refusal(why)
        PROVE  Abstract!Next
    <2>1. callBar' = [callBar EXCEPT ![h] = Abstract!Failed]
      BY <1>4, OneCall, CallCases
    <2> QED BY <1>3, <1>4, <2>1, Bars DEF Abstract!Next, Abstract!Fail
  <1>5. ASSUME NEW h \in Callers, pc[h] \in Busy, Frame(h), account' = account, rows' = rows,
               pc'[h] \in Busy, reply'[h] = reply[h]
        PROVE  UNCHANGED Abstract!vars
    <2>1. callBar' = [callBar EXCEPT ![h] = callBar[h]]
      BY <1>3, <1>5, OneCall, CallCases
    <2> QED BY <1>5, <2>1, Bars DEF Abstract!vars
  <1>6. ASSUME NEW h \in Callers, pc[h] \in Busy, Frame(h), account' = account, rows' = rows,
               pc'[h] = "done", NEW r \in Lookup(account[h]), reply'[h] = Existing(r.port)
        PROVE  Abstract!Next
    <2>1. /\ r \in rows /\ r.account = account[h] /\ r.port \in Ports
      BY DEF Lookup, TypeInv, TypeOK
    <2>2. storeBar[account[h]] = r.port /\ r.port # None
      <3>1. \A s, t \in rows : s.account = t.account => s = t
        BY DEF TypeInv, UniqueRows
      <3>2. storeBar[r.account] = r.port
        BY <1>3, <1>6, <2>1, <3>1, StoreCases, Bars
      <3> QED BY <2>1, <3>2, NoneAssumption
    <2>3. callBar' = [callBar EXCEPT ![h] = Abstract!Answered(account[h], r.port, FALSE)]
      <3>1. CallOf("done", account[h], Existing(r.port))
              = Abstract!Answered(account[h], r.port, FALSE)
        BY AnsweredCall
      <3> QED BY <1>6, <3>1, OneCall
    <2>4. callBar[h].phase = "pending" /\ callBar[h].key = account[h] /\ storeBar' = storeBar
      BY <1>3, <1>6, Bars
    <2>5. Abstract!Fetch(h)
      BY <2>2, <2>3, <2>4 DEF Abstract!Fetch
    <2> QED BY <2>5 DEF Abstract!Next
  <1>7. ASSUME NEW h \in Callers, LookupFirst(h) \/ LookupAgainFinds(h)
        PROVE  [Abstract!Next]_(Abstract!vars)
    <2>1. pc[h] \in Busy /\ Frame(h) /\ account' = account /\ rows' = rows
      BY <1>1, <1>7 DEF LookupFirst, LookupAgainFinds, Busy
    <2>2. CASE Lookup(account[h]) = {}
      <3>1. pc'[h] = "query" /\ reply'[h] = reply[h]
        BY <1>1, <1>7, <2>2 DEF LookupFirst, LookupAgainFinds
      <3> QED BY <1>5, <2>1, <3>1 DEF Busy
    <2>3. CASE Lookup(account[h]) # {}
      <3>1. PICK r \in Lookup(account[h]) : reply' = [reply EXCEPT ![h] = Existing(r.port)]
        BY <1>7, <2>3 DEF LookupFirst, LookupAgainFinds
      <3>2. pc'[h] = "done" /\ reply'[h] = Existing(r.port)
        BY <1>1, <1>7, <2>3, <3>1 DEF LookupFirst, LookupAgainFinds
      <3> QED BY <1>6, <2>1, <3>2
    <2> QED BY <2>2, <2>3
  <1>8. ASSUME NEW h \in Callers, \/ QueryUsed(h) \/ ProbeOpens(h) \/ ProbeFails(h)
                                  \/ ProbeCloses(h) \/ InsertIgnored(h)
        PROVE  UNCHANGED Abstract!vars
    <2>1. /\ pc[h] \in Busy /\ Frame(h) /\ account' = account /\ rows' = rows
          /\ pc'[h] \in Busy /\ reply'[h] = reply[h]
      BY <1>1, <1>8 DEF QueryUsed, ProbeOpens, ProbeFails, ProbeCloses, InsertIgnored, Busy
    <2> QED BY <1>5, <2>1
  <1>9. ASSUME NEW h \in Callers, Exhausted(h) \/ FailGet(h)
        PROVE  Abstract!Next
    <2>1. /\ pc[h] \in Busy /\ Frame(h) /\ account' = account /\ rows' = rows
          /\ pc'[h] = "done"
          /\ reply'[h] = Refusal("exhausted") \/ reply'[h] = Refusal("failed")
      BY <1>1, <1>9 DEF Exhausted, FailGet, Busy
    <2> QED BY <1>4, <2>1 DEF Refusals
  <1>10. ASSUME NEW h \in Callers, LookupAgainRetries(h)
         PROVE  [Abstract!Next]_(Abstract!vars)
    <2>1. /\ pc[h] \in Busy /\ Frame(h) /\ account' = account /\ rows' = rows
          /\ \/ pc'[h] = "query" /\ reply'[h] = reply[h]
             \/ pc'[h] = "done" /\ reply'[h] = Refusal("conflicted")
      BY <1>1, <1>10 DEF LookupAgainRetries, Busy
    <2> QED BY <1>4, <1>5, <2>1 DEF Refusals, Busy
  <1>11. ASSUME NEW h \in Callers, InsertCreates(h) \/ InsertUntold(h)
         PROVE  Abstract!Next
    <2>1. /\ pc[h] = "insert" /\ Frame(h) /\ account' = account /\ pc'[h] = "done"
          /\ Conflicts(account[h], chosen[h]) = {} /\ AddRow(h)
      BY <1>1, <1>11 DEF InsertCreates, InsertUntold
    <2>2. /\ storeBar[account[h]] = None
          /\ chosen[h] \in Abstract!Available
          /\ storeBar' = [storeBar EXCEPT ![account[h]] = chosen[h]]
      BY <2>1, StoreAdds
    <2>3. /\ callBar[h].phase = "pending" /\ callBar[h].key = account[h]
      BY <1>3, <2>1 DEF Busy
    <2>4. chosen[h] \in Ports
      BY <2>1, RowAdded
    <2>5. CASE InsertCreates(h)
      <3>1. reply'[h] = Allocated(chosen[h])
        BY <1>1, <2>5 DEF InsertCreates
      <3>2. callBar' = [callBar EXCEPT ![h] = Abstract!Answered(account[h], chosen[h], TRUE)]
        <4>1. CallOf("done", account[h], Allocated(chosen[h]))
                = Abstract!Answered(account[h], chosen[h], TRUE)
          BY AnsweredCall
        <4> QED BY <2>1, <3>1, <4>1, OneCall
      <3>3. Abstract!Create(h, chosen[h])
        BY <2>2, <2>3, <3>2 DEF Abstract!Create
      <3> QED BY <2>4, <3>3 DEF Abstract!Next
    <2>6. CASE InsertUntold(h)
      <3>1. reply'[h] = Refusal("failed")
        BY <1>1, <2>6 DEF InsertUntold
      <3>2. CallOf("done", account[h], Refusal("failed")) = Abstract!Failed
        BY CallCases DEF Refusals
      <3>3. callBar' = [callBar EXCEPT ![h] = Abstract!Failed]
        BY <2>1, <3>1, <3>2, OneCall
      <3>4. Abstract!CreateUntold(h, chosen[h])
        BY <2>2, <2>3, <3>3 DEF Abstract!CreateUntold
      <3> QED BY <2>4, <3>4 DEF Abstract!Next
    <2> QED BY <1>11, <2>5, <2>6
  <1>12. ASSUME NEW h \in Callers, Return(h)
         PROVE  Abstract!Next
    <2>1. /\ Frame(h) /\ rows' = rows /\ pc[h] = "done"
          /\ pc'[h] = "idle" /\ account'[h] = None /\ reply'[h] = NoReply
      BY <1>1, <1>12 DEF Return
    <2>2. callBar' = [callBar EXCEPT ![h] = Abstract!Idle]
      BY <2>1, OneCall, CallCases
    <2>3. CallOf("done", account[h], reply[h]).phase \in {"answered", "failed"}
      BY DEF CallOf
    <2>4. callBar[h].phase \in {"answered", "failed"}
      BY <1>1, <2>1, <2>3
    <2> QED BY <2>1, <2>2, <2>4, Bars DEF Abstract!Next, Abstract!Return
  <1>13. CASE Restart
    <2>1. rows' = rows /\ callBar' = [h \in Callers |-> Abstract!Idle]
      BY <1>13, Bars, CallCases DEF Restart
    <2> QED BY <2>1, Bars DEF Abstract!Next, Abstract!Crash
  <1>14. CASE (\E p \in BusyPorts : Bind(p) \/ Unbind(p)) \/ UNCHANGED vars
    <2>1. rows' = rows /\ pc' = pc /\ account' = account /\ reply' = reply
      BY <1>14 DEF Bind, Unbind, vars, callVars
    <2> QED BY <2>1, Bars DEF Abstract!vars
  <1> QED
    BY <1>2, <1>7, <1>8, <1>9, <1>10, <1>11, <1>12, <1>13, <1>14 DEF Next, Step

\* Every behaviour of the allocator is one of the get-or-create store that never
\* gives one value to two keys: each statement is one of its steps or none.
THEOREM Implements == Spec => Refines
  <1>1. Init => Abstract!Init
    <2> SUFFICES ASSUME Init PROVE Abstract!Init
      OBVIOUS
    <2>1. storeBar = [a \in Accounts \ BlankAccounts |-> None]
      BY DEF Init, storeBar, Lookup
    <2>2. callBar = [h \in Callers |-> Abstract!Idle]
      BY Bars, CallCases DEF Init
    <2> QED BY <2>1, <2>2 DEF Abstract!Init
  <1>2. TypeInv /\ [Next]_vars => [Abstract!Next]_(Abstract!vars)
    BY RefineNext
  <1>3. Spec => []TypeInv
    BY TypeInit, TypeNext, PTL DEF Spec
  <1> QED
    BY <1>1, <1>2, <1>3, PTL DEF Spec, Refines, Abstract!Spec
=============================================================================
