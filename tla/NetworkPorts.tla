---------------------------- MODULE NetworkPorts -----------------------------
(***************************************************************************)
(* The port allocator of internal/passwords/store.go: Store.NetworkPortGet *)
(* looks up the port of a (service, name) pair, here an account, and, when *)
(* it has none, stores the first port of the configured range that is not  *)
(* in the table and that it can bind.                                      *)
(*                                                                         *)
(* Nothing is locked between the query of the used ports, the probes, and  *)
(* the INSERT: other calls allocate, other processes bind and unbind, and  *)
(* a probe is itself a listener that makes the port look taken to others.  *)
(***************************************************************************)
EXTENDS Integers, FiniteSets

CONSTANTS
    Callers,        \* the NetworkPortGet calls that may be in flight
    Accounts,       \* the (service, name) pairs clients ask about
    BlankAccounts,  \* those whose service or name is only white space
    Ranges,         \* the [network_port_min, network_port_max] of the configurations
    LastPort,       \* the highest port number, 65535
    BusyPorts,      \* the ports other processes of the machine bind
    None            \* no account, no port

Ports == 1..LastPort

\* Open refuses any other range, and the daemon does not start.
ValidRange(r) == r.min >= 1 /\ r.max =< LastPort /\ r.min =< r.max

ASSUME PortAssumption == LastPort \in Nat /\ BusyPorts \subseteq Ports
ASSUME RangesAssumption == Ranges \subseteq [min : Int, max : Int]
ASSUME NoneAssumption == None \notin Ports /\ None \notin Callers

\* Mutant: the loop stops one attempt early.
TwoAttempts == 2

MaxAttempts == 3

VARIABLES
    rows,     \* the network_ports table: [account, port]
    range,    \* the range this daemon was started with
    bound,    \* the ports other processes are listening on
    pc,       \* where each NetworkPortGet is
    account,  \* the account it serves
    untried,  \* the unused ports of the range it has not probed yet
    chosen,   \* the port it is probing or storing
    attempt,  \* how many allocations collided
    reply,    \* what it answers
    \* History, for the properties only:
    told,     \* the answers clients received: [account, port]
    news,     \* how many clients were told is_new, by account
    unusable, \* <<port, why>>: what stood in a port's way since the call began
    before    \* how many ports were stored when the call began

callVars == <<account, untried, chosen, attempt, reply>>
toldVars == <<told, news>>
vars == <<rows, range, bound, pc, callVars, toldVars, unusable, before>>

Stored == {r.port : r \in rows}

\* networkPortLookup.
Lookup(a) == {r \in rows : r.account = a}

\* Mutant: the port column is not unique.
ConflictsOfAccount(a, p) == {r \in rows : r.account = a}

\* UNIQUE (service, name) and UNIQUE (port).
Conflicts(a, p) == {r \in rows : r.account = a \/ r.port = p}

\* isNetworkPortAvailable listens on a port and closes it again: while it
\* does, nobody else can.
Probed(h) == {chosen[g] : g \in {c \in Callers \ {h} : pc[c] = "probing"}}
Bindable(h, p) == p \notin bound \cup Probed(h)

\* Mutant: the range is scanned downwards.
IsLast(p, S) == p \in S /\ \A q \in S : q =< p

\* The first port still to be probed.
IsFirst(p, S) == p \in S /\ \A q \in S : p =< q

NoReply == [status |-> "none", port |-> None, new |-> FALSE]
Refusal(why) == [status |-> why, port |-> None, new |-> FALSE]
\* Mutant: networkPortLookup leaves IsNew set.
ExistingAsNew(p) == [status |-> "answered", port |-> p, new |-> TRUE]
Existing(p) == [status |-> "answered", port |-> p, new |-> FALSE]
Allocated(p) == [status |-> "answered", port |-> p, new |-> TRUE]

Init ==
    /\ rows = {}
    /\ range \in {r \in Ranges : ValidRange(r)}
    /\ bound = {}
    /\ pc = [h \in Callers |-> "idle"]
    /\ account = [h \in Callers |-> None]
    /\ untried = [h \in Callers |-> {}]
    /\ chosen = [h \in Callers |-> None]
    /\ attempt = [h \in Callers |-> 0]
    /\ reply = [h \in Callers |-> NoReply]
    /\ told = {}
    /\ news = [a \in Accounts |-> 0]
    /\ unusable = [h \in Callers |-> {}]
    /\ before = [h \in Callers |-> 0]

\* History: port p became unusable to the calls in flight, but not to h.
Spoil(h, p, why) ==
    unusable' = [c \in Callers |->
        IF c = h \/ pc[c] = "idle" THEN unusable[c] ELSE unusable[c] \cup {<<p, why>>}]

-----------------------------------------------------------------------------
(* NetworkPortGet. *)

Begin(h, a) ==
    /\ pc[h] = "idle"
    /\ account' = [account EXCEPT ![h] = a]
    /\ before' = [before EXCEPT ![h] = Cardinality(rows)]
    /\ unusable' = [unusable EXCEPT ![h] =
          {<<p, "stored">> : p \in Stored} \cup {<<p, "bound">> : p \in bound}
            \cup {<<p, "probed">> : p \in Probed(h)}]
    /\ IF a \in BlankAccounts
       THEN /\ pc' = [pc EXCEPT ![h] = "done"]
            /\ reply' = [reply EXCEPT ![h] = Refusal("failed")]
       ELSE pc' = [pc EXCEPT ![h] = "lookup"] /\ UNCHANGED reply
    /\ UNCHANGED <<rows, range, bound, untried, chosen, attempt, toldVars>>

\* The first lookup: an allocated port is the answer.
LookupFirst(h) ==
    /\ pc[h] = "lookup"
    /\ IF Lookup(account[h]) = {}
       THEN pc' = [pc EXCEPT ![h] = "query"] /\ UNCHANGED reply
       ELSE /\ pc' = [pc EXCEPT ![h] = "done"]
            /\ \E r \in Lookup(account[h]) : reply' = [reply EXCEPT ![h] = Existing(r.port)]
    /\ UNCHANGED <<rows, range, bound, account, untried, chosen, attempt, toldVars, unusable, before>>

\* Mutant: the scan runs one port past the maximum.
QueryUsedPastMax(h) ==
    /\ pc[h] = "query"
    /\ untried' = [untried EXCEPT ![h] = (range.min..range.max + 1) \ Stored]
    /\ pc' = [pc EXCEPT ![h] = "scan"]
    /\ UNCHANGED <<rows, range, bound, account, chosen, attempt, reply, toldVars, unusable, before>>

\* firstAvailableNetworkPort reads which ports of the range are used.
QueryUsed(h) ==
    /\ pc[h] = "query"
    /\ untried' = [untried EXCEPT ![h] = (range.min..range.max) \ Stored]
    /\ pc' = [pc EXCEPT ![h] = "scan"]
    /\ UNCHANGED <<rows, range, bound, account, chosen, attempt, reply, toldVars, unusable, before>>

\* The probe of the next port listens on it ...
ProbeOpens(h) ==
    /\ pc[h] = "scan"
    /\ \E p \in untried[h] :
          /\ IsFirst(p, untried[h])
          /\ Bindable(h, p)
          /\ chosen' = [chosen EXCEPT ![h] = p]
          /\ Spoil(h, p, "probed")
    /\ pc' = [pc EXCEPT ![h] = "probing"]
    /\ UNCHANGED <<rows, range, bound, account, untried, attempt, reply, toldVars, before>>

\* Mutant: the scan waits for the port instead of going on.
ProbeFailsAgain(h) ==
    /\ pc[h] = "scan"
    /\ \E p \in untried[h] : IsFirst(p, untried[h]) /\ ~Bindable(h, p)
    /\ UNCHANGED vars

\* ... or cannot, and the scan goes on.
ProbeFails(h) ==
    /\ pc[h] = "scan"
    /\ \E p \in untried[h] :
          /\ IsFirst(p, untried[h])
          /\ ~Bindable(h, p)
          /\ untried' = [untried EXCEPT ![h] = @ \ {p}]
    /\ UNCHANGED <<rows, range, bound, pc, account, chosen, attempt, reply, toldVars, unusable, before>>

\* The listener is closed before the port is stored.
ProbeCloses(h) ==
    /\ pc[h] = "probing"
    /\ pc' = [pc EXCEPT ![h] = "insert"]
    /\ untried' = [untried EXCEPT ![h] = {}]
    /\ UNCHANGED <<rows, range, bound, account, chosen, attempt, reply, toldVars, unusable, before>>

\* "no available network port in range".
Exhausted(h) ==
    /\ pc[h] = "scan"
    /\ untried[h] = {}
    /\ pc' = [pc EXCEPT ![h] = "done"]
    /\ reply' = [reply EXCEPT ![h] = Refusal("exhausted")]
    /\ UNCHANGED <<rows, range, bound, account, untried, chosen, attempt, toldVars, unusable, before>>

AddRow(h) ==
    /\ rows' = rows \cup {[account |-> account[h], port |-> chosen[h]]}
    /\ Spoil(None, chosen[h], "stored")

\* INSERT OR IGNORE reports one row: the port is the account's.
InsertCreates(h) ==
    /\ pc[h] = "insert"
    /\ Conflicts(account[h], chosen[h]) = {}
    /\ AddRow(h)
    /\ reply' = [reply EXCEPT ![h] = Allocated(chosen[h])]
    /\ pc' = [pc EXCEPT ![h] = "done"]
    /\ chosen' = [chosen EXCEPT ![h] = None]
    /\ UNCHANGED <<range, bound, account, untried, attempt, toldVars, before>>

\* It reports none: the account has a port, or the port an account.
InsertIgnored(h) ==
    /\ pc[h] = "insert"
    /\ Conflicts(account[h], chosen[h]) # {}
    /\ pc' = [pc EXCEPT ![h] = "relookup"]
    /\ chosen' = [chosen EXCEPT ![h] = None]
    /\ UNCHANGED <<rows, range, bound, account, untried, attempt, reply, toldVars, unusable, before>>

\* The row is committed, but the driver returns an error: the context was
\* cancelled, or its deadline passed, while the statement completed.
InsertUntold(h) ==
    /\ pc[h] = "insert"
    /\ Conflicts(account[h], chosen[h]) = {}
    /\ AddRow(h)
    /\ reply' = [reply EXCEPT ![h] = Refusal("failed")]
    /\ pc' = [pc EXCEPT ![h] = "done"]
    /\ chosen' = [chosen EXCEPT ![h] = None]
    /\ UNCHANGED <<range, bound, account, untried, attempt, toldVars, before>>

\* After a collision the account may have its port by now ...
LookupAgainFinds(h) ==
    /\ pc[h] = "relookup"
    /\ \E r \in Lookup(account[h]) : reply' = [reply EXCEPT ![h] = Existing(r.port)]
    /\ pc' = [pc EXCEPT ![h] = "done"]
    /\ UNCHANGED <<rows, range, bound, account, untried, chosen, attempt, toldVars, unusable, before>>

\* ... and if not, another port is tried, until "network port allocation
\* conflicted too many times".
LookupAgainRetries(h) ==
    /\ pc[h] = "relookup"
    /\ Lookup(account[h]) = {}
    /\ attempt' = [attempt EXCEPT ![h] = @ + 1]
    /\ IF attempt[h] + 1 < MaxAttempts
       THEN pc' = [pc EXCEPT ![h] = "query"] /\ UNCHANGED reply
       ELSE /\ pc' = [pc EXCEPT ![h] = "done"]
            /\ reply' = [reply EXCEPT ![h] = Refusal("conflicted")]
    /\ UNCHANGED <<rows, range, bound, account, untried, chosen, toldVars, unusable, before>>

\* A statement fails without effect.
FailGet(h) ==
    /\ pc[h] \in {"lookup", "query", "insert", "relookup"}
    /\ pc' = [pc EXCEPT ![h] = "done"]
    /\ reply' = [reply EXCEPT ![h] = Refusal("failed")]
    /\ chosen' = [chosen EXCEPT ![h] = None]
    /\ UNCHANGED <<rows, range, bound, account, untried, attempt, toldVars, unusable, before>>

\* The handler returns and the client receives its reply.
Return(h) ==
    /\ pc[h] = "done"
    /\ pc' = [pc EXCEPT ![h] = "idle"]
    /\ account' = [account EXCEPT ![h] = None]
    /\ untried' = [untried EXCEPT ![h] = {}]
    /\ attempt' = [attempt EXCEPT ![h] = 0]
    /\ reply' = [reply EXCEPT ![h] = NoReply]
    /\ unusable' = [unusable EXCEPT ![h] = {}]
    /\ before' = [before EXCEPT ![h] = 0]
    /\ IF reply[h].status = "answered"
       THEN /\ told' = told \cup {[account |-> account[h], port |-> reply[h].port]}
            /\ news' = [news EXCEPT ![account[h]] = IF reply[h].new THEN @ + 1 ELSE @]
       ELSE UNCHANGED toldVars
    /\ UNCHANGED <<rows, range, bound, chosen>>

\* What a call does once it has begun.
Step(h) ==
    \/ LookupFirst(h) \/ QueryUsed(h)
    \/ ProbeOpens(h) \/ ProbeFails(h) \/ ProbeCloses(h) \/ Exhausted(h)
    \/ InsertCreates(h) \/ InsertIgnored(h) \/ InsertUntold(h)
    \/ LookupAgainFinds(h) \/ LookupAgainRetries(h)
    \/ FailGet(h) \/ Return(h)

-----------------------------------------------------------------------------
(* The machine. *)

\* Another process starts to listen; a port that is being probed is refused.
Bind(p) ==
    /\ p \notin bound \cup Probed(None)
    /\ bound' = bound \cup {p}
    /\ Spoil(None, p, "bound")
    /\ UNCHANGED <<rows, range, pc, callVars, toldVars, before>>

Unbind(p) ==
    /\ p \in bound
    /\ bound' = bound \ {p}
    /\ UNCHANGED <<rows, range, pc, callVars, toldVars, unusable, before>>

\* The daemon is killed and started again, perhaps with another range; only
\* the database file remains.
Restart ==
    /\ range' \in {r \in Ranges : ValidRange(r)}
    /\ pc' = [h \in Callers |-> "idle"]
    /\ account' = [h \in Callers |-> None]
    /\ untried' = [h \in Callers |-> {}]
    /\ chosen' = [h \in Callers |-> None]
    /\ attempt' = [h \in Callers |-> 0]
    /\ reply' = [h \in Callers |-> NoReply]
    /\ unusable' = [h \in Callers |-> {}]
    /\ before' = [h \in Callers |-> 0]
    /\ UNCHANGED <<rows, bound, toldVars>>

Next ==
    \/ \E h \in Callers, a \in Accounts : Begin(h, a)
    \/ \E h \in Callers : Step(h)
    \/ \E p \in BusyPorts : Bind(p) \/ Unbind(p)
    \/ Restart

Spec == Init /\ [][Next]_vars

\* Every statement and every probe ends, with a result or with an error.
FairSpec == Spec /\ \A h \in Callers : WF_vars(Step(h))

-----------------------------------------------------------------------------
(* Properties. *)

\* Every variable has its type.
TypeOK ==
    /\ rows \in SUBSET [account : Accounts, port : Ports]
    /\ range \in Ranges /\ ValidRange(range)
    /\ bound \in SUBSET Ports
    /\ pc \in [Callers -> {"idle", "lookup", "query", "scan", "probing", "insert",
                           "relookup", "done"}]
    /\ account \in [Callers -> Accounts \cup {None}]
    /\ untried \in [Callers -> SUBSET Ports]
    /\ chosen \in [Callers -> Ports \cup {None}]
    /\ attempt \in [Callers -> 0..MaxAttempts]
    /\ reply \in [Callers -> [status : {"none", "failed", "exhausted", "conflicted", "answered"},
                              port : Ports \cup {None}, new : BOOLEAN]]
    /\ told \in SUBSET [account : Accounts, port : Ports]
    /\ news \in [Accounts -> Nat]
    /\ unusable \in [Callers -> SUBSET (Ports \X {"stored", "bound", "probed"})]
    /\ before \in [Callers -> Nat]

\* "returns the same stored port every time" (README.md:281), and never one
\* port for two accounts, across interleaved calls, restarts and a change of
\* the configured range; each port told is in the table.
PortsAgree ==
    /\ \A s, t \in told : (s.account = t.account) <=> (s.port = t.port)
    /\ told \subseteq rows

\* Of the clients that asked for the port of an account at most one is told
\* that the port is new.
OneCreator == \A a \in Accounts : news[a] =< 1

\* The first free port: every lower port of the range was stored, bound or
\* being probed by another call at some moment of the call, and a call finds
\* no port at all only when this holds of the whole range.
FirstAvailable ==
    \A h \in Callers :
        LET Usable == {q \in range.min..range.max :
                          \A why \in {"stored", "bound", "probed"} : <<q, why>> \notin unusable[h]}
        IN  pc[h] = "done" =>
                /\ reply[h].new => \A q \in Usable : q >= reply[h].port
                /\ reply[h].status = "exhausted" => Usable = {}

\* A call gives up on collisions only after three ports were given to others
\* while it ran: a retry never collides with the same row again.
ConflictedByOthers ==
    \A h \in Callers :
        reply[h].status = "conflicted" => Cardinality(rows) >= before[h] + 3

\* Every NetworkPortGet ends, whatever the other calls and processes do.
EveryGetReturns == \A h \in Callers : (pc[h] # "idle") ~> (pc[h] = "idle")

\* "New allocations find the first port in the configured inclusive range that
\* is not already stored in network_ports and is not currently bound on the
\* VM" (README.md:281): a call is refused only if every port of the range was
\* stored, or bound by some process, while it ran.
FreePortIsFound ==
    \A h \in Callers : reply[h].status = "exhausted" =>
        \A q \in range.min..range.max :
            <<q, "stored">> \in unusable[h] \/ <<q, "bound">> \in unusable[h]

\* "If another process takes the selected port concurrently, the allocation
\* retries" (README.md:281): no port is given out that another process has
\* taken by then.
TakenPortIsRetried ==
    [][\A h \in Callers : reply'[h].new /\ ~reply[h].new => reply'[h].port \notin bound]_vars

-----------------------------------------------------------------------------
(* The allocator implements GetOrCreate, with exclusive values. *)

storeBar ==
    [a \in Accounts \ BlankAccounts |->
        IF Lookup(a) = {} THEN None ELSE (CHOOSE r \in Lookup(a) : TRUE).port]

callBar ==
    [h \in Callers |->
        [phase |-> CASE pc[h] = "idle" -> "idle"
                     [] pc[h] = "done" -> IF reply[h].status = "answered" THEN "answered" ELSE "failed"
                     [] OTHER -> "pending",
         key |-> IF pc[h] = "done" /\ reply[h].status # "answered" THEN None ELSE account[h],
         value |-> reply[h].port,
         new |-> reply[h].new]]

Abstract == INSTANCE GetOrCreate
    WITH Clients <- Callers, Keys <- Accounts \ BlankAccounts, Values <- Ports,
         Exclusive <- TRUE, store <- storeBar, call <- callBar

\* Every behaviour of NetworkPortGet is one of the get-or-create store's.
Refines == Abstract!Spec
=============================================================================
