----------------------------- MODULE GetOrCreate -----------------------------
(***************************************************************************)
(* What PasswordGet and NetworkPortGet both promise their clients: a store *)
(* that gives each key one value, once and for good, whatever the order of *)
(* the calls, their failures and the crashes of the daemon.  The stores of *)
(* internal/passwords/store.go implement this module: PasswordStore and    *)
(* NetworkPorts refine it.                                                 *)
(***************************************************************************)
CONSTANTS
    Clients,    \* the calls that may be in flight
    Keys,       \* what an answer is asked for
    Values,     \* what the answers are drawn from
    Exclusive,  \* TRUE: two keys never share a value
    None        \* neither a key nor a value

VARIABLES
    store,      \* the value each key has been given, or None
    call        \* the call each client is making

vars == <<store, call>>

Idle == [phase |-> "idle", key |-> None, value |-> None, new |-> FALSE]
Pending(k) == [phase |-> "pending", key |-> k, value |-> None, new |-> FALSE]
Failed == [phase |-> "failed", key |-> None, value |-> None, new |-> FALSE]
Answered(k, v, isNew) == [phase |-> "answered", key |-> k, value |-> v, new |-> isNew]

Calls == {Idle, Failed}
           \cup {Pending(k) : k \in Keys}
           \cup [phase : {"answered"}, key : Keys, value : Values, new : BOOLEAN]

Init ==
    /\ store = [k \in Keys |-> None]
    /\ call = [c \in Clients |-> Idle]

\* The values a new key may be given.
Available == {v \in Values : Exclusive => \A k \in Keys : store[k] # v}

Begin(c, k) ==
    /\ call[c] = Idle
    /\ call' = [call EXCEPT ![c] = Pending(k)]
    /\ UNCHANGED store

\* A malformed request is turned down before the store is consulted.
Refuse(c) ==
    /\ call[c] = Idle
    /\ call' = [call EXCEPT ![c] = Failed]
    /\ UNCHANGED store

\* A key that has a value is answered with it.
Fetch(c) ==
    /\ call[c].phase = "pending"
    /\ store[call[c].key] # None
    /\ call' = [call EXCEPT ![c] = Answered(@.key, store[@.key], FALSE)]
    /\ UNCHANGED store

\* One that has none is given a value.
Create(c, v) ==
    /\ call[c].phase = "pending"
    /\ store[call[c].key] = None
    /\ v \in Available
    /\ store' = [store EXCEPT ![call[c].key] = v]
    /\ call' = [call EXCEPT ![c] = Answered(@.key, v, TRUE)]

\* The value is stored, and the caller is told that the call failed.
CreateUntold(c, v) ==
    /\ call[c].phase = "pending"
    /\ store[call[c].key] = None
    /\ v \in Available
    /\ store' = [store EXCEPT ![call[c].key] = v]
    /\ call' = [call EXCEPT ![c] = Failed]

Fail(c) ==
    /\ call[c].phase = "pending"
    /\ call' = [call EXCEPT ![c] = Failed]
    /\ UNCHANGED store

Return(c) ==
    /\ call[c].phase \in {"answered", "failed"}
    /\ call' = [call EXCEPT ![c] = Idle]
    /\ UNCHANGED store

\* Every call in flight is lost, what is stored is not.
Crash ==
    /\ call' = [c \in Clients |-> Idle]
    /\ UNCHANGED store

Next ==
    \/ \E c \in Clients :
          \/ \E k \in Keys : Begin(c, k)
          \/ Refuse(c) \/ Fetch(c) \/ Fail(c) \/ Return(c)
          \/ \E v \in Values : Create(c, v) \/ CreateUntold(c, v)
    \/ Crash

Spec == Init /\ [][Next]_vars

-----------------------------------------------------------------------------
\* Every state component has its type.
TypeOK ==
    /\ store \in [Keys -> Values \cup {None}]
    /\ call \in [Clients -> Calls]

\* Two answers for one key are the same value, and at most one of them claims
\* to have created it; if values are exclusive, answers for two keys differ.
AnswersAgree ==
    \A c, d \in Clients :
        (c # d /\ call[c].phase = "answered" /\ call[d].phase = "answered") =>
            IF call[c].key = call[d].key
            THEN call[c].value = call[d].value /\ ~(call[c].new /\ call[d].new)
            ELSE Exclusive => call[c].value # call[d].value

\* What an answer said is what the store holds, and goes on holding.
AnsweredIsStored ==
    \A c \in Clients :
        call[c].phase = "answered" => store[call[c].key] = call[c].value

\* A key that has its value keeps it.
WriteOnce == [][\A k \in Keys : store[k] # None => store'[k] = store[k]]_vars
=============================================================================
