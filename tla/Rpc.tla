---------------------------------- MODULE Rpc ----------------------------------
(***************************************************************************)
(* A call of sidecarctl and the goroutine that serves it.  The client      *)
(* waits ten seconds at most; the handler goes on without it.              *)
(***************************************************************************)
EXTENDS Integers, Sequences, FiniteSets

CONSTANTS
    Handlers,       \* the calls that may be in flight
    Accounts,       \* the (service, name) pairs clients ask about
    BlankAccounts,  \* those of which one is only white space
    MaxChanges,     \* bound: ParamSet calls and changes of units, in all
    None            \* nothing

ASSUME ChangesAssumption == MaxChanges \in Nat

VARIABLES
    call,        \* what each handler is doing
    changes      \* how many changes there were

Idle == [op |-> "idle"]

Arrives(h, c) == call[h] = Idle /\ call' = [call EXCEPT ![h] = c]

Leaves(h) == call' = [call EXCEPT ![h] = Idle]

Change == changes < MaxChanges /\ changes' = changes + 1

\* The deadline passes, or the connection is lost: sidecarctl exits with
\* status 1.  A handler that only reads has no effect without its client; the
\* statement of a ParamSet may be cut short, or not.
GiveUp(h) ==
    /\ call[h] # Idle
    /\ IF call[h].op = "set"
       THEN call[h].waiting /\ call' = [call EXCEPT ![h].waiting = FALSE]
       ELSE Leaves(h)
    /\ UNCHANGED changes
=============================================================================
