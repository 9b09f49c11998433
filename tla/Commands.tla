------------------------------- MODULE Commands -------------------------------
(***************************************************************************)
(* The commands "param", "status" and "password get" of sidecarctl.  Each  *)
(* call is served in a goroutine of its own, and the daemon may be killed  *)
(* at any moment.  Commands of different kinds share nothing else: a       *)
(* behaviour has one kind, and calls for units, which only read, one by    *)
(* one.                                                                    *)
(***************************************************************************)
EXTENDS Params, UnitStatus, PasswordCommands

VARIABLE kind   \* which calls there are: "param", "status" or "password"

vars == <<kind, call, changes, paramVars, unitVars, passwordVars>>

Init ==
    /\ kind \in {"param", "status", "password"}
    /\ call = [h \in Handlers |-> Idle]
    /\ changes = 0
    /\ ParamInit
    /\ UnitInit
    /\ kind # "status" => allowedServices = CHOOSE list \in AllowLists : TRUE
    /\ PasswordInit

\* The daemon is killed and restarted: the calls are lost, the database is not.
Crash ==
    /\ call' = [h \in Handlers |-> Idle]
    /\ PasswordCrash
    /\ UNCHANGED <<kind, changes, paramVars, unitVars>>

ParamCommand(h) ==
    /\ kind = "param"
    /\ ParamStep(h) \/ (GiveUp(h) /\ UNCHANGED paramVars)
    /\ UNCHANGED <<kind, unitVars, passwordVars>>

StatusCommand(h) ==
    /\ kind = "status" /\ \A g \in Handlers \ {h} : call[g] = Idle
    /\ StatusStep(h) \/ (GiveUp(h) /\ UNCHANGED unitVars)
    /\ UNCHANGED <<kind, paramVars, passwordVars>>

PasswordCommand(h) ==
    /\ kind = "password"
    /\ PasswordStep(h)
    /\ UNCHANGED <<kind, call, changes, paramVars, unitVars>>

Next ==
    \/ \E h \in Handlers : ParamCommand(h) \/ StatusCommand(h) \/ PasswordCommand(h)
    \/ \E u \in Units : kind = "status" /\ UnitChanges(u)
                          /\ UNCHANGED <<kind, paramVars, passwordVars>>
    \/ Crash

Spec == Init /\ [][Next]_vars

-----------------------------------------------------------------------------
(* Properties. *)

ParamRow == [service : Nat, name : Nat, value : 1..MaxChanges]

ParamCalls ==
    [op : {"set", "get", "list"}, account : Accounts \cup {None}, rows : Seq(ParamRow),
     knew : [Accounts -> 0..MaxChanges], waiting : BOOLEAN,
     pc : {"run", "done", "notfound", "failed"}]

\* Every variable has its type.  A value clients know of was committed, and an
\* account with a row keeps it.
TypeOK ==
    /\ kind \in {"param", "status", "password"}
    /\ writes \in 0..changes /\ changes \in 0..MaxChanges
    /\ DOMAIN params \subseteq Accounts \ BlankAccounts
    /\ \A a \in DOMAIN params : params[a] \in 1..writes
    /\ known \in [Accounts -> 0..writes]
    /\ \A a \in Accounts : known[a] > 0 => a \in DOMAIN params /\ params[a] >= known[a]
    /\ DOMAIN units = Units /\ \A u \in Units : units[u] \in UnitStates[u]
    /\ allowedServices \in AllowLists
    /\ Store!TypeOK
    /\ typed \in [Handlers -> Typed \cup {None}]
    /\ printed \subseteq [typed : Typed, value : Values]
    /\ \A h \in Handlers :
          \/ call[h] = Idle
          \/ call[h] \in ParamCalls
          \/ /\ call[h].op = "status"
             /\ call[h].pc \in {"next", "read"}
             /\ Len(call[h].entries) =< Len(call[h].services)
             /\ call[h].read = SubSeq(Properties, 1, Len(call[h].read))
=============================================================================
