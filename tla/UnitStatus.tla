------------------------------ MODULE UnitStatus ------------------------------
(***************************************************************************)
(* ServiceStatus: the handler of internal/server with its allow list, and  *)
(* the client of internal/systemd, which reads one property of a unit      *)
(* after the other over D-Bus while the units go on changing.  A name is   *)
(* split into a base and the suffix of a unit type.                        *)
(***************************************************************************)
EXTENDS Rpc

CONSTANTS
    Units,           \* the units of the machine: names with a suffix
    UnitStates,      \* the states each of them may be in
    StatusRequests,  \* the requests: [services, raw]
    AllowLists       \* what allowed_services of the configuration may be

VARIABLES
    units,           \* the state of each unit
    allowedServices  \* the list the daemon was started with

unitVars == <<units, allowedServices>>

EmptyName == [base |-> "", suffix |-> ""]

\* NormalizeUnitName.
Normalize(name) == IF name.suffix = "" THEN [name EXCEPT !.suffix = "service"] ELSE name

ListedNames == {allowedServices[i] : i \in DOMAIN allowedServices} \ {EmptyName}

\* Mutant: New keeps the names as they are written.
AllowedAsWritten == ListedNames

\* The map New makes of the list: blank entries are dropped.
Allowed == ListedNames \cup {Normalize(n) : n \in ListedNames}

IsAllowed(name) == Allowed = {} \/ name \in Allowed \/ Normalize(name) \in Allowed

\* A list of names, each of a base and a suffix.
IsNameList(list) ==
    /\ list \in Seq({list[i] : i \in DOMAIN list})
    /\ \A i \in DOMAIN list : list[i] = [base |-> list[i].base, suffix |-> list[i].suffix]

\* A request names units of the machine; a state is one of a unit, not None.
ASSUME UnitsAssumption ==
    /\ DOMAIN UnitStates = Units
    /\ \A u \in Units : UnitStates[u] # {} /\ None \notin UnitStates[u]
    /\ \A q \in StatusRequests :
          /\ q.raw \in BOOLEAN
          /\ IsNameList(q.services)
          /\ \A i \in DOMAIN q.services :
                q.services[i] # EmptyName => Normalize(q.services[i]) \in Units
    /\ AllowLists # {} /\ \A list \in AllowLists : IsNameList(list)

\* The properties Status reads, in this order.
Properties == <<"load", "active", "sub", "description", "pid">>
PropertyNames == {Properties[i] : i \in DOMAIN Properties}

\* What Status begins with for each service: nothing is read.
NoState == [p \in PropertyNames |-> None]

UnitInit ==
    /\ units = [u \in Units |-> CHOOSE s \in UnitStates[u] : TRUE]
    /\ allowedServices \in AllowLists

Entry(name, kind, state, raw) == [name |-> name, kind |-> kind, state |-> state, raw |-> raw]

\* errorStatus.
ErrorEntry(name) == Entry(name, "error", NoState, None)

StatusCall(q) ==
    [op |-> "status", pc |-> "next", services |-> q.services, raw |-> q.raw,
     read |-> << >>, state |-> NoState, entries |-> << >>,
     \* History: the states of each unit since the call began, and the
     \* services for which a D-Bus call or systemctl failed.
     had |-> [u \in Units |-> {units[u]}], broke |-> {}]

BeginStatus(h) ==
    /\ \E q \in StatusRequests : Arrives(h, StatusCall(q))
    /\ UNCHANGED <<changes, unitVars>>

At(h, pc) == call[h].op = "status" /\ call[h].pc = pc

\* The service the loop has come to.
Turn(h) == Len(call[h].entries) + 1
Current(h) == call[h].services[Turn(h)]

\* The entry of the current service is appended, and the loop goes on.
Finish(h, entry, broken) ==
    call' = [call EXCEPT ![h].entries = Append(@, entry), ![h].pc = "next",
                         ![h].broke = @ \cup broken]

Refuse(h) ==
    /\ At(h, "next")
    /\ Turn(h) \in DOMAIN call[h].services
    /\ ~IsAllowed(Current(h)) \/ Current(h) = EmptyName
    /\ Finish(h, ErrorEntry(Current(h)), {})
    /\ UNCHANGED <<changes, unitVars>>

\* Mutant: the fields of the service before are still there.
LoadUnitOver(h) ==
    /\ At(h, "next")
    /\ Turn(h) \in DOMAIN call[h].services
    /\ IsAllowed(Current(h)) /\ Current(h) # EmptyName
    /\ call' = [call EXCEPT ![h].pc = "read", ![h].read = << >>]
    /\ UNCHANGED <<changes, unitVars>>

LoadUnit(h) ==
    /\ At(h, "next")
    /\ Turn(h) \in DOMAIN call[h].services
    /\ IsAllowed(Current(h)) /\ Current(h) # EmptyName
    /\ call' = [call EXCEPT ![h].pc = "read", ![h].read = << >>, ![h].state = NoState]
    /\ UNCHANGED <<changes, unitVars>>

\* The next property to read, if there is one.
Left(h) == Len(call[h].read) < Len(Properties)
Property(h) == Properties[Len(call[h].read) + 1]

ReadProperty(h) ==
    /\ At(h, "read") /\ Left(h)
    /\ call' = [call EXCEPT ![h].read = Append(@, Property(h)),
                            ![h].state[Property(h)] = units[Normalize(Current(h))][Property(h)]]
    /\ UNCHANGED <<changes, unitVars>>

\* That MainPID cannot be read is ignored: not every unit has one.
NoMainPID(h) ==
    /\ At(h, "read") /\ Left(h)
    /\ Property(h) = "pid"
    /\ call' = [call EXCEPT ![h].read = Append(@, "pid")]
    /\ UNCHANGED <<changes, unitVars>>

\* The output of systemctl is used even if its exit status is not 0.
Report(h) ==
    /\ At(h, "read") /\ ~Left(h)
    /\ Finish(h, Entry(Current(h), "status", call[h].state,
                       IF call[h].raw THEN units[Normalize(Current(h))] ELSE None), {})
    /\ UNCHANGED <<changes, unitVars>>

\* A D-Bus call fails, or systemctl prints nothing.
FailStatus(h) ==
    /\ At(h, "read")
    /\ IF Left(h) THEN Property(h) # "pid" ELSE call[h].raw
    /\ Finish(h, ErrorEntry(Current(h)), {Turn(h)})
    /\ UNCHANGED <<changes, unitVars>>

ReturnStatus(h) ==
    /\ At(h, "next")
    /\ Turn(h) \notin DOMAIN call[h].services
    /\ Leaves(h)
    /\ UNCHANGED <<changes, unitVars>>

\* systemd: a unit goes from one state to another.
UnitChanges(u) ==
    /\ Change
    /\ \E s \in UnitStates[u] \ {units[u]} :
          /\ units' = [units EXCEPT ![u] = s]
          /\ UNCHANGED allowedServices
          /\ call' = [h \in Handlers |->
                IF call[h].op = "status" THEN [call[h] EXCEPT !.had[u] = @ \cup {s}] ELSE call[h]]

StatusStep(h) ==
    \/ BeginStatus(h) \/ Refuse(h) \/ LoadUnit(h) \/ ReadProperty(h) \/ NoMainPID(h)
    \/ Report(h) \/ FailStatus(h) \/ ReturnStatus(h)

-----------------------------------------------------------------------------
(* Properties. *)

Entries(h) == IF call[h].op = "status" THEN call[h].entries ELSE << >>

\* What the allow list names: the same unit, with or without ".service".
Designated(name) ==
    \E n \in ListedNames : Normalize(n) = Normalize(name)

\* "Optional allow-list for systemd service status queries" (README.md:84).
\* There is one entry for each service, in the order and under the name it was
\* asked for; it shows a state if and only if the service has a name, the list
\* is empty or designates its unit, and nothing failed for this service:
\* what is refused or fails for one says nothing about the others.
StatusDisclosed ==
    \A h \in Handlers : \A i \in DOMAIN Entries(h) :
        LET name == call[h].services[i]
        IN  /\ Entries(h)[i].name = name
            /\ Entries(h)[i].kind = "status" <=>
                  /\ name # EmptyName
                  /\ ListedNames = {} \/ Designated(name)
                  /\ i \notin call[h].broke

\* Each property that is reported was the unit's at some moment of the call:
\* a unit that does not change is reported as it is, whatever was read for
\* the services before it, whatever fails, and whatever other units do.  A
\* MainPID that could not be read is left out.
StatusSeen ==
    \A h \in Handlers : \A i \in DOMAIN Entries(h) : Entries(h)[i].kind = "status" =>
        LET had == call[h].had[Normalize(call[h].services[i])]
        IN  /\ \A p \in PropertyNames :
                  \/ \E s \in had : Entries(h)[i].state[p] = s[p]
                  \/ p = "pid" /\ Entries(h)[i].state[p] = None
            /\ Entries(h)[i].raw \in had \cup {None}
            /\ call[h].raw <=> Entries(h)[i].raw # None
=============================================================================
