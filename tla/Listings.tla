------------------------------- MODULE Listings -------------------------------
(***************************************************************************)
(* The listings of parameters: the rows of ParamList's SELECT, the groups  *)
(* the server makes of them, and the table sidecarctl prints.  A service   *)
(* and a name are numbers, in the order of their texts.                    *)
(***************************************************************************)
EXTENDS Integers, Sequences, SequencesExt

\* Mutant: ORDER BY name ASC, service ASC.
BeforeByName(a, b) == a.name < b.name \/ (a.name = b.name /\ a.service < b.service)

\* ORDER BY service ASC, name ASC.
Before(a, b) == a.service < b.service \/ (a.service = b.service /\ a.name < b.name)

Selected(rows) ==
    CHOOSE s \in SetToSeqs(rows) : \A i, j \in DOMAIN s : i < j => Before(s[i], s[j])

\* The handler begins a new group whenever the service changes.
AddEntry(groups, row) ==
    IF groups = << >> \/ Last(groups).service # row.service
    THEN Append(groups, [service |-> row.service, entries |-> <<row>>])
    ELSE [groups EXCEPT ![Len(groups)].entries = Append(@, row)]

Grouped(rows) == FoldLeft(AddEntry, << >>, rows)

\* printParamList: one line for each entry of each group, under its service.
Printed(groups) ==
    FlattenSeq([g \in DOMAIN groups |->
        [i \in DOMAIN groups[g].entries |->
            [groups[g].entries[i] EXCEPT !.service = groups[g].service]]])
=============================================================================
