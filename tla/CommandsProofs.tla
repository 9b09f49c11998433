---------------------------- MODULE CommandsProofs ----------------------------
(* The commands of sidecarctl, for any number of calls, accounts, units and  *)
(* passwords: what a listing shows, what a parameter is answered with, what  *)
(* a status discloses, and what the spellings of a policy lead to.           *)
EXTENDS Commands, FiniteSetTheorems, TLAPS

Data == INSTANCE FoldTheorems WITH Op <- AddEntry

\* The rows of a table whose values are V, with one row for each account.
Rows(V) == [service : Nat, name : Nat, value : V]

Keyed(rows) == \A r, q \in rows : r.service = q.service /\ r.name = q.name => r = q

Sorted(s) == \A i, j \in DOMAIN s : i < j => Before(s[i], s[j])

-----------------------------------------------------------------------------
(* The order of a listing. *)

\* Of some rows there is one that comes before the others.
LEMMA FirstRow ==
    ASSUME NEW V, NEW rows \in SUBSET Rows(V), Keyed(rows), rows # {}
    PROVE  \E r \in rows : \A q \in rows \ {r} : Before(r, q)
  <1> USE DEF Rows
  <1>1. PICK s \in {r.service : r \in rows} : \A t \in {r.service : r \in rows} : s =< t
    <2>1. {r.service : r \in rows} \in SUBSET Nat /\ {r.service : r \in rows} # {}
      OBVIOUS
    <2> QED BY <2>1, Data!LeastNumber
  <1> DEFINE mine == {r \in rows : r.service = s}
  <1>2. PICK n \in {r.name : r \in mine} : \A t \in {r.name : r \in mine} : n =< t
    <2>1. {r.name : r \in mine} \in SUBSET Nat /\ {r.name : r \in mine} # {}
      BY <1>1
    <2> QED BY <2>1, Data!LeastNumber
  <1>3. PICK r \in rows : r.service = s /\ r.name = n
    BY <1>2
  <1>4. ASSUME NEW q \in rows, q # r
        PROVE  Before(r, q)
    <2>1. r.service =< q.service /\ (q.service = s => r.name =< q.name)
      BY <1>1, <1>2, <1>3
    <2>2. ~(q.service = r.service /\ q.name = r.name)
      BY <1>4 DEF Keyed
    <2> QED BY <1>3, <2>1, <2>2 DEF Before
  <1> QED BY <1>4

\* Finitely many rows can be counted.
LEMMA RowsCounted ==
    ASSUME NEW rows, IsFiniteSet(rows)
    PROVE  \E n, g : n \in Nat /\ n = Cardinality(rows) /\ Data!Counts(g, n, rows)
  <1>1. PICK n \in Nat : n = Cardinality(rows)
    BY FS_CardinalityType
  <1>2. PICK g : g \in Bijection(1..n, rows)
    BY <1>1, FS_CardinalityType DEF ExistsBijection
  <1>3. Data!Counts(g, n, rows)
    BY <1>2 DEF Bijection, Injection, Surjection, IsInjective, Data!Counts
  <1> QED BY <1>1, <1>3

\* The order of a listing orders every finite set of rows.
LEMMA SortedExists ==
    ASSUME NEW V, NEW rows \in SUBSET Rows(V), Keyed(rows), IsFiniteSet(rows)
    PROVE  \E s \in SetToSeqs(rows) : Sorted(s)
  <1> DEFINE R == {e \in rows \X rows : Before(e[1], e[2])}
  <1>1. Data!HasFirsts(rows, R)
    <2> SUFFICES ASSUME NEW I \in SUBSET rows, I # {}
                 PROVE  \E i \in I : \A j \in I \ {i} : <<i, j>> \in R
      BY DEF Data!HasFirsts
    <2>1. I \in SUBSET Rows(V) /\ Keyed(I)
      BY DEF Keyed
    <2>2. PICK r \in I : \A q \in I \ {r} : Before(r, q)
      BY <2>1, FirstRow
    <2> QED BY <2>2
  <1>2. \A r, q : <<r, q>> \in R => Before(r, q)
    OBVIOUS
  <1> HIDE DEF R
  <1>6. PICK n, g : n \in Nat /\ n = Cardinality(rows) /\ Data!Counts(g, n, rows)
    BY RowsCounted
  <1>3. PICK f : Data!Lists(f, n, rows, R)
    BY <1>1, <1>6, Data!ListExists
  <1>4. f \in SetToSeqs(rows)
    BY <1>3, <1>6 DEF Data!Lists, SetToSeqs
  <1>5. Sorted(f)
    BY <1>2, <1>3 DEF Data!Lists, Sorted
  <1> QED BY <1>4, <1>5

\* SELECT returns each row once, in that order.
LEMMA SelectedRows ==
    ASSUME NEW V, NEW rows \in SUBSET Rows(V), Keyed(rows), IsFiniteSet(rows)
    PROVE  /\ Selected(rows) \in Seq(rows)
           /\ Len(Selected(rows)) = Cardinality(rows)
           /\ \A r \in rows : \E i \in DOMAIN Selected(rows) : Selected(rows)[i] = r
           /\ Sorted(Selected(rows))
  <1>1. PICK s : s = Selected(rows)
    OBVIOUS
  <1>2. s \in SetToSeqs(rows) /\ Sorted(s)
    BY <1>1, SortedExists DEF Selected, Sorted
  <1>3. PICK n, g : n \in Nat /\ n = Cardinality(rows) /\ Data!Counts(g, n, rows)
    BY RowsCounted
  <1>4. s \in [1..n -> rows] /\ \A i, j \in 1..n : i # j => s[i] # s[j]
    BY <1>2, <1>3 DEF SetToSeqs
  <1>5. s \in Seq(rows) /\ Len(s) = n /\ DOMAIN s = 1..n
    BY <1>3, <1>4
  <1>6. Data!Lists(s, n, rows, rows \X rows)
    BY <1>4 DEF Data!Lists
  <1>7. \A r \in rows : \E i \in 1..n : s[i] = r
    BY <1>3, <1>6, Data!ListsAll
  <1> QED BY <1>1, <1>2, <1>3, <1>5, <1>7

-----------------------------------------------------------------------------
(* The groups of a listing. *)

\* A sequence that is not empty is the one before its last element, and that.
LEMMA LastOfSequence ==
    ASSUME NEW S, NEW s \in Seq(S), NEW n \in Nat
    PROVE  Len(s) = n + 1 =>
              /\ SubSeq(s, 1, n) \in Seq(S) /\ Len(SubSeq(s, 1, n)) = n /\ s[n+1] \in S
              /\ \A i \in 1..n : SubSeq(s, 1, n)[i] = s[i]
              /\ s = Append(SubSeq(s, 1, n), s[n+1])
  OBVIOUS

\* The loop of the handler, one row after the other.
LEMMA GroupedIsFold ==
    ASSUME NEW S, NEW rows \in Seq(S)
    PROVE  Grouped(rows) = Data!Fold(<< >>, rows)
  <1>1. PICK D : D = DOMAIN rows /\ D = 1..Len(rows)
    OBVIOUS
  <1>2. Grouped(rows) =
          (CHOOSE f : f = [t \in SUBSET (DOMAIN rows) |->
              IF t = {} THEN << >> ELSE AddEntry(f[t \ {Max(t)}], rows[Max(t)])])[DOMAIN rows]
    BY DEF Grouped, FoldLeft, MapThenFoldSet
  <1>3. Data!Fold(<< >>, rows) =
          (CHOOSE f : f = [t \in SUBSET (1..Len(rows)) |->
              IF t = {} THEN << >> ELSE AddEntry(f[t \ {Max(t)}], rows[Max(t)])])[1..Len(rows)]
    BY DEF Data!Fold, Data!TheFold, Data!IsFold, Data!Largest, Max
  <1>4. Data!Fold(<< >>, rows) =
          (CHOOSE f : f = [t \in SUBSET D |->
              IF t = {} THEN << >> ELSE AddEntry(f[t \ {Max(t)}], rows[Max(t)])])[D]
    BY <1>1, <1>3
  <1>5. Grouped(rows) =
          (CHOOSE f : f = [t \in SUBSET D |->
              IF t = {} THEN << >> ELSE AddEntry(f[t \ {Max(t)}], rows[Max(t)])])[D]
    BY <1>1, <1>2
  <1> QED BY <1>4, <1>5

\* What a group is, and the rows of some groups, one group after the other.
Group(V) == [service : Nat, entries : Seq(Rows(V))]

OneService(group) == \A i \in DOMAIN group.entries : group.entries[i].service = group.service

Contents(groups) == [g \in 1..Len(groups) |-> groups[g].entries]

\* A group is printed as it is: every row of it is a row of its service.
LEMMA PrintedIs ==
    ASSUME NEW V, NEW groups \in Seq(Group(V)), \A g \in DOMAIN groups : OneService(groups[g])
    PROVE  Printed(groups) = Data!Flatten(Contents(groups))
  <1> DEFINE Lines == [g \in DOMAIN groups |->
                        [i \in DOMAIN groups[g].entries |->
                            [groups[g].entries[i] EXCEPT !.service = groups[g].service]]]
  <1>1. ASSUME NEW g \in DOMAIN groups
        PROVE  Lines[g] = groups[g].entries
    <2>1. PICK e \in Seq(Rows(V)) : e = groups[g].entries
      <3>1. groups[g] \in Group(V)
        OBVIOUS
      <3> QED BY <3>1 DEF Group
    <2>2. ASSUME NEW i \in DOMAIN e
          PROVE  [e[i] EXCEPT !.service = groups[g].service] = e[i]
      <3>1. e[i] \in Rows(V) /\ e[i].service = groups[g].service
        BY <2>1 DEF OneService
      <3> QED BY <3>1 DEF Rows
    <2>3. [i \in DOMAIN e |-> [e[i] EXCEPT !.service = groups[g].service]] = [i \in DOMAIN e |-> e[i]]
      BY <2>2
    <2>4. [i \in DOMAIN e |-> e[i]] = e
      OBVIOUS
    <2> QED BY <2>1, <2>3, <2>4
  <1>2. DOMAIN groups = 1..Len(groups)
    OBVIOUS
  <1>3. Lines = Contents(groups)
    BY <1>1, <1>2 DEF Contents
  <1>4. Printed(groups) = FlattenSeq(Lines)
    BY DEF Printed
  <1>5. \A seqs : FlattenSeq(seqs) = Data!Flatten(seqs)
    BY DEF FlattenSeq, Data!Flatten, Data!TheFlatten, Data!IsFlatten
  <1> QED BY <1>3, <1>4, <1>5

\* What has been printed after one more group is what it held before and the group.
LEMMA ContentsAppend ==
    ASSUME NEW V, NEW groups \in Seq(Group(V)), NEW group \in Group(V)
    PROVE  /\ Contents(groups) \in Seq(Seq(Rows(V)))
           /\ Contents(Append(groups, group)) = Append(Contents(groups), group.entries)
  <1> DEFINE G == Group(V)
             Q == Seq(Rows(V))
  <1>1. \A g \in G : g.entries \in Q
    BY DEF Group
  <1>2. groups \in Seq(G) /\ group \in G
    OBVIOUS
  <1> HIDE DEF G, Q
  <1>3. Contents(groups) \in Seq(Q) /\ Len(Contents(groups)) = Len(groups)
    BY <1>1, <1>2 DEF Contents
  <1>4. Contents(Append(groups, group)) = Append(Contents(groups), group.entries)
    BY <1>1, <1>2, <1>3 DEF Contents
  <1> QED BY <1>3, <1>4 DEF Q

\* One field of a record is replaced, and so is the last element of a sequence.
LEMMA EntriesReplaced ==
    ASSUME NEW Q, NEW group \in [service : Nat, entries : Q], NEW e \in Q
    PROVE  /\ [group EXCEPT !.entries = e] \in [service : Nat, entries : Q]
           /\ [group EXCEPT !.entries = e].entries = e
           /\ [group EXCEPT !.entries = e].service = group.service
  OBVIOUS

\* Replacing the element just appended is appending the other.
LEMMA LastReplaced ==
    ASSUME NEW S, NEW s \in Seq(S), NEW x \in S, NEW y \in S
    PROVE  [Append(s, x) EXCEPT ![Len(s) + 1] = y] = Append(s, y)
  <1>1. PICK m \in Nat : m = Len(s)
    OBVIOUS
  <1>2. PICK a : a = Append(s, x)
    OBVIOUS
  <1>3. PICK b : b = Append(s, y)
    OBVIOUS
  <1>4. /\ a \in Seq(S) /\ Len(a) = m + 1 /\ \A i \in 1..m : a[i] = s[i]
        /\ b \in Seq(S) /\ Len(b) = m + 1 /\ \A i \in 1..m : b[i] = s[i]
        /\ b[m+1] = y
    BY <1>1, <1>2, <1>3
  <1>5. /\ DOMAIN a = 1..(m+1) /\ DOMAIN b = 1..(m+1)
        /\ \A i \in 1..(m+1) : b[i] = IF i = m+1 THEN y ELSE a[i]
        /\ b = [i \in 1..(m+1) |-> b[i]]
    BY <1>4
  <1>6. [a EXCEPT ![m+1] = y] = [i \in 1..(m+1) |-> IF i = m+1 THEN y ELSE a[i]]
    BY <1>5
  <1>7. [a EXCEPT ![m+1] = y] = b
    BY <1>5, <1>6
  <1> QED BY <1>1, <1>2, <1>3, <1>7

\* Each row goes into a group of its service, at the end.
LEMMA AddEntryPrinted ==
    ASSUME NEW V, NEW groups \in Seq(Group(V)), \A g \in DOMAIN groups : OneService(groups[g]),
           NEW row \in Rows(V)
    PROVE  /\ AddEntry(groups, row) \in Seq(Group(V))
           /\ \A g \in DOMAIN AddEntry(groups, row) : OneService(AddEntry(groups, row)[g])
           /\ Data!Flatten(Contents(AddEntry(groups, row)))
                  = Append(Data!Flatten(Contents(groups)), row)
  <1> DEFINE new == [service |-> row.service, entries |-> <<row>>]
  <1>0. Contents(groups) \in Seq(Seq(Rows(V))) /\ row.service \in Nat
    <2>1. [service |-> 0, entries |-> << >>] \in Group(V)
      BY DEF Group
    <2> QED BY <2>1, ContentsAppend DEF Rows
  <1>1. Data!Flatten(Contents(groups)) \in Seq(Rows(V))
    BY <1>0, Data!FlattenTyped
  <1>2. CASE groups = << >> \/ Last(groups).service # row.service
    <2>1. AddEntry(groups, row) = Append(groups, new)
      BY <1>2 DEF AddEntry
    <2>2. new \in Group(V) /\ OneService(new) /\ new.entries = <<row>>
      BY <1>0 DEF Group, OneService
    <2> HIDE DEF new
    <2>3. Append(groups, new) \in Seq(Group(V))
      BY <2>2
    <2>4. \A g \in DOMAIN Append(groups, new) : OneService(Append(groups, new)[g])
      BY <2>2
    <2>5. Contents(Append(groups, new)) = Append(Contents(groups), <<row>>)
      BY <2>2, ContentsAppend
    <2>6. <<row>> \in Seq(Rows(V))
      OBVIOUS
    <2>7. Data!Flatten(Append(Contents(groups), <<row>>)) = Data!Flatten(Contents(groups)) \o <<row>>
      BY <1>0, <2>6, Data!FlattenAppend
    <2>8. Data!Flatten(Contents(groups)) \o <<row>> = Append(Data!Flatten(Contents(groups)), row)
      BY <1>1
    <2> QED BY <2>1, <2>3, <2>4, <2>5, <2>7, <2>8
  <1>3. CASE ~(groups = << >> \/ Last(groups).service # row.service)
    <2>1. PICK n \in Nat : Len(groups) = n + 1
      <3>1. Len(groups) # 0 /\ Len(groups) \in Nat
        BY <1>3, Data!EmptySequence
      <3> QED BY <3>1
    <2>2. PICK front \in Seq(Group(V)), last \in Group(V) :
             /\ groups = Append(front, last) /\ last = groups[n+1]
             /\ Len(front) = n /\ \A i \in 1..n : front[i] = groups[i]
      BY <2>1, LastOfSequence
    <2> DEFINE longer == [last EXCEPT !.entries = Append(@, row)]
    <2>3. last.service = row.service /\ OneService(last)
      BY <1>3, <2>1, <2>2 DEF Last
    <2>4. /\ longer \in Group(V) /\ longer.entries = Append(last.entries, row)
          /\ longer.service = last.service /\ last.entries \in Seq(Rows(V))
      <3> DEFINE Q == Seq(Rows(V))
      <3>1. last \in [service : Nat, entries : Q]
        BY DEF Group
      <3>2. last.entries \in Q
        BY <3>1
      <3>3. Append(last.entries, row) \in Q
        BY <3>2
      <3> HIDE DEF Q
      <3>4. /\ longer \in [service : Nat, entries : Q] /\ longer.entries = Append(last.entries, row)
            /\ longer.service = last.service
        BY <3>1, <3>3, EntriesReplaced
      <3> QED BY <3>2, <3>4 DEF Group, Q
    <2>5. AddEntry(groups, row) = [groups EXCEPT ![n+1] = longer]
      BY <1>3, <2>1, <2>2 DEF AddEntry
    <2>6. OneService(longer)
      BY <2>3, <2>4 DEF OneService
    <2> HIDE DEF longer
    <2>7. [groups EXCEPT ![n+1] = longer] = Append(front, longer)
      <3>1. [Append(front, last) EXCEPT ![Len(front) + 1] = longer] = Append(front, longer)
        BY <2>4, LastReplaced
      <3>2. groups = Append(front, last) /\ Len(front) = n
        BY <2>2
      <3> QED BY <3>1, <3>2
    <2>8. Append(front, longer) \in Seq(Group(V))
      BY <2>4
    <2>9. \A g \in DOMAIN Append(front, longer) : OneService(Append(front, longer)[g])
      BY <2>1, <2>2, <2>4, <2>6
    <2>10. /\ Contents(front) \in Seq(Seq(Rows(V)))
           /\ Contents(groups) = Append(Contents(front), last.entries)
           /\ Contents(Append(front, longer)) = Append(Contents(front), longer.entries)
      BY <2>2, <2>4, ContentsAppend
    <2>11. Data!Flatten(Contents(front)) \in Seq(Rows(V))
      BY <2>10, Data!FlattenTyped
    <2>12. Data!Flatten(Contents(groups)) = Data!Flatten(Contents(front)) \o last.entries
      BY <2>4, <2>10, Data!FlattenAppend
    <2>13. longer.entries \in Seq(Rows(V))
      BY <2>4
    <2>14. Data!Flatten(Contents(Append(front, longer)))
              = Data!Flatten(Contents(front)) \o longer.entries
      BY <2>10, <2>13, Data!FlattenAppend
    <2>15. \A s, t \in Seq(Rows(V)) : s \o Append(t, row) = Append(s \o t, row)
      OBVIOUS
    <2>16. Data!Flatten(Contents(Append(front, longer))) = Append(Data!Flatten(Contents(groups)), row)
      BY <2>4, <2>11, <2>12, <2>14, <2>15
    <2> QED BY <2>5, <2>7, <2>8, <2>9, <2>16
  <1> QED BY <1>2, <1>3

\* What is printed is what was selected: nothing is left out, added or moved
\* when rows are grouped, whatever rows they are.
THEOREM PrintedGrouped ==
    ASSUME NEW V, NEW rows \in Seq(Rows(V))
    PROVE  Printed(Grouped(rows)) = rows
  <1> DEFINE Good(s) == /\ Grouped(s) \in Seq(Group(V))
                        /\ \A g \in DOMAIN Grouped(s) : OneService(Grouped(s)[g])
                        /\ Data!Flatten(Contents(Grouped(s))) = s
             T == {n \in Nat : \A s \in Seq(Rows(V)) : Len(s) = n => Good(s)}
  <1>1. 0 \in T
    <2> SUFFICES ASSUME NEW s \in Seq(Rows(V)), Len(s) = 0
                 PROVE  Good(s)
      OBVIOUS
    <2>1. s = << >>
      BY Data!EmptySequence
    <2>2. Grouped(s) = << >>
      BY <2>1, GroupedIsFold, Data!FoldEmpty
    <2>3. Contents(<< >>) = << >>
      BY DEF Contents
    <2>4. Data!Flatten(<< >>) = << >>
      BY DEF Data!Flatten
    <2>5. << >> \in Seq(Group(V)) /\ DOMAIN << >> = {}
      OBVIOUS
    <2>6. Grouped(s) \in Seq(Group(V)) /\ \A g \in DOMAIN Grouped(s) : OneService(Grouped(s)[g])
      <3>1. \A g \in DOMAIN << >> : OneService(<< >>[g])
        BY <2>5
      <3> QED BY <2>2, <2>5, <3>1
    <2>7. Data!Flatten(Contents(Grouped(s))) = s
      BY <2>1, <2>2, <2>3, <2>4
    <2> QED BY <2>6, <2>7
  <1>2. ASSUME NEW n \in Nat, n \in T
        PROVE  n + 1 \in T
    <2>0. ASSUME NEW s \in Seq(Rows(V))
          PROVE  Len(s) = n + 1 =>
                    \E f \in Seq(Rows(V)), r \in Rows(V) : Len(f) = n /\ s = Append(f, r)
      <3>1. Len(s) = n + 1 =>
               /\ SubSeq(s, 1, n) \in Seq(Rows(V)) /\ Len(SubSeq(s, 1, n)) = n
               /\ s[n+1] \in Rows(V) /\ s = Append(SubSeq(s, 1, n), s[n+1])
        BY LastOfSequence
      <3> QED BY <3>1
    <2> SUFFICES ASSUME NEW s \in Seq(Rows(V)), Len(s) = n + 1
                 PROVE  Good(s)
      OBVIOUS
    <2>1. PICK front \in Seq(Rows(V)), row \in Rows(V) : Len(front) = n /\ s = Append(front, row)
      BY <2>0
    <2>2. Good(front)
      BY <1>2, <2>1
    <2>3. Grouped(s) = AddEntry(Grouped(front), row)
      <3>1. Grouped(s) = Data!Fold(<< >>, s) /\ Grouped(front) = Data!Fold(<< >>, front)
        BY GroupedIsFold
      <3>2. Data!Fold(<< >>, Append(front, row)) = AddEntry(Data!Fold(<< >>, front), row)
        BY Data!FoldAppend
      <3> QED BY <2>1, <3>1, <3>2
    <2> QED BY <2>1, <2>2, <2>3, AddEntryPrinted
  <1> HIDE DEF T
  <1>3. Nat \subseteq T
    BY <1>1, <1>2, Data!Induction
  <1>4. Len(rows) \in Nat
    OBVIOUS
  <1>5. Good(rows)
    BY <1>3, <1>4 DEF T
  <1> QED BY <1>5, PrintedIs

-----------------------------------------------------------------------------
(* The calls. *)

\* What the entries of a status are made of.
States == UNION {UnitStates[u] : u \in Units}
Fields == {None} \cup UNION {{s[p] : p \in PropertyNames} : s \in States}
FieldValues == [PropertyNames -> Fields]
ServiceLists == {q.services : q \in StatusRequests}
Names == UNION {{list[i] : i \in DOMAIN list} : list \in ServiceLists}
StatusEntries ==
    [name : Names, kind : {"status", "error"}, state : FieldValues, raw : {None} \cup States]
EntryLists == Seq(StatusEntries)
PropertyLists == Seq(PropertyNames)
StateSets == [Units -> SUBSET States]

StatusCalls ==
    [op : {"status"}, pc : {"next", "read"}, services : ServiceLists, raw : BOOLEAN,
     read : PropertyLists, state : FieldValues, entries : EntryLists,
     had : StateSets, broke : SUBSET Nat]

ParamOps == {"set", "get", "list"}

\* A call is of one of two kinds.
CallsTyped == call \in [Handlers -> {Idle} \cup ParamCalls \cup StatusCalls]

-----------------------------------------------------------------------------
(* The parameters. *)

\* Each statement that was committed, or still may be, is one of the changes.
RunningSets == {h \in Handlers : Runs(h, "set")}
WritesCounted ==
    /\ changes \in 0..MaxChanges /\ writes \in Nat
    /\ IsFiniteSet(RunningSets) /\ writes + Cardinality(RunningSets) =< changes

\* The rows of the table are finitely many, and of accounts that have a name.
TableTyped ==
    /\ IsFiniteSet(DOMAIN params) /\ DOMAIN params \subseteq Accounts \ BlankAccounts
    /\ \A a \in DOMAIN params : params[a] \in 1..writes

\* What a client knows of was committed.
KnownKept ==
    /\ known \in [Accounts -> 0..writes]
    /\ \A a \in Accounts : known[a] > 0 => a \in DOMAIN params /\ params[a] >= known[a]

\* A value that is shown was the one of its account, and was not replaced by
\* an older one since.
RowHeld(row) == \E a \in DOMAIN params : row = Row(a, row.value) /\ row.value =< params[a]

NotStale(c) ==
    c.op \in {"get", "list"} /\ c.pc \in {"done", "notfound"} =>
        \A a \in Accounts : c.knew[a] > 0 =>
            \E i \in DOMAIN c.rows :
                c.rows[i] = Row(a, c.rows[i].value) /\ c.rows[i].value >= c.knew[a]

\* A call began when clients knew no more than they do now; what it asks for is
\* an account, with a name if it is running.
CallHeld(c) ==
    /\ \A a \in Accounts : c.knew[a] =< known[a]
    /\ c.op \in {"set", "get"} => c.account \in Accounts
    /\ c.op = "set" /\ c.pc = "run" => c.account \notin BlankAccounts
    /\ c.op = "get" => \A b \in Accounts : b # c.account => c.knew[b] = 0
    /\ \A i \in DOMAIN c.rows : RowHeld(c.rows[i])
    /\ NotStale(c)

ParamInv ==
    /\ CallsTyped /\ WritesCounted /\ TableTyped /\ KnownKept
    /\ \A h \in Handlers : call[h].op \in ParamOps => CallHeld(call[h])

-----------------------------------------------------------------------------
(* The units. *)

\* What is reported was a property of the unit, or there is no MainPID.
FieldSeen(had, name, state, p) ==
    \/ \E s \in had[Normalize(name)] : state[p] = s[p]
    \/ p = "pid" /\ state[p] = None

\* The client may see the unit of a name.
Visible(name) == ListedNames = {} \/ Designated(name)

\* An entry is the one of a service, shows a state if and only if it may, and
\* one that was seen.
EntryIs(entry, name, shown, had, raw) ==
    /\ entry.name = name
    /\ entry.kind = "status" <=> shown
    /\ entry.kind = "status" =>
          /\ \A p \in PropertyNames : FieldSeen(had, name, entry.state, p)
          /\ entry.raw \in had[Normalize(name)] \cup {None}
          /\ raw <=> entry.raw # None

EntryHeld(c, i) ==
    EntryIs(c.entries[i], c.services[i],
            c.services[i] # EmptyName /\ Visible(c.services[i]) /\ i \notin c.broke, c.had, c.raw)

\* The properties are read in their order, of a unit that the client may see.
CurrentOf(c) == c.services[Len(c.entries) + 1]

ReadSeen(c, k) ==
    IF k =< Len(c.read) THEN FieldSeen(c.had, CurrentOf(c), c.state, Properties[k])
    ELSE c.state[Properties[k]] = None

ReadHeld(c) ==
    /\ Len(c.read) =< Len(Properties) /\ c.read = SubSeq(Properties, 1, Len(c.read))
    /\ c.pc = "read" =>
          /\ Len(c.entries) + 1 \in DOMAIN c.services
          /\ CurrentOf(c) # EmptyName /\ IsAllowed(CurrentOf(c))
          /\ \A k \in 1..Len(Properties) : ReadSeen(c, k)

StatusHeld(c) ==
    /\ Len(c.entries) =< Len(c.services)
    /\ c.broke \subseteq 1..Len(c.entries)
    /\ \A u \in Units : units[u] \in c.had[u]
    /\ \A i \in DOMAIN c.entries : EntryHeld(c, i)
    /\ ReadHeld(c)

UnitInv ==
    /\ CallsTyped
    /\ DOMAIN units = Units /\ \A u \in Units : units[u] \in UnitStates[u]
    /\ allowedServices \in AllowLists
    /\ \A h \in Handlers : call[h].op = "status" => StatusHeld(call[h])

-----------------------------------------------------------------------------
(* The passwords. *)

StoreProofs == INSTANCE GetOrCreateProofs
    WITH Clients <- Handlers, Exclusive <- FALSE, store <- passwords, call <- gets

\* A handler serves the command that waits for it.
CommandsServed ==
    \A h \in Handlers : typed[h] # None =>
        /\ Parsed(typed[h])
        /\ gets[h].phase \in {"pending", "answered"} =>
              Accepted(typed[h]) /\ gets[h].key = Asked(typed[h])

\* What was printed is the password of what was asked for.
PrintedHeld ==
    \A p \in printed :
        /\ p \in [typed : Typed, value : Values]
        /\ Parsed(p.typed) /\ Accepted(p.typed)
        /\ passwords[Asked(p.typed)] = p.value

PasswordInv ==
    /\ StoreProofs!Inv
    /\ typed \in [Handlers -> Typed \cup {None}]
    /\ CommandsServed /\ PrintedHeld

Inv == kind \in {"param", "status", "password"} /\ ParamInv /\ UnitInv /\ PasswordInv

-----------------------------------------------------------------------------
(* Passwords: the spellings of a policy. *)

\* The commands go through the steps of the store, and no others.
LEMMA StoreStep ==
    ASSUME NEW h \in Handlers, PasswordStep(h)
    PROVE  [StoreProofs!Next]_StoreProofs!vars
  <1>1. CASE Send(h)
    <2>1. PICK t \in Typed :
              Parsed(t) /\ IF Accepted(t) THEN Store!Begin(h, Asked(t)) ELSE Store!Refuse(h)
      BY <1>1 DEF Send
    <2>2. CASE Accepted(t)
      <3>1. Asked(t) \in Keys
        BY <2>1, <2>2 DEF Keys
      <3>2. StoreProofs!Begin(h, Asked(t))
        BY <2>1, <2>2 DEF Store!Begin, StoreProofs!Begin, Store!Idle, StoreProofs!Idle,
              Store!Pending, StoreProofs!Pending
      <3> QED BY <3>1, <3>2 DEF StoreProofs!Next
    <2>3. CASE ~Accepted(t)
      <3>1. StoreProofs!Refuse(h)
        BY <2>1, <2>3 DEF Store!Refuse, StoreProofs!Refuse, Store!Idle, StoreProofs!Idle,
              Store!Failed, StoreProofs!Failed
      <3> QED BY <3>1 DEF StoreProofs!Next
    <2> QED BY <2>2, <2>3
  <1>2. CASE Serve(h)
    <2>1. \/ StoreProofs!Fetch(h)
          \/ StoreProofs!Fail(h)
          \/ \E v \in Values : StoreProofs!Create(h, v) \/ StoreProofs!CreateUntold(h, v)
      BY <1>2 DEF Serve, Store!Fetch, StoreProofs!Fetch, Store!Fail, StoreProofs!Fail,
            Store!Create, StoreProofs!Create, Store!CreateUntold, StoreProofs!CreateUntold,
            Store!Available, StoreProofs!Available, Store!Answered, StoreProofs!Answered,
            Store!Failed, StoreProofs!Failed
    <2> QED BY <2>1 DEF StoreProofs!Next
  <1>3. CASE PrintPassword(h)
    <2>1. StoreProofs!Return(h)
      BY <1>3 DEF PrintPassword, Store!Return, StoreProofs!Return, Store!Idle, StoreProofs!Idle
    <2> QED BY <2>1 DEF StoreProofs!Next
  <1>4. CASE GiveUpGet(h)
    BY <1>4 DEF GiveUpGet, StoreProofs!vars
  <1> QED BY <1>1, <1>2, <1>3, <1>4 DEF PasswordStep

\* A password that is stored stays, so what was printed stays true.
LEMMA PrintedKept ==
    ASSUME PasswordInv, [StoreProofs!Next]_StoreProofs!vars
    PROVE  \A p \in printed : p \in [typed : Typed, value : Values] /\ Parsed(p.typed)
              /\ Accepted(p.typed) /\ passwords'[Asked(p.typed)] = p.value
  <1> SUFFICES ASSUME NEW p \in printed
               PROVE  p \in [typed : Typed, value : Values] /\ Parsed(p.typed)
                        /\ Accepted(p.typed) /\ passwords'[Asked(p.typed)] = p.value
    OBVIOUS
  <1>1. /\ p \in [typed : Typed, value : Values] /\ Parsed(p.typed) /\ Accepted(p.typed)
        /\ passwords[Asked(p.typed)] = p.value
    BY DEF PasswordInv, PrintedHeld
  <1>2. Asked(p.typed) \in Keys /\ p.value # None
    BY <1>1, ValuesAssumption DEF Keys
  <1>3. \A k \in Keys : passwords[k] # None => passwords'[k] = passwords[k]
    <2> SUFFICES ASSUME NEW k \in Keys, passwords[k] # None
                 PROVE  passwords'[k] = passwords[k]
      OBVIOUS
    <2>1. passwords \in [Keys -> Values \cup {None}]
      BY DEF PasswordInv, StoreProofs!Inv, StoreProofs!TypeOK
    <2>2. CASE StoreProofs!Next
      BY <2>1, <2>2 DEF StoreProofs!Next, StoreProofs!Begin, StoreProofs!Refuse, StoreProofs!Fetch,
            StoreProofs!Fail, StoreProofs!Return, StoreProofs!Create, StoreProofs!CreateUntold,
            StoreProofs!Crash
    <2> QED BY <2>2 DEF StoreProofs!vars
  <1> QED BY <1>1, <1>2, <1>3

\* No step of the commands disturbs what is held of the password commands.
LEMMA PasswordInvNext ==
    ASSUME PasswordInv, [Next]_vars
    PROVE  PasswordInv'
  <1>1. CASE UNCHANGED passwordVars
    BY <1>1 DEF PasswordInv, passwordVars, CommandsServed, PrintedHeld,
          StoreProofs!Inv, StoreProofs!TypeOK, StoreProofs!Distinct, StoreProofs!AnswersOK,
          StoreProofs!SoleCreator
  <1>2. ASSUME NEW h \in Handlers, PasswordStep(h)
        PROVE  PasswordInv'
    <2>1. StoreProofs!Inv'
      BY <1>2, StoreStep, StoreProofs!InvNext, ValuesAssumption DEF PasswordInv
    <2>2. /\ typed \in [Handlers -> Typed \cup {None}]
          /\ \A g \in Handlers : gets[g].phase \in {"idle", "pending", "answered", "failed"}
          /\ gets \in [Handlers -> StoreProofs!Calls]
      BY StoreProofs!CallTypes DEF PasswordInv, StoreProofs!Inv, StoreProofs!TypeOK
    <2>3. typed' \in [Handlers -> Typed \cup {None}]
      BY <1>2, <2>2 DEF PasswordStep, Send, Serve, PrintPassword, GiveUpGet
    <2>4. CommandsServed'
      <3> SUFFICES ASSUME NEW g \in Handlers, typed'[g] # None
                   PROVE  /\ Parsed(typed'[g])
                          /\ gets'[g].phase \in {"pending", "answered"} =>
                                Accepted(typed'[g]) /\ gets'[g].key = Asked(typed'[g])
        BY DEF CommandsServed
      <3>1. CASE g # h
        <4>1. typed'[g] = typed[g]
          BY <1>2, <2>2, <3>1 DEF PasswordStep, Send, Serve, PrintPassword, GiveUpGet
        <4>2. gets'[g] = gets[g]
          BY <1>2, <2>2, <3>1 DEF PasswordStep, Send, Serve, PrintPassword, GiveUpGet,
                Store!Begin, Store!Refuse, Store!Fetch, Store!Fail, Store!Create,
                Store!CreateUntold, Store!Return
        <4> QED BY <4>1, <4>2 DEF PasswordInv, CommandsServed
      <3>2. CASE g = h /\ Send(h)
        <4>1. PICK t \in Typed :
                 /\ Parsed(t)
                 /\ IF Accepted(t) THEN Store!Begin(h, Asked(t)) ELSE Store!Refuse(h)
                 /\ typed' = [typed EXCEPT ![h] = t]
          BY <3>2 DEF Send
        <4>2. typed'[h] = t
          BY <2>2, <4>1
        <4>3. CASE Accepted(t)
          <5>1. gets'[h] = Store!Pending(Asked(t))
            BY <2>2, <4>1, <4>3 DEF Store!Begin
          <5> QED BY <3>2, <4>1, <4>2, <4>3, <5>1 DEF Store!Pending
        <4>4. CASE ~Accepted(t)
          <5>1. gets'[h] = Store!Failed
            BY <2>2, <4>1, <4>4 DEF Store!Refuse
          <5> QED BY <3>2, <4>1, <4>2, <5>1 DEF Store!Failed
        <4> QED BY <4>3, <4>4
      <3>3. CASE g = h /\ Serve(h)
        <4>1. typed'[h] = typed[h] /\ gets[h].phase = "pending"
          BY <3>3 DEF Serve, Store!Fetch, Store!Fail, Store!Create, Store!CreateUntold
        <4>2. Parsed(typed[h]) /\ Accepted(typed[h]) /\ gets[h].key = Asked(typed[h])
          BY <3>3, <4>1 DEF PasswordInv, CommandsServed
        <4>3. gets'[h].phase = "failed" \/ gets'[h].key = gets[h].key
          <5>1. CASE gets' = [gets EXCEPT ![h] = Store!Failed]
            BY <2>2, <5>1 DEF Store!Failed
          <5>2. CASE Store!Fetch(h)
            <6>1. gets'[h] = Store!Answered(gets[h].key, passwords[gets[h].key], FALSE)
              BY <2>2, <5>2 DEF Store!Fetch
            <6> QED BY <6>1 DEF Store!Answered
          <5>3. ASSUME NEW v \in Values, Store!Create(h, v)
                PROVE  gets'[h].key = gets[h].key
            <6>1. gets'[h] = Store!Answered(gets[h].key, v, TRUE)
              BY <2>2, <5>3 DEF Store!Create
            <6> QED BY <6>1 DEF Store!Answered
          <5> QED BY <3>3, <5>1, <5>2, <5>3 DEF Serve, Store!Fail, Store!CreateUntold
        <4> QED BY <3>3, <4>1, <4>2, <4>3
      <3>4. CASE g = h /\ PrintPassword(h)
        BY <2>2, <3>4 DEF PrintPassword
      <3>5. CASE g = h /\ GiveUpGet(h)
        BY <2>2, <3>5 DEF GiveUpGet
      <3> QED BY <1>2, <3>1, <3>2, <3>3, <3>4, <3>5 DEF PasswordStep
    <2>5. PrintedHeld'
      <3>1. \A p \in printed : /\ p \in [typed : Typed, value : Values]
                                /\ Parsed(p.typed) /\ Accepted(p.typed)
                                /\ passwords'[Asked(p.typed)] = p.value
        BY <1>2, StoreStep, PrintedKept
      <3>2. CASE ~PrintPassword(h)
        BY <1>2, <3>1, <3>2 DEF PasswordStep, Send, Serve, GiveUpGet, PrintedHeld
      <3>3. CASE PrintPassword(h)
        <4>1. ASSUME gets[h].phase = "answered", typed[h] # None
              PROVE  /\ [typed |-> typed[h], value |-> gets[h].value]
                            \in [typed : Typed, value : Values]
                     /\ Parsed(typed[h]) /\ Accepted(typed[h])
                     /\ passwords'[Asked(typed[h])] = gets[h].value
          <5>1. Parsed(typed[h]) /\ Accepted(typed[h]) /\ gets[h].key = Asked(typed[h])
            BY <4>1 DEF PasswordInv, CommandsServed
          <5>2. passwords[gets[h].key] = gets[h].value
            BY <4>1 DEF PasswordInv, StoreProofs!Inv, StoreProofs!AnswersOK
          <5>3. gets[h].value \in Values
            BY <2>2, <4>1 DEF StoreProofs!Calls, StoreProofs!Idle, StoreProofs!Failed,
                  StoreProofs!Pending
          <5>4. passwords' = passwords
            BY <3>3 DEF PrintPassword, Store!Return
          <5> QED BY <2>2, <4>1, <5>1, <5>2, <5>3, <5>4
        <4> QED BY <3>1, <3>3, <4>1 DEF PrintPassword, PrintedHeld
      <3> QED BY <3>2, <3>3
    <2> QED BY <2>1, <2>3, <2>4, <2>5 DEF PasswordInv
  <1>3. CASE Crash
    <2>1. StoreProofs!Crash
      BY <1>3 DEF Crash, PasswordCrash, Store!Crash, StoreProofs!Crash, Store!Idle, StoreProofs!Idle
    <2>2. StoreProofs!Inv'
      BY <2>1, StoreProofs!InvNext, ValuesAssumption DEF PasswordInv, StoreProofs!Next
    <2>3. typed' = [h \in Handlers |-> None] /\ printed' = printed /\ passwords' = passwords
      BY <1>3 DEF Crash, PasswordCrash, Store!Crash
    <2>4. CommandsServed' /\ PrintedHeld'
      BY <2>3 DEF PasswordInv, CommandsServed, PrintedHeld
    <2> QED BY <2>2, <2>3, <2>4 DEF PasswordInv
  <1> QED
    BY <1>1, <1>2, <1>3 DEF Next, vars, ParamCommand, StatusCommand, PasswordCommand, passwordVars

\* The names of the policy that a type stands for.
NamesOf(type) ==
    CASE type = "LOWERCASE" -> {Word("a", FALSE), Word("lowercase", FALSE)}
      [] type = "UPPERCASE" -> {Word("a", TRUE), Word("uppercase", FALSE)}
      [] type = "DIGIT" -> {Word("1", FALSE), Word("digit", FALSE)}
      [] type = "SYMBOL" -> {Word("@", FALSE), Word("symbol", FALSE)}
      [] type = "HEX_LOWER" -> {Word("h", FALSE), Word("hex-lower", FALSE)}
      [] type = "HEX_UPPER" -> {Word("h", TRUE), Word("hex-upper", FALSE)}
      [] type = "UUID_V7" -> {Word("u7", FALSE), Word("uuid-v7", FALSE)}

\* The names of a policy stand for one type, and two policies for two.
LEMMA PolicyTypes ==
    ASSUME NEW p \in Policies, NEW q \in Policies, NEW v \in p, NEW w \in q
    PROVE  (p = q) <=> (ParsePasswordType(v) = ParsePasswordType(w))
  <1>1. /\ ParsePasswordType(Word("a", FALSE)) = "LOWERCASE"
        /\ ParsePasswordType(Word("a", TRUE)) = "UPPERCASE"
        /\ ParsePasswordType(Word("h", FALSE)) = "HEX_LOWER"
        /\ ParsePasswordType(Word("h", TRUE)) = "HEX_UPPER"
    BY DEF ParsePasswordType, Word
  <1>2. /\ NamedType("lowercase") = "LOWERCASE" /\ NamedType("uppercase") = "UPPERCASE"
        /\ NamedType("1") = "DIGIT" /\ NamedType("digit") = "DIGIT"
        /\ NamedType("@") = "SYMBOL" /\ NamedType("symbol") = "SYMBOL"
        /\ NamedType("hex-lower") = "HEX_LOWER" /\ NamedType("hex-upper") = "HEX_UPPER"
        /\ NamedType("u7") = "UUID_V7" /\ NamedType("uuid-v7") = "UUID_V7"
    <2>1. /\ DOMAIN LongNames = {"LOWERCASE", "UPPERCASE", "DIGIT", "SYMBOL", "HEX_LOWER",
                                 "HEX_UPPER", "UUID_V7"}
          /\ LongNames["LOWERCASE"] = {"lowercase", "lower", "password_type_lowercase"}
          /\ LongNames["UPPERCASE"] = {"uppercase", "upper", "password_type_uppercase"}
          /\ LongNames["DIGIT"] =
                {"digit", "digits", "number", "numbers", "1", "password_type_digit"}
          /\ LongNames["SYMBOL"] = {"symbol", "symbols", "@", "password_type_symbol"}
          /\ LongNames["HEX_LOWER"] =
                {"hex-lower", "hex_lower", "hexlower", "password_type_hex_lower"}
          /\ LongNames["HEX_UPPER"] =
                {"hex-upper", "hex_upper", "hexupper", "password_type_hex_upper"}
          /\ LongNames["UUID_V7"] =
                {"uuid-v7", "uuid_v7", "uuidv7", "u7", "password_type_uuid_v7"}
      BY DEF LongNames
    <2>2. \A t \in DOMAIN LongNames :
            /\ "lowercase" \in LongNames[t] <=> t = "LOWERCASE"
            /\ "uppercase" \in LongNames[t] <=> t = "UPPERCASE"
            /\ "1" \in LongNames[t] <=> t = "DIGIT"
            /\ "digit" \in LongNames[t] <=> t = "DIGIT"
            /\ "@" \in LongNames[t] <=> t = "SYMBOL"
            /\ "symbol" \in LongNames[t] <=> t = "SYMBOL"
            /\ "hex-lower" \in LongNames[t] <=> t = "HEX_LOWER"
            /\ "hex-upper" \in LongNames[t] <=> t = "HEX_UPPER"
            /\ "u7" \in LongNames[t] <=> t = "UUID_V7"
            /\ "uuid-v7" \in LongNames[t] <=> t = "UUID_V7"
      BY <2>1
    <2>3. ASSUME NEW text, NEW type \in DOMAIN LongNames,
                 \A t \in DOMAIN LongNames : text \in LongNames[t] <=> t = type
          PROVE  NamedType(text) = type
      BY <2>3 DEF NamedType
    <2>4. {"LOWERCASE", "UPPERCASE", "DIGIT", "SYMBOL", "HEX_LOWER", "HEX_UPPER", "UUID_V7"}
            \subseteq DOMAIN LongNames
      BY <2>1
    <2> QED BY <2>2, <2>3, <2>4
  <1>3. \A text : text # "a" /\ text # "h" =>
            ParsePasswordType(Word(text, FALSE)) = NamedType(text)
    BY DEF ParsePasswordType, Word
  <1>4. /\ ParsePasswordType(Word("lowercase", FALSE)) = "LOWERCASE"
        /\ ParsePasswordType(Word("uppercase", FALSE)) = "UPPERCASE"
        /\ ParsePasswordType(Word("1", FALSE)) = "DIGIT"
        /\ ParsePasswordType(Word("digit", FALSE)) = "DIGIT"
        /\ ParsePasswordType(Word("@", FALSE)) = "SYMBOL"
        /\ ParsePasswordType(Word("symbol", FALSE)) = "SYMBOL"
        /\ ParsePasswordType(Word("hex-lower", FALSE)) = "HEX_LOWER"
        /\ ParsePasswordType(Word("hex-upper", FALSE)) = "HEX_UPPER"
        /\ ParsePasswordType(Word("u7", FALSE)) = "UUID_V7"
        /\ ParsePasswordType(Word("uuid-v7", FALSE)) = "UUID_V7"
    BY <1>2, <1>3
  <1>5. ASSUME NEW r \in Policies, NEW x \in r
        PROVE  r = NamesOf(ParsePasswordType(x))
    BY <1>1, <1>4, <1>5 DEF Policies, NamesOf
  <1>6. ASSUME NEW r \in Policies, NEW x \in r, NEW y \in r
        PROVE  ParsePasswordType(x) = ParsePasswordType(y)
    BY <1>1, <1>4, <1>6 DEF Policies
  <1>7. ASSUME ParsePasswordType(v) = ParsePasswordType(w)
        PROVE  p = q
    BY <1>5, <1>7
  <1> QED BY <1>6, <1>7

\* Spellings of one request lead to one password, those of two policies to the
\* passwords of two keys.
LEMMA PrintedAgree ==
    ASSUME PasswordInv
    PROVE  SpellingsAgree
  <1> SUFFICES ASSUME NEW s \in printed, NEW t \in printed, NEW p \in Policies, NEW q \in Policies,
                      s.typed.word \in p, t.typed.word \in q
               PROVE  /\ /\ p = q
                         /\ s.typed.account = t.typed.account
                         /\ s.typed.length = t.typed.length
                         => s.value = t.value
                      /\ p # q => \E j, k \in Keys :
                            j # k /\ passwords[j] = s.value /\ passwords[k] = t.value
    BY DEF SpellingsAgree
  <1>1. /\ Asked(s.typed) \in Keys /\ passwords[Asked(s.typed)] = s.value
        /\ Asked(t.typed) \in Keys /\ passwords[Asked(t.typed)] = t.value
    BY DEF PasswordInv, PrintedHeld, Keys
  <1>2. (p = q) <=> (ParsePasswordType(s.typed.word) = ParsePasswordType(t.typed.word))
    BY PolicyTypes
  <1>3. ASSUME p = q, s.typed.account = t.typed.account, s.typed.length = t.typed.length
        PROVE  s.value = t.value
    <2>1. Asked(s.typed) = Asked(t.typed)
      BY <1>2, <1>3 DEF Asked
    <2> QED BY <1>1, <2>1
  <1>4. ASSUME p # q
        PROVE  Asked(s.typed) # Asked(t.typed)
    <2>1. /\ Asked(s.typed).type = ParsePasswordType(s.typed.word)
          /\ Asked(t.typed).type = ParsePasswordType(t.typed.word)
      BY DEF Asked
    <2> QED BY <1>2, <1>4, <2>1
  <1> QED BY <1>1, <1>3, <1>4

-----------------------------------------------------------------------------
(* Parameters: what a call keeps while others go on. *)

\* One call changes, and the others are what they were.
LEMMA CallReplaced ==
    ASSUME CallsTyped, NEW h \in Handlers, NEW c \in {Idle} \cup ParamCalls \cup StatusCalls,
           call' = [call EXCEPT ![h] = c]
    PROVE  CallsTyped' /\ call'[h] = c /\ \A g \in Handlers \ {h} : call'[g] = call[g]
  BY DEF CallsTyped

\* What a call of each kind is.
LEMMA CallKinds ==
    ASSUME CallsTyped, NEW h \in Handlers
    PROVE  /\ call[h] \in {Idle} \cup ParamCalls \cup StatusCalls
           /\ call[h].op \in ParamOps => call[h] \in ParamCalls
           /\ call[h].op = "status" => call[h] \in StatusCalls
           /\ call[h] = Idle => call[h].op = "idle"
  BY DEF CallsTyped, ParamCalls, StatusCalls, Idle, ParamOps

\* A statement ends: its call has a status and rows, and is otherwise the same.
LEMMA Replied ==
    ASSUME CallsTyped, NEW h \in Handlers, call[h].op \in ParamOps,
           NEW status \in {"done", "notfound", "failed"}, NEW rows \in Seq(ParamRow),
           Reply(h, status, rows)
    PROVE  /\ CallsTyped' /\ call'[h] \in ParamCalls
           /\ \A g \in Handlers \ {h} : call'[g] = call[g]
           /\ call'[h].op = call[h].op /\ call'[h].account = call[h].account
           /\ call'[h].knew = call[h].knew
           /\ call'[h].pc = status /\ call'[h].rows = rows
  <1>1. call[h] \in ParamCalls
    BY CallKinds
  <1>2. PICK c : c = [call[h] EXCEPT !.pc = status, !.rows = rows]
    OBVIOUS
  <1>3. /\ c \in ParamCalls /\ c.op = call[h].op /\ c.account = call[h].account
        /\ c.knew = call[h].knew /\ c.pc = status /\ c.rows = rows
    BY <1>1, <1>2 DEF ParamCalls
  <1>4. call' = [call EXCEPT ![h] = c]
    BY <1>2 DEF Reply, CallsTyped
  <1> QED BY <1>3, <1>4, CallReplaced

\* While no statement is added, the count holds.
LEMMA CountKept ==
    ASSUME WritesCounted, RunningSets' \subseteq RunningSets, writes' = writes,
           changes' \in changes..MaxChanges
    PROVE  WritesCounted'
  <1>1. IsFiniteSet(RunningSets') /\ Cardinality(RunningSets') =< Cardinality(RunningSets)
    BY FS_Subset DEF WritesCounted
  <1>2. Cardinality(RunningSets) \in Nat /\ Cardinality(RunningSets') \in Nat
    BY <1>1, FS_CardinalityType DEF WritesCounted
  <1> QED BY <1>1, <1>2, ChangesAssumption DEF WritesCounted

\* What is known and what is stored only grow: the calls that are not touched
\* keep what holds of them.
LEMMA OthersHeld ==
    ASSUME ParamInv, CallsTyped', NEW g \in Handlers, call'[g] = call[g], call[g].op \in ParamOps,
           \A a \in Accounts : known'[a] \in Nat /\ known[a] =< known'[a],
           \A a \in DOMAIN params : a \in DOMAIN params' /\ params'[a] \in Nat /\ params[a] =< params'[a]
    PROVE  CallHeld(call[g])'
  <1>1. CallHeld(call[g]) /\ call[g] \in ParamCalls
    BY CallKinds DEF ParamInv
  <1>2. \A a \in Accounts : call'[g].knew[a] =< known'[a]
    <2> SUFFICES ASSUME NEW a \in Accounts
                 PROVE  call'[g].knew[a] =< known'[a]
      OBVIOUS
    <2>1. call[g].knew[a] \in Int /\ known[a] \in Int /\ call[g].knew[a] =< known[a]
      BY <1>1, ChangesAssumption DEF CallHeld, ParamCalls, ParamInv, KnownKept, WritesCounted
    <2> QED BY <2>1
  <1>3. \A i \in DOMAIN call'[g].rows : RowHeld(call[g].rows[i])'
    <2> SUFFICES ASSUME NEW i \in DOMAIN call[g].rows
                 PROVE  RowHeld(call[g].rows[i])'
      OBVIOUS
    <2>1. PICK a \in DOMAIN params : call[g].rows[i] = Row(a, call[g].rows[i].value)
                                      /\ call[g].rows[i].value =< params[a]
      BY <1>1 DEF CallHeld, RowHeld
    <2>2. call[g].rows[i].value \in Int
      <3>1. call[g].rows \in Seq(ParamRow)
        BY <1>1 DEF ParamCalls
      <3>2. call[g].rows[i] \in ParamRow
        BY <3>1
      <3> QED BY <3>2, ChangesAssumption DEF ParamRow
    <2>3. params[a] \in Int
      BY DEF ParamInv, TableTyped, WritesCounted
    <2>4. call'[g].rows[i].value =< params'[a] /\ a \in DOMAIN params'
      BY <2>1, <2>2, <2>3
    <2>5. call'[g].rows[i] = Row(a, call'[g].rows[i].value)
      BY <2>1
    <2> QED BY <2>4, <2>5 DEF RowHeld, Row
  <1>4. NotStale(call[g])'
    BY <1>1 DEF CallHeld, NotStale, Row
  <1> QED BY <1>1, <1>2, <1>3, <1>4 DEF CallHeld

\* A set of bounded numbers has the largest of them.
LEMMA MaxIs ==
    ASSUME NEW n \in Nat, NEW T \in SUBSET (0..n), T # {}
    PROVE  Max(T) \in T /\ \A y \in T : y =< Max(T)
  <1>0. \A x \in T : x \in Nat /\ x =< n /\ n - x \in Nat
    OBVIOUS
  <1>1. {n - x : x \in T} \in SUBSET Nat /\ {n - x : x \in T} # {}
    BY <1>0
  <1>2. PICK m \in {n - x : x \in T} : \A y \in {n - x : x \in T} : m =< y
    BY <1>1, Data!LeastNumber
  <1>3. PICK x \in T : m = n - x
    BY <1>2
  <1>4. \A y \in T : x >= y
    <2> SUFFICES ASSUME NEW y \in T
                 PROVE  x >= y
      OBVIOUS
    <2>1. n - x =< n - y
      BY <1>2, <1>3
    <2> QED BY <1>0, <2>1
  <1>5. Max(T) \in T /\ \A y \in T : Max(T) >= y
    BY <1>3, <1>4 DEF Max
  <1> QED BY <1>5

-----------------------------------------------------------------------------
(* Parameters: the steps. *)

\* A call that is none of a parameter comes or goes on.
LEMMA ParamOtherStep ==
    ASSUME ParamInv, NEW h \in Handlers, NEW c \in {Idle} \cup StatusCalls,
           call' = [call EXCEPT ![h] = c], changes' = changes, UNCHANGED paramVars
    PROVE  ParamInv'
  <1>1. /\ CallsTyped' /\ call'[h] = c /\ c.op \notin ParamOps
        /\ \A g \in Handlers \ {h} : call'[g] = call[g]
    <2>1. c.op \notin ParamOps
      BY DEF Idle, StatusCalls, ParamOps
    <2>2. CallsTyped /\ c \in {Idle} \cup ParamCalls \cup StatusCalls
      BY DEF ParamInv
    <2> QED BY <2>1, <2>2, CallReplaced
  <1>2. WritesCounted'
    <2>1. RunningSets' \subseteq RunningSets
      BY <1>1 DEF RunningSets, Runs, ParamOps
    <2> QED BY <2>1, CountKept, ChangesAssumption DEF ParamInv, WritesCounted, paramVars
  <1>3. TableTyped' /\ KnownKept'
    BY DEF ParamInv, TableTyped, KnownKept, paramVars
  <1>4. ASSUME NEW g \in Handlers, call'[g].op \in ParamOps
        PROVE  CallHeld(call[g])'
    <2>1. call'[g] = call[g] /\ call[g].op \in ParamOps
      BY <1>1, <1>4
    <2> QED BY <1>1, <2>1, OthersHeld
            DEF ParamInv, TableTyped, KnownKept, WritesCounted, paramVars
  <1> QED BY <1>1, <1>2, <1>3, <1>4 DEF ParamInv

\* A call about parameters that begins remembers what its client already knew.
LEMMA ParamBegins ==
    ASSUME ParamInv, NEW h \in Handlers, NEW op \in ParamOps, NEW a \in Accounts \cup {None},
           NEW read, Arrives(h, ParamCall(op, a, read)), UNCHANGED paramVars,
           op \in {"set", "get"} => a \in Accounts, op = "get" => read = {a},
           IF op = "set" THEN Change ELSE changes' = changes
    PROVE  ParamInv'
  <1>1. PICK c : c = ParamCall(op, a, read)
    OBVIOUS
  <1>2. /\ c.op = op /\ c.account = a /\ c.rows = << >> /\ c.waiting = TRUE
        /\ c.knew = [b \in Accounts |-> IF b \in read THEN known[b] ELSE 0]
        /\ c.pc = IF a \in BlankAccounts THEN "failed" ELSE "run"
    BY <1>1 DEF ParamCall
  <1>3. c \in ParamCalls
    <2>1. c.knew \in [Accounts -> 0..MaxChanges]
      <3>1. \A b \in Accounts : known[b] \in 0..writes /\ writes \in 0..MaxChanges
        <4>1. Cardinality(RunningSets) \in Nat
          BY FS_CardinalityType DEF ParamInv, WritesCounted
        <4> QED BY <4>1, ChangesAssumption DEF ParamInv, KnownKept, WritesCounted
      <3>2. \A b \in Accounts : known[b] \in 0..MaxChanges /\ 0 \in 0..MaxChanges
        BY <3>1, ChangesAssumption
      <3> QED BY <1>2, <3>2
    <2>2. << >> \in Seq(ParamRow)
      OBVIOUS
    <2>3. c.pc \in {"run", "failed"}
      BY <1>2
    <2>4. PICK knew \in [Accounts -> 0..MaxChanges], rows \in Seq(ParamRow), pc \in {"run", "failed"} :
             c = [op |-> op, account |-> a, rows |-> rows, waiting |-> TRUE, pc |-> pc, knew |-> knew]
      BY <1>1, <1>2, <2>1, <2>2, <2>3 DEF ParamCall
    <2> QED BY <2>4 DEF ParamCalls, ParamOps
  <1>4. /\ CallsTyped' /\ call'[h] = c /\ call[h].op = "idle"
        /\ \A g \in Handlers \ {h} : call'[g] = call[g]
    <2>1. CallsTyped /\ c \in {Idle} \cup ParamCalls \cup StatusCalls
      BY <1>3 DEF ParamInv
    <2>2. call[h].op = "idle" /\ call' = [call EXCEPT ![h] = c]
      BY <1>1 DEF Arrives, Idle
    <2> QED BY <2>1, <2>2, CallReplaced
  <1>5. WritesCounted'
    <2>1. CASE op # "set"
      <3>1. RunningSets' \subseteq RunningSets
        BY <1>2, <1>4, <2>1 DEF RunningSets, Runs
      <3> QED BY <2>1, <3>1, CountKept, ChangesAssumption DEF ParamInv, WritesCounted, paramVars
    <2>2. CASE op = "set"
      <3>1. RunningSets' \subseteq RunningSets \cup {h} /\ h \notin RunningSets
        BY <1>4 DEF RunningSets, Runs
      <3>2. IsFiniteSet(RunningSets)
        BY DEF ParamInv, WritesCounted
      <3>3. /\ IsFiniteSet(RunningSets \cup {h})
            /\ Cardinality(RunningSets \cup {h}) = Cardinality(RunningSets) + 1
        BY <3>1, <3>2, FS_AddElement
      <3>4. /\ IsFiniteSet(RunningSets')
            /\ Cardinality(RunningSets') =< Cardinality(RunningSets \cup {h})
        BY <3>1, <3>3, FS_Subset
      <3>5. Cardinality(RunningSets) \in Nat /\ Cardinality(RunningSets') \in Nat
        BY <3>2, <3>4, FS_CardinalityType
      <3>6. writes' = writes /\ writes \in Nat /\ writes + Cardinality(RunningSets) =< changes
        BY DEF ParamInv, WritesCounted, paramVars
      <3>7. changes' = changes + 1 /\ changes < MaxChanges /\ changes \in 0..MaxChanges
        BY <2>2 DEF Change, ParamInv, WritesCounted
      <3> QED BY <3>3, <3>4, <3>5, <3>6, <3>7, ChangesAssumption DEF WritesCounted
    <2> QED BY <2>1, <2>2
  <1>6. TableTyped' /\ KnownKept'
    BY DEF ParamInv, TableTyped, KnownKept, paramVars
  <1>7. ASSUME NEW g \in Handlers, call'[g].op \in ParamOps
        PROVE  CallHeld(call[g])'
    <2>1. CASE g # h
      <3>1. call'[g] = call[g] /\ call[g].op \in ParamOps
        BY <1>4, <1>7, <2>1
      <3> QED BY <1>4, <3>1, OthersHeld
              DEF ParamInv, TableTyped, KnownKept, WritesCounted, paramVars
    <2>2. CASE g = h
      <3>1. \A b \in Accounts : call'[g].knew[b] =< known'[b]
        BY <1>2, <1>4, <2>2 DEF ParamInv, KnownKept, WritesCounted, paramVars
      <3>2. op = "get" => \A b \in Accounts : b # a => call'[g].knew[b] = 0
        BY <1>2, <1>4, <2>2
      <3>3. DOMAIN call'[g].rows = {} /\ call'[g].pc \notin {"done", "notfound"}
        BY <1>2, <1>4, <2>2
      <3> QED BY <1>2, <1>4, <2>2, <3>1, <3>2, <3>3 DEF CallHeld, NotStale
    <2> QED BY <2>1, <2>2
  <1> QED BY <1>4, <1>5, <1>6, <1>7 DEF ParamInv

\* A statement that changes nothing ends.
LEMMA ParamReplies ==
    ASSUME ParamInv, NEW h \in Handlers, call[h].op \in ParamOps,
           NEW status \in {"done", "notfound", "failed"}, NEW rows \in Seq(ParamRow),
           Reply(h, status, rows), UNCHANGED <<changes, paramVars>>,
           \A i \in DOMAIN rows : RowHeld(rows[i]),
           call[h].op \in {"get", "list"} /\ status \in {"done", "notfound"} =>
               \A a \in Accounts : call[h].knew[a] > 0 =>
                   \E i \in DOMAIN rows :
                       rows[i] = Row(a, rows[i].value) /\ rows[i].value >= call[h].knew[a]
    PROVE  ParamInv'
  <1>1. /\ CallsTyped' /\ call'[h] \in ParamCalls
        /\ \A g \in Handlers \ {h} : call'[g] = call[g]
        /\ call'[h].op = call[h].op /\ call'[h].account = call[h].account
        /\ call'[h].knew = call[h].knew
        /\ call'[h].pc = status /\ call'[h].rows = rows
    BY Replied DEF ParamInv
  <1>2. WritesCounted'
    <2>1. RunningSets' \subseteq RunningSets
      BY <1>1 DEF RunningSets, Runs
    <2> QED BY <2>1, CountKept, ChangesAssumption DEF ParamInv, WritesCounted, paramVars
  <1>3. TableTyped' /\ KnownKept'
    BY DEF ParamInv, TableTyped, KnownKept, paramVars
  <1>4. ASSUME NEW g \in Handlers, call'[g].op \in ParamOps
        PROVE  CallHeld(call[g])'
    <2>1. CASE g # h
      <3>1. call'[g] = call[g] /\ call[g].op \in ParamOps
        BY <1>1, <1>4, <2>1
      <3> QED BY <1>1, <3>1, OthersHeld
              DEF ParamInv, TableTyped, KnownKept, WritesCounted, paramVars
    <2>2. CASE g = h
      <3>1. CallHeld(call[h])
        BY DEF ParamInv
      <3>2. UNCHANGED <<params, known>>
        BY DEF paramVars
      <3>3. \A i \in DOMAIN call'[h].rows : RowHeld(call[h].rows[i])'
        BY <1>1, <3>2 DEF RowHeld, Row
      <3>4. NotStale(call[h])'
        BY <1>1 DEF NotStale, Row
      <3> QED BY <1>1, <2>2, <3>1, <3>2, <3>3, <3>4 DEF CallHeld
    <2> QED BY <2>1, <2>2
  <1> QED BY <1>1, <1>2, <1>3, <1>4 DEF ParamInv

\* Everything a number of the model can be.
LEMMA NumbersBounded ==
    ASSUME ParamInv
    PROVE  /\ writes \in 0..changes /\ changes \in 0..MaxChanges /\ MaxChanges \in Nat
           /\ (\E h \in Handlers : Runs(h, "set")) => writes + 1 =< changes
           /\ \A a \in DOMAIN params :
                /\ params[a] \in 1..MaxChanges /\ params[a] =< writes
                /\ a \in Accounts /\ a \in [service : Nat, name : Nat]
                /\ Row(a, params[a]) \in ParamRow
  <1>1. Cardinality(RunningSets) \in Nat /\ IsFiniteSet(RunningSets)
    BY FS_CardinalityType DEF ParamInv, WritesCounted
  <1>2. /\ writes \in Nat /\ changes \in 0..MaxChanges /\ MaxChanges \in Nat
        /\ writes + Cardinality(RunningSets) =< changes
    BY ChangesAssumption DEF ParamInv, WritesCounted
  <1>3. (\E h \in Handlers : Runs(h, "set")) => Cardinality(RunningSets) # 0
    BY <1>1, FS_EmptySet DEF RunningSets
  <1>4. \A a \in DOMAIN params : a \in Accounts /\ params[a] \in 1..writes
    BY DEF ParamInv, TableTyped
  <1>5. \A a \in Accounts : a \in [service : Nat, name : Nat]
    BY AccountsAssumption
  <1>6. \A a \in DOMAIN params : params[a] \in 1..MaxChanges
    BY <1>1, <1>2, <1>4
  <1>7. \A a \in DOMAIN params : Row(a, params[a]) \in ParamRow
    BY <1>4, <1>5, <1>6 DEF Row, ParamRow
  <1> QED BY <1>1, <1>2, <1>3, <1>4, <1>5, <1>6, <1>7

\* Storing a parameter keeps what is remembered of every other call.
LEMMA ParamSetKeeps ==
    ASSUME ParamInv, NEW h \in Handlers, ParamSet(h)
    PROVE  ParamInv'
  <1> DEFINE a == call[h].account
             w == writes + 1
  <1>1. /\ call[h] \in ParamCalls /\ call[h].op = "set" /\ call[h].pc = "run"
        /\ a \in Accounts \ BlankAccounts
    BY CallKinds DEF ParamInv, CallHeld, ParamSet, Runs, ParamOps
  <1>2. /\ w \in 1..MaxChanges /\ writes' = w /\ changes' = changes /\ known' = known
        /\ writes \in Nat /\ w =< changes
    BY NumbersBounded DEF ParamSet
  <1>3. /\ DOMAIN params' = DOMAIN params \cup {a} /\ params'[a] = w
        /\ \A b \in DOMAIN params \ {a} : params'[b] = params[b]
    BY DEF ParamSet, Upsert
  <1>4. \A b \in DOMAIN params : b \in DOMAIN params' /\ params'[b] \in Nat /\ params[b] =< params'[b]
    BY <1>2, <1>3 DEF ParamInv, TableTyped
  <1>5. PICK status \in {"done", "failed"}, rows \in Seq(ParamRow) :
           /\ Reply(h, status, rows)
           /\ \A i \in DOMAIN rows : rows[i] = Row(a, w)
    <2>1. Row(a, w) \in ParamRow
      BY <1>1, <1>2, AccountsAssumption DEF Row, ParamRow
    <2>2. CASE Reply(h, "done", <<Row(a, w)>>)
      <3>1. <<Row(a, w)>> \in Seq(ParamRow) /\ \A i \in DOMAIN <<Row(a, w)>> : <<Row(a, w)>>[i] = Row(a, w)
        BY <2>1
      <3> QED BY <2>2, <3>1
    <2>3. CASE Reply(h, "failed", << >>)
      <3>1. << >> \in Seq(ParamRow) /\ DOMAIN << >> = {}
        OBVIOUS
      <3> QED BY <2>3, <3>1
    <2> QED BY <2>2, <2>3 DEF ParamSet
  <1>6. /\ CallsTyped' /\ call'[h] \in ParamCalls
        /\ \A g \in Handlers \ {h} : call'[g] = call[g]
        /\ call'[h].op = "set" /\ call'[h].account = a
        /\ call'[h].knew = call[h].knew
        /\ call'[h].pc \in {"done", "failed"} /\ call'[h].rows = rows
    BY <1>1, <1>5, Replied DEF ParamInv, ParamOps
  <1>7. WritesCounted'
    <2>1. h \in RunningSets /\ RunningSets' \subseteq RunningSets \ {h}
      BY <1>1, <1>6 DEF RunningSets, Runs
    <2>2. IsFiniteSet(RunningSets) /\ writes + Cardinality(RunningSets) =< changes
      BY DEF ParamInv, WritesCounted
    <2>3. /\ IsFiniteSet(RunningSets \ {h})
          /\ Cardinality(RunningSets \ {h}) = Cardinality(RunningSets) - 1
      BY <2>1, <2>2, FS_RemoveElement
    <2>4. /\ IsFiniteSet(RunningSets')
          /\ Cardinality(RunningSets') =< Cardinality(RunningSets \ {h})
      BY <2>1, <2>3, FS_Subset
    <2>5. Cardinality(RunningSets) \in Nat /\ Cardinality(RunningSets') \in Nat
      BY <2>2, <2>4, FS_CardinalityType
    <2>6. changes \in 0..MaxChanges /\ MaxChanges \in Nat
      BY NumbersBounded
    <2> QED BY <1>2, <2>2, <2>3, <2>4, <2>5, <2>6 DEF WritesCounted
  <1>8. TableTyped'
    <2>1. IsFiniteSet(DOMAIN params')
      <3>1. IsFiniteSet(DOMAIN params)
        BY DEF ParamInv, TableTyped
      <3>2. IsFiniteSet(DOMAIN params \cup {a})
        BY <3>1, FS_AddElement
      <3> QED BY <1>3, <3>2
    <2>2. \A b \in DOMAIN params' : params'[b] \in 1..writes'
      BY <1>2, <1>3 DEF ParamInv, TableTyped
    <2> QED BY <1>1, <1>3, <2>1, <2>2 DEF ParamInv, TableTyped
  <1>9. KnownKept'
    <2>1. \A b \in Accounts : known[b] \in 0..writes /\ known[b] \in 0..w
      BY <1>2 DEF ParamInv, KnownKept
    <2>2. \A b \in Accounts : known[b] > 0 => b \in DOMAIN params' /\ params'[b] >= known[b]
      <3> SUFFICES ASSUME NEW b \in Accounts, known[b] > 0
                   PROVE  b \in DOMAIN params' /\ params'[b] >= known[b]
        OBVIOUS
      <3>1. b \in DOMAIN params /\ params[b] >= known[b] /\ params[b] \in Int
        BY DEF ParamInv, KnownKept, TableTyped
      <3> QED BY <1>4, <2>1, <3>1
    <2> QED BY <1>2, <2>1, <2>2 DEF ParamInv, KnownKept
  <1>10. ASSUME NEW g \in Handlers, call'[g].op \in ParamOps
         PROVE  CallHeld(call[g])'
    <2>1. CASE g # h
      <3>1. call'[g] = call[g] /\ call[g].op \in ParamOps
        BY <1>6, <1>10, <2>1
      <3>2. \A b \in Accounts : known'[b] \in Nat /\ known[b] =< known'[b]
        BY <1>2 DEF ParamInv, KnownKept
      <3> QED BY <1>4, <1>6, <3>1, <3>2, OthersHeld
    <2>2. CASE g = h
      <3>1. CallHeld(call[h])
        BY <1>1 DEF ParamInv, ParamOps
      <3>2. \A i \in DOMAIN rows : RowHeld(rows[i])'
        <4>1. \A i \in DOMAIN rows : rows[i] = Row(a, rows[i].value) /\ rows[i].value = w
          BY <1>5 DEF Row
        <4>2. w =< params'[a] /\ a \in DOMAIN params'
          BY <1>2, <1>3
        <4> HIDE DEF a, w
        <4> QED BY <4>1, <4>2 DEF RowHeld, Row
      <3>3. \A b \in Accounts : call'[h].knew[b] =< known'[b]
        BY <1>2, <1>6, <3>1 DEF CallHeld
      <3> QED BY <1>1, <1>6, <2>2, <3>2, <3>3 DEF CallHeld, NotStale
    <2> QED BY <2>1, <2>2
  <1> QED BY <1>6, <1>7, <1>8, <1>9, <1>10 DEF ParamInv

\* A get answers with what the account holds, never older than its client had learnt.
LEMMA ParamGetKeeps ==
    ASSUME ParamInv, NEW h \in Handlers, ParamGet(h)
    PROVE  ParamInv'
  <1> DEFINE a == call[h].account
  <1>1. /\ call[h].op = "get" /\ call[h].op \in ParamOps /\ UNCHANGED <<changes, paramVars>>
        /\ call[h] \in ParamCalls
    BY CallKinds DEF ParamGet, Runs, ParamOps, ParamInv
  <1>2. /\ a \in Accounts
        /\ \A b \in Accounts : call[h].knew[b] > 0 =>
              b = a /\ known[b] > 0 /\ call[h].knew[b] =< known[b]
    <2>1. CallHeld(call[h]) /\ call[h].knew \in [Accounts -> 0..MaxChanges] /\ MaxChanges \in Nat
      BY <1>1, ChangesAssumption DEF ParamInv, ParamCalls
    <2>2. \A b \in Accounts : known[b] \in 0..writes /\ writes \in Nat
      BY DEF ParamInv, KnownKept, WritesCounted
    <2> QED BY <1>1, <2>1, <2>2 DEF CallHeld
  <1>3. \A b \in Accounts : call[h].knew[b] > 0 =>
            b = a /\ b \in DOMAIN params /\ params[b] >= call[h].knew[b]
    <2> SUFFICES ASSUME NEW b \in Accounts, call[h].knew[b] > 0
                 PROVE  b = a /\ b \in DOMAIN params /\ params[b] >= call[h].knew[b]
      OBVIOUS
    <2>1. b \in DOMAIN params /\ params[b] >= known[b] /\ known[b] \in Int /\ params[b] \in Int
      BY <1>2 DEF ParamInv, KnownKept, TableTyped, WritesCounted
    <2>2. call[h].knew[b] \in Int /\ call[h].knew[b] =< known[b] /\ b = a
      BY <1>1, <1>2, ChangesAssumption DEF ParamCalls
    <2> QED BY <2>1, <2>2
  <1>4. CASE a \in DOMAIN params
    <2>1. PICK rows : rows = <<Row(a, params[a])>>
      OBVIOUS
    <2>2. Row(a, params[a]) \in ParamRow /\ params[a] \in Int
      BY <1>4, NumbersBounded
    <2>3. rows \in Seq(ParamRow) /\ DOMAIN rows = {1} /\ rows[1] = Row(a, params[a])
      BY <2>1, <2>2
    <2>4. rows[1] = Row(a, rows[1].value) /\ rows[1].value = params[a]
      BY <2>3 DEF Row
    <2>5. \A i \in DOMAIN rows : RowHeld(rows[i])
      BY <1>4, <2>2, <2>3, <2>4 DEF RowHeld
    <2>6. \A b \in Accounts : call[h].knew[b] > 0 =>
             \E i \in DOMAIN rows :
                rows[i] = Row(b, rows[i].value) /\ rows[i].value >= call[h].knew[b]
      BY <1>3, <2>3, <2>4
    <2>7. Reply(h, "done", rows)
      BY <1>4, <2>1 DEF ParamGet
    <2> QED BY <1>1, <2>3, <2>5, <2>6, <2>7, ParamReplies
  <1>5. CASE a \notin DOMAIN params
    <2>1. PICK rows : rows = << >>
      OBVIOUS
    <2>2. rows \in Seq(ParamRow) /\ DOMAIN rows = {}
      BY <2>1
    <2>3. \A b \in Accounts : ~(call[h].knew[b] > 0)
      BY <1>3, <1>5
    <2>4. Reply(h, "notfound", rows)
      BY <1>5, <2>1 DEF ParamGet
    <2> QED BY <1>1, <2>2, <2>3, <2>4, ParamReplies
  <1> QED BY <1>4, <1>5

TableRows == {Row(a, params[a]) : a \in DOMAIN params}

\* What a ParamList prints: each row of the table once, in the order of SELECT.
LEMMA ListedRows ==
    ASSUME ParamInv, NEW s, s = Printed(Grouped(Selected(TableRows)))
    PROVE  /\ s \in Seq(ParamRow) /\ Sorted(s)
           /\ Len(s) = Cardinality(DOMAIN params)
           /\ \A a \in DOMAIN params : \E i \in DOMAIN s : s[i] = Row(a, params[a])
           /\ \A i \in DOMAIN s : \E a \in DOMAIN params : s[i] = Row(a, params[a])
  <1> DEFINE R == TableRows
             V == 1..MaxChanges
  <1>0. R = {Row(a, params[a]) : a \in DOMAIN params}
    BY DEF TableRows
  <1>1. \A a \in DOMAIN params :
            Row(a, params[a]) \in ParamRow /\ a \in [service : Nat, name : Nat]
    BY NumbersBounded
  <1>2. R \in SUBSET Rows(V)
    BY <1>0, <1>1 DEF ParamRow, Rows
  <1>3. \A a, b \in DOMAIN params :
            Row(a, params[a]).service = Row(b, params[b]).service
              /\ Row(a, params[a]).name = Row(b, params[b]).name => a = b
    <2>1. \A a, b \in [service : Nat, name : Nat] : a.service = b.service /\ a.name = b.name => a = b
      OBVIOUS
    <2>2. \A a, v : Row(a, v).service = a.service /\ Row(a, v).name = a.name
      BY DEF Row
    <2> QED BY <1>1, <2>1, <2>2
  <1>4. Keyed(R)
    BY <1>0, <1>3 DEF Keyed
  <1>5. IsFiniteSet(R) /\ Cardinality(R) = Cardinality(DOMAIN params)
    <2> DEFINE f == [a \in DOMAIN params |-> Row(a, params[a])]
    <2>1. f \in Bijection(DOMAIN params, R)
      BY <1>0, <1>3 DEF Bijection, Injection, Surjection, IsInjective
    <2>2. IsFiniteSet(DOMAIN params)
      BY DEF ParamInv, TableTyped
    <2> QED BY <2>1, <2>2, FS_Bijection DEF ExistsBijection
  <1> HIDE DEF R, V
  <1>6. PICK t : t = Selected(R)
    OBVIOUS
  <1>7. /\ t \in Seq(R) /\ Len(t) = Cardinality(R) /\ Sorted(t)
        /\ \A r \in R : \E i \in DOMAIN t : t[i] = r
    BY <1>2, <1>4, <1>5, <1>6, SelectedRows
  <1>8. t \in Seq(Rows(V)) /\ \A i \in DOMAIN t : t[i] \in R
    BY <1>2, <1>7
  <1>9. s = t
    BY <1>6, <1>8, PrintedGrouped DEF R
  <1>10. s \in Seq(ParamRow)
    BY <1>8, <1>9 DEF V, ParamRow, Rows
  <1>11. \A a \in DOMAIN params : \E i \in DOMAIN s : s[i] = Row(a, params[a])
    BY <1>0, <1>7, <1>9
  <1>12. \A i \in DOMAIN s : \E a \in DOMAIN params : s[i] = Row(a, params[a])
    BY <1>0, <1>8, <1>9
  <1> QED BY <1>5, <1>7, <1>9, <1>10, <1>11, <1>12

\* A list of parameters leaves what is stored alone.
LEMMA ParamListKeeps ==
    ASSUME ParamInv, NEW h \in Handlers, ParamList(h)
    PROVE  ParamInv'
  <1>1. /\ call[h].op = "list" /\ call[h].op \in ParamOps /\ UNCHANGED <<changes, paramVars>>
        /\ call[h] \in ParamCalls
    BY CallKinds DEF ParamList, Runs, ParamOps, ParamInv
  <1>2. PICK s : s = Printed(Grouped(Selected(TableRows)))
    OBVIOUS
  <1>3. /\ s \in Seq(ParamRow)
        /\ \A a \in DOMAIN params : \E i \in DOMAIN s : s[i] = Row(a, params[a])
        /\ \A i \in DOMAIN s : \E a \in DOMAIN params : s[i] = Row(a, params[a])
    BY <1>2, ListedRows
  <1>4. Reply(h, "done", s)
    BY <1>2 DEF ParamList, TableRows
  <1>5. \A i \in DOMAIN s : RowHeld(s[i])
    <2>1. \A a \in DOMAIN params : params[a] \in Int
      BY NumbersBounded
    <2> QED BY <1>3, <2>1 DEF RowHeld, Row
  <1>6. \A a \in Accounts : call[h].knew[a] > 0 =>
            \E i \in DOMAIN s : s[i] = Row(a, s[i].value) /\ s[i].value >= call[h].knew[a]
    <2> SUFFICES ASSUME NEW a \in Accounts, call[h].knew[a] > 0
                 PROVE  \E i \in DOMAIN s : s[i] = Row(a, s[i].value) /\ s[i].value >= call[h].knew[a]
      OBVIOUS
    <2>1. call[h].knew[a] \in Nat /\ call[h].knew[a] =< known[a] /\ known[a] \in Nat
      BY <1>1, ChangesAssumption DEF ParamInv, CallHeld, ParamCalls, KnownKept
    <2>2. a \in DOMAIN params /\ params[a] >= known[a] /\ params[a] \in Nat
      BY <2>1 DEF ParamInv, KnownKept, TableTyped
    <2>3. params[a] >= call[h].knew[a]
      BY <2>1, <2>2
    <2> QED BY <1>3, <2>2, <2>3 DEF Row
  <1> QED BY <1>1, <1>3, <1>4, <1>5, <1>6, ParamReplies

\* A call that fails stores nothing.
LEMMA FailParamKeeps ==
    ASSUME ParamInv, NEW h \in Handlers, FailParam(h)
    PROVE  ParamInv'
  <1>1. /\ call[h].op \in ParamOps /\ UNCHANGED <<changes, paramVars>>
        /\ Reply(h, "failed", << >>)
    BY DEF FailParam, ParamOps
  <1>2. << >> \in Seq(ParamRow) /\ DOMAIN << >> = {}
    OBVIOUS
  <1>3. \A i \in DOMAIN << >> : RowHeld(<< >>[i])
    BY <1>2
  <1> QED BY <1>1, <1>2, <1>3, ParamReplies

\* A client learns what is still true, or has been replaced by something later.
LEMMA ReturnParamKeeps ==
    ASSUME ParamInv, NEW h \in Handlers, ReturnParam(h)
    PROVE  ParamInv'
  <1>1. /\ call[h].op \in ParamOps /\ call[h].pc # "run" /\ call[h] \in ParamCalls
        /\ UNCHANGED <<params, writes, changes>>
    BY CallKinds DEF ReturnParam, ParamOps, ParamInv
  <1>2. /\ CallsTyped' /\ call'[h] = Idle /\ Idle.op \notin ParamOps
        /\ \A g \in Handlers \ {h} : call'[g] = call[g]
    <2>1. CallsTyped /\ Idle \in {Idle} \cup ParamCalls \cup StatusCalls
      BY DEF ParamInv
    <2>2. call' = [call EXCEPT ![h] = Idle]
      BY DEF ReturnParam, Leaves
    <2>3. Idle.op \notin ParamOps
      BY DEF Idle, ParamOps
    <2> QED BY <2>1, <2>2, <2>3, CallReplaced
  <1> DEFINE told(a) == {call[h].rows[i].value : i \in {j \in DOMAIN call[h].rows :
                          call[h].waiting /\ call[h].rows[j] = Row(a, call[h].rows[j].value)}}
  <1>3. ASSUME NEW a \in Accounts
        PROVE  /\ known'[a] \in 0..writes /\ known[a] =< known'[a]
               /\ known'[a] > 0 => a \in DOMAIN params /\ params[a] >= known'[a]
    <2>1. \A v \in told(a) : v \in 1..writes /\ a \in DOMAIN params /\ v =< params[a]
      <3> SUFFICES ASSUME NEW i \in DOMAIN call[h].rows,
                          call[h].rows[i] = Row(a, call[h].rows[i].value)
                   PROVE  /\ call[h].rows[i].value \in 1..writes
                          /\ a \in DOMAIN params /\ call[h].rows[i].value =< params[a]
        OBVIOUS
      <3>1. PICK b \in DOMAIN params : call[h].rows[i] = Row(b, call[h].rows[i].value)
                                         /\ call[h].rows[i].value =< params[b]
        BY <1>1 DEF ParamInv, CallHeld, RowHeld
      <3>2. a \in [service : Nat, name : Nat] /\ b \in [service : Nat, name : Nat]
        BY NumbersBounded, AccountsAssumption
      <3>3. a = b
        BY <3>1, <3>2 DEF Row
      <3>4. call[h].rows[i].value \in 1..MaxChanges
        <4>1. call[h].rows \in Seq(ParamRow)
          BY <1>1 DEF ParamCalls
        <4>2. call[h].rows[i] \in ParamRow
          BY <4>1
        <4> QED BY <4>2 DEF ParamRow
      <3>5. params[a] \in Int /\ params[a] =< writes /\ writes \in Int /\ MaxChanges \in Int
        BY <3>1, <3>3, NumbersBounded
      <3> QED BY <3>1, <3>3, <3>4, <3>5
    <2>2. known[a] \in 0..writes /\ writes \in Nat
      BY DEF ParamInv, KnownKept, WritesCounted
    <2>3. known'[a] = Max(told(a) \cup {known[a]})
      BY DEF ReturnParam
    <2> HIDE DEF told
    <2>4. told(a) \cup {known[a]} \in SUBSET (0..writes)
      BY <2>1, <2>2
    <2>5. /\ known'[a] \in told(a) \cup {known[a]}
          /\ \A y \in told(a) \cup {known[a]} : y =< known'[a]
      BY <2>2, <2>3, <2>4, MaxIs
    <2>6. known[a] > 0 => a \in DOMAIN params /\ params[a] >= known[a]
      BY DEF ParamInv, KnownKept
    <2>7. a \in DOMAIN params => params[a] \in Int
      BY NumbersBounded
    <2> QED BY <2>1, <2>2, <2>4, <2>5, <2>6, <2>7
  <1>4. WritesCounted'
    <2>1. RunningSets' \subseteq RunningSets
      BY <1>2 DEF RunningSets, Runs, ParamOps
    <2> QED BY <1>1, <2>1, CountKept, NumbersBounded DEF ParamInv, WritesCounted
  <1>5. TableTyped'
    BY <1>1 DEF ParamInv, TableTyped
  <1>6. known' = [a \in Accounts |-> known'[a]]
    BY DEF ReturnParam
  <1>7. KnownKept'
    BY <1>1, <1>3, <1>6 DEF KnownKept
  <1>8. ASSUME NEW g \in Handlers, call'[g].op \in ParamOps
        PROVE  CallHeld(call[g])'
    <2>1. call'[g] = call[g] /\ call[g].op \in ParamOps
      BY <1>2, <1>8
    <2>2. \A a \in Accounts : known'[a] \in Nat /\ known[a] =< known'[a]
      BY <1>3 DEF ParamInv, WritesCounted
    <2>3. \A a \in DOMAIN params : a \in DOMAIN params' /\ params'[a] \in Nat /\ params[a] =< params'[a]
      BY <1>1, NumbersBounded
    <2> QED BY <1>2, <2>1, <2>2, <2>3, OthersHeld
  <1> QED BY <1>2, <1>4, <1>5, <1>7, <1>8 DEF ParamInv

-----------------------------------------------------------------------------
(* Units: what the steps are made of. *)

\* The properties read of a unit are five, each named once.
LEMMA PropertiesAre ==
    /\ Len(Properties) = 5 /\ Properties \in Seq(PropertyNames)
    /\ \A k \in 1..5 : Properties[k] \in PropertyNames
    /\ \A p \in PropertyNames : \E k \in 1..5 : p = Properties[k]
    /\ \A j, k \in 1..5 : Properties[j] = Properties[k] => j = k
  <1>1. /\ Len(Properties) = 5 /\ DOMAIN Properties = 1..5
        /\ Properties[1] = "load" /\ Properties[2] = "active" /\ Properties[3] = "sub"
        /\ Properties[4] = "description" /\ Properties[5] = "pid"
    BY DEF Properties
  <1>2. \A k \in 1..5 : k = 1 \/ k = 2 \/ k = 3 \/ k = 4 \/ k = 5
    OBVIOUS
  <1>3. \A k \in 1..5 : Properties[k] \in PropertyNames
    BY <1>1 DEF PropertyNames
  <1>4. \A p \in PropertyNames : \E k \in 1..5 : p = Properties[k]
    BY <1>1 DEF PropertyNames
  <1>5. \A j, k \in 1..5 : Properties[j] = Properties[k] => j = k
    BY <1>1, <1>2
  <1>6. Properties \in Seq(PropertyNames)
    <2>1. Properties = [k \in 1..5 |-> Properties[k]]
      BY <1>1 DEF Properties
    <2> QED BY <1>3, <2>1
  <1> QED BY <1>1, <1>3, <1>4, <1>5, <1>6

\* What is read next is one more of a sequence.
LEMMA PrefixGrows ==
    ASSUME NEW S, NEW s \in Seq(S), NEW k \in Nat, k + 1 =< Len(s)
    PROVE  /\ Append(SubSeq(s, 1, k), s[k+1]) = SubSeq(s, 1, k + 1)
           /\ Len(SubSeq(s, 1, k)) = k /\ SubSeq(s, 1, k) \in Seq(S) /\ s[k+1] \in S
  <1>1. PICK a : a = SubSeq(s, 1, k)
    OBVIOUS
  <1>2. PICK b : b = SubSeq(s, 1, k + 1)
    OBVIOUS
  <1>3. /\ a \in Seq(S) /\ Len(a) = k /\ \A i \in 1..k : a[i] = s[i]
        /\ b \in Seq(S) /\ Len(b) = k + 1 /\ \A i \in 1..(k+1) : b[i] = s[i]
        /\ s[k+1] \in S
    BY <1>1, <1>2
  <1>4. PICK x \in S : x = s[k+1]
    BY <1>3
  <1>5. PICK c : c = Append(a, x)
    OBVIOUS
  <1>6. c \in Seq(S) /\ Len(c) = k + 1 /\ \A i \in 1..(k+1) : c[i] = s[i]
    BY <1>3, <1>4, <1>5
  <1>7. /\ DOMAIN b = 1..(k+1) /\ DOMAIN c = 1..(k+1)
        /\ \A i \in 1..(k+1) : b[i] = c[i]
        /\ b = [i \in 1..(k+1) |-> b[i]] /\ c = [i \in 1..(k+1) |-> c[i]]
    BY <1>3, <1>6
  <1>8. b = c
    BY <1>7
  <1> QED BY <1>1, <1>2, <1>3, <1>4, <1>5, <1>8

\* "New" keeps each name and the unit it stands for: a unit is allowed under
\* each of its names if it is under one of them.
LEMMA AllowedMeans ==
    ASSUME allowedServices \in AllowLists,
           NEW name, name = [base |-> name.base, suffix |-> name.suffix]
    PROVE  IsAllowed(name) <=> (ListedNames = {} \/ Designated(name))
  <1>1. \A n : n = [base |-> n.base, suffix |-> n.suffix] => Normalize(Normalize(n)) = Normalize(n)
    BY DEF Normalize
  <1>2. \A n \in ListedNames : n = [base |-> n.base, suffix |-> n.suffix]
    BY UnitsAssumption DEF ListedNames, IsNameList
  <1>3. Allowed = {} <=> ListedNames = {}
    BY DEF Allowed
  <1>4. ASSUME name \in Allowed
        PROVE  Designated(name)
    <2>1. CASE name \in ListedNames
      BY <2>1 DEF Designated
    <2>2. ASSUME NEW n \in ListedNames, name = Normalize(n)
          PROVE  Designated(name)
      <3>1. Normalize(n) = Normalize(name)
        BY <1>1, <1>2, <2>2
      <3> QED BY <3>1 DEF Designated
    <2> QED BY <1>4, <2>1, <2>2 DEF Allowed
  <1>5. ASSUME Normalize(name) \in Allowed
        PROVE  Designated(name)
    <2>1. CASE Normalize(name) \in ListedNames
      BY <1>1, <2>1 DEF Designated
    <2>2. ASSUME NEW n \in ListedNames, Normalize(name) = Normalize(n)
          PROVE  Designated(name)
      BY <2>2 DEF Designated
    <2> QED BY <1>5, <2>1, <2>2 DEF Allowed
  <1>6. ASSUME Designated(name)
        PROVE  Normalize(name) \in Allowed
    BY <1>6 DEF Designated, Allowed
  <1> QED BY <1>3, <1>4, <1>5, <1>6 DEF IsAllowed

\* What a call for units is made of.
LEMMA StatusFields ==
    ASSUME UnitInv, NEW h \in Handlers, call[h].op = "status"
    PROVE  /\ call[h] \in StatusCalls /\ StatusHeld(call[h])
           /\ call[h].services \in Seq(Names) /\ DOMAIN call[h].services = 1..Len(call[h].services)
           /\ Len(call[h].services) \in Nat
           /\ call[h].entries \in Seq(StatusEntries)
           /\ call[h].entries \in EntryLists /\ Len(call[h].entries) \in Nat
           /\ DOMAIN call[h].entries = 1..Len(call[h].entries)
           /\ call[h].read \in Seq(PropertyNames) /\ Len(call[h].read) \in Nat
           /\ call[h].had \in [Units -> SUBSET States] /\ call[h].raw \in BOOLEAN
           /\ call[h].state \in FieldValues
           /\ \A i \in DOMAIN call[h].services :
                /\ call[h].services[i] \in Names
                /\ call[h].services[i] = [base |-> call[h].services[i].base,
                                          suffix |-> call[h].services[i].suffix]
                /\ call[h].services[i] # EmptyName => Normalize(call[h].services[i]) \in Units
  <1>1. call[h] \in StatusCalls /\ StatusHeld(call[h])
    BY CallKinds DEF UnitInv
  <1>2. PICK q \in StatusRequests : call[h].services = q.services
    BY <1>1 DEF StatusCalls, ServiceLists
  <1>3. PICK list : list = q.services
    OBVIOUS
  <1>4. list \in ServiceLists
    BY <1>3 DEF ServiceLists
  <1>5. \A i \in DOMAIN list : list[i] \in Names
    BY <1>4 DEF Names
  <1>6. /\ list \in Seq({list[i] : i \in DOMAIN list})
        /\ \A i \in DOMAIN list : list[i] = [base |-> list[i].base, suffix |-> list[i].suffix]
        /\ \A i \in DOMAIN list : list[i] # EmptyName => Normalize(list[i]) \in Units
    <2>1. /\ IsNameList(q.services)
          /\ \A i \in DOMAIN q.services :
                q.services[i] # EmptyName => Normalize(q.services[i]) \in Units
      BY UnitsAssumption
    <2>2. IsNameList(list)
      BY <1>3, <2>1
    <2> QED BY <1>3, <2>1, <2>2 DEF IsNameList
  <1>7. PICK S : S = {list[i] : i \in DOMAIN list}
    OBVIOUS
  <1>8. list \in Seq(S) /\ S \subseteq Names
    BY <1>5, <1>6, <1>7
  <1>9. list \in Seq(Names) /\ DOMAIN list = 1..Len(list) /\ Len(list) \in Nat
    BY <1>8
  <1>10. /\ call[h].entries \in EntryLists /\ call[h].read \in PropertyLists
         /\ call[h].had \in StateSets /\ call[h].raw \in BOOLEAN /\ call[h].state \in FieldValues
    BY <1>1 DEF StatusCalls
  <1>11. /\ call[h].entries \in Seq(StatusEntries) /\ Len(call[h].entries) \in Nat
         /\ DOMAIN call[h].entries = 1..Len(call[h].entries)
    BY <1>10 DEF EntryLists
  <1>12. call[h].read \in Seq(PropertyNames) /\ Len(call[h].read) \in Nat
    BY <1>10 DEF PropertyLists
  <1> QED BY <1>1, <1>2, <1>3, <1>5, <1>6, <1>9, <1>10, <1>11, <1>12 DEF StateSets

\* A call that is not touched keeps what holds of it, while no unit changes.
LEMMA StatusSame ==
    ASSUME NEW g \in Handlers, StatusHeld(call[g]), call'[g] = call[g],
           UNCHANGED <<units, allowedServices>>
    PROVE  StatusHeld(call[g])'
  <1>1. ASSUME NEW i \in DOMAIN call[g].entries
        PROVE  EntryHeld(call[g], i)'
    <2>1. Visible(call[g].services[i])' <=> Visible(call[g].services[i])
      BY DEF Visible, Designated, ListedNames
    <2> QED BY <1>1, <2>1 DEF StatusHeld, EntryHeld
  <1>2. ReadHeld(call[g])'
    <2>1. IsAllowed(CurrentOf(call[g]))' <=> IsAllowed(CurrentOf(call[g]))
      BY DEF IsAllowed, Allowed, ListedNames
    <2> QED BY <2>1 DEF StatusHeld, ReadHeld
  <1> QED BY <1>1, <1>2 DEF StatusHeld

\* A step that changes one call, and no unit, keeps what is held of the others.
LEMMA UnitStep ==
    ASSUME UnitInv, NEW h \in Handlers, NEW c \in {Idle} \cup ParamCalls \cup StatusCalls,
           call' = [call EXCEPT ![h] = c], UNCHANGED <<units, allowedServices>>,
           c.op = "status" => StatusHeld(call[h])'
    PROVE  UnitInv'
  <1>1. CallsTyped' /\ call'[h] = c /\ \A g \in Handlers \ {h} : call'[g] = call[g]
    BY CallReplaced DEF UnitInv
  <1>2. ASSUME NEW g \in Handlers, call'[g].op = "status"
        PROVE  StatusHeld(call[g])'
    <2>1. CASE g = h
      BY <1>1, <1>2, <2>1
    <2>2. CASE g # h
      <3>1. call'[g] = call[g] /\ StatusHeld(call[g])
        BY <1>1, <1>2, <2>2 DEF UnitInv
      <3> QED BY <3>1, StatusSame
    <2> QED BY <2>1, <2>2
  <1> QED BY <1>1, <1>2 DEF UnitInv

-----------------------------------------------------------------------------
(* Units: the steps. *)

\* An entry is appended for the service the loop has come to.
LEMMA FinishKeeps ==
    ASSUME UnitInv, NEW h \in Handlers, call[h].op = "status", Turn(h) \in DOMAIN call[h].services,
           NEW entry \in StatusEntries, NEW broken \in SUBSET {Turn(h)},
           Finish(h, entry, broken), UNCHANGED unitVars,
           EntryIs(entry, Current(h),
                   Current(h) # EmptyName /\ Visible(Current(h)) /\ broken = {},
                   call[h].had, call[h].raw)
    PROVE  UnitInv' /\ \E c \in StatusCalls : call' = [call EXCEPT ![h] = c]
  <1>0. /\ call[h] \in StatusCalls /\ StatusHeld(call[h]) /\ Len(call[h].services) \in Nat
        /\ DOMAIN call[h].services = 1..Len(call[h].services)
        /\ call[h].entries \in Seq(StatusEntries)
    BY StatusFields
  <1>1. PICK n \in Nat : n = Len(call[h].entries)
    BY <1>0
  <1>2. PICK c : c = [call[h] EXCEPT !.entries = Append(call[h].entries, entry), !.pc = "next",
                                    !.broke = call[h].broke \cup broken]
    OBVIOUS
  <1>3. call' = [call EXCEPT ![h] = c]
    BY <1>2 DEF Finish
  <1>4. /\ Append(call[h].entries, entry) \in EntryLists
        /\ Len(Append(call[h].entries, entry)) = n + 1
        /\ DOMAIN Append(call[h].entries, entry) = 1..(n+1)
        /\ Append(call[h].entries, entry)[n+1] = entry
        /\ \A i \in 1..n : Append(call[h].entries, entry)[i] = call[h].entries[i]
    BY <1>0, <1>1 DEF EntryLists
  <1>5. call[h].broke \subseteq 1..n /\ broken \subseteq {n+1} /\ n + 1 =< Len(call[h].services)
    <2>1. Turn(h) = n + 1
      BY <1>1 DEF Turn
    <2>2. n + 1 \in 1..Len(call[h].services)
      BY <1>0, <2>1
    <2>3. call[h].broke \subseteq 1..n
      BY <1>0, <1>1 DEF StatusHeld
    <2> QED BY <1>0, <2>1, <2>2, <2>3
  <1>6. /\ call[h].broke \cup broken \subseteq 1..(n+1)
        /\ call[h].broke \cup broken \in SUBSET Nat
    <2>1. \A i \in 1..n : i \in 1..(n+1)
      OBVIOUS
    <2>2. n + 1 \in 1..(n+1) /\ 1..(n+1) \subseteq Nat
      OBVIOUS
    <2>3. call[h].broke \cup broken \subseteq 1..(n+1)
      BY <1>5, <2>1, <2>2
    <2> QED BY <2>2, <2>3
  <1>7. /\ c \in StatusCalls /\ c.op = "status" /\ c.pc = "next"
        /\ c.entries = Append(call[h].entries, entry) /\ c.broke = call[h].broke \cup broken
        /\ c.services = call[h].services /\ c.raw = call[h].raw /\ c.read = call[h].read
        /\ c.had = call[h].had
    BY <1>0, <1>2, <1>4, <1>6 DEF StatusCalls
  <1>8. call'[h] = c
    BY <1>3, <1>7, CallReplaced DEF UnitInv
  <1>9. \A name : Visible(name)' <=> Visible(name)
    BY DEF Visible, Designated, ListedNames, unitVars
  <1>10. ASSUME NEW i \in 1..(n+1)
         PROVE  EntryHeld(call[h], i)'
    <2>1. CASE i \in 1..n
      <3>1. EntryHeld(call[h], i) /\ i # n + 1
        BY <1>0, <1>1, <2>1 DEF StatusHeld
      <3>2. i \in call[h].broke \cup broken <=> i \in call[h].broke
        BY <1>5, <3>1
      <3>3. Append(call[h].entries, entry)[i] = call[h].entries[i]
        BY <1>4, <2>1
      <3>4. Visible(call[h].services[i])' <=> Visible(call[h].services[i])
        BY <1>7, <1>8, <1>9 DEF Visible, Designated
      <3> QED BY <1>7, <1>8, <3>1, <3>2, <3>3, <3>4 DEF EntryHeld
    <2>2. CASE i = n + 1
      <3>1. n + 1 \notin call[h].broke /\ (broken = {} <=> n + 1 \notin broken)
        BY <1>5
      <3>2. Append(call[h].entries, entry)[i] = entry /\ call[h].services[i] = Current(h)
        BY <1>1, <1>4, <2>2 DEF Current, Turn
      <3>3. Visible(call[h].services[i])' <=> Visible(Current(h))
        BY <1>7, <1>8, <1>9, <3>2 DEF Visible, Designated
      <3> QED BY <1>7, <1>8, <2>2, <3>1, <3>2, <3>3 DEF EntryHeld
    <2> QED BY <2>1, <2>2
  <1>11. ReadHeld(call[h])' /\ \A u \in Units : units'[u] \in call'[h].had[u]
    <2>1. Len(call[h].read) =< Len(Properties) /\ call[h].read = SubSeq(Properties, 1, Len(call[h].read))
      BY <1>0 DEF StatusHeld, ReadHeld
    <2>2. ReadHeld(call[h])'
      BY <1>7, <1>8, <2>1 DEF ReadHeld
    <2>3. \A u \in Units : units'[u] \in call'[h].had[u]
      BY <1>0, <1>7, <1>8 DEF StatusHeld, unitVars
    <2> QED BY <2>2, <2>3
  <1>12. StatusHeld(call[h])'
    <2>1. /\ Len(call'[h].entries) = n + 1 /\ DOMAIN call'[h].entries = 1..(n+1)
          /\ call'[h].services = call[h].services
      BY <1>4, <1>7, <1>8
    <2>2. call'[h].broke \subseteq 1..Len(call'[h].entries)
      BY <1>6, <1>7, <1>8, <2>1
    <2>3. Len(call'[h].entries) =< Len(call'[h].services)
      BY <1>5, <2>1
    <2> QED BY <1>10, <1>11, <2>1, <2>2, <2>3 DEF StatusHeld
  <1>13. UnitInv'
    BY <1>3, <1>7, <1>12, UnitStep DEF unitVars
  <1> QED BY <1>3, <1>7, <1>13

\* The loop goes on within a service, with what it has read of the unit so far.
Loops(h, read, state) ==
    call' = [call EXCEPT ![h].pc = "read", ![h].read = read, ![h].state = state]

\* What the loop has appended does not change.
LEMMA LoopKeeps ==
    ASSUME UnitInv, NEW h \in Handlers, call[h].op = "status",
           NEW read \in PropertyLists, NEW state \in FieldValues,
           Loops(h, read, state), UNCHANGED unitVars,
           Len(read) =< Len(Properties), read = SubSeq(Properties, 1, Len(read)),
           Turn(h) \in DOMAIN call[h].services, Current(h) # EmptyName, IsAllowed(Current(h)),
           \A k \in 1..Len(Properties) :
              IF k =< Len(read) THEN FieldSeen(call[h].had, Current(h), state, Properties[k])
              ELSE state[Properties[k]] = None
    PROVE  UnitInv' /\ \E c \in StatusCalls : call' = [call EXCEPT ![h] = c]
  <1>0. call[h] \in StatusCalls /\ StatusHeld(call[h])
    BY StatusFields
  <1>1. PICK c : c = [call[h] EXCEPT !.pc = "read", !.read = read, !.state = state]
    OBVIOUS
  <1>2. call' = [call EXCEPT ![h] = c]
    BY <1>1 DEF UnitInv, CallsTyped, Loops
  <1>3. /\ c \in StatusCalls /\ c.op = "status" /\ c.pc = "read"
        /\ c.entries = call[h].entries /\ c.broke = call[h].broke
        /\ c.services = call[h].services /\ c.raw = call[h].raw /\ c.read = read
        /\ c.had = call[h].had /\ c.state = state
    BY <1>0, <1>1 DEF StatusCalls
  <1>4. call'[h] = c
    BY <1>2, <1>3, CallReplaced DEF UnitInv
  <1>5. ASSUME NEW i \in DOMAIN c.entries
        PROVE  EntryHeld(call[h], i)'
    <2>1. EntryHeld(call[h], i)
      BY <1>0, <1>3, <1>5 DEF StatusHeld
    <2>2. Visible(call[h].services[i])' <=> Visible(call[h].services[i])
      BY <1>3, <1>4 DEF Visible, Designated, ListedNames, unitVars
    <2> QED BY <1>3, <1>4, <2>1, <2>2 DEF EntryHeld
  <1>6. ReadHeld(call[h])'
    <2>1. CurrentOf(call[h])' = Current(h)
      BY <1>3, <1>4 DEF CurrentOf, Current, Turn
    <2>2. IsAllowed(CurrentOf(call[h]))' <=> IsAllowed(Current(h))
      <3>1. \A n : IsAllowed(n)' <=> IsAllowed(n)
        BY DEF IsAllowed, Allowed, ListedNames, unitVars
      <3> QED BY <2>1, <3>1 DEF IsAllowed
    <2>3. \A k \in 1..Len(Properties) : ReadSeen(call[h], k)'
      BY <1>3, <1>4, <2>1 DEF ReadSeen
    <2> QED BY <1>3, <1>4, <2>1, <2>2, <2>3 DEF ReadHeld, Turn
  <1>7. \A u \in Units : units'[u] \in call'[h].had[u]
    BY <1>0, <1>3, <1>4 DEF StatusHeld, unitVars
  <1>8. StatusHeld(call[h])'
    BY <1>0, <1>3, <1>4, <1>5, <1>6, <1>7 DEF StatusHeld
  <1>9. UnitInv'
    BY <1>2, <1>3, <1>8, UnitStep DEF unitVars
  <1> QED BY <1>2, <1>3, <1>9

\* The states and entries that a step reads and writes.
LEMMA StatesTyped ==
    ASSUME UnitInv
    PROVE  /\ \A u \in Units : units[u] \in States /\ units[u] # None
           /\ \A s \in States, p \in PropertyNames : s[p] \in Fields
           /\ NoState \in FieldValues
           /\ \A name \in Names : ErrorEntry(name) \in StatusEntries
  <1>1. \A u \in Units : units[u] \in UnitStates[u] /\ None \notin UnitStates[u]
    BY UnitsAssumption DEF UnitInv
  <1>2. NoState \in FieldValues
    BY DEF NoState, FieldValues, Fields
  <1>3. \A name \in Names : ErrorEntry(name) \in StatusEntries
    BY <1>2 DEF ErrorEntry, Entry, StatusEntries
  <1>4. \A s \in States, p \in PropertyNames : s[p] \in Fields
    BY DEF Fields
  <1> QED BY <1>1, <1>2, <1>3, <1>4 DEF States

\* An error says nothing of a unit.
LEMMA ErrorIs ==
    ASSUME NEW name, NEW shown \in BOOLEAN, NEW had, NEW raw, ~shown
    PROVE  EntryIs(ErrorEntry(name), name, shown, had, raw)
  BY DEF EntryIs, ErrorEntry, Entry

\* A status call starts with every service still ahead of it.
LEMMA BeginStatusKeeps ==
    ASSUME UnitInv, NEW h \in Handlers, BeginStatus(h)
    PROVE  UnitInv' /\ \E c \in StatusCalls : call' = [call EXCEPT ![h] = c]
  <1>1. PICK q \in StatusRequests : Arrives(h, StatusCall(q))
    BY DEF BeginStatus
  <1>2. PICK c : c = StatusCall(q)
    OBVIOUS
  <1>3. call' = [call EXCEPT ![h] = c] /\ UNCHANGED <<units, allowedServices>>
    BY <1>1, <1>2 DEF Arrives, BeginStatus, unitVars
  <1>4. q.services \in ServiceLists /\ q.raw \in BOOLEAN
    BY UnitsAssumption DEF ServiceLists
  <1>5. << >> \in PropertyLists /\ << >> \in EntryLists /\ {} \in SUBSET Nat
    BY DEF PropertyLists, EntryLists
  <1>6. [u \in Units |-> {units[u]}] \in StateSets
    BY StatesTyped DEF StateSets
  <1>7. c \in StatusCalls
    BY <1>2, <1>4, <1>5, <1>6, StatesTyped DEF StatusCall, StatusCalls
  <1>8. call'[h] = c
    BY <1>3, <1>7, CallReplaced DEF UnitInv
  <1>9. /\ c.op = "status" /\ c.pc = "next" /\ c.services = q.services /\ c.entries = << >>
        /\ c.broke = {} /\ c.had = [u \in Units |-> {units[u]}] /\ c.read = << >>
    BY <1>2 DEF StatusCall
  <1>10. Len(q.services) \in Nat /\ Len(<< >>) = 0 /\ DOMAIN << >> = {}
    <2>1. PICK S : q.services \in Seq(S)
      BY UnitsAssumption DEF IsNameList
    <2> QED BY <2>1
  <1>11. ReadHeld(call[h])'
    <2>1. SubSeq(Properties, 1, 0) = << >>
      BY PropertiesAre
    <2> QED BY <1>8, <1>9, <1>10, <2>1, PropertiesAre DEF ReadHeld
  <1>12. StatusHeld(call[h])'
    BY <1>3, <1>8, <1>9, <1>10, <1>11 DEF StatusHeld
  <1> QED BY <1>3, <1>7, <1>12, UnitStep

\* A refused service is reported without a look at its unit.
LEMMA RefuseKeeps ==
    ASSUME UnitInv, NEW h \in Handlers, Refuse(h)
    PROVE  UnitInv' /\ \E c \in StatusCalls : call' = [call EXCEPT ![h] = c]
  <1>1. call[h].op = "status" /\ Turn(h) \in DOMAIN call[h].services /\ UNCHANGED unitVars
    BY DEF Refuse, At
  <1>2. /\ Current(h) \in Names
        /\ Current(h) = [base |-> Current(h).base, suffix |-> Current(h).suffix]
    BY <1>1, StatusFields DEF Current
  <1>3. ~(Current(h) # EmptyName /\ Visible(Current(h)))
    BY <1>2, AllowedMeans DEF Refuse, UnitInv, Visible
  <1>4. EntryIs(ErrorEntry(Current(h)), Current(h),
                Current(h) # EmptyName /\ Visible(Current(h)) /\ {} = {}, call[h].had, call[h].raw)
    BY <1>3, ErrorIs
  <1>5. Finish(h, ErrorEntry(Current(h)), {}) /\ ErrorEntry(Current(h)) \in StatusEntries
    BY <1>2, StatesTyped DEF Refuse
  <1> QED BY <1>1, <1>4, <1>5, FinishKeeps

\* Loading a unit of an allowed service leaves all its properties to be read.
LEMMA LoadUnitKeeps ==
    ASSUME UnitInv, NEW h \in Handlers, LoadUnit(h)
    PROVE  UnitInv' /\ \E c \in StatusCalls : call' = [call EXCEPT ![h] = c]
  <1>1. /\ call[h].op = "status" /\ Turn(h) \in DOMAIN call[h].services /\ UNCHANGED unitVars
        /\ Current(h) # EmptyName /\ IsAllowed(Current(h))
        /\ Loops(h, << >>, NoState)
    BY DEF LoadUnit, At, Loops
  <1>2. << >> \in PropertyLists /\ Len(<< >>) = 0
    BY DEF PropertyLists
  <1>3. << >> = SubSeq(Properties, 1, 0) /\ Len(Properties) = 5
    BY PropertiesAre
  <1>4. NoState \in FieldValues /\ \A k \in 1..Len(Properties) : NoState[Properties[k]] = None
    BY PropertiesAre, StatesTyped DEF NoState
  <1>5. \A k \in 1..Len(Properties) :
            IF k =< Len(<< >>) THEN FieldSeen(call[h].had, Current(h), NoState, Properties[k])
            ELSE NoState[Properties[k]] = None
    BY <1>2, <1>3, <1>4
  <1>6. Len(<< >>) =< Len(Properties) /\ << >> = SubSeq(Properties, 1, Len(<< >>))
    BY <1>2, <1>3
  <1> QED BY <1>1, <1>2, <1>4, <1>5, <1>6, LoopKeeps

\* Of a property that is read, the unit had the value at that moment.
LEMMA ReadingKeeps ==
    ASSUME UnitInv, NEW h \in Handlers, ReadProperty(h) \/ NoMainPID(h)
    PROVE  UnitInv' /\ \E c \in StatusCalls : call' = [call EXCEPT ![h] = c]
  <1> DEFINE p == Property(h)
  <1>1. /\ call[h].op = "status" /\ call[h].pc = "read" /\ Left(h) /\ UNCHANGED unitVars
    BY DEF ReadProperty, NoMainPID, At
  <1>2. /\ StatusHeld(call[h]) /\ ReadHeld(call[h])
        /\ Turn(h) \in DOMAIN call[h].services /\ Current(h) # EmptyName /\ IsAllowed(Current(h))
        /\ \A k \in 1..5 : ReadSeen(call[h], k)
        /\ CurrentOf(call[h]) = Current(h)
    BY <1>1, StatusFields, PropertiesAre DEF StatusHeld, ReadHeld, Current, Turn, CurrentOf
  <1>3. PICK n \in Nat : n = Len(call[h].read)
    BY <1>1, StatusFields
  <1>4. /\ call[h].read = SubSeq(Properties, 1, n) /\ n < 5 /\ n + 1 \in 1..5
        /\ p = Properties[n+1] /\ p \in PropertyNames
    BY <1>1, <1>2, <1>3, PropertiesAre DEF ReadHeld, Left, Property
  <1>5. PICK read : read = Append(call[h].read, p)
    OBVIOUS
  <1>6. read \in PropertyLists /\ Len(read) = n + 1 /\ read = SubSeq(Properties, 1, n + 1)
    <2>1. /\ Append(SubSeq(Properties, 1, n), Properties[n+1]) = SubSeq(Properties, 1, n + 1)
          /\ Len(SubSeq(Properties, 1, n)) = n
          /\ SubSeq(Properties, 1, n) \in Seq(PropertyNames)
      BY <1>4, PropertiesAre, PrefixGrows
    <2> HIDE DEF p
    <2>2. read \in Seq(PropertyNames) /\ Len(read) = n + 1
      BY <1>4, <1>5, <2>1
    <2> QED BY <1>4, <1>5, <2>1, <2>2 DEF PropertyLists
  <1>7. Normalize(Current(h)) \in Units /\ units[Normalize(Current(h))] \in States
        /\ units[Normalize(Current(h))] \in call[h].had[Normalize(Current(h))]
    <2>1. Normalize(Current(h)) \in Units
      BY <1>1, <1>2, StatusFields DEF Current
    <2> QED BY <1>2, <2>1, StatesTyped DEF StatusHeld
  <1>8. PICK state \in FieldValues :
           /\ call' = [call EXCEPT ![h].pc = "read", ![h].read = read, ![h].state = state]
           /\ \A q \in PropertyNames \ {p} : state[q] = call[h].state[q]
           /\ FieldSeen(call[h].had, Current(h), state, p)
    <2>1. call[h] \in StatusCalls /\ call[h].state \in FieldValues /\ call[h].pc = "read"
      BY <1>1, StatusFields
    <2>2. CASE ReadProperty(h)
      <3>1. PICK state : state = [call[h].state EXCEPT ![p] = units[Normalize(Current(h))][p]]
        OBVIOUS
      <3>2. units[Normalize(Current(h))][p] \in Fields
        BY <1>4, <1>7, StatesTyped
      <3>3. /\ state \in FieldValues /\ state[p] = units[Normalize(Current(h))][p]
            /\ \A q \in PropertyNames \ {p} : state[q] = call[h].state[q]
        BY <1>4, <2>1, <3>1, <3>2 DEF FieldValues
      <3>4. call' = [call EXCEPT ![h].read = read, ![h].state = state]
        BY <1>5, <2>2, <3>1 DEF ReadProperty
      <3>5. call' = [call EXCEPT ![h].pc = "read", ![h].read = read, ![h].state = state]
        BY <2>1, <3>4 DEF StatusCalls, UnitInv, CallsTyped
      <3> QED BY <1>7, <3>3, <3>5 DEF FieldSeen
    <2>3. CASE NoMainPID(h)
      <3>1. call[h].state[p] = None /\ p = "pid"
        BY <1>2, <1>3, <1>4, <2>3 DEF ReadSeen, NoMainPID
      <3>2. call' = [call EXCEPT ![h].read = read]
        BY <1>5, <2>3, <3>1 DEF NoMainPID
      <3>3. call' = [call EXCEPT ![h].pc = "read", ![h].read = read, ![h].state = call[h].state]
        BY <2>1, <3>2 DEF StatusCalls, UnitInv, CallsTyped
      <3> QED BY <2>1, <3>1, <3>3 DEF FieldSeen
    <2> QED BY <2>2, <2>3 DEF ReadProperty
  <1>9. ASSUME NEW k \in 1..5
        PROVE  IF k =< Len(read) THEN FieldSeen(call[h].had, Current(h), state, Properties[k])
               ELSE state[Properties[k]] = None
    <2>1. CASE k = n + 1
      BY <1>4, <1>6, <1>8, <2>1
    <2>2. CASE k # n + 1
      <3>1. Properties[k] \in PropertyNames \ {p}
        BY <1>4, <2>2, PropertiesAre
      <3>2. state[Properties[k]] = call[h].state[Properties[k]]
        BY <1>8, <3>1
      <3>3. IF k =< n THEN FieldSeen(call[h].had, Current(h), call[h].state, Properties[k])
            ELSE call[h].state[Properties[k]] = None
        BY <1>2, <1>3 DEF ReadSeen
      <3>4. k =< Len(read) <=> k =< n
        BY <1>6, <2>2
      <3> QED BY <3>2, <3>3, <3>4 DEF FieldSeen
    <2> QED BY <2>1, <2>2
  <1> HIDE DEF p
  <1>10. Len(read) =< Len(Properties) /\ read = SubSeq(Properties, 1, Len(read))
    BY <1>4, <1>6, PropertiesAre
  <1>11. \A k \in 1..Len(Properties) :
            IF k =< Len(read) THEN FieldSeen(call[h].had, Current(h), state, Properties[k])
            ELSE state[Properties[k]] = None
    BY <1>9, PropertiesAre
  <1>12. Loops(h, read, state)
    BY <1>8 DEF Loops
  <1> QED BY <1>1, <1>2, <1>6, <1>10, <1>11, <1>12, LoopKeeps

\* The properties that were read become the report of the current service.
LEMMA ReportKeeps ==
    ASSUME UnitInv, NEW h \in Handlers, Report(h)
    PROVE  UnitInv' /\ \E c \in StatusCalls : call' = [call EXCEPT ![h] = c]
  <1>1. call[h].op = "status" /\ call[h].pc = "read" /\ ~Left(h) /\ UNCHANGED unitVars
    BY DEF Report, At
  <1>2. /\ StatusHeld(call[h]) /\ Turn(h) \in DOMAIN call[h].services /\ Current(h) # EmptyName
        /\ IsAllowed(Current(h)) /\ \A k \in 1..5 : ReadSeen(call[h], k)
        /\ CurrentOf(call[h]) = Current(h)
    BY <1>1, StatusFields, PropertiesAre DEF StatusHeld, ReadHeld, Current, Turn, CurrentOf
  <1>3. /\ Current(h) \in Names /\ Normalize(Current(h)) \in Units
        /\ Current(h) = [base |-> Current(h).base, suffix |-> Current(h).suffix]
        /\ call[h].state \in FieldValues /\ call[h].raw \in BOOLEAN
        /\ Len(call[h].read) \in Nat /\ Len(call[h].read) >= 5
    <2>1. Current(h) \in Names /\ Normalize(Current(h)) \in Units
      BY <1>1, <1>2, StatusFields DEF Current
    <2>2. Current(h) = [base |-> Current(h).base, suffix |-> Current(h).suffix]
      BY <1>1, <1>2, StatusFields DEF Current
    <2>3. /\ call[h].state \in FieldValues /\ call[h].raw \in BOOLEAN
          /\ Len(call[h].read) \in Nat
      BY <1>1, StatusFields
    <2>4. Len(call[h].read) >= 5
      BY <1>1, <2>3, PropertiesAre DEF Left
    <2> QED BY <2>1, <2>2, <2>3, <2>4
  <1>4. PICK unit : unit = units[Normalize(Current(h))]
    OBVIOUS
  <1>5. unit \in States /\ unit # None /\ unit \in call[h].had[Normalize(Current(h))]
    BY <1>2, <1>3, <1>4, StatesTyped DEF StatusHeld
  <1>6. Visible(Current(h))
    BY <1>2, <1>3, AllowedMeans DEF UnitInv, Visible
  <1>7. PICK entry : entry = Entry(Current(h), "status", call[h].state,
                                   IF call[h].raw THEN unit ELSE None)
    OBVIOUS
  <1>8. /\ entry.name = Current(h) /\ entry.kind = "status" /\ entry.state = call[h].state
        /\ entry.raw = IF call[h].raw THEN unit ELSE None
        /\ entry \in StatusEntries
    BY <1>3, <1>5, <1>7 DEF Entry, StatusEntries
  <1>9. ASSUME NEW p \in PropertyNames
        PROVE  FieldSeen(call[h].had, Current(h), entry.state, p)
    <2>1. PICK k \in 1..5 : p = Properties[k]
      BY PropertiesAre
    <2>2. ReadSeen(call[h], k) /\ k =< Len(call[h].read)
      BY <1>2, <1>3
    <2> QED BY <1>2, <1>8, <2>1, <2>2 DEF ReadSeen
  <1>10. entry.raw \in call[h].had[Normalize(Current(h))] \cup {None}
    BY <1>5, <1>8
  <1>11. call[h].raw <=> entry.raw # None
    BY <1>3, <1>5, <1>8
  <1>12. EntryIs(entry, Current(h),
                 Current(h) # EmptyName /\ Visible(Current(h)) /\ {} = {}, call[h].had, call[h].raw)
    BY <1>2, <1>6, <1>8, <1>9, <1>10, <1>11 DEF EntryIs
  <1>13. Finish(h, entry, {})
    BY <1>4, <1>7 DEF Report
  <1> QED BY <1>1, <1>2, <1>8, <1>12, <1>13, FinishKeeps

\* A service whose unit cannot be read is reported with an error and nothing else.
LEMMA FailStatusKeeps ==
    ASSUME UnitInv, NEW h \in Handlers, FailStatus(h)
    PROVE  UnitInv' /\ \E c \in StatusCalls : call' = [call EXCEPT ![h] = c]
  <1>1. call[h].op = "status" /\ call[h].pc = "read" /\ UNCHANGED unitVars
    BY DEF FailStatus, At
  <1>2. Turn(h) \in DOMAIN call[h].services
    BY <1>1, StatusFields DEF StatusHeld, ReadHeld, Turn
  <1>3. Current(h) \in Names
    BY <1>1, <1>2, StatusFields DEF Current
  <1>4. Finish(h, ErrorEntry(Current(h)), {Turn(h)}) /\ ErrorEntry(Current(h)) \in StatusEntries
    BY <1>3, StatesTyped DEF FailStatus
  <1>5. EntryIs(ErrorEntry(Current(h)), Current(h),
                Current(h) # EmptyName /\ Visible(Current(h)) /\ {Turn(h)} = {},
                call[h].had, call[h].raw)
    BY ErrorIs
  <1> QED BY <1>1, <1>2, <1>4, <1>5, FinishKeeps

\* Every step of a call for units, and the end of one.
LEMMA StatusStepKeeps ==
    ASSUME UnitInv, NEW h \in Handlers, StatusStep(h)
    PROVE  UnitInv' /\ \E c \in {Idle} \cup StatusCalls : call' = [call EXCEPT ![h] = c]
  <1>1. CASE ReturnStatus(h)
    <2>1. call' = [call EXCEPT ![h] = Idle] /\ UNCHANGED <<units, allowedServices>>
      BY <1>1 DEF ReturnStatus, Leaves, unitVars
    <2>2. Idle.op # "status"
      BY DEF Idle
    <2> QED BY <2>1, <2>2, UnitStep
  <1>2. CASE BeginStatus(h)
    BY <1>2, BeginStatusKeeps
  <1>3. CASE Refuse(h)
    BY <1>3, RefuseKeeps
  <1>4. CASE LoadUnit(h)
    BY <1>4, LoadUnitKeeps
  <1>5. CASE ReadProperty(h) \/ NoMainPID(h)
    BY <1>5, ReadingKeeps
  <1>6. CASE Report(h)
    BY <1>6, ReportKeeps
  <1>7. CASE FailStatus(h)
    BY <1>7, FailStatusKeeps
  <1> QED BY <1>1, <1>2, <1>3, <1>4, <1>5, <1>6, <1>7 DEF StatusStep

\* A unit changes: the calls that go on have seen one state more.
LEMMA UnitChangesKeeps ==
    ASSUME UnitInv, NEW u \in Units, UnitChanges(u)
    PROVE  /\ UnitInv'
           /\ \A h \in Handlers : call[h].op # "status" => call'[h] = call[h]
           /\ \A h \in Handlers : call'[h].op = "status" <=> call[h].op = "status"
  <1>1. PICK s \in UnitStates[u] :
           /\ units' = [units EXCEPT ![u] = s] /\ allowedServices' = allowedServices
           /\ call' = [h \in Handlers |->
                IF call[h].op = "status" THEN [call[h] EXCEPT !.had[u] = @ \cup {s}] ELSE call[h]]
    BY DEF UnitChanges
  <1>2. s \in States
    BY DEF States
  <1>3. ASSUME NEW h \in Handlers, call[h].op = "status"
        PROVE  /\ call'[h] \in StatusCalls /\ call'[h].op = "status" /\ call'[h].pc = call[h].pc
               /\ call'[h].services = call[h].services /\ call'[h].raw = call[h].raw
               /\ call'[h].read = call[h].read /\ call'[h].state = call[h].state
               /\ call'[h].entries = call[h].entries /\ call'[h].broke = call[h].broke
               /\ call'[h].had \in StateSets
               /\ call'[h].had[u] = call[h].had[u] \cup {s}
               /\ \A v \in Units \ {u} : call'[h].had[v] = call[h].had[v]
    <2>1. call[h] \in StatusCalls /\ call[h].had \in [Units -> SUBSET States]
      BY <1>3, StatusFields
    <2>2. PICK had : had = [call[h].had EXCEPT ![u] = call[h].had[u] \cup {s}]
      OBVIOUS
    <2>3. /\ had \in StateSets /\ had[u] = call[h].had[u] \cup {s}
          /\ \A v \in Units \ {u} : had[v] = call[h].had[v]
      BY <1>2, <2>1, <2>2 DEF StateSets
    <2>4. call'[h] = [call[h] EXCEPT !.had = had]
      BY <1>1, <1>3, <2>2
    <2> QED BY <2>1, <2>3, <2>4 DEF StatusCalls
  <1>4. \A h \in Handlers : call[h].op # "status" => call'[h] = call[h]
    BY <1>1
  <1>5. \A h \in Handlers : call'[h].op = "status" <=> call[h].op = "status"
    BY <1>3, <1>4
  <1>6. CallsTyped'
    <2>1. \A h \in Handlers : call'[h] \in {Idle} \cup ParamCalls \cup StatusCalls
      BY <1>3, <1>4, CallKinds DEF UnitInv
    <2> QED BY <1>1, <2>1 DEF CallsTyped
  <1>7. DOMAIN units' = Units /\ \A v \in Units : units'[v] \in UnitStates[v]
    BY <1>1 DEF UnitInv
  <1>8. ASSUME NEW h \in Handlers, call[h].op = "status"
        PROVE  StatusHeld(call[h])'
    <2>1. StatusHeld(call[h]) /\ \A i \in DOMAIN call[h].services :
                call[h].services[i] # EmptyName => Normalize(call[h].services[i]) \in Units
      BY <1>8, StatusFields
    <2>2. \A v \in Units : call[h].had[v] \subseteq call'[h].had[v]
      BY <1>3, <1>8
    <2>3. ASSUME NEW name, Normalize(name) \in Units, NEW state, NEW p, FieldSeen(call[h].had, name, state, p)
          PROVE  FieldSeen(call'[h].had, name, state, p)
      BY <2>2, <2>3 DEF FieldSeen
    <2>4. ASSUME NEW i \in DOMAIN call[h].entries
          PROVE  EntryHeld(call[h], i)'
      <3>1. PICK name : name = call[h].services[i]
        OBVIOUS
      <3>2. PICK shown \in BOOLEAN : shown = (name # EmptyName /\ Visible(name) /\ i \notin call[h].broke)
        OBVIOUS
      <3>3. EntryIs(call[h].entries[i], name, shown, call[h].had, call[h].raw)
        BY <2>1, <2>4, <3>1, <3>2 DEF StatusHeld, EntryHeld
      <3>4. shown => Normalize(name) \in Units
        <4>1. /\ Len(call[h].entries) =< Len(call[h].services)
              /\ Len(call[h].entries) \in Nat /\ Len(call[h].services) \in Nat
              /\ DOMAIN call[h].entries = 1..Len(call[h].entries)
              /\ DOMAIN call[h].services = 1..Len(call[h].services)
          BY <1>8, <2>1, StatusFields DEF StatusHeld
        <4>2. i \in DOMAIN call[h].services
          BY <2>4, <4>1
        <4> QED BY <2>1, <3>1, <3>2, <4>2
      <3>5. EntryIs(call[h].entries[i], name, shown, call'[h].had, call[h].raw)
        BY <2>2, <2>3, <3>3, <3>4 DEF EntryIs
      <3>6. Visible(call[h].services[i])' <=> Visible(name)
        BY <1>1, <1>3, <1>8, <3>1 DEF Visible, Designated, ListedNames
      <3> QED BY <1>3, <1>8, <3>1, <3>2, <3>5, <3>6 DEF EntryHeld
    <2>5. ReadHeld(call[h])'
      <3>1. ReadHeld(call[h])
        BY <2>1 DEF StatusHeld
      <3>2. CurrentOf(call[h])' = CurrentOf(call[h])
        BY <1>3, <1>8 DEF CurrentOf
      <3>3. IsAllowed(CurrentOf(call[h]))' <=> IsAllowed(CurrentOf(call[h]))
        <4>1. \A n : IsAllowed(n)' <=> IsAllowed(n)
          BY <1>1 DEF IsAllowed, Allowed, ListedNames
        <4> QED BY <3>2, <4>1 DEF IsAllowed
      <3>4. ASSUME call[h].pc = "read", NEW k \in 1..Len(Properties)
            PROVE  ReadSeen(call[h], k)'
        <4>1. ReadSeen(call[h], k) /\ Normalize(CurrentOf(call[h])) \in Units
          BY <2>1, <3>1, <3>4 DEF ReadHeld, CurrentOf
        <4> QED BY <1>3, <1>8, <2>3, <3>2, <4>1 DEF ReadSeen
      <3> QED BY <1>3, <1>8, <3>1, <3>2, <3>3, <3>4 DEF ReadHeld
    <2>6. \A v \in Units : units'[v] \in call'[h].had[v]
      <3>1. units'[u] = s /\ \A v \in Units \ {u} : units'[v] = units[v]
        BY <1>1 DEF UnitInv
      <3>2. /\ call'[h].had[u] = call[h].had[u] \cup {s}
            /\ \A v \in Units \ {u} : call'[h].had[v] = call[h].had[v]
        BY <1>3, <1>8
      <3>3. \A v \in Units : units[v] \in call[h].had[v]
        BY <2>1 DEF StatusHeld
      <3>4. s \in call'[h].had[u]
        BY <3>2
      <3> QED BY <3>1, <3>2, <3>3, <3>4
    <2>7. /\ Len(call'[h].entries) =< Len(call'[h].services)
          /\ call'[h].broke \subseteq 1..Len(call'[h].entries)
      BY <1>3, <1>8, <2>1 DEF StatusHeld
    <2>8. \A i \in DOMAIN call'[h].entries : EntryHeld(call[h], i)'
      BY <1>3, <1>8, <2>4
    <2> QED BY <2>5, <2>6, <2>7, <2>8 DEF StatusHeld
  <1>9. UnitInv'
    BY <1>1, <1>5, <1>6, <1>7, <1>8 DEF UnitInv
  <1> QED BY <1>4, <1>5, <1>9

-----------------------------------------------------------------------------
(* The invariant. *)

\* Nothing of a call depends on what it leaves unchanged.
LEMMA ParamSame ==
    ASSUME ParamInv, UNCHANGED <<call, changes, paramVars>>
    PROVE  ParamInv'
  <1>1. CallsTyped'
    BY DEF ParamInv, CallsTyped
  <1>2. RunningSets' = RunningSets
    BY DEF RunningSets, Runs
  <1>3. WritesCounted' /\ TableTyped' /\ KnownKept'
    BY <1>2 DEF ParamInv, WritesCounted, TableTyped, KnownKept, paramVars
  <1>4. ASSUME NEW g \in Handlers, call'[g].op \in ParamOps
        PROVE  CallHeld(call[g])'
    <2>1. call'[g] = call[g] /\ call[g].op \in ParamOps
      BY <1>4
    <2> QED BY <1>1, <2>1, OthersHeld
            DEF ParamInv, TableTyped, KnownKept, WritesCounted, paramVars
  <1> QED BY <1>1, <1>3, <1>4 DEF ParamInv

\* A step that leaves the calls and the units alone keeps the invariant of the units.
LEMMA UnitSame ==
    ASSUME UnitInv, UNCHANGED <<call, unitVars>>
    PROVE  UnitInv'
  <1>1. CallsTyped'
    BY DEF UnitInv, CallsTyped
  <1>2. ASSUME NEW g \in Handlers, call'[g].op = "status"
        PROVE  StatusHeld(call[g])'
    <2>1. call'[g] = call[g] /\ StatusHeld(call[g])
      BY <1>2 DEF UnitInv
    <2> QED BY <2>1, StatusSame DEF unitVars
  <1> QED BY <1>1, <1>2 DEF UnitInv, unitVars

\* The client of a ParamSet is gone: its statement goes on.
LEMMA SetGivenUp ==
    ASSUME ParamInv, NEW h \in Handlers, call[h].op = "set",
           call' = [call EXCEPT ![h].waiting = FALSE], UNCHANGED <<changes, paramVars>>
    PROVE  ParamInv' /\ \E c \in ParamCalls : call' = [call EXCEPT ![h] = c]
  <1>1. call[h] \in ParamCalls /\ call[h].op \in ParamOps /\ CallsTyped
    BY CallKinds DEF ParamOps, ParamInv
  <1>2. PICK c : c = [call[h] EXCEPT !.waiting = FALSE]
    OBVIOUS
  <1>3. /\ c \in ParamCalls /\ c.op = call[h].op /\ c.pc = call[h].pc /\ c.rows = call[h].rows
        /\ c.account = call[h].account /\ c.knew = call[h].knew
    BY <1>1, <1>2 DEF ParamCalls
  <1>4. call' = [call EXCEPT ![h] = c]
    BY <1>1, <1>2 DEF CallsTyped
  <1>5. CallsTyped' /\ call'[h] = c /\ \A g \in Handlers \ {h} : call'[g] = call[g]
    BY <1>1, <1>3, <1>4, CallReplaced
  <1>6. RunningSets' \subseteq RunningSets
    BY <1>3, <1>5 DEF RunningSets, Runs
  <1>7. WritesCounted' /\ TableTyped' /\ KnownKept'
    <2>1. WritesCounted'
      BY <1>6, CountKept, ChangesAssumption DEF ParamInv, WritesCounted, paramVars
    <2> QED BY <2>1 DEF ParamInv, TableTyped, KnownKept, paramVars
  <1>8. CallHeld(call[h])'
    <2>1. CallHeld(call[h])
      BY <1>1 DEF ParamInv
    <2>2. \A row : RowHeld(row)' <=> RowHeld(row)
      BY DEF RowHeld, paramVars
    <2>3. \A i \in DOMAIN call'[h].rows : RowHeld(call[h].rows[i])'
      BY <1>3, <1>5, <2>1, <2>2 DEF CallHeld, RowHeld
    <2>4. NotStale(call[h])'
      BY <1>3, <1>5, <2>1 DEF CallHeld, NotStale
    <2> QED BY <1>3, <1>5, <2>1, <2>3, <2>4 DEF CallHeld, paramVars
  <1>9. ASSUME NEW g \in Handlers, call'[g].op \in ParamOps
        PROVE  CallHeld(call[g])'
    <2>1. CASE g = h
      BY <1>8, <2>1
    <2>2. CASE g # h
      <3>1. call'[g] = call[g] /\ call[g].op \in ParamOps
        BY <1>5, <1>9, <2>2
      <3>2. \A a \in Accounts : known'[a] \in Nat /\ known[a] =< known'[a]
        BY DEF ParamInv, KnownKept, WritesCounted, paramVars
      <3>3. \A a \in DOMAIN params :
               a \in DOMAIN params' /\ params'[a] \in Nat /\ params[a] =< params'[a]
        BY DEF ParamInv, TableTyped, WritesCounted, paramVars
      <3> QED BY <1>5, <3>1, <3>2, <3>3, OthersHeld
    <2> QED BY <2>1, <2>2
  <1>10. ParamInv'
    BY <1>5, <1>7, <1>9 DEF ParamInv
  <1> QED BY <1>3, <1>4, <1>10

\* A step of a call for a parameter is one of no call for units.
LEMMA ParamStepCall ==
    ASSUME ParamInv, NEW h \in Handlers, ParamStep(h)
    PROVE  /\ ParamInv'
           /\ \E c \in {Idle} \cup ParamCalls \cup StatusCalls :
                 c.op # "status" /\ call' = [call EXCEPT ![h] = c]
  <1>1. ParamInv'
    <2>1. ASSUME NEW a \in Accounts, BeginSet(h, a)
          PROVE  ParamInv'
      BY <2>1, ParamBegins DEF BeginSet, ParamOps
    <2>2. ASSUME NEW a \in Accounts, BeginGet(h, a)
          PROVE  ParamInv'
      BY <2>2, ParamBegins DEF BeginGet, ParamOps
    <2>3. CASE BeginList(h)
      BY <2>3, ParamBegins DEF BeginList, ParamOps
    <2> QED BY <2>1, <2>2, <2>3, ParamSetKeeps, ParamGetKeeps, ParamListKeeps, FailParamKeeps,
               ReturnParamKeeps DEF ParamStep
  <1>2. /\ CallsTyped
        /\ call[h].op \in ParamOps => call[h] \in ParamCalls
    BY CallKinds DEF ParamInv
  <1>3. ASSUME call[h].op \in ParamOps, NEW status, NEW rows, Reply(h, status, rows)
        PROVE  \E c : c.op # "status" /\ call' = [call EXCEPT ![h] = c]
    <2>1. PICK c : c = [call[h] EXCEPT !.pc = status, !.rows = rows]
      OBVIOUS
    <2>2. c.op = call[h].op
      BY <1>2, <1>3, <2>1 DEF ParamCalls
    <2>3. call' = [call EXCEPT ![h] = c]
      BY <1>2, <1>3, <2>1 DEF Reply, CallsTyped
    <2> QED BY <1>3, <2>2, <2>3 DEF ParamOps
  <1>4. ASSUME NEW op \in ParamOps, NEW a, NEW read, Arrives(h, ParamCall(op, a, read))
        PROVE  \E c : c.op # "status" /\ call' = [call EXCEPT ![h] = c]
    <2>1. ParamCall(op, a, read).op # "status"
      BY DEF ParamCall, ParamOps
    <2> QED BY <1>4, <2>1 DEF Arrives
  <1>5. PICK c : c.op # "status" /\ call' = [call EXCEPT ![h] = c]
    <2>1. ASSUME NEW a \in Accounts, BeginSet(h, a) \/ BeginGet(h, a)
          PROVE  \E c : c.op # "status" /\ call' = [call EXCEPT ![h] = c]
      BY <1>4, <2>1 DEF BeginSet, BeginGet, ParamOps
    <2>2. CASE BeginList(h)
      BY <1>4, <2>2 DEF BeginList, ParamOps
    <2>3. CASE ParamSet(h)
      BY <1>3, <2>3 DEF ParamSet, Runs, ParamOps
    <2>4. CASE ParamGet(h)
      <3>1. \E status, rows : Reply(h, status, rows)
        BY <2>4 DEF ParamGet
      <3> QED BY <1>3, <2>4, <3>1 DEF ParamGet, Runs, ParamOps
    <2>5. CASE ParamList(h)
      BY <1>3, <2>5 DEF ParamList, Runs, ParamOps
    <2>6. CASE FailParam(h)
      BY <1>3, <2>6 DEF FailParam, ParamOps
    <2>7. CASE ReturnParam(h)
      <3>1. Idle.op # "status"
        BY DEF Idle
      <3> QED BY <2>7, <3>1 DEF ReturnParam, Leaves
    <2> QED BY <2>1, <2>2, <2>3, <2>4, <2>5, <2>6, <2>7 DEF ParamStep
  <1>6. call'[h] = c
    BY <1>2, <1>5 DEF CallsTyped
  <1>7. call'[h] \in {Idle} \cup ParamCalls \cup StatusCalls
    BY <1>1 DEF ParamInv, CallsTyped
  <1> QED BY <1>1, <1>5, <1>6, <1>7

\* A client gives up: its call leaves, or the statement of a ParamSet goes on.
LEMMA GiveUpKeeps ==
    ASSUME ParamInv, UnitInv, NEW h \in Handlers, GiveUp(h), UNCHANGED <<paramVars, unitVars>>
    PROVE  ParamInv' /\ UnitInv'
  <1>1. CASE call[h].op = "set"
    <2>1. call' = [call EXCEPT ![h].waiting = FALSE] /\ UNCHANGED <<changes, paramVars>>
      BY <1>1 DEF GiveUp
    <2>2. PICK c \in ParamCalls : ParamInv' /\ call' = [call EXCEPT ![h] = c]
      BY <1>1, <2>1, SetGivenUp
    <2>3. c.op # "status" /\ UNCHANGED <<units, allowedServices>>
      BY DEF ParamCalls, unitVars
    <2> QED BY <2>2, <2>3, UnitStep
  <1>2. CASE call[h].op # "set"
    <2>1. call' = [call EXCEPT ![h] = Idle] /\ changes' = changes
      BY <1>2 DEF GiveUp, Leaves
    <2>2. Idle.op # "status" /\ UNCHANGED <<units, allowedServices>>
      BY DEF Idle, unitVars
    <2>3. ParamInv'
      BY <2>1, ParamOtherStep
    <2> QED BY <2>1, <2>2, <2>3, UnitStep
  <1> QED BY <1>1, <1>2

\* A crash loses the calls, and with them what had to hold of them.
LEMMA CrashKeeps ==
    ASSUME ParamInv, UnitInv, Crash
    PROVE  ParamInv' /\ UnitInv'
  <1>1. /\ CallsTyped' /\ \A h \in Handlers : call'[h] = Idle /\ call'[h].op \notin ParamOps
        /\ \A h \in Handlers : call'[h].op # "status"
    BY DEF Crash, CallsTyped, Idle, ParamOps
  <1>2. RunningSets' \subseteq RunningSets
    BY <1>1 DEF RunningSets, Runs, ParamOps
  <1>3. UNCHANGED <<changes, paramVars, unitVars>>
    BY DEF Crash
  <1>4. WritesCounted'
    BY <1>2, <1>3, CountKept, ChangesAssumption DEF ParamInv, WritesCounted, paramVars
  <1>5. TableTyped' /\ KnownKept'
    BY <1>3 DEF ParamInv, TableTyped, KnownKept, paramVars
  <1> QED BY <1>1, <1>3, <1>4, <1>5 DEF ParamInv, UnitInv, unitVars

\* A unit that changes state changes no parameter.
LEMMA UnitChangesKeepsParams ==
    ASSUME ParamInv, UnitInv, NEW u \in Units, UnitChanges(u), UNCHANGED paramVars
    PROVE  ParamInv' /\ UnitInv'
  <1>1. /\ UnitInv'
        /\ \A h \in Handlers : call[h].op # "status" => call'[h] = call[h]
        /\ \A h \in Handlers : call'[h].op = "status" <=> call[h].op = "status"
    BY UnitChangesKeeps
  <1>2. CallsTyped'
    BY <1>1 DEF UnitInv
  <1>3. ASSUME NEW h \in Handlers, call'[h].op \in ParamOps
        PROVE  call'[h] = call[h] /\ call[h].op \in ParamOps
    BY <1>1, <1>3 DEF ParamOps
  <1>4. RunningSets' \subseteq RunningSets
    BY <1>3 DEF RunningSets, Runs, ParamOps
  <1>5. changes' \in changes..MaxChanges
    BY ChangesAssumption DEF UnitChanges, Change, ParamInv, WritesCounted
  <1>6. WritesCounted'
    BY <1>4, <1>5, CountKept DEF ParamInv, paramVars
  <1>7. TableTyped' /\ KnownKept'
    BY DEF ParamInv, TableTyped, KnownKept, paramVars
  <1>8. ASSUME NEW g \in Handlers, call'[g].op \in ParamOps
        PROVE  CallHeld(call[g])'
    BY <1>2, <1>3, <1>8, OthersHeld DEF ParamInv, TableTyped, KnownKept, WritesCounted, paramVars
  <1> QED BY <1>1, <1>2, <1>6, <1>7, <1>8 DEF ParamInv

\* Every step keeps the invariant.
LEMMA InvNext == Inv /\ [Next]_vars => Inv'
  <1> SUFFICES ASSUME Inv, [Next]_vars
               PROVE  Inv'
    OBVIOUS
  <1>0. ParamInv /\ UnitInv
    BY DEF Inv
  <1>1. PasswordInv'
    BY PasswordInvNext DEF Inv
  <1>2. kind' = kind
    BY DEF Next, ParamCommand, StatusCommand, PasswordCommand, Crash, vars
  <1>3. ASSUME NEW h \in Handlers, ParamCommand(h)
        PROVE  ParamInv' /\ UnitInv'
    <2>1. CASE ParamStep(h)
      <3>1. PICK c \in {Idle} \cup ParamCalls \cup StatusCalls :
               ParamInv' /\ c.op # "status" /\ call' = [call EXCEPT ![h] = c]
        BY <2>1, ParamStepCall DEF Inv
      <3>2. UNCHANGED <<units, allowedServices>>
        BY <1>3 DEF ParamCommand, unitVars
      <3> QED BY <3>1, <3>2, UnitStep DEF Inv
    <2>2. CASE GiveUp(h) /\ UNCHANGED paramVars
      BY <1>3, <2>2, GiveUpKeeps DEF ParamCommand, Inv
    <2> QED BY <1>3, <2>1, <2>2 DEF ParamCommand
  <1>4. ASSUME NEW h \in Handlers, StatusCommand(h)
        PROVE  ParamInv' /\ UnitInv'
    <2>1. CASE StatusStep(h)
      <3>1. UnitInv' /\ \E c \in {Idle} \cup StatusCalls : call' = [call EXCEPT ![h] = c]
        BY <2>1, StatusStepKeeps DEF Inv
      <3>2. changes' = changes
        BY <2>1 DEF StatusStep, BeginStatus, Refuse, LoadUnit, ReadProperty, NoMainPID, Report,
              FailStatus, ReturnStatus
      <3>3. UNCHANGED paramVars
        BY <1>4 DEF StatusCommand
      <3> QED BY <3>1, <3>2, <3>3, ParamOtherStep DEF Inv
    <2>2. CASE GiveUp(h) /\ UNCHANGED unitVars
      BY <1>4, <2>2, GiveUpKeeps DEF StatusCommand, Inv
    <2> QED BY <1>4, <2>1, <2>2 DEF StatusCommand
  <1>5. ASSUME UNCHANGED <<call, changes, paramVars, unitVars>>
        PROVE  ParamInv' /\ UnitInv'
    <2>1. UNCHANGED <<call, changes, paramVars>> /\ UNCHANGED <<call, unitVars>>
      BY <1>5
    <2> QED BY <1>0, <2>1, ParamSame, UnitSame
  <1>6. ASSUME NEW u \in Units, UnitChanges(u), UNCHANGED paramVars
        PROVE  ParamInv' /\ UnitInv'
    BY <1>0, <1>6, UnitChangesKeepsParams
  <1>7. ASSUME Crash
        PROVE  ParamInv' /\ UnitInv'
    BY <1>0, <1>7, CrashKeeps
  <1>8. ParamInv' /\ UnitInv'
    <2>1. ASSUME NEW h \in Handlers, PasswordCommand(h)
          PROVE  UNCHANGED <<call, changes, paramVars, unitVars>>
      BY <2>1 DEF PasswordCommand
    <2>2. CASE UNCHANGED vars
      <3>1. UNCHANGED <<call, changes, paramVars, unitVars>>
        BY <2>2 DEF vars
      <3> QED BY <1>5, <3>1
    <2>3. ASSUME NEW h \in Handlers, ParamCommand(h) \/ StatusCommand(h) \/ PasswordCommand(h)
          PROVE  ParamInv' /\ UnitInv'
      <3>1. CASE ParamCommand(h)
        BY <1>3, <3>1
      <3>2. CASE StatusCommand(h)
        BY <1>4, <3>2
      <3>3. CASE PasswordCommand(h)
        BY <1>5, <2>1, <3>3
      <3> QED BY <2>3, <3>1, <3>2, <3>3
    <2>4. ASSUME NEW u \in Units,
                 kind = "status" /\ UnitChanges(u) /\ UNCHANGED <<kind, paramVars, passwordVars>>
          PROVE  ParamInv' /\ UnitInv'
      <3>1. UNCHANGED paramVars
        BY <2>4
      <3> QED BY <1>6, <2>4, <3>1
    <2> QED BY <1>7, <2>2, <2>3, <2>4 DEF Next
  <1> QED BY <1>1, <1>2, <1>8 DEF Inv

\* The invariant holds at the start, where no call is open.
LEMMA InvInit == Init => Inv
  <1> SUFFICES ASSUME Init
               PROVE  Inv
    OBVIOUS
  <1>1. /\ CallsTyped /\ \A h \in Handlers : call[h].op = "idle"
    BY DEF Init, CallsTyped, Idle
  <1>2. ParamInv
    <2>1. RunningSets = {}
      BY <1>1 DEF RunningSets, Runs
    <2>2. WritesCounted
      <3>1. IsFiniteSet(RunningSets) /\ Cardinality(RunningSets) = 0
        BY <2>1, FS_EmptySet
      <3> QED BY <3>1, ChangesAssumption DEF WritesCounted, Init, ParamInit
    <2>3. DOMAIN params = {}
      BY DEF Init, ParamInit
    <2>4. TableTyped
      BY <2>3, FS_EmptySet DEF TableTyped
    <2>5. KnownKept
      BY DEF KnownKept, Init, ParamInit
    <2> QED BY <1>1, <2>2, <2>4, <2>5 DEF ParamInv, ParamOps
  <1>3. UnitInv
    <2>1. \A u \in Units : units[u] \in UnitStates[u]
      BY UnitsAssumption DEF Init, UnitInit
    <2> QED BY <1>1, <2>1 DEF UnitInv, Init, UnitInit
  <1>4. PasswordInv
    <2>1. StoreProofs!Init
      BY DEF Init, PasswordInit, Store!Init, StoreProofs!Init, Store!Idle, StoreProofs!Idle
    <2>2. StoreProofs!Inv
      BY <2>1, StoreProofs!InvInit, ValuesAssumption
    <2> QED BY <2>2 DEF PasswordInv, CommandsServed, PrintedHeld, Init, PasswordInit
  <1> QED BY <1>2, <1>3, <1>4 DEF Inv, Init

\* The invariant holds in every reachable state.
LEMMA SpecInv == Spec => []Inv
  BY InvInit, InvNext, PTL DEF Spec

-----------------------------------------------------------------------------
(* What follows. *)

\* Each variable has its type: the values that were committed are at most the
\* ParamSet calls, accounts with a blank name have no row, and what a client
\* knows of was written and stays.
THEOREM CommandsTypes == Spec => []TypeOK
  <1>1. Inv => TypeOK
    <2> SUFFICES ASSUME Inv
                 PROVE  TypeOK
      OBVIOUS
    <2>1. writes \in 0..changes /\ changes \in 0..MaxChanges
      <3>1. /\ changes \in 0..MaxChanges /\ writes \in Nat
            /\ IsFiniteSet(RunningSets) /\ writes + Cardinality(RunningSets) =< changes
        BY DEF Inv, ParamInv, WritesCounted
      <3>2. Cardinality(RunningSets) \in Nat
        BY <3>1, FS_CardinalityType
      <3> QED BY <3>1, <3>2, ChangesAssumption
    <2>2. /\ DOMAIN params \subseteq Accounts \ BlankAccounts
          /\ \A a \in DOMAIN params : params[a] \in 1..writes
          /\ known \in [Accounts -> 0..writes]
          /\ \A a \in Accounts : known[a] > 0 => a \in DOMAIN params /\ params[a] >= known[a]
      BY DEF Inv, ParamInv, TableTyped, KnownKept
    <2>3. /\ DOMAIN units = Units /\ \A u \in Units : units[u] \in UnitStates[u]
          /\ allowedServices \in AllowLists /\ kind \in {"param", "status", "password"}
      BY DEF Inv, UnitInv
    <2>4. Store!TypeOK
      BY DEF Inv, PasswordInv, StoreProofs!Inv, StoreProofs!TypeOK, Store!TypeOK,
            StoreProofs!Calls, Store!Calls, StoreProofs!Idle, Store!Idle, StoreProofs!Failed,
            Store!Failed, StoreProofs!Pending, Store!Pending
    <2>5. typed \in [Handlers -> Typed \cup {None}] /\ printed \subseteq [typed : Typed, value : Values]
      BY DEF Inv, PasswordInv, PrintedHeld
    <2>6. ASSUME NEW h \in Handlers
          PROVE  \/ call[h] = Idle
                 \/ call[h] \in ParamCalls
                 \/ /\ call[h].op = "status"
                    /\ call[h].pc \in {"next", "read"}
                    /\ Len(call[h].entries) =< Len(call[h].services)
                    /\ call[h].read = SubSeq(Properties, 1, Len(call[h].read))
      <3>1. CallsTyped /\ UnitInv
        BY DEF Inv, UnitInv
      <3>2. CASE call[h] \in StatusCalls
        <4>1. call[h].op = "status" /\ call[h].pc \in {"next", "read"}
          BY <3>2 DEF StatusCalls
        <4>2. StatusHeld(call[h])
          BY <3>1, <4>1 DEF UnitInv
        <4> QED BY <4>1, <4>2 DEF StatusHeld, ReadHeld
      <3> QED BY <3>1, <3>2, CallKinds
    <2> QED BY <2>1, <2>2, <2>3, <2>4, <2>5, <2>6 DEF TypeOK
  <1> QED BY <1>1, SpecInv, PTL

\* A ParamGet or ParamList that begins when some client knows of a value
\* answers with that value or with one that was written after it, for any
\* number of calls, failures, crashes and clients that give up.
THEOREM ParamsNotStale == Spec => []ParamNotStale
  <1>1. Inv => ParamNotStale
    BY DEF Inv, ParamInv, CallHeld, NotStale, ParamNotStale, ParamOps
  <1> QED BY <1>1, SpecInv, PTL

\* A listing shows the rows of the table at the moment of its SELECT, each
\* once, the ones of a service together: for any table, whatever was set.
THEOREM ListsGrouped == Spec => ListGrouped
  <1>1. Inv /\ [Next]_vars =>
           \A h \in Handlers : Runs(h, "list") /\ call'[h].op = "list" /\ call'[h].pc = "done" =>
              LET rows == call'[h].rows
              IN  /\ Len(rows) = Cardinality(DOMAIN params)
                  /\ \A a \in DOMAIN params : \E i \in DOMAIN rows : rows[i] = Row(a, params[a])
                  /\ \A i, j, k \in DOMAIN rows :
                        i < j /\ j < k /\ rows[i].service = rows[k].service
                          => rows[j].service = rows[i].service
    <2> SUFFICES ASSUME Inv, [Next]_vars, NEW h \in Handlers,
                        Runs(h, "list"), call'[h].op = "list", call'[h].pc = "done",
                        NEW rows, rows = call'[h].rows
                 PROVE  /\ Len(rows) = Cardinality(DOMAIN params)
                        /\ \A a \in DOMAIN params : \E i \in DOMAIN rows : rows[i] = Row(a, params[a])
                        /\ \A i, j, k \in DOMAIN rows :
                              i < j /\ j < k /\ rows[i].service = rows[k].service
                                => rows[j].service = rows[i].service
      OBVIOUS
    <2>1. /\ call[h].op = "list" /\ call[h].pc = "run" /\ call[h] \in ParamCalls
          /\ CallsTyped /\ ParamInv /\ UnitInv
      BY CallKinds DEF Runs, Inv, ParamInv, ParamOps
    <2>2. ParamList(h)
      <3>1. call'[h] # call[h] /\ call'[h] # Idle
        BY <2>1 DEF Idle
      <3>2. ASSUME NEW g \in Handlers, NEW c, call' = [call EXCEPT ![g] = c]
            PROVE  g = h /\ c = call'[h]
        BY <2>1, <3>1, <3>2 DEF CallsTyped
      <3>3. ASSUME NEW g \in Handlers, StatusCommand(g)
            PROVE  FALSE
        <4>1. \E c \in {Idle} \cup StatusCalls : call' = [call EXCEPT ![g] = c]
          <5>1. CASE StatusStep(g)
            BY <2>1, <5>1, StatusStepKeeps
          <5>2. CASE GiveUp(g)
            <6>1. CASE call[g].op # "set"
              BY <5>2, <6>1 DEF GiveUp, Leaves
            <6>2. CASE call[g].op = "set"
              BY <2>1, <3>1, <5>2, <6>2 DEF GiveUp, CallsTyped
            <6> QED BY <6>1, <6>2
          <5> QED BY <3>3, <5>1, <5>2 DEF StatusCommand
        <4>2. PICK c \in {Idle} \cup StatusCalls : call' = [call EXCEPT ![g] = c]
          BY <4>1
        <4>3. c.op # "list"
          BY DEF Idle, StatusCalls
        <4> QED BY <3>2, <4>2, <4>3
      <3>4. ASSUME NEW g \in Handlers, ParamCommand(g)
            PROVE  ParamList(h)
        <4>1. CASE GiveUp(g)
          <5>1. CASE call[g].op = "set"
            BY <2>1, <3>1, <4>1, <5>1 DEF GiveUp, CallsTyped
          <5>2. CASE call[g].op # "set"
            BY <3>1, <3>2, <4>1, <5>2 DEF GiveUp, Leaves
          <5> QED BY <5>1, <5>2
        <4>2. CASE ParamStep(g)
          <5>1. PICK c : call' = [call EXCEPT ![g] = c]
            BY <2>1, <4>2, ParamStepCall
          <5>2. g = h /\ call[h] # Idle
            BY <2>1, <3>2, <5>1 DEF Idle
          <5>3. ~FailParam(h)
            BY <2>1 DEF FailParam, Reply, CallsTyped, ParamCalls
          <5> QED BY <2>1, <4>2, <5>2, <5>3 DEF ParamStep, BeginSet, BeginGet, BeginList, Arrives,
                    ParamSet, ParamGet, ReturnParam, Runs
        <4> QED BY <3>4, <4>1, <4>2 DEF ParamCommand
      <3>5. ASSUME NEW u \in Units, UnitChanges(u)
            PROVE  FALSE
        <4>1. call'[h] = call[h]
          BY <2>1, <3>5, UnitChangesKeeps
        <4> QED BY <3>1, <4>1
      <3>6. ~Crash
        BY <3>1 DEF Crash
      <3>7. ASSUME UNCHANGED call
            PROVE  FALSE
        BY <3>1, <3>7
      <3> QED BY <3>3, <3>4, <3>5, <3>6, <3>7 DEF Next, PasswordCommand, vars
    <2>3. rows = Printed(Grouped(Selected(TableRows)))
      <3>1. PICK s : s = Printed(Grouped(Selected(TableRows)))
        OBVIOUS
      <3>2. Reply(h, "done", s)
        BY <2>2, <3>1 DEF ParamList, TableRows
      <3>3. s \in Seq(ParamRow)
        BY <2>1, <3>1, ListedRows
      <3>4. call'[h].rows = s
        BY <2>1, <3>2, <3>3, Replied DEF ParamOps
      <3> QED BY <3>1, <3>4
    <2>4. /\ rows \in Seq(ParamRow) /\ Sorted(rows)
          /\ Len(rows) = Cardinality(DOMAIN params)
          /\ \A a \in DOMAIN params : \E i \in DOMAIN rows : rows[i] = Row(a, params[a])
      BY <2>1, <2>3, ListedRows
    <2>5. ASSUME NEW i \in DOMAIN rows, NEW j \in DOMAIN rows, NEW k \in DOMAIN rows,
                 i < j, j < k, rows[i].service = rows[k].service
          PROVE  rows[j].service = rows[i].service
      <3>1. /\ rows[i].service \in Int /\ rows[j].service \in Int /\ rows[k].service \in Int
            /\ rows[i].name \in Int /\ rows[j].name \in Int /\ rows[k].name \in Int
        <4>1. rows[i] \in ParamRow /\ rows[j] \in ParamRow /\ rows[k] \in ParamRow
          BY <2>4
        <4> QED BY <4>1 DEF ParamRow
      <3>2. Before(rows[i], rows[j]) /\ Before(rows[j], rows[k])
        BY <2>4, <2>5 DEF Sorted
      <3> QED BY <2>5, <3>1, <3>2 DEF Before
    <2> QED BY <2>4, <2>5
  <1> QED BY <1>1, SpecInv, PTL DEF Spec, ListGrouped

\* One entry for each service, under its name and in its order, that shows a
\* state if and only if the allow list lets the client see it and nothing
\* failed for it: for any allow list, request and changes of the units.
THEOREM StatusIsDisclosed == Spec => []StatusDisclosed
  <1>1. Inv => StatusDisclosed
    <2> SUFFICES ASSUME Inv, NEW h \in Handlers, call[h].op = "status",
                        NEW i \in DOMAIN call[h].entries
                 PROVE  /\ call[h].entries[i].name = call[h].services[i]
                        /\ call[h].entries[i].kind = "status" <=>
                              /\ call[h].services[i] # EmptyName
                              /\ ListedNames = {} \/ Designated(call[h].services[i])
                              /\ i \notin call[h].broke
      BY DEF StatusDisclosed, Entries
    <2>1. EntryHeld(call[h], i)
      BY DEF Inv, UnitInv, StatusHeld
    <2> QED BY <2>1 DEF EntryHeld, EntryIs, Visible
  <1> QED BY <1>1, SpecInv, PTL

\* Each property that is reported was the unit's at some moment of the call,
\* however many there are and whatever changes while they are read.
THEOREM StatusWasSeen == Spec => []StatusSeen
  <1>1. Inv => StatusSeen
    <2> SUFFICES ASSUME Inv, NEW h \in Handlers, call[h].op = "status",
                        NEW i \in DOMAIN call[h].entries, call[h].entries[i].kind = "status"
                 PROVE  /\ \A p \in PropertyNames :
                              FieldSeen(call[h].had, call[h].services[i], call[h].entries[i].state, p)
                        /\ call[h].entries[i].raw \in
                              call[h].had[Normalize(call[h].services[i])] \cup {None}
                        /\ call[h].raw <=> call[h].entries[i].raw # None
      BY DEF StatusSeen, Entries, FieldSeen
    <2>1. EntryHeld(call[h], i)
      BY DEF Inv, UnitInv, StatusHeld
    <2> QED BY <2>1 DEF EntryHeld, EntryIs
  <1> QED BY <1>1, SpecInv, PTL

\* Commands that spell one request differently print one password, and those
\* of two policies the passwords of two keys, for any commands and lengths.
THEOREM SpellingsLead == Spec => []SpellingsAgree
  <1>1. Inv => SpellingsAgree
    BY PrintedAgree DEF Inv
  <1> QED BY <1>1, SpecInv, PTL
=============================================================================
