--------------------------- MODULE PasswordListing ----------------------------
(***************************************************************************)
(* Store.List beside Store.Get and Store.Read: the order in which          *)
(* PasswordList shows the rows of the passwords table.                     *)
(***************************************************************************)
EXTENDS PasswordStore, SequencesExt

CONSTANT Place  \* the place of each account in the order of (service, name)

ASSUME PlaceAssumption == Place \in [Accounts -> Nat]

\* Mutant: ORDER BY service ASC, name ASC, rowid ASC.
ListedByRowid(i, j) ==
    LET p == Place[rows[i].key.account]
        q == Place[rows[j].key.account]
    IN  p < q \/ (p = q /\ i < j)

\* ORDER BY service ASC, name ASC, generationDate ASC, rowid ASC.
ListedBefore(i, j) ==
    LET p == Place[rows[i].key.account]
        q == Place[rows[j].key.account]
    IN  \/ p < q
        \/ p = q /\ rows[i].date < rows[j].date
        \/ p = q /\ rows[i].date = rows[j].date /\ i < j

\* What PasswordList shows, by rowid.
Listed ==
    CHOOSE s \in SetToSeqs(DOMAIN rows) :
        \A i, j \in DOMAIN s : i < j => ListedBefore(s[i], s[j])

-----------------------------------------------------------------------------
\* PasswordList and PasswordRead agree on which password of an account is the
\* current one: the last that is listed is the one that is read, though rows
\* may be inserted in another order than that of their dates.
LastListedIsRead ==
    LET listed == Listed
    IN  \A a \in Accounts, n \in DOMAIN listed :
            /\ listed[n] \in RowsOf(a)
            /\ \A m \in DOMAIN listed : m > n => listed[m] \notin RowsOf(a)
            => Newest(a) = {listed[n]}
=============================================================================
