--------------------------- MODULE MCPasswordStore ---------------------------
(* A small instance of PasswordStore for TLC. *)
EXTENDS PasswordListing, TLC

CONSTANTS app, blank

MCAccounts == {app, blank}
MCPlace == [a \in MCAccounts |-> IF a = blank THEN 0 ELSE 1]
Ask(a, n, t) == [account |-> a, length |-> n, type |-> t]

\* Two spellings of one UUID, another password of the same account, and a
\* request the validation turns down.
GetRequests == {Ask(app, 0, "UUID_V7"), Ask(app, 36, "UUID_V7"), Ask(app, 2, "UPPERCASE"),
                Ask(blank, 8, "DIGIT")}

\* Two passwords of one account, of which one may supersede the other, and a
\* request Generate turns down.
ReadRequests == {Ask(app, 8, "DIGIT"), Ask(app, 9, "DIGIT"), Ask(app, 2, "SYMBOL")}
=============================================================================
