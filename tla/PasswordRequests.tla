-------------------------- MODULE PasswordRequests ---------------------------
(***************************************************************************)
(* What PasswordGet is asked for: the types of passwords and their lengths *)
(* (internal/passwords/store.go).                                          *)
(***************************************************************************)
EXTENDS Integers

PasswordTypes == {"UNSPECIFIED", "LOWERCASE", "UPPERCASE", "DIGIT", "SYMBOL",
                  "HEX_LOWER", "HEX_UPPER", "UUID_V7"}

\* Mutant: the length is stored as it was asked for.
LengthAsAsked(length, type) == length

\* normalizeLength: 0 stands for 36, the only length of a UUID.
NormalizeLength(length, type) ==
    IF type = "UUID_V7" /\ length = 0 THEN 36 ELSE length

LengthAccepted(length, type) ==
    IF type = "UUID_V7" THEN length \in {0, 36} ELSE length > 0
=============================================================================
