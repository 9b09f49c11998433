------------------------------ MODULE Generator ------------------------------
(***************************************************************************)
(* The password generator of internal/passwords/store.go: Generate and the *)
(* functions it draws with.  What crypto/rand returns is a parameter: a    *)
(* password is a function of the draws, and Passwords is what all draws    *)
(* give.  A character matters only by the alphabets it belongs to.         *)
(***************************************************************************)
EXTENDS PasswordRequests, Sequences, FiniteSets

CONSTANTS
    Lowercase, Uppercase, Digits, Symbols, HexLower, HexUpper,  \* the alphabets
    Uuids       \* what uuidV7 may return

ASSUME AlphabetsAssumption ==
    /\ Lowercase \cap Uppercase = {}
    /\ Symbols \cap (Lowercase \cup Uppercase) = {}

\* The alphabets of which a password of a type has one character at least.
RequiredSets(type) ==
    CASE type = "UPPERCASE" -> <<Lowercase, Uppercase>>
      [] type = "SYMBOL" -> <<Lowercase, Uppercase, Symbols>>
      [] OTHER -> << >>

Alphabet(type) ==
    CASE type = "LOWERCASE" -> Lowercase
      [] type = "UPPERCASE" -> Lowercase \cup Uppercase
      [] type = "DIGIT" -> Digits
      [] type = "SYMBOL" -> Lowercase \cup Uppercase \cup Symbols
      [] type = "HEX_LOWER" -> HexLower
      [] type = "HEX_UPPER" -> HexUpper
      [] OTHER -> {}

-----------------------------------------------------------------------------
(* shuffle. *)

Swapped(s, i, j) == [s EXCEPT ![i] = s[j], ![j] = s[i]]

\* Mutant: rand.Int is given i instead of i + 1, so no byte keeps its place.
PlacesBelow(i) == 1..(i - 1)

\* Where the byte at place i may go: rand.Int draws below i + 1, counted from 0.
Places(i) == 1..i

\* What the loop draws, for i from n down to 2.
ShuffleDraws(n) == {d \in [2..n -> 1..n] : \A i \in 2..n : d[i] \in Places(i)}

\* after[i] is s when the loop has come down to i.
Shuffled(s, d) ==
    LET after[i \in 1..Len(s)] ==
            IF i = Len(s) THEN s ELSE Swapped(after[i + 1], i + 1, d[i + 1])
    IN  IF s = << >> THEN s ELSE after[1]

-----------------------------------------------------------------------------
(* Generate. *)

\* randomString: every character is drawn from the alphabet.
RandomStrings(n, alphabet) == [1..n -> alphabet]

\* Mutant: the last required set gets no byte of its own.
FilledShort(n, type) ==
    {s \in [1..n -> Alphabet(type)] :
        \A i \in 1..(Len(RequiredSets(type)) - 1) : s[i] \in RequiredSets(type)[i]}

\* The bytes before they are shuffled: one of each required set comes first.
Filled(n, type) ==
    {s \in [1..n -> Alphabet(type)] :
        \A i \in DOMAIN RequiredSets(type) : s[i] \in RequiredSets(type)[i]}

\* randomStringWithRequiredSets; there are none when the length is too short.
RandomStringsWithRequiredSets(n, type) ==
    IF n < Len(RequiredSets(type)) THEN {}
    ELSE {Shuffled(s, d) : s \in Filled(n, type), d \in ShuffleDraws(n)}

\* What Generate may return, or nothing when it returns an error.
Passwords(n, type) ==
    CASE type \in {"LOWERCASE", "DIGIT", "HEX_LOWER", "HEX_UPPER"} ->
            RandomStrings(n, Alphabet(type))
      [] type \in {"UPPERCASE", "SYMBOL"} -> RandomStringsWithRequiredSets(n, type)
      [] type = "UUID_V7" -> Uuids
      [] OTHER -> {}

-----------------------------------------------------------------------------
(* What is promised of them. *)

CONSTANT MaxLength  \* bound: the longest password these are checked for
ASSUME LengthAssumption == MaxLength \in Nat

\* The policies of README.md:262-270: a password has the characters of its
\* type, and one of each kind the type is named for.
MeetsPolicy(s, n, type) ==
    /\ s \in [1..n -> CASE type = "LOWERCASE" -> Lowercase
                        [] type = "UPPERCASE" -> Lowercase \cup Uppercase
                        [] type = "DIGIT" -> Digits
                        [] type = "SYMBOL" -> Lowercase \cup Uppercase \cup Symbols
                        [] type = "HEX_LOWER" -> HexLower
                        [] type = "HEX_UPPER" -> HexUpper]
    /\ type \in {"UPPERCASE", "SYMBOL"} => \E i \in 1..n : s[i] \in Uppercase
    /\ type = "SYMBOL" => \E i, j \in 1..n : s[i] \in Lowercase /\ s[j] \in Symbols

\* Every order of n bytes comes from exactly one sequence of draws.
Uniform[n \in 1..MaxLength] ==
    LET identity == [i \in 1..n |-> i]
        orders == {Shuffled(identity, d) : d \in ShuffleDraws(n)}
    IN  /\ orders = {s \in [1..n -> 1..n] : \A i, j \in 1..n : s[i] = s[j] => i = j}
        /\ Cardinality(orders) = Cardinality(ShuffleDraws(n))
=============================================================================
