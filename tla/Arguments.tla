------------------------------ MODULE Arguments -------------------------------
(***************************************************************************)
(* What sidecarctl makes of the arguments of "password get".  A word is    *)
(* given without the white space at its ends: its text in small letters,   *)
(* and whether it is typed in capitals.                                    *)
(***************************************************************************)
EXTENDS PasswordRequests

CONSTANT MaxInt32   \* the largest integer of 32 bits
ASSUME IntAssumption == MaxInt32 \in Nat

Word(text, capitals) == [text |-> text, capitals |-> capitals]

LongNames ==
    [LOWERCASE |-> {"lowercase", "lower", "password_type_lowercase"},
     UPPERCASE |-> {"uppercase", "upper", "password_type_uppercase"},
     DIGIT |-> {"digit", "digits", "number", "numbers", "1", "password_type_digit"},
     SYMBOL |-> {"symbol", "symbols", "@", "password_type_symbol"},
     HEX_LOWER |-> {"hex-lower", "hex_lower", "hexlower", "password_type_hex_lower"},
     HEX_UPPER |-> {"hex-upper", "hex_upper", "hexupper", "password_type_hex_upper"},
     UUID_V7 |-> {"uuid-v7", "uuid_v7", "uuidv7", "u7", "password_type_uuid_v7"}]

NamedType(text) ==
    IF \E t \in DOMAIN LongNames : text \in LongNames[t]
    THEN CHOOSE t \in DOMAIN LongNames : text \in LongNames[t]
    ELSE "unknown"

\* Mutant: the word is lower-cased before anything is compared.
ParseLowered(word) ==
    CASE word.text = "a" -> "LOWERCASE"
      [] word.text = "h" -> "HEX_LOWER"
      [] OTHER -> NamedType(word.text)

\* parsePasswordType: only in the short names of letters do capitals matter.
ParsePasswordType(word) ==
    CASE word = Word("a", FALSE) -> "LOWERCASE"
      [] word = Word("a", TRUE) -> "UPPERCASE"
      [] word = Word("h", FALSE) -> "HEX_LOWER"
      [] word = Word("h", TRUE) -> "HEX_UPPER"
      [] OTHER -> NamedType(word.text)

\* strconv.ParseInt with 32 bits.
Int32 == -(MaxInt32 + 1)..MaxInt32

\* Without a type and a length the command exits with status 1 before it calls.
Parsed(typed) == ParsePasswordType(typed.word) # "unknown" /\ typed.length \in Int32
=============================================================================
