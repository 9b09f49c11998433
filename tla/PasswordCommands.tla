--------------------------- MODULE PasswordCommands ---------------------------
(***************************************************************************)
(* "sidecarctl password get", over what PasswordGet promises: the store is *)
(* GetOrCreate, which PasswordStore implements.                            *)
(***************************************************************************)
EXTENDS Rpc, Arguments

CONSTANTS
    Typed,   \* the commands users type: [account, length, word]
    Values   \* the passwords

ASSUME ValuesAssumption == None \notin Values
ASSUME TypedAssumption ==
    \A t \in Typed : t.account \in Accounts /\ t.length \in Int /\ t.word.capitals \in BOOLEAN

VARIABLES
    passwords,  \* the store: the password of each key
    gets,       \* the call each handler is serving
    typed,      \* the command that waits for it
    printed     \* history: the passwords commands printed: [typed, value]

passwordVars == <<passwords, gets, typed, printed>>

Asked(t) == [account |-> t.account, type |-> ParsePasswordType(t.word),
             length |-> NormalizeLength(t.length, ParsePasswordType(t.word))]

Accepted(t) ==
    t.account \notin BlankAccounts /\ LengthAccepted(t.length, ParsePasswordType(t.word))

Keys == {Asked(t) : t \in {u \in Typed : Parsed(u) /\ Accepted(u)}}

Store == INSTANCE GetOrCreate
    WITH Clients <- Handlers, Exclusive <- FALSE, store <- passwords, call <- gets

PasswordInit ==
    /\ Store!Init
    /\ typed = [h \in Handlers |-> None]
    /\ printed = {}

\* The command is sent, and validated by the daemon.
Send(h) ==
    /\ typed[h] = None
    /\ \E t \in Typed :
          /\ Parsed(t)
          /\ IF Accepted(t) THEN Store!Begin(h, Asked(t)) ELSE Store!Refuse(h)
          /\ typed' = [typed EXCEPT ![h] = t]
    /\ UNCHANGED printed

Serve(h) ==
    /\ Store!Fetch(h) \/ Store!Fail(h) \/ \E v \in Values : Store!Create(h, v) \/ Store!CreateUntold(h, v)
    /\ UNCHANGED <<typed, printed>>

\* The handler returns: if it has an answer, and its client still waits, the
\* password is printed.
PrintPassword(h) ==
    /\ Store!Return(h)
    /\ printed' = IF gets[h].phase = "answered" /\ typed[h] # None
                  THEN printed \cup {[typed |-> typed[h], value |-> gets[h].value]}
                  ELSE printed
    /\ typed' = [typed EXCEPT ![h] = None]

\* The deadline of the command passes; the handler goes on.
GiveUpGet(h) ==
    /\ typed[h] # None
    /\ typed' = [typed EXCEPT ![h] = None]
    /\ UNCHANGED <<passwords, gets, printed>>

PasswordStep(h) == Send(h) \/ Serve(h) \/ PrintPassword(h) \/ GiveUpGet(h)

PasswordCrash ==
    /\ Store!Crash
    /\ typed' = [h \in Handlers |-> None]
    /\ UNCHANGED printed

-----------------------------------------------------------------------------
(* Properties. *)

\* The names the README gives each policy (README.md:260-270).
Policies ==
    {{Word("a", FALSE), Word("lowercase", FALSE)}, {Word("a", TRUE), Word("uppercase", FALSE)},
     {Word("1", FALSE), Word("digit", FALSE)}, {Word("@", FALSE), Word("symbol", FALSE)},
     {Word("h", FALSE), Word("hex-lower", FALSE)}, {Word("h", TRUE), Word("hex-upper", FALSE)},
     {Word("u7", FALSE), Word("uuid-v7", FALSE)}}

\* "Short aliases are also accepted" (README.md:260): commands that spell one
\* request differently print the same password, and each policy has a password
\* of its own, whichever command came first, gave up or was cut off.
SpellingsAgree ==
    \A s, t \in printed : \A p, q \in Policies : s.typed.word \in p /\ t.typed.word \in q =>
        /\ /\ p = q
           /\ s.typed.account = t.typed.account /\ s.typed.length = t.typed.length
           => s.value = t.value
        /\ p # q => \E j, k \in Keys :
              j # k /\ passwords[j] = s.value /\ passwords[k] = t.value
=============================================================================
