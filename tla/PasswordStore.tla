---------------------------- MODULE PasswordStore ----------------------------
(***************************************************************************)
(* The passwords of internal/passwords/store.go: Store.Get, which looks a  *)
(* password up and generates it when it is missing, and Store.Read, which  *)
(* returns the newest password of an account.                              *)
(*                                                                         *)
(* gRPC runs every call in a goroutine of its own and the store takes no   *)
(* lock, so the calls interleave between SQL statements; a statement is    *)
(* atomic, and may fail.  The daemon may be killed at any moment; the      *)
(* database file survives it.  An account stands for a (service, name)     *)
(* pair.                                                                   *)
(***************************************************************************)
EXTENDS Generator

CONSTANTS
    Getters,        \* the PasswordGet calls that may be in flight
    Readers,        \* the PasswordRead calls that may be in flight
    Accounts,       \* the (service, name) pairs clients ask about
    BlankAccounts,  \* those whose service or name is only white space
    Requests,       \* the PasswordGet requests clients send
    MonotonicClock, \* TRUE: the machine's clock is never set back
    MaxTime,        \* bound: the last second the clock shows
    None            \* no password

ASSUME RequestsAssumption ==
    Requests \subseteq [account : Accounts, length : Int, type : PasswordTypes]
ASSUME CallsAssumption == Getters \cap Readers = {}
ASSUME ClockAssumption == MonotonicClock \in BOOLEAN /\ MaxTime \in Nat

VARIABLES
    rows,     \* the passwords table: rowid |-> [key, value, date]
    clock,    \* the machine's clock, in seconds
    pc,       \* where each PasswordGet is
    req,      \* the request it serves
    draft,    \* the row it is about to insert
    reply,    \* what it answers
    reader,   \* each PasswordRead: [pc, account, row]
    \* History, for the properties only:
    told,     \* the answers clients received: [req, value]
    news,     \* how many clients were told is_new, by request
    acked,    \* the rowids whose value some client received
    seen,     \* acked when this PasswordGet or PasswordRead began
    precedes  \* <<i, j>>: i was acked before the call that inserted j began

tableVars == <<rows, clock>>
getVars == <<pc, req, draft, reply>>
historyVars == <<told, news, acked, precedes>>
vars == <<rows, clock, pc, req, draft, reply, reader, told, news, acked, seen, precedes>>

-----------------------------------------------------------------------------
(* Requests and keys. *)

Accepted(q) == q.account \notin BlankAccounts /\ LengthAccepted(q.length, q.type)

\* UNIQUE (service, name, length, type).
KeyOf(q) == [account |-> q.account,
             length |-> NormalizeLength(q.length, q.type),
             type |-> q.type]

Keys == {KeyOf(q) : q \in {r \in Requests : Accepted(r)}}

\* The passwords of all keys.
Values == UNION {Passwords(k.length, k.type) : k \in Keys}

ASSUME ValuesAssumption == None \notin Values

-----------------------------------------------------------------------------
(* The passwords table. *)

Row == [key : Keys, value : Values, date : 0..MaxTime]

\* Mutant: WHERE service = ? AND name = ?, without length and type.
LookupOfAccount(key) == {i \in DOMAIN rows : rows[i].key.account = key.account}

\* What lookup selects.
Lookup(key) == {i \in DOMAIN rows : rows[i].key = key}

\* Mutant: UNIQUE (service, name), without length and type.
ConflictsOfAccount(row) == {i \in DOMAIN rows : rows[i].key.account = row.key.account}

\* Mutant: the table has no unique constraint.
NoConflicts(row) == {}

\* The rows INSERT OR IGNORE would collide with.
Conflicts(row) == {i \in DOMAIN rows : rows[i].key = row.key}

\* Mutant: ORDER BY generationDate DESC, rowid.
OlderHasHigherRowid(i, j) == \/ rows[i].date < rows[j].date
                             \/ rows[i].date = rows[j].date /\ i > j

\* ORDER BY generationDate DESC, rowid DESC LIMIT 1.
Older(i, j) == \/ rows[i].date < rows[j].date
               \/ rows[i].date = rows[j].date /\ i < j

RowsOf(account) == {i \in DOMAIN rows : rows[i].key.account = account}

Newest(account) ==
    {i \in RowsOf(account) : \A j \in RowsOf(account) \ {i} : Older(j, i)}

-----------------------------------------------------------------------------
(* Replies.  A reply remembers the row its value was read from. *)

Reply == [status : {"none", "failed", "answered"}, row : Nat,
          value : Values \cup {None}, new : BOOLEAN]

NoReply == [status |-> "none", row |-> 0, value |-> None, new |-> FALSE]
Failure == [status |-> "failed", row |-> 0, value |-> None, new |-> FALSE]
\* Mutant: lookup leaves IsNew set.
FoundAsNew(i) == [status |-> "answered", row |-> i, value |-> rows[i].value, new |-> TRUE]
Found(i) == [status |-> "answered", row |-> i, value |-> rows[i].value, new |-> FALSE]
Created(i, v) == [status |-> "answered", row |-> i, value |-> v, new |-> TRUE]

IdleReader == [pc |-> "idle", account |-> None, row |-> 0]

Init ==
    /\ rows = << >>
    /\ clock = 0
    /\ pc = [h \in Getters |-> "idle"]
    /\ req = [h \in Getters |-> None]
    /\ draft = [h \in Getters |-> None]
    /\ reply = [h \in Getters |-> NoReply]
    /\ reader = [r \in Readers |-> IdleReader]
    /\ told = {}
    /\ news = [q \in Requests |-> 0]
    /\ acked = {}
    /\ seen = [h \in Getters \cup Readers |-> {}]
    /\ precedes = {}

-----------------------------------------------------------------------------
(* PasswordGet. *)

\* A call arrives and its arguments are validated.
BeginGet(h, q) ==
    /\ pc[h] = "idle"
    /\ req' = [req EXCEPT ![h] = q]
    /\ seen' = [seen EXCEPT ![h] = acked]
    /\ IF Accepted(q)
       THEN pc' = [pc EXCEPT ![h] = "lookup"] /\ UNCHANGED reply
       ELSE pc' = [pc EXCEPT ![h] = "done"] /\ reply' = [reply EXCEPT ![h] = Failure]
    /\ UNCHANGED <<tableVars, draft, reader, historyVars>>

\* The first lookup: an existing password is the answer.
LookupFirst(h) ==
    /\ pc[h] = "lookup"
    /\ IF Lookup(KeyOf(req[h])) = {}
       THEN pc' = [pc EXCEPT ![h] = "generate"] /\ UNCHANGED reply
       ELSE /\ pc' = [pc EXCEPT ![h] = "done"]
            /\ \E i \in Lookup(KeyOf(req[h])) : reply' = [reply EXCEPT ![h] = Found(i)]
    /\ UNCHANGED <<tableVars, req, draft, reader, historyVars, seen>>

\* Mutant: the row is given the request's length, not the normalized one.
GenerateUnderAskedLength(h) ==
    /\ pc[h] = "generate"
    /\ \E v \in Passwords(KeyOf(req[h]).length, req[h].type) : draft' = [draft EXCEPT ![h] =
          [key |-> [KeyOf(req[h]) EXCEPT !.length = req[h].length], value |-> v, date |-> clock]]
    /\ pc' = [pc EXCEPT ![h] = "insert"]
    /\ UNCHANGED <<tableVars, req, reply, reader, historyVars, seen>>

\* Generate draws a password; time.Now is read before the statement runs.
Generate(h) ==
    /\ pc[h] = "generate"
    /\ \E v \in Passwords(KeyOf(req[h]).length, req[h].type) :
          draft' = [draft EXCEPT ![h] = [key |-> KeyOf(req[h]), value |-> v, date |-> clock]]
    /\ pc' = [pc EXCEPT ![h] = "insert"]
    /\ UNCHANGED <<tableVars, req, reply, reader, historyVars, seen>>

GenerateRefused(h) ==
    /\ pc[h] = "generate"
    /\ Passwords(KeyOf(req[h]).length, req[h].type) = {}
    /\ pc' = [pc EXCEPT ![h] = "done"]
    /\ reply' = [reply EXCEPT ![h] = Failure]
    /\ UNCHANGED <<tableVars, req, draft, reader, historyVars, seen>>

\* The row h inserts, and what is known to come before it.
AddRow(h) ==
    /\ rows' = Append(rows, draft[h])
    /\ precedes' = precedes \cup {<<i, Len(rows) + 1>> : i \in seen[h]}

\* INSERT OR IGNORE reports one row: the caller gets its new password.
InsertCreates(h) ==
    /\ pc[h] = "insert"
    /\ Conflicts(draft[h]) = {}
    /\ AddRow(h)
    /\ reply' = [reply EXCEPT ![h] = Created(Len(rows) + 1, draft[h].value)]
    /\ pc' = [pc EXCEPT ![h] = "done"]
    /\ draft' = [draft EXCEPT ![h] = None]
    /\ UNCHANGED <<clock, req, reader, told, news, acked, seen>>

\* Mutant: RowsAffected is not read, the caller keeps the password it drew.
InsertIgnoredUnnoticed(h) ==
    /\ pc[h] = "insert"
    /\ Conflicts(draft[h]) # {}
    /\ pc' = [pc EXCEPT ![h] = "done"]
    /\ draft' = [draft EXCEPT ![h] = None]
    /\ \E i \in Conflicts(draft[h]) :
          reply' = [reply EXCEPT ![h] = Created(i, draft[h].value)]
    /\ UNCHANGED <<tableVars, req, reader, historyVars, seen>>

\* It reports none: somebody else's row is there already.
InsertIgnored(h) ==
    /\ pc[h] = "insert"
    /\ Conflicts(draft[h]) # {}
    /\ pc' = [pc EXCEPT ![h] = "relookup"]
    /\ draft' = [draft EXCEPT ![h] = None]
    /\ UNCHANGED <<tableVars, req, reply, reader, historyVars, seen>>

\* The row is committed, but the driver returns an error: the context was
\* cancelled, or its deadline passed, while the statement completed.
InsertUntold(h) ==
    /\ pc[h] = "insert"
    /\ Conflicts(draft[h]) = {}
    /\ AddRow(h)
    /\ reply' = [reply EXCEPT ![h] = Failure]
    /\ pc' = [pc EXCEPT ![h] = "done"]
    /\ draft' = [draft EXCEPT ![h] = None]
    /\ UNCHANGED <<clock, req, reader, told, news, acked, seen>>

\* After a conflict the other call's password is the answer.
LookupAgain(h) ==
    /\ pc[h] = "relookup"
    /\ pc' = [pc EXCEPT ![h] = "done"]
    /\ IF Lookup(KeyOf(req[h])) = {}
       THEN reply' = [reply EXCEPT ![h] = Failure]
       ELSE \E i \in Lookup(KeyOf(req[h])) : reply' = [reply EXCEPT ![h] = Found(i)]
    /\ UNCHANGED <<tableVars, req, draft, reader, historyVars, seen>>

\* A statement, or the source of randomness, fails without effect.
FailGet(h) ==
    /\ pc[h] \in {"lookup", "generate", "insert", "relookup"}
    /\ pc' = [pc EXCEPT ![h] = "done"]
    /\ reply' = [reply EXCEPT ![h] = Failure]
    /\ draft' = [draft EXCEPT ![h] = None]
    /\ UNCHANGED <<tableVars, req, reader, historyVars, seen>>

\* The handler returns and the client receives its reply.
ReturnGet(h) ==
    /\ pc[h] = "done"
    /\ pc' = [pc EXCEPT ![h] = "idle"]
    /\ req' = [req EXCEPT ![h] = None]
    /\ reply' = [reply EXCEPT ![h] = NoReply]
    /\ seen' = [seen EXCEPT ![h] = {}]
    /\ IF reply[h].status = "answered"
       THEN /\ told' = told \cup {[req |-> req[h], value |-> reply[h].value]}
            /\ news' = [news EXCEPT ![req[h]] = IF reply[h].new THEN @ + 1 ELSE @]
            /\ acked' = acked \cup {reply[h].row}
       ELSE UNCHANGED <<told, news, acked>>
    /\ UNCHANGED <<tableVars, draft, reader, precedes>>

Get(h) ==
    \/ \E q \in Requests : BeginGet(h, q)
    \/ LookupFirst(h) \/ Generate(h) \/ GenerateRefused(h)
    \/ InsertCreates(h) \/ InsertIgnored(h) \/ InsertUntold(h)
    \/ LookupAgain(h) \/ FailGet(h) \/ ReturnGet(h)

-----------------------------------------------------------------------------
(* PasswordRead: row 0 is "no such password", or an error. *)

BeginRead(r, a) ==
    /\ reader[r].pc = "idle"
    /\ reader' = [reader EXCEPT ![r] =
          [pc |-> IF a \in BlankAccounts THEN "failed" ELSE "read", account |-> a, row |-> 0]]
    /\ seen' = [seen EXCEPT ![r] = acked]
    /\ UNCHANGED <<tableVars, getVars, historyVars>>

\* One SELECT.
Read(r) ==
    /\ reader[r].pc = "read"
    /\ IF RowsOf(reader[r].account) = {}
       THEN reader' = [reader EXCEPT ![r].pc = "done"]
       ELSE \E i \in Newest(reader[r].account) :
               reader' = [reader EXCEPT ![r].pc = "done", ![r].row = i]
    /\ UNCHANGED <<tableVars, getVars, historyVars, seen>>

FailRead(r) ==
    /\ reader[r].pc = "read"
    /\ reader' = [reader EXCEPT ![r].pc = "failed"]
    /\ UNCHANGED <<tableVars, getVars, historyVars, seen>>

ReturnRead(r) ==
    /\ reader[r].pc \in {"done", "failed"}
    /\ reader' = [reader EXCEPT ![r] = IdleReader]
    /\ seen' = [seen EXCEPT ![r] = {}]
    /\ acked' = acked \cup ({reader[r].row} \ {0})
    /\ UNCHANGED <<tableVars, getVars, told, news, precedes>>

-----------------------------------------------------------------------------
(* The machine. *)

\* Time passes; an administrator or NTP may set the clock back.
Tick ==
    /\ clock' \in 0..MaxTime
    /\ IF MonotonicClock THEN clock' > clock ELSE clock' # clock
    /\ UNCHANGED <<rows, getVars, reader, historyVars, seen>>

\* The daemon is killed and restarted; only the database file remains.
Crash ==
    /\ pc' = [h \in Getters |-> "idle"]
    /\ req' = [h \in Getters |-> None]
    /\ draft' = [h \in Getters |-> None]
    /\ reply' = [h \in Getters |-> NoReply]
    /\ reader' = [r \in Readers |-> IdleReader]
    /\ seen' = [h \in Getters \cup Readers |-> {}]
    /\ UNCHANGED <<tableVars, historyVars>>

Next ==
    \/ \E h \in Getters : Get(h)
    \/ \E r \in Readers, a \in Accounts : BeginRead(r, a)
    \/ \E r \in Readers : Read(r) \/ FailRead(r) \/ ReturnRead(r)
    \/ Tick \/ Crash

Spec == Init /\ [][Next]_vars

-----------------------------------------------------------------------------
(* Properties. *)

\* Every variable has its type.
TypeOK ==
    /\ rows \in Seq(Row)
    /\ clock \in 0..MaxTime
    /\ pc \in [Getters -> {"idle", "lookup", "generate", "insert", "relookup", "done"}]
    /\ req \in [Getters -> Requests \cup {None}]
    /\ draft \in [Getters -> Row \cup {None}]
    /\ reply \in [Getters -> Reply]
    /\ reader \in [Readers -> [pc : {"idle", "read", "done", "failed"},
                               account : Accounts \cup {None}, row : Nat]]
    /\ told \in SUBSET [req : Requests, value : Values]
    /\ news \in [Requests -> Nat]
    /\ acked \in SUBSET Nat
    /\ seen \in [Getters \cup Readers -> SUBSET Nat]
    /\ precedes \in SUBSET (Nat \X Nat)

\* Two requests the README calls the same: same service, name, length and
\* type, and a UUID has only one length.
SameRequest(p, q) ==
    /\ p.account = q.account
    /\ p.type = q.type
    /\ p.length = q.length \/ p.type = "UUID_V7"

\* "preserving idempotency for repeated calls with the same request"
\* (README.md:250): whenever and by whomever a password was asked for, every
\* client that asked for the same one was given the same value, across
\* interleaved calls, lost replies and crashes of the daemon.
AnswersAgree ==
    \A s, t \in told : SameRequest(s.req, t.req) => s.value = t.value

\* A password a client has been given is in the database, where PasswordList
\* and later calls find it: no client is left with a password nobody stored.
ToldIsStored ==
    \A t \in told : \E i \in DOMAIN rows :
        /\ rows[i].value = t.value
        /\ rows[i].key.account = t.req.account
        /\ rows[i].key.type = t.req.type

\* The policies of the README hold of what clients receive, whoever generated
\* it: neither an earlier password of the account nor the one of a call that
\* was faster stands in for a password of another length or type.
ToldMeetsPolicy ==
    \A t \in told :
        IF t.req.type = "UUID_V7" THEN t.value \in Uuids
        ELSE MeetsPolicy(t.value, t.req.length, t.req.type)

\* Whenever a call shuffles the bytes of a password, of the length it was asked
\* for or of a greater one, every order is as likely as any other if the draws
\* of crypto/rand are: no place is known to hold a byte of a required set.
ShuffleIsFair ==
    \A h \in Getters : pc[h] = "generate" /\ RequiredSets(req[h].type) # << >> =>
        \A n \in req[h].length..MaxLength : Uniform[n]

\* Of the clients that asked for the same password at most one is told that
\* it is new (Record.IsNew), even when several generated one concurrently.
OneCreator ==
    \A p, q \in Requests :
        SameRequest(p, q) => IF p = q THEN news[p] =< 1 ELSE news[p] + news[q] =< 1

\* The error "password insert conflicted but existing password was not found"
\* cannot happen: whatever made the insert collide answers the lookup.
ConflictFindsRow ==
    \A h \in Getters : pc[h] = "relookup" => Lookup(KeyOf(req[h])) # {}

\* PasswordRead is up to date.  It finds a password if a client had received
\* one of the account before the read began, and the password it returns was
\* not superseded by then: no other password of the account, known to a
\* client when the read began, was asked for after a client had received
\* the one returned.
ReadNotStale ==
    \A r \in Readers : reader[r].pc = "done" =>
        \A j \in seen[r] : rows[j].key.account = reader[r].account =>
            reader[r].row # 0 /\ <<reader[r].row, j>> \notin precedes

-----------------------------------------------------------------------------
(* The store implements GetOrCreate. *)

storeBar ==
    [k \in Keys |-> IF Lookup(k) = {} THEN None
                    ELSE rows[CHOOSE i \in Lookup(k) : TRUE].value]

callBar ==
    [h \in Getters |->
        [phase |-> CASE pc[h] = "idle" -> "idle"
                     [] pc[h] = "done" -> reply[h].status
                     [] OTHER -> "pending",
         key |-> IF pc[h] = "idle" \/ reply[h].status = "failed" THEN None ELSE KeyOf(req[h]),
         value |-> reply[h].value,
         new |-> reply[h].new]]

Abstract == INSTANCE GetOrCreate
    WITH Clients <- Getters, Exclusive <- FALSE, store <- storeBar, call <- callBar

\* Every behaviour of PasswordGet is one of the get-or-create store's.
Refines == Abstract!Spec
=============================================================================
