-------------------------------- MODULE Params --------------------------------
(***************************************************************************)
(* The parameters of internal/passwords/store.go: ParamSet, ParamGet and   *)
(* ParamList, one SQL statement each, with their handlers and commands.  A *)
(* value matters by the ParamSet that wrote it: it is the number of that   *)
(* statement.                                                              *)
(***************************************************************************)
EXTENDS Rpc, Listings

ASSUME AccountsAssumption == Accounts \subseteq [service : Nat, name : Nat]

VARIABLES
    params,    \* the params table: what each account that has a row is set to
    writes,    \* how many ParamSet statements were committed
    known      \* history: the latest value of each account a client knows of

paramVars == <<params, writes, known>>

Row(a, v) == [service |-> a.service, name |-> a.name, value |-> v]

ParamInit ==
    /\ params = << >>
    /\ writes = 0
    /\ known = [a \in Accounts |-> 0]

\* Service and name are validated before the database is asked.  History: what
\* clients knew, when the call began, of what is read.
ParamCall(op, a, read) ==
    [op |-> op, account |-> a, rows |-> << >>, waiting |-> TRUE,
     pc |-> IF a \in BlankAccounts THEN "failed" ELSE "run",
     knew |-> [b \in Accounts |-> IF b \in read THEN known[b] ELSE 0]]

Runs(h, op) == call[h].op = op /\ call[h].pc = "run"

\* The statement has ended; what the client would print is the reply.
Reply(h, status, rows) == call' = [call EXCEPT ![h].pc = status, ![h].rows = rows]

BeginSet(h, a) ==
    /\ Arrives(h, ParamCall("set", a, {}))
    /\ Change
    /\ UNCHANGED paramVars

\* Mutant: INSERT OR IGNORE, as for passwords.
KeepFirst(a, v) == IF a \in DOMAIN params THEN params
                   ELSE [b \in DOMAIN params \cup {a} |-> IF b = a THEN v ELSE params[b]]

\* ON CONFLICT(service, name) DO UPDATE.
Upsert(a, v) == [b \in DOMAIN params \cup {a} |-> IF b = a THEN v ELSE params[b]]

\* The statement is committed; its client is told, or receives an error.
ParamSet(h) ==
    /\ Runs(h, "set")
    /\ params' = Upsert(call[h].account, writes + 1)
    /\ writes' = writes + 1
    /\ \/ Reply(h, "done", <<Row(call[h].account, writes + 1)>>)
       \/ Reply(h, "failed", << >>)
    /\ UNCHANGED <<known, changes>>

BeginGet(h, a) ==
    /\ Arrives(h, ParamCall("get", a, {a}))
    /\ UNCHANGED <<changes, paramVars>>

ParamGet(h) ==
    /\ Runs(h, "get")
    /\ LET a == call[h].account
       IN  IF a \in DOMAIN params THEN Reply(h, "done", <<Row(a, params[a])>>)
           ELSE Reply(h, "notfound", << >>)
    /\ UNCHANGED <<changes, paramVars>>

BeginList(h) ==
    /\ Arrives(h, ParamCall("list", None, Accounts))
    /\ UNCHANGED <<changes, paramVars>>

ParamList(h) ==
    /\ Runs(h, "list")
    /\ LET rows == {Row(a, params[a]) : a \in DOMAIN params}
       IN  Reply(h, "done", Printed(Grouped(Selected(rows))))
    /\ UNCHANGED <<changes, paramVars>>

\* The statement fails without effect.
FailParam(h) ==
    /\ call[h].op \in {"set", "get", "list"}
    /\ call[h].pc = "run"
    /\ Reply(h, "failed", << >>)
    /\ UNCHANGED <<changes, paramVars>>

\* The handler returns.  If its client is still there, the command exits with
\* status 0 only after a reply, and what it knows is recorded.
ReturnParam(h) ==
    /\ call[h].op \in {"set", "get", "list"}
    /\ call[h].pc # "run"
    /\ Leaves(h)
    /\ known' = [a \in Accounts |->
          LET told == {call[h].rows[i].value : i \in {j \in DOMAIN call[h].rows :
                          call[h].waiting /\ call[h].rows[j] = Row(a, call[h].rows[j].value)}}
          IN  Max(told \cup {known[a]})]
    /\ UNCHANGED <<params, writes, changes>>

ParamStep(h) ==
    \/ \E a \in Accounts : BeginSet(h, a) \/ BeginGet(h, a)
    \/ BeginList(h)
    \/ ParamSet(h) \/ ParamGet(h) \/ ParamList(h) \/ FailParam(h) \/ ReturnParam(h)

-----------------------------------------------------------------------------
(* Properties. *)

\* "ParamSet stores or updates a parameter value" and "ParamGet returns the
\* stored value" (README.md:299): a ParamGet or ParamList that begins when some
\* client has set, or seen, a value of an account answers with that value or
\* with one that was written after it, across failures, crashes and calls
\* whose client gave up.
ParamNotStale ==
    \A h \in Handlers : call[h].op \in {"get", "list"} /\ call[h].pc \in {"done", "notfound"} =>
        \A a \in Accounts : call[h].knew[a] > 0 =>
            \E i \in DOMAIN call[h].rows :
                /\ call[h].rows[i] = Row(a, call[h].rows[i].value)
                /\ call[h].rows[i].value >= call[h].knew[a]

\* "ParamList returns all stored parameters grouped by service name"
\* (README.md:299): what is printed are the rows of the table, each once, and
\* between two rows of a service there is none of another.
ListGrouped ==
    [][\A h \in Handlers : Runs(h, "list") /\ call'[h].op = "list" /\ call'[h].pc = "done" =>
        LET rows == call'[h].rows
        IN  /\ Len(rows) = Cardinality(DOMAIN params)
            /\ \A a \in DOMAIN params : \E i \in DOMAIN rows : rows[i] = Row(a, params[a])
            /\ \A i, j, k \in DOMAIN rows : i < j /\ j < k /\ rows[i].service = rows[k].service
                  => rows[j].service = rows[i].service]_<<call, paramVars>>
=============================================================================
