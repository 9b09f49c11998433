------------------------------ MODULE MCCommands ------------------------------
(* A small instance of Commands for TLC. *)
EXTENDS Commands, TLC

Account(s, n) == [service |-> s, name |-> n]
Blank == Account(0, 1)
MCBlankAccounts == {Blank}

\* Two parameters of one service, and one of another whose name comes first.
MCAccounts == {Account(1, 1), Account(1, 2), Account(2, 1), Blank}

Name(base, suffix) == [base |-> base, suffix |-> suffix]
Web == Name("web", "service")
Backup == Name("backup", "timer")
Missing == Name("backup", "service")
MCUnits == {Web, Backup, Missing}

State(active, sub, description, pid) ==
    [load |-> IF sub = "none" THEN "not-found" ELSE "loaded", active |-> active,
     sub |-> sub, description |-> description, pid |-> pid]

MCUnitStates ==
    [u \in MCUnits |->
        CASE u = Web -> {State("active", "running", "Web", 7), State("failed", "failed", "Web", 0),
                         State("activating", "start", "New web", 8)}
          [] u = Backup -> {State("active", "waiting", "Backup", 0),
                            State("inactive", "dead", "Backup", 0)}
          [] u = Missing -> {State("inactive", "none", "backup.service", 0)}]

\* One list names a unit without its suffix and another with it; the other has
\* a blank entry only.
MCAllowLists == {<<EmptyName, Name("web", ""), Backup>>, <<EmptyName>>}

Ask(services, raw) == [services |-> services, raw |-> raw]
MCStatusRequests ==
    {Ask(<<Web, Backup>>, FALSE),
     Ask(<<EmptyName, Name("web", ""), Name("backup", ""), Backup>>, TRUE)}

\* One password in two spellings, two others, and commands that the client or
\* the daemon turns down.
Get(account, length, text, capitals) ==
    [account |-> account, length |-> length, word |-> Word(text, capitals)]
MCTyped ==
    {Get(Account(1, 1), 8, "a", FALSE), Get(Account(1, 1), 8, "a", TRUE),
     Get(Account(1, 1), 8, "uppercase", FALSE), Get(Account(1, 1), 9, "a", TRUE),
     Get(Account(1, 1), 0, "a", TRUE), Get(Blank, 8, "a", TRUE),
     Get(Account(1, 1), 8, "b", FALSE), Get(Account(1, 1), MaxInt32 + 1, "a", TRUE)}

Symmetry == Permutations(Handlers)
=============================================================================
