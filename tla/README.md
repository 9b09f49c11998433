# shed-sidecar: TLA+ models, checks and proofs

`shed-sidecard` is a daemon on a VM that clients reach by gRPC. It hands out
passwords and network ports that it keeps in a SQLite database, edits
configuration files, stores parameters, and reports the state of systemd units
and Docker containers. `sidecarctl` is its client. This directory models the
parts that keep state, what they promise across calls, failures and restarts,
and the way of a command from its arguments to what it prints.

To check it: `tlc -workers 2 -config <run>.cfg <module>` for each run below,
and `tlapm <module>Proofs.tla` for the proofs. PROJECT.json lists the runs, the
mutants, the source lines behind each definition, the hazards and the theorems.

## The system

| Component | State | Operations | Where it is modelled |
|---|---|---|---|
| Password store (`internal/passwords/store.go`) | table `passwords` | `Get`, `Read`, `List` | `PasswordStore`, `PasswordListing` |
| Password generator (same file) | none | `Generate` | `PasswordRequests`, `Generator` |
| Network port allocator (same file) | table `network_ports`, the range of the configuration | `NetworkPortGet` | `NetworkPorts` |
| Params (same file) | table `params` | `ParamSet`, `ParamGet`, `ParamList` | `Params`, `Listings` |
| Key/value files (`internal/keyvalue`) | a file, and the archive of its backups | `Configure`, `Get` | `KeyValue`, `ConfCalls`, `ConfFiles` |
| pg_hba.conf (`internal/pghba`) | the same | `Configure` | `PgHba`, `ConfCalls`, `ConfFiles` |
| Server (`internal/server`) | the allow list | one handler per RPC | the begin and return actions of all of them |
| systemd status (`internal/systemd`) | none of its own | `Status` | `UnitStatus` |
| Configuration (`internal/config`) | `config.toml` | `Load` | `Config` |
| Daemon (`cmd/sidecard`) | listeners, socket file, signals | start, serve, shut down | `Daemon` |
| Client (`cmd/sidecarctl`) | none | `password get`, `param`, `status` | `Rpc`, `Arguments`, `PasswordCommands`, `Commands` |
| Docker status (`internal/dockerstatus`) | none | - | not modelled |
| Installer (`install.sh`) | the systemd unit | runtime directory, restarts, start limit | in `Daemon` |

**Interactions.** gRPC runs every call in a goroutine of its own. Handlers share
the `*sql.DB` and the file system, and no lock protects either. What makes
calls atomic is a single SQL statement, with `UNIQUE` constraints and
`INSERT OR IGNORE`; configuration files have nothing of the kind. A port is
probed by listening on it, so calls also interact through the machine's
sockets.

**What is hard.** Steps of two calls interleave between any two statements; a
statement may fail, or commit and report an error; replies are lost; the
daemon is killed and restarted with only its database and files left; other
processes bind ports in between; a write may be cut short; a client gives up
while its call goes on; a unit changes while its properties are read; a second
daemon starts on the same socket file. PROJECT.json lists these hazards at the
line where each one bites.

**What makes each part correct.**

- Passwords: whoever asks for the same password gets the same value, for ever;
  at most one client is told it is new; what a client holds is stored; `Read`
  is not stale.
- Ports: an account keeps its port, a port has one account; a call gets the
  first port it could, and ends.
- Generated passwords meet the policy that was asked for, whoever generated them.
- Params: what is read is not older than what was known; listings are complete
  and grouped.
- Status: an entry per service, shown if and only if the allow list says so, with
  values the unit had.
- Daemon: it can be reached when it serves, loses no call when it is stopped,
  ends, and comes back after a failure.
- Files: what is set stays set, what is asked for is added once, in its place,
  and reads back; what a file held can be recovered from a backup.

## Modules

### GetOrCreate

The contract of `PasswordGet` and `NetworkPortGet`: a map from keys to values,
written once per key. A call begins, is refused, fetches a value, creates one
(and may fail to tell), fails, or returns; a crash loses the calls. `Exclusive`
says that two keys never share a value. It models no code: `PasswordStore` and
`NetworkPorts` are shown to implement it.

### PasswordStore

One action per SQL statement of `Store.Get` and `Store.Read`, since calls
interleave there and nowhere else.

| Code | Model |
|---|---|
| `Get`, validation | `BeginGet`, `Accepted`, `NormalizeLength` |
| first `lookup` | `LookupFirst` |
| `Generate`, and `time.Now` | `Generate`, `GenerateRefused` |
| `INSERT OR IGNORE` and `RowsAffected` | `InsertCreates`, `InsertIgnored`, `InsertUntold` |
| second `lookup` | `LookupAgain` |
| error returns | `FailGet` |
| handler returns | `ReturnGet` |
| `Read` | `BeginRead`, `Read`, `FailRead`, `ReturnRead` |
| the machine | `Tick`, `Crash` |

An account stands for a (service, name) pair. `draft` is the row a call is about to insert, with its date, which is
read before the statement runs. `InsertUntold` is an `INSERT` that commits and
reports an error. The variables marked as history (`told`, `news`, `acked`,
`seen`, `precedes`) remember what clients learnt, and appear in no guard.

### PasswordRequests, Generator, PasswordListing

`PasswordRequests` holds the types and lengths of passwords, which the client
needs too. `Generator` gives the set of passwords `Generate` may return:
each is a function of what `crypto/rand` draws (one byte of each required set,
the rest of the alphabet, and the swaps of `shuffle`). A character matters only
by the alphabets it is in, so an alphabet of one character per kind tells all
policies apart; the set is empty where `Generate` returns an error.
`PasswordListing` adds the order of `Store.List` to the password store, in which
the accounts have a place each.

### NetworkPorts

`NetworkPortGet` in the same grain: `LookupFirst`, `QueryUsed` (the `SELECT` of
`firstAvailableNetworkPort`), the scan (`ProbeOpens`, `ProbeFails`,
`ProbeCloses`, `Exhausted`), the `INSERT` (as above), and after a collision
`LookupAgainFinds` or `LookupAgainRetries`. A probe is two steps because the
listener is open in between and other calls and processes see it. `Bind` and
`Unbind` are other processes; `Restart` loses the calls and may start the
daemon with any valid range. `unusable` and `before` are history: what stood in
the way of each port since a call began, and how many ports were stored then.

### KeyValue, PgHba, ConfCalls

`KeyValue` and `PgHba` are the functions of `internal/keyvalue` and
`internal/pghba` on the lines of a file. A key/value line is empty, a comment
with its first word, or a setting with its key, the mark between key and value,
and a value, quoted or not; `Parses` says which formats recognize which marks.
Keys are words: without white space or delimiter, and not beginning with `#`.
A rule of pg_hba.conf is a sequence of words, a column of a request a sequence
of words too, so that an empty column and a quoted name with a space can be
told from a plain one; the last line of the file may lack its newline.
`ConfCalls` makes one call at a time on a file, for any sequence of requests.

### ConfFiles

The file operations of both `Configure` functions, for calls that overlap:
`Read`, `BackupOpens` and `BackupWrites`, `WriteOpens` and `WriteWrites`.
`os.WriteFile` truncates when it opens and writes from the start of the file,
so that two writers leave a mixture (`Overwrite`); a write may be cut short by
an error (`FailCopy`, `FailWrite`) or by the death of the daemon (`Crash`). A
backup is named after the second of the clock. What the new content is, is the
parameter `Rewrite`; `MCConfFiles` gives it `ConfigureLines` of `KeyValue`.
Lines are taken to have equal lengths, so that a mixture consists of lines.

### Config, Daemon

`Config` is `internal/config`: a file is missing, unreadable, malformed, or gives
values to some keys; `Load` fills in the defaults, checks the range and resolves
the database path. `Daemon` is `main` of `cmd/sidecard`:

| Code | Model |
|---|---|
| load, bus, database, Docker client | `Prepare`, `PrepareRefused` |
| `net.Listen("tcp", ...)` | `ListenTCP`, `ListenTCPRefused` |
| `MkdirAll`, `Remove` | `RemoveSocket` |
| `net.Listen("unix", ...)` | `ListenUnix`, `ListenUnixRefused` |
| `Chmod` and the two goroutines, `signal.Notify` | `Spawn`, `SpawnRefused`, `Notify` |
| an error of any of them, `os.Exit(1)` | `StartFails` |
| `serve` returns an error | `ServeFails` |
| the select, `GracefulStop` | `Stop`, `CloseListener`, `Return` |
| `time.After`, `Stop` | `TimeOut` |
| gRPC | `Accept`, `Answer` |
| the unit of `install.sh`: `RuntimeDirectory`, `Restart`, the start limit | `Begin`, `CleanUp`, `Restart`, `GiveUp` |
| operators, the kernel | `Start`, `Terminate`, `Kill`, `Edit` |

There are several daemons, because what makes the start hard is what others left
or still use: a port, and a socket file, which is at a path a daemon that
listens there, stale, absent, or without a directory (`NoDir`). `os.Exit` and a
kill run no deferred call and leave the file; `Close` unlinks the path, whoever
listens there by then.

systemd is part of the machine. However the unit ends, it is `"ended"` until
`CleanUp` has removed `/run/sidecar` (`RuntimeDirectory=sidecar`, install.sh:88)
with every socket file in it, the unit's own or that of a daemon started by
hand; other daemons may take steps in between. `Begin` makes the directory again
for the unit, `MkdirAll` for any daemon. A unit that failed or was killed is
restarted, unless it was started `StartLimit` times in one interval: then
`GiveUp` leaves it failed until an operator starts it in a later one. The unit
sets no limit of its own, so it is systemd's default of 5 starts in 10 seconds;
the model has no clock, and at any start the interval may be over, so that it is
the first of a new one. A job of
`systemctl stop` between two restarts is left out.

`robbed` is history: what took the file away is one of three things that the
code of the daemon that lost it cannot prevent, the start of a daemon on another
port, the late end of one, and `CleanUp`.

### Rpc, Params, Listings, UnitStatus, Arguments, PasswordCommands, Commands

`Rpc` is a call of the client: it arrives, is served by a goroutine of its own,
and its client may give up while the handler goes on. Three kinds of commands
are built on it and `Commands` composes them:

- `Params` with `Listings`: each operation is one statement between the arrival
  and the return. A value is known by the number of the statement that wrote
  it. `ParamList` goes from the ordered rows over `Grouped` (the handler) to
  `Printed` (the client). `known` and `knew` are history: the latest value a
  client knew of, now and when a call began.
- `UnitStatus`: `New`'s allow list (`Allowed`), the loop over the services
  (`Refuse`, `LoadUnit`, `ReadProperty`, `NoMainPID`, `Report`, `FailStatus`), and
  units that change at any moment (`UnitChanges`). A unit name is a base and a
  suffix. `had` and `broke` are history.
- `Arguments` and `PasswordCommands`: `parsePasswordType`, then a call of the
  password store. The store here is `GetOrCreate` itself, which `PasswordStore`
  is proved to implement: the composition uses the contract and not the detail.

Calls of different kinds share no state, so a behaviour of `Commands` has one
`kind`; and status calls, which only read, run one at a time.

## Runs

Each run checks deadlock, except the two of `ConfCalls`, which stop at
`MaxLines`, and `daemon`, in which everything may be down for good.

| Run | Checks | Bounds |
|---|---|---|
| `password_get` | `TypeOK`, `AnswersAgree`, `ToldIsStored`, `ToldMeetsPolicy`, `OneCreator`, `ConflictFindsRow`, `ShuffleIsFair`, `Refines` | 2 calls; a UUID asked for with length 0 and 36, a password as short as its policy allows, a blank account; all passwords the generator may draw from alphabets of one character; shuffles of up to 4 bytes |
| `password_read` | `ReadNotStale`, `LastListedIsRead` | 2 `Get` calls and a `Read`; two passwords of one account, a request the generator refuses; 2 seconds |
| `ports_agree` | `TypeOK`, `PortsAgree`, `OneCreator`, `Refines`, `EveryGetReturns` | 2 calls, 2 accounts, ranges 1-1, 2-2 and a reversed one, port 1 bound and unbound by another process |
| `ports_scan` | `FirstAvailable`, `ConflictedByOthers` | 2 calls, 5 accounts (one blank), 3 ports; symmetric in calls and accounts |
| `conf_lines` | `TypeOK`, `RepeatAddsNothing`, `LinesKept`, `SetKeysKept`, `EntriesReadBack`, `PlacedByComment`, `EarlierRulesFirst`, `PlainRuleOnce` | 4 key/value files and 8 requests, 3 pg_hba.conf files and 3 rules; 6 lines |
| `conf_files` | `TypeOK`, `OriginalRecoverable`, `VersionsRecoverable` | 2 calls at a time, 3 in all, 3 seconds |
| `daemon` | `TypeOK`, `SocketServed`, `StaysDownForAReason`, `GracefulLosesNoCall`, `StopEnds`, `Recovers` | the unit and a daemon started by hand, 4 configuration files (defaults; another port; another socket; an invalid range), 1 call, 2 starts in an interval, 4 events |
| `commands` | `TypeOK`, `ParamNotStale`, `ListGrouped`, `StatusDisclosed`, `StatusSeen`, `SpellingsAgree` | 2 calls, 3 changes; 4 accounts in 3 services; 3 units, 2 allow lists, 2 requests; 8 commands; 2 passwords |
| `ports_free`, `ports_taken`, `hba_spaced`, `conf_overlap` | violations, see below | the smallest instance |

**Why these bounds are enough.** Two calls are what every race here takes: the
only shared objects are a row, a port and a file, and a third call meets the
same states as the second would. Calls return and begin again without limit in
the password, port and command runs, but for `MaxChanges`, so sequences of any
length, with retries and restarts, are covered. Four accounts and three ports
let a call lose its port three times, which takes the retries to their limit.
Three calls of `Configure` let two overlap after a third has already left a
backup behind, and three seconds let them have distinct backup names or share
them. Six lines let each request be made more than once on every file. A
password of type `UPPERCASE` with two characters, and shuffles of four, are where
the required sets fill the whole password and each byte may go anywhere.

`MaxEvents` bounds what operators do and what fails by itself in `Daemon`: four
are enough to start both daemons, edit the file, and let a kill or a signal meet
either in any step. A taken port, a file that does not load and a socket
file that is gone fail the start without an event, as often as systemd repeats
it. A `StartLimit` of two instead of five lets the unit be restarted, or be given
up on, in each of these situations. One of the sockets is outside the runtime
directory, in the unit's state directory: there a killed daemon leaves a stale
file that systemd does not remove. `ports_scan` has no process that binds ports,
which would make it too large; `ports_agree` has one, and the theorem `FirstPort`
covers any. `MaxChanges` bounds `ParamSet` calls and changes of units;
three let two writers race and a third value follow, and let a unit change
between any two reads of its properties and back.

Restarts, failing statements and lost replies are enabled in every run about
calls.

**Fairness.** `ports_agree`: weak fairness of each call's next step (`Step`), which
includes the step that fails. The code justifies it because a call runs in a
goroutine, takes no lock, and waits for nothing but a statement of SQLite or a
`net.Listen` on the local machine, each of which returns a result or an error.
Nothing is assumed of other processes, of the arrival of calls or of restarts.
`ports_taken` uses the same specification.

`daemon`: weak fairness of the steps of `main`, which include the end of the
ten seconds, and of systemd's next step, `Systemd`: it cleans up after the unit,
and then restarts it or gives up, whichever the start limit demands. Nothing is
assumed of `Answer`, since a handler may never return and the daemon must end
all the same, nor of the interval, which may last through any number of starts,
or of operators. `Recovers` supposes a
configuration that stays usable in the end, and ends in a daemon that serves, in
a unit that got a signal before it asked for signals, or in one that systemd has
given up on: after too many failing starts in one interval a unit does not come
back by itself, even if the cause is gone.

**Mutants.** For each property of a passing run PROJECT.json names a variant of a
definition with a plausible bug (a constraint on fewer columns, a result that is
not read, an off-by-one, a missing check); with it in place the run finds the
property violated. The variants stand in the modules right before what they
vary, marked `Mutant:`.

### Disagreements between code and documentation

- `ports_free`: while one call probes a port, another takes it for bound, and is
  told that no port is available although one is free (README.md:281).
- `ports_taken`: a port that another process takes after the probe is stored and
  returned; only collisions in the database are retried (README.md:281).
- `hba_spaced`: a rule with a quoted name that holds a space is never recognized
  and is added by every call (README.md:316).
- `conf_overlap`: two overlapping calls that both succeed may remove a key that
  was set before (README.md:342).

## Proofs

The runs check small instances; these theorems hold for any sets of calls,
accounts, requests, values, files and lines. They assume only what the `ASSUME`s of
the modules say of the constants (requests are well-formed, `None` is no value),
which TLC evaluates on each run. Every invariant and every action property that a
passing run checks is stated by a theorem; what is left to TLC alone is below.

**PasswordStoreProofs.** `TypeOK` is not inductive: that a reply is the value of a
row rests on what a call knows at each point. The inductive invariant `TypeInv`
adds `CallsOK` (what `req`, `draft` and `reply` are at each value of `pc`: a
draft has the key of its request, an answer names its row) and `UniqueKeys`,
the `UNIQUE` constraint, which the guard of the insert maintains. On top of it:

- `Durable` (`ToldIsStored`) and `Idempotent` (`AnswersAgree`): each answer a
  client received is the value of a row with its key (`ToldRows`); rows are only
  added (`RowsGrow`) and keys are unique, so answers for one key are equal.
- `Reconciled` (`ConflictFindsRow`): the row that made the insert collide has
  the key of the lookup, and rows stay.
- `Claimed` (`OneCreator`): a count is never reset, so the invariant says who may
  still claim a key: no call holds a new answer for a key some client was told
  is new, and no two calls hold one (`NewsOK`, `ClaimsOK`).
- `UpToDate` (`ReadNotStale`), for a clock that is never set back: dates do not
  exceed the clock (`DatesOK`), and if one row was known before another was
  asked for, it has the lower rowid and no later date (`OrderOK`), hence `Newest`
  is neither. With a clock set back TLC finds the property violated.
- `FairlyShuffled` (`ShuffleIsFair`): for every length, every order of the bytes
  comes from exactly one sequence of draws. The loop is a function of the index it
  has come down to (`IsShuffle`). Two draws with one outcome are the same draws
  (`ShuffledOnce`): the positions above the index are settled, so the outcome
  determines the last swap, then the one before it. Every order is the outcome of
  some draws (`ShuffledOnto`): the draws are chosen from the top down, each to
  fetch the byte its position wants (`Ends`). That there are finitely many draws
  makes the counts of `Uniform` what they should be.
- `PolicyMet` (`ToldMeetsPolicy`): a shuffle keeps the bytes it is given
  (`ShuffledKeeps`), so a password has a byte of each required set (`RequiredKept`,
  `PasswordsMeetPolicy`); and each row, and each row that is about to be one, was
  generated for its own key (`GeneratedOK`), whichever call reads it later.
- `ListingAgrees` (`LastListedIsRead`): `ListedBefore` orders every set of rows
  (`FirstListed`), so `Listed` exists and has every row once (`ListedRows`); the
  last of an account has the greatest date, and of those the greatest rowid.
- `Implements` (`Refines`): initial states map to initial states, and each step
  to one of `GetOrCreate` or to a stutter. `InsertCreates` maps to `Create`,
  `InsertUntold` to `CreateUntold`, both lookups to `Fetch`.

**GetOrCreateProofs.** `Agreement` and `Permanence`, of the contract itself: answers
are what is stored and go on being stored. Through both `Implements` they hold of
the password store and of the port allocator, and `CommandsProofs` cites them.

**NetworkPortsProofs.** The inductive invariant `TypeInv` is `TypeOK` with `CallsOK`
(the state of a call at each value of `pc`), `UniqueRows` (both `UNIQUE`
constraints) and the finiteness of the table. Every safety property that the
passing runs check of the allocator follows from it with a part of its own:

- `PortsKept` (`PortsAgree`): each answer a client received is a row
  (`ToldRows`), rows are only added, and no column has a value twice.
- `Claimed` (`OneCreator`): as for the password store.
- `FirstPort` (`FirstAvailable`): what is in a port's way now has been noted by
  each call in flight (`KnownOK`), so a call that passes over a port, for it is in
  the table or cannot be bound, has it on its list, and the list only grows
  until the call returns (`ScanOK`).
- `NoFalseConflict` (`ConflictedByOthers`): when a call scans, probes or inserts,
  at least `attempt` rows more than at its beginning are not the row it may
  collide with (`Passed`, `Apart` in `GrewOK`); a collision adds that row to them.
- `Implements` (`Refines`): a port in no row is `Available` in the contract with
  `Exclusive` values, and the steps between the lookup and the insert are stutters.

**ConfFilesProofs.** For every `Rewrite` that computes a sequence of lines
(`RewriteOK`, stated as a hypothesis of each theorem):

- `TypeCorrect` (`TypeOK`): in particular the configuration file always exists.
- `Recoverable` (`OriginalRecoverable`): while no name is reused, no two calls
  write one backup (`OneWriter`) and a complete backup stays complete (`Safe`);
  until a backup of the original is complete, no call has got beyond it
  (`Untouched`), because `Configure` backs up before it opens the file.
- `NothingLost` (`VersionsRecoverable`): while no calls overlap one call is active
  (`Alone`), and from its backup to its return each version is the file's, a
  backup's, or what it has read and is about to back up (`VersionsOK`).

**ConfCallsProofs.** For any file, and requests with any number of entries. The
invariant of the state is `TypeOK`: a call runs to its end in one step, so the
induction is over the loop within it. `after[n]` is what the first `n` entries
make of the lines (`IsLoop`, `Runs`), and one more entry either changes nothing
or inserts the line it is written as, at one position (`Entered`, in terms of
`Inserted` and of `Shift`, which moves the numbers of the lines behind it).

- `ConfLinesKept` (`LinesKept`): after `n` entries there is an embedding `at` of
  the file's lines in the new ones that keeps their order, and every line outside
  of it was asked for (`Holds`). That the property counts lines from their
  position among the kept ones takes `Ranked`: the `i`-th of them is the one
  with `i` kept ones up to it.
- `ConfSetKeysKept` (`SetKeysKept`): the first active line of a key stays the
  first when a line that is not active for it is inserted (`ActiveMoved`).
- `ConfEntriesReadBack` and `ConfPlacedByComment` (`EntriesReadBack`,
  `PlacedByComment`): neither is kept by the loop alone. What is kept is `KeySet`:
  the first active line of a key that was missing is what its first entry asks
  for (`Told`), and stands next to the last comment of the key, or with nothing
  but new lines behind it (`Placed`); of a key without an entry so far, that it
  is still missing.
- `ConfRepeatAddsNothing` (`RepeatAddsNothing`): after a call every key of the
  request is active, and entries of such keys change nothing (`NothingEntered`);
  the file ends in a line that is not empty, so splitting it again gives the same
  lines (`SplitTrimmed`).
- `HbaEarlierRulesFirst` and `HbaPlainRuleOnce` (`EarlierRulesFirst`,
  `PlainRuleOnce`): a row that is found reads as the rule (`EqualRow`); of a rule
  whose columns are one word each the converse holds too (`PlainRow`), so only
  such a rule is never added twice. `hba_spaced` shows that it fails otherwise.

**DaemonProofs.** For any number of daemons and calls, and any configuration files.
The inductive invariant `Inv` ties what a daemon holds to its step in `main`: what
it loaded is a file `Load` accepts (`FilesLoaded`, with `LoadAccepts` and
`JoinedIsAbs` about `Config`), a daemon that nothing has stopped holds its port
from `ListenTCP` on (`PortsHeld`), no two hold one port (`PortsDiffer`), there is
a reason to stop only where one can come (`ReasonsKnown`), and calls are in
flight only at a daemon that serves or waits for them (`CallsServed`). A directory
that is made changes no path where a file is (`DirMade`), and what systemd does
keeps the invariant because `CleanUp` records whose file it takes (`SystemdInv`).

- `DaemonTypes`, `DaemonSocketServed`, `DaemonStaysDown` (`TypeOK`, `SocketServed`,
  `StaysDownForAReason`). The socket is where `PortsDiffer` is needed: a daemon
  that starts removes the socket file only after it has got its port, hence
  not that of a daemon with the same configuration. `SocketServed` says no more
  than that the three ways of `robbed` are all there are.
- `DaemonLosesNoCall` (`GracefulLosesNoCall`), as an action property from `Inv`.

**CommandsProofs.** The inductive invariant has a part for each kind of call, and each
step of one kind leaves the parts of the others alone.

- `ParamInv`: the statements that are committed or running are at most the
  `ParamSet` calls (`WritesCounted`), what a client knows of is still in the table
  or was replaced by a later value (`KnownKept`), and each call holds rows
  that are of the table, and not staler than what was known when it began
  (`CallHeld`). It gives `CommandsTypes` and `ParamsNotStale` (`ParamNotStale`).
- `ListsGrouped` (`ListGrouped`): SELECT returns each row once and in order
  (`SelectedRows`), so the rows of a service are consecutive; printing the
  groups is the identity on any rows (`PrintedGrouped`, by induction over the rows:
  one more row is one more at the end of what is printed, `AddEntryPrinted`).
- `UnitInv`: the entries that are made are what they should be (`EntryHeld`), and of
  the unit being read each property read so far was the unit's at some moment
  (`ReadHeld`). It gives `StatusIsDisclosed` and `StatusWasSeen`
  (`StatusDisclosed`, `StatusSeen`); that `New` normalizes the allow list and the
  handler the request, and that the two meet, is `AllowedMeans`.
- `PasswordInv`: the invariant of `GetOrCreateProofs`, instantiated, with what each
  command waits for (`CommandsServed`) and that what was printed is stored
  (`PrintedHeld`). `SpellingsLead` (`SpellingsAgree`) follows: the spellings of a
  policy parse to one type, those of two to two (`PolicyTypes`).

**FoldTheorems.** Lemmas about folds, flattened sequences and ordered lists, for every
operator `Op`; the modules above instantiate it with theirs. The provers cannot
use an induction theorem that takes a predicate, so `Induction` and `LeastNumber`
speak of a set of numbers, and each use defines the set for which its claim
holds. `ListExists`: if each part of a finite set has a first element in an order,
the order lists the set; `ListsAll`: a list without repetition that is as long as
the set leaves out nothing. Both are what `Selected` and `Listed` rest on.

**What the proofs ask of the models.** A `CASE` whose arms overlap does not say which
of them is taken: the arms of `Passwords` are the types of the `switch` of
`Generate`, each in one arm. What the code does in a loop is a function of an index
(`SetEntries`, `Shuffled`) or a fold (`Grouped`), and what SQL sorts is the sequence
that is sorted (`Selected`, `Listed`), so that no module proved about reaches a
recursive operator. The `ASSUME`s on constants the proofs rest on say what kind of
thing each is: configuration files have known kinds and typed values, files are
sequences of lines, rules have columns of words, `None` is no state of a unit.

**Only model-checked.** Liveness (`EveryGetReturns`, `StopEnds`, `Recovers`), which the
prover does not handle: its proofs need `ENABLED` and fairness. The properties of
the four runs that expect a violation do not hold and have no theorem.

## Not modelled

- The layout of a UUIDv7: it is a value out of a set. Which characters an alphabet
  has: it is one of its kind.
- SQLite itself: a statement is atomic and durable, or fails without effect, or
  commits and reports an error. That concurrent writers may be refused with
  "database is locked" is one of the failures.
- A port probed on IPv6 or on one address only: a port is bound or it is not.
- Creation of directories, permissions, relative paths of configuration files.
  Two paths for one file are one file in the models.
- Time in systemd: the 100 ms before a restart and the 10 seconds in which starts
  are counted have no length. The user that the unit runs as: what it may not do
  is one of the steps that fail (`StartFails`).
- `NetworkList`, which passes the rows of one SELECT on, and Docker status, which
  sorts and converts the reply of one call: no state, and nothing to interleave
  with.
- The other commands of `sidecarctl`: each parses its flags, makes one call and
  prints the reply; `password read` and `network port get` add nothing to the
  models of what they call. The columns of its tables.
- The installer, beside the unit that it writes, and the release: a script run
  once by an administrator, and recipes.

What the models show and no document decides: `allowed_services = [""]` allows every
unit, as an empty list does (`StatusDisclosed` says so); the daemon exits with
status 0 after a listener failed, and systemd leaves it down
(`StaysDownForAReason` excepts it); a unit that cannot start because a daemon
started by hand has its port removes that daemon's socket, and is given up on
after five attempts (`SocketServed` and `Recovers` except it); a SIGTERM before `signal.Notify` kills it with
calls in flight (`GracefulLosesNoCall` excepts it); a status may mix moments
(`StatusSeen`); a clock that is set back makes `PasswordRead` return an older
password (`MonotonicClock`).

## Plan

Done, in this order, the core first: `GetOrCreate`, `PasswordStore` and
`NetworkPorts` with their proofs, `KeyValue` and `PgHba` under `ConfCalls`,
`ConfFiles` with its proofs; then `Generator` and `PasswordListing` with the
password store, `Config` and `Daemon`, and the commands; then the proofs about
all of these.

To come: `ConfFiles`, with the `Rewrite` of `KeyValue`, as an implementation of
`ConfCalls` while calls do not overlap, stated as a refinement and proved; and a
key that holds the delimiter or white space (`internal/keyvalue/keyvalue.go:40`),
which `Words` excludes.
