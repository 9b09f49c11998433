------------------------------ MODULE ConfFiles -------------------------------
(***************************************************************************)
(* How ConfigureKeyValueConf and ConfigurePgHbaConf change a configuration *)
(* file: Configure of internal/keyvalue and of internal/pghba read it,     *)
(* compute its new content, back up what they read under a name made of    *)
(* the current second, and write the file over.  What the new content is,  *)
(* is a parameter.                                                         *)
(*                                                                         *)
(* Nothing is locked.  os.WriteFile truncates a file when it opens it and  *)
(* writes from its start, so that two writers may overlap; a write may be  *)
(* cut short, by an error or by the death of the daemon.  A content is a   *)
(* sequence of lines, and lines have the same length.                      *)
(***************************************************************************)
EXTENDS Integers, Sequences

CONSTANTS
    Handlers,         \* the Configure calls that may be in flight
    Requests,         \* what clients ask for
    Rewrite(_, _),    \* of a content and a request: [status, content], as Configure decides it
    Lines,            \* what contents are made of
    Original,         \* the content of the file at first
    MaxTime,          \* bound: the last second the clock shows
    MaxCalls,         \* bound: how many calls are made
    NoFile            \* no content

ASSUME ContentsAssumption == Original \in Seq(Lines) /\ NoFile \notin Seq(Lines)
ASSUME BoundsAssumption == MaxTime \in Nat /\ MaxCalls \in Nat

VARIABLES
    disk,     \* what the configuration file holds
    archive,  \* what the backup named after each second holds
    clock,    \* the machine's clock, in seconds
    pc,       \* where each Configure is
    req,      \* the request it serves
    data,     \* what it read
    content,  \* what it is to write
    name,     \* the second its backup is named after
    reply,    \* what it answers
    \* History, for the properties only:
    versions,   \* Original, and the contents clients were told they configured
    overlapped, \* a call began while another was in flight
    calls,      \* how many calls were made
    reused,     \* a backup was opened whose name another backup has
    cut         \* a call was cut short after it opened a file

callVars == <<pc, req, data, content, name, reply>>
historyVars == <<versions, calls, overlapped, reused, cut>>
vars == <<disk, archive, clock, callVars, historyVars>>

Init ==
    /\ disk = Original
    /\ archive = [s \in 0..MaxTime |-> NoFile]
    /\ clock = 0
    /\ pc = [h \in Handlers |-> "idle"]
    /\ req = [h \in Handlers |-> NoFile]
    /\ data = [h \in Handlers |-> NoFile]
    /\ content = [h \in Handlers |-> NoFile]
    /\ name = [h \in Handlers |-> 0]
    /\ reply = [h \in Handlers |-> "none"]
    /\ versions = {Original}
    /\ calls = 0
    /\ overlapped = FALSE
    /\ reused = FALSE
    /\ cut = FALSE

\* What a file holds once c is written from its start.
Overwrite(file, c) ==
    c \o SubSeq(file, Len(c) + 1, Len(file))

\* A write that is cut short leaves the first lines of c.
Cuts(c) == {SubSeq(c, 1, n) : n \in 0..Len(c) - 1}

-----------------------------------------------------------------------------
(* Configure. *)

Begin(h, q) ==
    /\ pc[h] = "idle"
    /\ calls < MaxCalls
    /\ calls' = calls + 1
    /\ pc' = [pc EXCEPT ![h] = "read"]
    /\ req' = [req EXCEPT ![h] = q]
    /\ overlapped' = (overlapped \/ \E g \in Handlers : pc[g] # "idle")
    /\ UNCHANGED <<disk, archive, clock, data, content, name, reply, versions, reused, cut>>

\* Mutant: the file is written without a backup.
ReadAndWrite(h) ==
    /\ pc[h] = "read"
    /\ pc' = [pc EXCEPT ![h] = IF Rewrite(disk, req[h]).status = "new" THEN "open" ELSE "done"]
    /\ reply' = [reply EXCEPT ![h] = Rewrite(disk, req[h]).status]
    /\ data' = [data EXCEPT ![h] = disk]
    /\ content' = [content EXCEPT ![h] = Rewrite(disk, req[h]).content]
    /\ UNCHANGED <<disk, archive, clock, req, name, historyVars>>

\* os.ReadFile; the request is refused, or there is nothing to add, or the new
\* content is computed.
Read(h) ==
    /\ pc[h] = "read"
    /\ LET answer == Rewrite(disk, req[h])
       IN  IF answer.status = "new"
           THEN /\ pc' = [pc EXCEPT ![h] = "backup"]
                /\ data' = [data EXCEPT ![h] = disk]
                /\ content' = [content EXCEPT ![h] = answer.content]
                /\ UNCHANGED reply
           ELSE /\ pc' = [pc EXCEPT ![h] = "done"]
                /\ reply' = [reply EXCEPT ![h] = answer.status]
                /\ UNCHANGED <<data, content>>
    /\ UNCHANGED <<disk, archive, clock, req, name, historyVars>>

\* backup takes the name from the clock and opens, or truncates, the file.
BackupOpens(h) ==
    /\ pc[h] = "backup"
    /\ name' = [name EXCEPT ![h] = clock]
    /\ archive' = [archive EXCEPT ![clock] = << >>]
    /\ reused' = (reused \/ archive[clock] # NoFile)
    /\ pc' = [pc EXCEPT ![h] = "copy"]
    /\ UNCHANGED <<disk, clock, req, data, content, reply, versions, calls, overlapped, cut>>

\* Mutant: the new content is backed up.
BackupOfNew(h) ==
    /\ pc[h] = "copy"
    /\ archive' = [archive EXCEPT ![name[h]] = Overwrite(@, content[h])]
    /\ pc' = [pc EXCEPT ![h] = "open"]
    /\ UNCHANGED <<disk, clock, req, data, content, name, reply, historyVars>>

BackupWrites(h) ==
    /\ pc[h] = "copy"
    /\ archive' = [archive EXCEPT ![name[h]] = Overwrite(@, data[h])]
    /\ pc' = [pc EXCEPT ![h] = "open"]
    /\ UNCHANGED <<disk, clock, req, data, content, name, reply, historyVars>>

\* Mutant: the file is removed before it is written.
WriteRemoves(h) ==
    /\ pc[h] = "open"
    /\ disk' = NoFile
    /\ pc' = [pc EXCEPT ![h] = "write"]
    /\ UNCHANGED <<archive, clock, req, data, content, name, reply, historyVars>>

WriteOpens(h) ==
    /\ pc[h] = "open"
    /\ disk' = << >>
    /\ pc' = [pc EXCEPT ![h] = "write"]
    /\ UNCHANGED <<archive, clock, req, data, content, name, reply, historyVars>>

WriteWrites(h) ==
    /\ pc[h] = "write"
    /\ disk' = Overwrite(disk, content[h])
    /\ pc' = [pc EXCEPT ![h] = "done"]
    /\ reply' = [reply EXCEPT ![h] = "new"]
    /\ UNCHANGED <<archive, clock, req, data, content, name, historyVars>>

\* A file cannot be read or opened.
Fail(h) ==
    /\ pc[h] \in {"read", "backup", "open"}
    /\ pc' = [pc EXCEPT ![h] = "done"]
    /\ reply' = [reply EXCEPT ![h] = "refused"]
    /\ UNCHANGED <<disk, archive, clock, req, data, content, name, historyVars>>

\* A write fails part of the way: the disk is full.
FailCopy(h) ==
    /\ pc[h] = "copy"
    /\ \E c \in Cuts(data[h]) : archive' = [archive EXCEPT ![name[h]] = Overwrite(@, c)]
    /\ pc' = [pc EXCEPT ![h] = "done"]
    /\ reply' = [reply EXCEPT ![h] = "refused"]
    /\ cut' = TRUE
    /\ UNCHANGED <<disk, clock, req, data, content, name, versions, calls, overlapped, reused>>

FailWrite(h) ==
    /\ pc[h] = "write"
    /\ \E c \in Cuts(content[h]) : disk' = Overwrite(disk, c)
    /\ pc' = [pc EXCEPT ![h] = "done"]
    /\ reply' = [reply EXCEPT ![h] = "refused"]
    /\ cut' = TRUE
    /\ UNCHANGED <<archive, clock, req, data, content, name, versions, calls, overlapped, reused>>

\* The handler returns and the client receives its reply.
Return(h) ==
    /\ pc[h] = "done"
    /\ pc' = [pc EXCEPT ![h] = "idle"]
    /\ req' = [req EXCEPT ![h] = NoFile]
    /\ data' = [data EXCEPT ![h] = NoFile]
    /\ content' = [content EXCEPT ![h] = NoFile]
    /\ name' = [name EXCEPT ![h] = 0]
    /\ reply' = [reply EXCEPT ![h] = "none"]
    /\ versions' = IF reply[h] = "new" THEN versions \cup {content[h]} ELSE versions
    /\ UNCHANGED <<disk, archive, clock, calls, overlapped, reused, cut>>

Configure(h) ==
    \/ Read(h) \/ BackupOpens(h) \/ BackupWrites(h) \/ WriteOpens(h) \/ WriteWrites(h)
    \/ Fail(h) \/ FailCopy(h) \/ FailWrite(h) \/ Return(h)

-----------------------------------------------------------------------------
(* The machine. *)

Tick ==
    /\ clock < MaxTime
    /\ clock' = clock + 1
    /\ UNCHANGED <<disk, archive, callVars, historyVars>>

\* The daemon is killed, perhaps in a write, and started again.
Crash ==
    /\ \/ UNCHANGED <<disk, archive>>
       \/ \E h \in Handlers :
            \/ /\ pc[h] = "copy"
               /\ \E c \in Cuts(data[h]) : archive' = [archive EXCEPT ![name[h]] = Overwrite(@, c)]
               /\ UNCHANGED disk
            \/ /\ pc[h] = "write"
               /\ \E c \in Cuts(content[h]) : disk' = Overwrite(disk, c)
               /\ UNCHANGED archive
    /\ pc' = [h \in Handlers |-> "idle"]
    /\ req' = [h \in Handlers |-> NoFile]
    /\ data' = [h \in Handlers |-> NoFile]
    /\ content' = [h \in Handlers |-> NoFile]
    /\ name' = [h \in Handlers |-> 0]
    /\ reply' = [h \in Handlers |-> "none"]
    /\ cut' = (cut \/ \E h \in Handlers : pc[h] \in {"copy", "write"})
    /\ UNCHANGED <<clock, versions, calls, overlapped, reused>>

Next ==
    \/ \E h \in Handlers, q \in Requests : Begin(h, q)
    \/ \E h \in Handlers : Configure(h)
    \/ Tick \/ Crash

Spec == Init /\ [][Next]_vars

-----------------------------------------------------------------------------
(* Properties. *)

\* Every variable has its type; the configuration file always exists.
TypeOK ==
    /\ disk \in Seq(Lines)
    /\ archive \in [0..MaxTime -> Seq(Lines) \cup {NoFile}]
    /\ clock \in 0..MaxTime
    /\ pc \in [Handlers -> {"idle", "read", "backup", "copy", "open", "write", "done"}]
    /\ req \in [Handlers -> Requests \cup {NoFile}]
    /\ data \in [Handlers -> Seq(Lines) \cup {NoFile}]
    /\ content \in [Handlers -> Seq(Lines) \cup {NoFile}]
    /\ name \in [Handlers -> 0..MaxTime]
    /\ reply \in [Handlers -> {"none", "refused", "kept", "new"}]
    /\ versions \in SUBSET Seq(Lines)
    /\ calls \in 0..MaxCalls
    /\ overlapped \in BOOLEAN /\ reused \in BOOLEAN /\ cut \in BOOLEAN

\* The file as it was before the daemon first changed it is never lost: it is
\* still there, or one of the backups holds it, however calls overlap, fail or
\* are killed, as long as no two backups are made in one second.
OriginalRecoverable ==
    ~reused => disk = Original \/ \E s \in 0..MaxTime : archive[s] = Original

\* Calls that do not overlap lose nothing they were told of: each content that
\* a client configured is the file's or a backup's, even when a later call is
\* cut short.
VersionsRecoverable ==
    ~reused /\ ~overlapped =>
        \A v \in versions : disk = v \/ \E s \in 0..MaxTime : archive[s] = v

\* "If the key is already set on an active line, that key is left unchanged"
\* (README.md:342), and the same of the rules of pg_hba.conf: when no call is
\* in flight and none was cut short, the file still holds each of its lines.
LinesStay ==
    (~cut /\ \A h \in Handlers : pc[h] = "idle") =>
        \A i \in DOMAIN Original : \E j \in DOMAIN disk : disk[j] = Original[i]
=============================================================================
