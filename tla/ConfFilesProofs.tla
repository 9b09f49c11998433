--------------------------- MODULE ConfFilesProofs ----------------------------
(* Theorems about ConfFiles, for any set of calls, requests and lines. *)
EXTENDS ConfFiles, SequenceTheorems, TLAPS

\* What the theorems ask of the new contents: they are contents.
RewriteOK ==
    \A c \in Seq(Lines), q \in Requests :
        /\ Rewrite(c, q).status \in {"refused", "kept", "new"}
        /\ Rewrite(c, q).status = "new" => Rewrite(c, q).content \in Seq(Lines)

-----------------------------------------------------------------------------
(* Facts about writes. *)

\* A content written over another is a content.
LEMMA OverwriteType ==
    ASSUME NEW f \in Seq(Lines), NEW c \in Seq(Lines)
    PROVE  Overwrite(f, c) \in Seq(Lines)
  <1>1. SubSeq(f, Len(c) + 1, Len(f)) \in Seq(Lines)
    <2>1. \A i \in Len(c) + 1..Len(f) : f[i] \in Lines
      OBVIOUS
    <2> QED BY <2>1, SubSeqProperties
  <1> QED
    BY <1>1 DEF Overwrite

\* A content written to an empty file is what the file holds.
LEMMA OverwriteEmpty ==
    ASSUME NEW c \in Seq(Lines)
    PROVE  Overwrite(<< >>, c) = c
  BY DEF Overwrite

\* A write that is cut short writes a content.
LEMMA CutType ==
    ASSUME NEW c \in Seq(Lines), NEW d \in Cuts(c)
    PROVE  d \in Seq(Lines)
  <1>1. PICK n \in 0..Len(c) - 1 : d = SubSeq(c, 1, n)
    BY DEF Cuts
  <1> QED
    BY <1>1, SubSeqProperties
-----------------------------------------------------------------------------
(* Types and the state of a call. *)

\* What is true of a Configure at each of its steps.
CallOK(h) ==
    /\ pc[h] # "idle" => req[h] \in Requests
    /\ pc[h] \in {"backup", "copy", "open", "write"} =>
          data[h] \in Seq(Lines) /\ content[h] \in Seq(Lines)
    /\ pc[h] = "copy" => archive[name[h]] \in Seq(Lines)
    /\ reply[h] = "new" => pc[h] = "done" /\ content[h] \in Seq(Lines)
    /\ pc[h] # "done" => reply[h] = "none"

CallsOK == \A h \in Handlers : CallOK(h)

TypeInv == TypeOK /\ CallsOK

\* The initial state has its type.
LEMMA TypeInit == Init => TypeInv
  <1> SUFFICES ASSUME Init PROVE TypeInv
    OBVIOUS
  <1>1. TypeOK
    <2>1. disk \in Seq(Lines) /\ versions \in SUBSET Seq(Lines)
      BY ContentsAssumption DEF Init
    <2>2. 0 \in 0..MaxTime /\ 0 \in 0..MaxCalls
      BY BoundsAssumption
    <2> QED BY <2>1, <2>2 DEF Init, TypeOK
  <1>2. CallsOK
    BY DEF Init, CallsOK, CallOK
  <1> QED
    BY <1>1, <1>2 DEF TypeInv

\* Every step keeps the types and the state of the calls.
LEMMA TypeNext ==
    ASSUME RewriteOK, TypeInv, [Next]_vars
    PROVE  TypeInv'
  <1> USE DEF TypeInv
  <1>0. << >> \in Seq(Lines)
    OBVIOUS
  <1>1. ASSUME NEW h \in Handlers, NEW q \in Requests, Begin(h, q) PROVE TypeInv'
    <2>1. TypeOK'
      BY <1>1, BoundsAssumption DEF TypeOK, Begin
    <2>2. CallsOK'
      BY <1>1 DEF TypeOK, Begin, CallsOK, CallOK
    <2> QED BY <2>1, <2>2
  <1>2. ASSUME NEW h \in Handlers, Read(h) PROVE TypeInv'
    <2>1. disk \in Seq(Lines) /\ req[h] \in Requests
      BY <1>2 DEF TypeOK, CallsOK, CallOK, Read
    <2>2. /\ Rewrite(disk, req[h]).status \in {"refused", "kept", "new"}
          /\ Rewrite(disk, req[h]).status = "new" => Rewrite(disk, req[h]).content \in Seq(Lines)
      BY <2>1 DEF RewriteOK
    <2>3. CASE Rewrite(disk, req[h]).status = "new"
      <3>1. /\ pc' = [pc EXCEPT ![h] = "backup"]
            /\ data' = [data EXCEPT ![h] = disk]
            /\ content' = [content EXCEPT ![h] = Rewrite(disk, req[h]).content]
            /\ reply' = reply
            /\ UNCHANGED <<disk, archive, clock, req, name, historyVars>>
        BY <1>2, <2>3 DEF Read
      <3>2. TypeOK'
        BY <2>1, <2>2, <2>3, <3>1 DEF TypeOK, historyVars
      <3>3. CallsOK'
        BY <1>2, <2>1, <2>2, <2>3, <3>1 DEF TypeOK, CallsOK, CallOK, Read
      <3> QED BY <3>2, <3>3
    <2>4. CASE Rewrite(disk, req[h]).status # "new"
      <3>1. /\ pc' = [pc EXCEPT ![h] = "done"]
            /\ reply' = [reply EXCEPT ![h] = Rewrite(disk, req[h]).status]
            /\ UNCHANGED <<data, content, disk, archive, clock, req, name, historyVars>>
        BY <1>2, <2>4 DEF Read
      <3>2. TypeOK'
        BY <2>1, <2>2, <2>4, <3>1 DEF TypeOK, historyVars
      <3>3. CallsOK'
        BY <2>1, <2>2, <2>4, <3>1 DEF TypeOK, CallsOK, CallOK
      <3> QED BY <3>2, <3>3
    <2> QED BY <2>3, <2>4
  <1>3. ASSUME NEW h \in Handlers, BackupOpens(h) PROVE TypeInv'
    <2>1. TypeOK'
      BY <1>0, <1>3 DEF TypeOK, BackupOpens
    <2>2. CallsOK'
      BY <1>3 DEF TypeOK, BackupOpens, CallsOK, CallOK
    <2> QED BY <2>1, <2>2
  \* A write to a backup.
  <1>4. ASSUME NEW h \in Handlers, pc[h] = "copy", NEW c \in Seq(Lines),
               archive' = [archive EXCEPT ![name[h]] = Overwrite(@, c)]
        PROVE  /\ archive' \in [0..MaxTime -> Seq(Lines) \cup {NoFile}]
               /\ \A s \in 0..MaxTime : archive[s] \in Seq(Lines) => archive'[s] \in Seq(Lines)
    <2>1. archive[name[h]] \in Seq(Lines)
      BY <1>4 DEF CallsOK, CallOK
    <2>2. Overwrite(archive[name[h]], c) \in Seq(Lines)
      BY <2>1, OverwriteType
    <2>3. archive' = [archive EXCEPT ![name[h]] = Overwrite(archive[name[h]], c)]
      BY <1>4
    <2> QED BY <2>2, <2>3 DEF TypeOK
  <1>5. ASSUME NEW h \in Handlers, BackupWrites(h) \/ FailCopy(h) PROVE TypeInv'
    <2>1. pc[h] = "copy" /\ data[h] \in Seq(Lines)
      BY <1>5 DEF BackupWrites, FailCopy, CallsOK, CallOK
    <2>2. PICK c \in Seq(Lines) : archive' = [archive EXCEPT ![name[h]] = Overwrite(@, c)]
      BY <1>5, <2>1, CutType DEF BackupWrites, FailCopy
    <2>3. /\ archive' \in [0..MaxTime -> Seq(Lines) \cup {NoFile}]
          /\ \A s \in 0..MaxTime : archive[s] \in Seq(Lines) => archive'[s] \in Seq(Lines)
      BY <1>4, <2>1, <2>2
    <2>4. TypeOK'
      BY <1>5, <2>3 DEF TypeOK, BackupWrites, FailCopy, historyVars
    <2>5. CallsOK'
      <3>1. ASSUME NEW g \in Handlers, pc[g] = "copy" PROVE archive'[name[g]] \in Seq(Lines)
        BY <2>3, <3>1 DEF CallsOK, CallOK, TypeOK
      <3> QED BY <1>5, <3>1 DEF TypeOK, BackupWrites, FailCopy, CallsOK, CallOK, historyVars
    <2> QED BY <2>4, <2>5
  <1>6. ASSUME NEW h \in Handlers, WriteOpens(h) PROVE TypeInv'
    <2>1. TypeOK'
      BY <1>0, <1>6 DEF TypeOK, WriteOpens, historyVars
    <2>2. CallsOK'
      BY <1>6 DEF TypeOK, WriteOpens, CallsOK, CallOK
    <2> QED BY <2>1, <2>2
  <1>7. ASSUME NEW h \in Handlers, WriteWrites(h) \/ FailWrite(h) PROVE TypeInv'
    <2>1. pc[h] = "write" /\ content[h] \in Seq(Lines) /\ disk \in Seq(Lines)
      BY <1>7 DEF WriteWrites, FailWrite, TypeOK, CallsOK, CallOK
    <2>2. PICK c \in Seq(Lines) : disk' = Overwrite(disk, c)
      BY <1>7, <2>1, CutType DEF WriteWrites, FailWrite
    <2>3. disk' \in Seq(Lines)
      BY <2>1, <2>2, OverwriteType
    <2>4. TypeOK'
      BY <1>7, <2>3 DEF TypeOK, WriteWrites, FailWrite, historyVars
    <2>5. CallsOK'
      BY <1>7, <2>1 DEF TypeOK, WriteWrites, FailWrite, CallsOK, CallOK, historyVars
    <2> QED BY <2>4, <2>5
  <1>8. ASSUME NEW h \in Handlers, Fail(h) PROVE TypeInv'
    <2>1. TypeOK'
      BY <1>8 DEF TypeOK, Fail, historyVars
    <2>2. CallsOK'
      BY <1>8 DEF TypeOK, Fail, CallsOK, CallOK
    <2> QED BY <2>1, <2>2
  <1>9. ASSUME NEW h \in Handlers, Return(h) PROVE TypeInv'
    <2>1. TypeOK'
      <3>1. versions' \in SUBSET Seq(Lines)
        BY <1>9 DEF TypeOK, Return, CallsOK, CallOK
      <3>2. 0 \in 0..MaxTime
        BY BoundsAssumption
      <3> QED BY <1>9, <3>1, <3>2 DEF TypeOK, Return
    <2>2. CallsOK'
      BY <1>9 DEF TypeOK, Return, CallsOK, CallOK
    <2> QED BY <2>1, <2>2
  <1>10. CASE Tick
    <2>1. TypeOK'
      BY <1>10, BoundsAssumption DEF TypeOK, Tick, callVars, historyVars
    <2>2. CallsOK'
      BY <1>10 DEF Tick, callVars, CallsOK, CallOK
    <2> QED BY <2>1, <2>2
  <1>11. CASE Crash
    <2>1. disk' \in Seq(Lines) /\ archive' \in [0..MaxTime -> Seq(Lines) \cup {NoFile}]
      <3>1. CASE UNCHANGED <<disk, archive>>
        BY <3>1 DEF TypeOK
      <3>2. ASSUME NEW h \in Handlers, pc[h] = "copy", NEW c \in Cuts(data[h]),
                   archive' = [archive EXCEPT ![name[h]] = Overwrite(@, c)], disk' = disk
            PROVE  disk' \in Seq(Lines) /\ archive' \in [0..MaxTime -> Seq(Lines) \cup {NoFile}]
        BY <1>4, <3>2, CutType DEF TypeOK, CallsOK, CallOK
      <3>3. ASSUME NEW h \in Handlers, pc[h] = "write", NEW c \in Cuts(content[h]),
                   disk' = Overwrite(disk, c), archive' = archive
            PROVE  disk' \in Seq(Lines) /\ archive' \in [0..MaxTime -> Seq(Lines) \cup {NoFile}]
        BY <3>3, CutType, OverwriteType DEF TypeOK, CallsOK, CallOK
      <3> QED BY <1>11, <3>1, <3>2, <3>3 DEF Crash
    <2>2. TypeOK'
      <3>1. /\ pc' = [h \in Handlers |-> "idle"] /\ req' = [h \in Handlers |-> NoFile]
            /\ data' = [h \in Handlers |-> NoFile] /\ content' = [h \in Handlers |-> NoFile]
            /\ name' = [h \in Handlers |-> 0] /\ reply' = [h \in Handlers |-> "none"]
            /\ UNCHANGED <<clock, versions, calls, overlapped, reused>>
        BY <1>11 DEF Crash
      <3>2. cut' \in BOOLEAN
        <4>1. cut' = (cut \/ \E h \in Handlers : pc[h] \in {"copy", "write"})
          BY <1>11 DEF Crash
        <4> QED BY <4>1, Zenon
      <3>3. 0 \in 0..MaxTime
        BY BoundsAssumption
      <3> QED BY <2>1, <3>1, <3>2, <3>3 DEF TypeOK
    <2>3. CallsOK'
      BY <1>11 DEF Crash, CallsOK, CallOK
    <2> QED BY <2>2, <2>3
  <1>12. CASE UNCHANGED vars
    BY <1>12 DEF vars, callVars, historyVars, TypeOK, CallsOK, CallOK
  <1> QED
    BY <1>1, <1>2, <1>3, <1>5, <1>6, <1>7, <1>8, <1>9, <1>10, <1>11, <1>12 DEF Next, Configure

\* The types of the variables are invariant: the configuration file, and every
\* backup, is a sequence of lines at every moment of every call.
THEOREM TypeCorrect ==
    ASSUME RewriteOK
    PROVE  Spec => []TypeOK
  <1>1. TypeInv /\ [Next]_vars => TypeInv'
    BY TypeNext
  <1> QED
    BY <1>1, TypeInit, PTL DEF Spec, TypeInv
-----------------------------------------------------------------------------
(* The backups. *)

\* A content is safe in a backup nobody is writing.
Safe(v) ==
    \E s \in 0..MaxTime : /\ archive[s] = v
                          /\ \A g \in Handlers : pc[g] = "copy" => name[g] # s

\* While no name is reused, a backup being written is empty and has one writer.
OneWriter ==
    /\ \A h \in Handlers : pc[h] = "copy" => archive[name[h]] = << >>
    /\ \A g, h \in Handlers : pc[g] = "copy" /\ pc[h] = "copy" /\ name[g] = name[h] => g = h

\* Nothing has been written yet, and who is about to write read the original.
Untouched ==
    /\ disk = Original
    /\ \A h \in Handlers :
          /\ pc[h] \notin {"open", "write"}
          /\ pc[h] \in {"backup", "copy"} => data[h] = Original

BackupInv == ~reused => OneWriter /\ (Safe(Original) \/ Untouched)

\* No name is reused by a step that leaves "reused" false; what is safe stays so.
LEMMA SafeNext ==
    ASSUME TypeInv, ~reused => OneWriter, [Next]_vars, ~reused',
           NEW v \in Seq(Lines), Safe(v)
    PROVE  Safe(v)'
  <1> USE DEF TypeInv
  <1>1. PICK s \in 0..MaxTime : archive[s] = v /\ \A g \in Handlers : pc[g] = "copy" => name[g] # s
    BY DEF Safe
  <1>2. ASSUME NEW h \in Handlers, BackupOpens(h) PROVE Safe(v)'
    <2>1. archive[clock] = NoFile /\ clock \in 0..MaxTime
      BY <1>2 DEF BackupOpens, TypeOK
    <2>2. clock # s
      BY <1>1, <2>1, ContentsAssumption
    <2>3. archive'[s] = v
      BY <1>1, <1>2, <2>2 DEF BackupOpens, TypeOK
    <2>4. \A g \in Handlers : pc'[g] = "copy" => name'[g] # s
      BY <1>1, <1>2, <2>2 DEF BackupOpens, TypeOK
    <2> QED BY <2>3, <2>4 DEF Safe
  <1>3. ASSUME NEW h \in Handlers, pc[h] = "copy", NEW c,
               archive' = [archive EXCEPT ![name[h]] = c]
        PROVE  archive'[s] = v
    BY <1>1, <1>3 DEF TypeOK
  <1>4. ASSUME archive'[s] = v,
               \A g \in Handlers : pc'[g] = "copy" => pc[g] = "copy" /\ name'[g] = name[g]
        PROVE  Safe(v)'
    BY <1>1, <1>4 DEF Safe
  <1>5. ASSUME NEW h \in Handlers, NEW q \in Requests, Begin(h, q) PROVE Safe(v)'
    BY <1>1, <1>4, <1>5 DEF Begin, TypeOK
  <1>6. ASSUME NEW h \in Handlers, Read(h) PROVE Safe(v)'
    BY <1>1, <1>4, <1>6 DEF Read, TypeOK
  <1>7. ASSUME NEW h \in Handlers, BackupWrites(h) \/ FailCopy(h) PROVE Safe(v)'
    BY <1>3, <1>4, <1>7 DEF BackupWrites, FailCopy, TypeOK
  <1>8. ASSUME NEW h \in Handlers, WriteOpens(h) \/ WriteWrites(h) \/ FailWrite(h) \/ Fail(h)
        PROVE  Safe(v)'
    BY <1>1, <1>4, <1>8 DEF WriteOpens, WriteWrites, FailWrite, Fail, TypeOK
  <1>9. ASSUME NEW h \in Handlers, Return(h) PROVE Safe(v)'
    BY <1>1, <1>4, <1>9 DEF Return, TypeOK
  <1>10. CASE Tick \/ UNCHANGED vars
    BY <1>1, <1>4, <1>10 DEF Tick, vars, callVars
  <1>11. CASE Crash
    <2>1. archive'[s] = v
      BY <1>1, <1>3, <1>11 DEF Crash
    <2> QED BY <1>4, <1>11, <2>1 DEF Crash
  <1> QED
    BY <1>2, <1>5, <1>6, <1>7, <1>8, <1>9, <1>10, <1>11 DEF Next, Configure

\* While no name is reused, no two calls write one backup.
LEMMA OneWriterNext ==
    ASSUME TypeInv, OneWriter, [Next]_vars, ~reused'
    PROVE  OneWriter'
  <1> USE DEF TypeInv
  <1>1. ASSUME NEW h \in Handlers, BackupOpens(h) PROVE OneWriter'
    <2>1. archive[clock] = NoFile /\ clock \in 0..MaxTime /\ << >> # NoFile
      <3>1. << >> \in Seq(Lines)
        OBVIOUS
      <3>2. << >> # NoFile
        BY <3>1, ContentsAssumption
      <3> QED BY <1>1, <3>2 DEF BackupOpens, TypeOK
    <2>2. \A g \in Handlers : pc[g] = "copy" => name[g] # clock
      BY <2>1 DEF OneWriter
    <2> QED BY <1>1, <2>1, <2>2 DEF OneWriter, BackupOpens, TypeOK
  <1>2. ASSUME NEW h \in Handlers, BackupWrites(h) \/ FailCopy(h) PROVE OneWriter'
    <2>1. pc[h] = "copy" /\ name' = name /\ pc'[h] # "copy"
      BY <1>2 DEF BackupWrites, FailCopy, TypeOK
    <2>2. \A g \in Handlers \ {h} : pc'[g] = pc[g]
      BY <1>2 DEF BackupWrites, FailCopy, TypeOK
    <2>3. \A g \in Handlers \ {h} : pc[g] = "copy" => archive'[name[g]] = archive[name[g]]
      BY <1>2, <2>1 DEF BackupWrites, FailCopy, OneWriter, TypeOK
    <2> QED BY <2>1, <2>2, <2>3 DEF OneWriter
  <1>3. ASSUME archive' = archive,
               \A g \in Handlers : pc'[g] = "copy" => pc[g] = "copy" /\ name'[g] = name[g]
        PROVE  OneWriter'
    BY <1>3 DEF OneWriter
  <1>4. ASSUME NEW h \in Handlers, NEW q \in Requests, Begin(h, q) PROVE OneWriter'
    BY <1>3, <1>4 DEF Begin, TypeOK
  <1>5. ASSUME NEW h \in Handlers, Read(h) PROVE OneWriter'
    BY <1>3, <1>5 DEF Read, TypeOK
  <1>6. ASSUME NEW h \in Handlers, WriteOpens(h) \/ WriteWrites(h) \/ FailWrite(h) \/ Fail(h)
        PROVE  OneWriter'
    BY <1>3, <1>6 DEF WriteOpens, WriteWrites, FailWrite, Fail, TypeOK
  <1>7. ASSUME NEW h \in Handlers, Return(h) PROVE OneWriter'
    BY <1>3, <1>7 DEF Return, TypeOK
  <1>8. CASE Tick \/ UNCHANGED vars
    BY <1>3, <1>8 DEF Tick, vars, callVars
  <1>9. CASE Crash
    BY <1>9 DEF Crash, OneWriter
  <1> QED
    BY <1>1, <1>2, <1>4, <1>5, <1>6, <1>7, <1>8, <1>9 DEF Next, Configure

\* A backup that has been written holds what its call read.
LEMMA BackupHolds ==
    ASSUME TypeInv, OneWriter, NEW h \in Handlers, BackupWrites(h)
    PROVE  Safe(data[h])'
  <1>1. /\ pc[h] = "copy" /\ name[h] \in 0..MaxTime /\ data[h] \in Seq(Lines)
        /\ archive[name[h]] = << >>
    BY DEF TypeInv, TypeOK, CallsOK, CallOK, BackupWrites, OneWriter
  <1>2. archive'[name[h]] = data[h] /\ data'[h] = data[h]
    <2>1. archive'[name[h]] = Overwrite(<< >>, data[h])
      BY <1>1 DEF BackupWrites, TypeInv, TypeOK
    <2> QED BY <1>1, <2>1, OverwriteEmpty DEF BackupWrites
  <1>3. \A g \in Handlers : pc'[g] = "copy" => name'[g] # name[h]
    BY <1>1 DEF BackupWrites, TypeInv, TypeOK, OneWriter
  <1> QED
    BY <1>1, <1>2, <1>3 DEF Safe

\* The first call to write the file has a backup of the original.
LEMMA UntouchedNext ==
    ASSUME TypeInv, OneWriter, Untouched, [Next]_vars
    PROVE  Safe(Original)' \/ Untouched'
  <1> USE DEF TypeInv
  <1>1. ASSUME NEW h \in Handlers, BackupWrites(h) PROVE Safe(Original)'
    <2>1. data[h] = Original /\ data' = data
      BY <1>1 DEF BackupWrites, Untouched
    <2>2. Safe(data[h])'
      BY <1>1, BackupHolds
    <2> QED BY <2>1, <2>2 DEF Safe
  <1>2. ASSUME NEW h \in Handlers,
               \/ Read(h) \/ BackupOpens(h) \/ WriteOpens(h) \/ WriteWrites(h)
               \/ Fail(h) \/ FailCopy(h) \/ FailWrite(h) \/ Return(h)
        PROVE  Untouched'
    BY <1>2 DEF Untouched, TypeOK, Read, BackupOpens, WriteOpens, WriteWrites, Fail,
       FailCopy, FailWrite, Return
  <1>3. ASSUME NEW h \in Handlers, NEW q \in Requests, Begin(h, q) PROVE Untouched'
    BY <1>3 DEF Untouched, TypeOK, Begin
  <1>4. CASE Tick \/ UNCHANGED vars
    BY <1>4 DEF Untouched, Tick, vars, callVars
  <1>5. CASE Crash
    BY <1>5 DEF Untouched, Crash
  <1> QED
    BY <1>1, <1>2, <1>3, <1>4, <1>5 DEF Next, Configure

\* The history only grows.
LEMMA HistoryGrows ==
    ASSUME [Next]_vars
    PROVE  (reused => reused') /\ (overlapped => overlapped')
  <1>1. ASSUME NEW h \in Handlers, Configure(h)
        PROVE  (reused => reused') /\ overlapped' = overlapped
    <2>1. CASE BackupOpens(h)
      BY <2>1 DEF BackupOpens
    <2>2. CASE ~BackupOpens(h)
      BY <1>1, <2>2 DEF Configure, Read, BackupWrites, WriteOpens, WriteWrites,
         Fail, FailCopy, FailWrite, Return, historyVars
    <2> QED BY <2>1, <2>2
  <1>2. ASSUME NEW h \in Handlers, NEW q \in Requests, Begin(h, q)
        PROVE  reused' = reused /\ (overlapped => overlapped')
    BY <1>2 DEF Begin
  <1>3. CASE Tick \/ Crash \/ UNCHANGED vars
    BY <1>3 DEF Tick, Crash, vars, historyVars
  <1> QED
    BY <1>1, <1>2, <1>3 DEF Next

\* Every step keeps the state of the backups.
LEMMA BackupNext ==
    ASSUME TypeInv, BackupInv, [Next]_vars
    PROVE  BackupInv'
  <1> SUFFICES ASSUME ~reused' PROVE OneWriter' /\ (Safe(Original)' \/ Untouched')
    BY DEF BackupInv, Safe
  <1>1. ~reused /\ OneWriter /\ (Safe(Original) \/ Untouched)
    BY HistoryGrows DEF BackupInv
  <1>2. OneWriter'
    BY <1>1, OneWriterNext
  <1>3. Safe(Original)' \/ Untouched'
    BY <1>1, SafeNext, UntouchedNext, ContentsAssumption
  <1> QED
    BY <1>2, <1>3

\* However calls overlap, fail or are killed, the file as it was before the
\* daemon changed it is there, or in a backup, if no backup name is reused.
THEOREM Recoverable ==
    ASSUME RewriteOK
    PROVE  Spec => []OriginalRecoverable
  <1>1. Init => BackupInv
    BY DEF Init, BackupInv, OneWriter, Untouched
  <1>2. TypeInv /\ BackupInv /\ [Next]_vars => TypeInv' /\ BackupInv'
    BY TypeNext, BackupNext
  <1>3. BackupInv => OriginalRecoverable
    BY DEF BackupInv, OriginalRecoverable, Safe, Untouched
  <1> QED
    BY <1>1, <1>2, <1>3, TypeInit, PTL DEF Spec

-----------------------------------------------------------------------------
(* Calls that do not overlap. *)

Alone == \A g, h \in Handlers : pc[g] # "idle" /\ pc[h] # "idle" => g = h

\* Where the versions are at each step of the only call in flight.
VersionsOK ==
    /\ \A v \in versions : disk = v \/ Safe(v)
    /\ \A h \in Handlers :
          /\ pc[h] \in {"backup", "copy", "open"} => data[h] = disk
          /\ pc[h] = "open" => Safe(disk)
          /\ pc[h] = "write" => disk = << >> /\ \A v \in versions : Safe(v)
          /\ reply[h] = "new" => disk = content[h]

VersionsInv == ~reused /\ ~overlapped => Alone /\ VersionsOK

\* A step of a call that writes no file keeps the versions where they are.
LEMMA VersionsFrame ==
    ASSUME VersionsOK, disk' = disk, versions' = versions,
           \A v \in versions \cup {disk} : Safe(v) => Safe(v)',
           NEW h \in Handlers,
           \A g \in Handlers \ {h} : pc'[g] = "idle" /\ reply'[g] # "new",
           pc'[h] \in {"backup", "copy", "open"} => data'[h] = disk,
           pc'[h] = "open" => Safe(disk)',
           pc'[h] # "write",
           reply'[h] # "new"
    PROVE  VersionsOK'
  <1>1. Safe(disk)' <=> \E s \in 0..MaxTime : /\ archive'[s] = disk
                                              /\ \A g \in Handlers : pc'[g] = "copy" => name'[g] # s
    BY DEF Safe
  <1>2. \A v \in versions' : disk' = v \/ Safe(v)'
    BY DEF VersionsOK
  <1> QED
    BY <1>2 DEF VersionsOK, Safe

\* Every step keeps the versions clients configured, while calls do not overlap.
LEMMA VersionsNext ==
    ASSUME RewriteOK, TypeInv, BackupInv, VersionsInv, [Next]_vars
    PROVE  VersionsInv'
  <1> SUFFICES ASSUME ~reused', ~overlapped' PROVE Alone' /\ VersionsOK'
    BY DEF VersionsInv
  <1>1. ~reused /\ ~overlapped /\ OneWriter /\ Alone /\ VersionsOK
    BY HistoryGrows DEF VersionsInv, BackupInv
  <1>2. \A v \in Seq(Lines) : Safe(v) => Safe(v)'
    BY <1>1, SafeNext
  <1>3. \A v \in versions \cup {disk} : v \in Seq(Lines) /\ (Safe(v) => Safe(v)')
    BY <1>2 DEF TypeInv, TypeOK
  <1>4. ASSUME NEW h \in Handlers, Configure(h) PROVE Alone' /\ VersionsOK'
    <2>1. pc[h] # "idle" /\ \A g \in Handlers \ {h} : pc[g] = "idle" /\ reply[g] = "none"
      BY <1>1, <1>4 DEF Configure, Read, BackupOpens, BackupWrites, WriteOpens, WriteWrites,
         Fail, FailCopy, FailWrite, Return, Alone, TypeInv, CallsOK, CallOK
    <2>2. \A g \in Handlers \ {h} : pc'[g] = "idle" /\ reply'[g] = "none"
      BY <1>4, <2>1 DEF Configure, Read, BackupOpens, BackupWrites, WriteOpens, WriteWrites,
         Fail, FailCopy, FailWrite, Return, TypeInv, TypeOK
    <2>3. Alone'
      BY <2>2 DEF Alone
    <2>4. CASE Read(h) \/ BackupOpens(h) \/ Fail(h) \/ FailCopy(h)
      <3>1. disk' = disk /\ versions' = versions
        BY <2>4 DEF Read, BackupOpens, Fail, FailCopy, historyVars
      <3>2. pc'[h] \in {"backup", "copy", "done"} /\ reply'[h] # "new"
        BY <2>1, <2>4 DEF Read, BackupOpens, Fail, FailCopy, TypeInv, TypeOK, CallsOK, CallOK
      <3>3. pc'[h] \in {"backup", "copy"} => data'[h] = disk
        BY <1>1, <2>4 DEF Read, BackupOpens, Fail, FailCopy, TypeInv, TypeOK, VersionsOK
      <3> QED BY <1>1, <1>3, <2>2, <2>3, <3>1, <3>2, <3>3, VersionsFrame
    <2>5. CASE BackupWrites(h)
      <3>1. /\ disk' = disk /\ versions' = versions /\ data' = data
            /\ pc'[h] = "open" /\ reply'[h] = "none" /\ data[h] = disk
        BY <1>1, <2>5 DEF BackupWrites, historyVars, TypeInv, TypeOK, CallsOK, CallOK, VersionsOK
      <3>2. Safe(disk)'
        <4>1. Safe(data[h])'
          BY <1>1, <2>5, BackupHolds
        <4> QED BY <3>1, <4>1 DEF Safe
      <3> QED BY <1>1, <1>3, <2>2, <2>3, <3>1, <3>2, VersionsFrame
    <2>6. CASE WriteOpens(h)
      <3>1. disk' = << >> /\ versions' = versions /\ pc'[h] = "write" /\ reply'[h] = "none"
        BY <2>6 DEF WriteOpens, historyVars, TypeInv, TypeOK, CallsOK, CallOK
      <3>2. \A v \in versions : Safe(v)
        BY <1>1, <2>6 DEF WriteOpens, VersionsOK
      <3>3. \A v \in versions' : Safe(v)'
        BY <1>3, <3>1, <3>2
      <3> QED BY <2>2, <2>3, <3>1, <3>3 DEF VersionsOK
    <2>7. CASE WriteWrites(h) \/ FailWrite(h)
      <3>1. versions' = versions /\ pc'[h] = "done" /\ content' = content
        BY <2>7 DEF WriteWrites, FailWrite, historyVars, TypeInv, TypeOK
      <3>2. \A v \in versions' : Safe(v)'
        BY <1>1, <1>3, <2>7, <3>1 DEF WriteWrites, FailWrite, VersionsOK
      <3>3. reply'[h] = "new" => disk' = content[h]
        <4>1. CASE WriteWrites(h)
          <5>1. disk = << >> /\ content[h] \in Seq(Lines)
            BY <1>1, <4>1 DEF WriteWrites, VersionsOK, TypeInv, CallsOK, CallOK
          <5> QED BY <4>1, <5>1, OverwriteEmpty DEF WriteWrites
        <4>2. CASE FailWrite(h)
          BY <4>2 DEF FailWrite, TypeInv, TypeOK
        <4> QED BY <2>7, <4>1, <4>2
      <3> QED BY <2>2, <2>3, <3>1, <3>2, <3>3 DEF VersionsOK
    <2>8. CASE Return(h)
      <3>1. disk' = disk /\ pc'[h] = "idle" /\ reply'[h] = "none"
        BY <2>8 DEF Return, TypeInv, TypeOK
      <3>2. versions' \subseteq versions \cup {disk}
        BY <1>1, <2>8 DEF Return, VersionsOK
      <3>3. \A v \in versions' : disk' = v \/ Safe(v)'
        BY <1>1, <1>3, <3>1, <3>2 DEF VersionsOK
      <3> QED BY <2>2, <2>3, <3>1, <3>3 DEF VersionsOK
    <2> QED BY <1>4, <2>4, <2>5, <2>6, <2>7, <2>8 DEF Configure
  <1>5. ASSUME NEW h \in Handlers, NEW q \in Requests, Begin(h, q) PROVE Alone' /\ VersionsOK'
    <2>1. \A g \in Handlers : pc[g] = "idle" /\ reply[g] = "none"
      BY <1>5 DEF Begin, TypeInv, CallsOK, CallOK
    <2>2. /\ \A g \in Handlers \ {h} : pc'[g] = "idle" /\ reply'[g] = "none"
          /\ pc'[h] = "read" /\ reply'[h] = "none" /\ disk' = disk /\ versions' = versions
      BY <1>5, <2>1 DEF Begin, TypeInv, TypeOK
    <2>3. Alone'
      BY <2>2 DEF Alone
    <2> QED BY <1>1, <1>3, <2>2, <2>3, VersionsFrame
  <1>6. CASE Crash
    <2>1. \A g \in Handlers : pc'[g] = "idle" /\ reply'[g] = "none"
      BY <1>6 DEF Crash
    <2>2. \A v \in versions' : disk' = v \/ Safe(v)'
      BY <1>1, <1>3, <1>6 DEF Crash, VersionsOK
    <2> QED BY <2>1, <2>2 DEF Alone, VersionsOK
  <1>7. CASE Tick \/ UNCHANGED vars
    <2>1. /\ disk' = disk /\ versions' = versions /\ pc' = pc /\ data' = data
          /\ content' = content /\ reply' = reply
      BY <1>7 DEF Tick, vars, callVars, historyVars
    <2>2. archive' = archive /\ name' = name
      BY <1>7 DEF Tick, vars, callVars
    <2> QED BY <1>1, <2>1, <2>2 DEF Alone, VersionsOK, Safe
  <1> QED
    BY <1>4, <1>5, <1>6, <1>7 DEF Next

\* Calls that do not overlap lose none of the contents clients configured, even
\* if they fail or are killed, if no backup name is reused.
THEOREM NothingLost ==
    ASSUME RewriteOK
    PROVE  Spec => []VersionsRecoverable
  <1>1. Init => BackupInv /\ VersionsInv
    BY DEF Init, BackupInv, OneWriter, Untouched, VersionsInv, Alone, VersionsOK
  <1>2. TypeInv /\ BackupInv /\ VersionsInv /\ [Next]_vars => TypeInv' /\ BackupInv' /\ VersionsInv'
    BY TypeNext, BackupNext, VersionsNext
  <1>3. VersionsInv => VersionsRecoverable
    BY DEF VersionsInv, VersionsOK, VersionsRecoverable, Safe
  <1> QED
    BY <1>1, <1>2, <1>3, TypeInit, PTL DEF Spec
=============================================================================
