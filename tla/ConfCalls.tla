------------------------------ MODULE ConfCalls -------------------------------
(***************************************************************************)
(* ConfigureKeyValueConf, ConfigureGetKeyValue and ConfigurePgHbaConf, one *)
(* call at a time, on one key/value file and one pg_hba.conf: what the     *)
(* lines of the files become.  ConfFiles models the reading, the backup    *)
(* and the writing, and calls that overlap.                                *)
(***************************************************************************)
EXTENDS KeyValue, PgHba

CONSTANTS
    ConfFiles0,   \* what the key/value file may hold at first
    HbaFiles0,    \* what pg_hba.conf may hold at first
    Requests,     \* the ConfigureKeyValueConf requests
    Rules,        \* the ConfigurePgHbaConf requests
    MaxLines      \* bound: a file with as many lines is not added to

ASSUME FilesAssumption == ConfFiles0 \subseteq Seq(Line) /\ HbaFiles0 \subseteq HbaFile

ASSUME RequestsAssumption ==
    Requests \subseteq [type : ConfTypes, entries : Seq(Entry)]

ASSUME RulesAssumption == Rules \subseteq Rule

VARIABLES
    kind,    \* which of the two the file is
    file,    \* its content: lines, or an HbaFile
    call     \* the last call: [req, status]

vars == <<kind, file, call>>

Init ==
    /\ \/ kind = "keyvalue" /\ file \in ConfFiles0
       \/ kind = "pghba" /\ file \in HbaFiles0
    /\ call = [req |-> "none", status |-> "none"]

ConfigureKeyValueConf(q) ==
    /\ kind = "keyvalue"
    /\ Len(file) < MaxLines
    /\ file' = ConfigureLines(file, q).content
    /\ call' = [req |-> q, status |-> ConfigureLines(file, q).status]
    /\ UNCHANGED kind

ConfigurePgHbaConf(q) ==
    /\ kind = "pghba"
    /\ Len(file.lines) < MaxLines
    /\ file' = ConfigureRules(file, q).content
    /\ call' = [req |-> q, status |-> ConfigureRules(file, q).status]
    /\ UNCHANGED kind

Next ==
    \/ \E q \in Requests : ConfigureKeyValueConf(q)
    \/ \E q \in Rules : ConfigurePgHbaConf(q)

Spec == Init /\ [][Next]_vars

-----------------------------------------------------------------------------
(* Properties of the key/value file. *)

\* The files are sequences of lines.
TypeOK ==
    /\ kind = "keyvalue" => file \in Seq(Line)
    /\ kind = "pghba" => file \in HbaFile
    /\ call.status \in {"none", "refused", "kept", "new"}

IsKeyValueCall == kind = "keyvalue"

\* An entry that can be read back under the format it is written in.
Readable(type, e) ==
    /\ type # "UNSPECIFIED"
    /\ ~(type = "SPACE" /\ e.type = "NUMBER" /\ Trim[e.text] = "")

AllReadable(q) == \A i \in DOMAIN q.entries : Readable(q.type, q.entries[i])

\* What Get returns of an entry: white space at its ends is lost.
ReadBack(e) == [type |-> IF e.type = "NUMBER" THEN "NUMBER" ELSE "STRING", text |-> Trim[e.text]]

\* A call keeps every line of the file, comments included, in its order, but
\* for empty lines at the end; the other lines are settings it was asked for,
\* and an answer is_new=false, or an error, leaves the file as it was.
KeepsLines ==
    IsKeyValueCall =>
        \/ file' = file /\ call'.status \in {"kept", "refused"}
        \/ /\ call'.status = "new" /\ Len(file') > Len(SplitLines(file))
           /\ \E S \in kSubset(Len(SplitLines(file)), DOMAIN file') :
                /\ \A i \in S : file'[i] = file[Cardinality({j \in S : j =< i})]
                /\ \A i \in DOMAIN file' \ S : \E n \in DOMAIN call'.req.entries :
                      file'[i] = FormatLine(call'.req.type, call'.req.entries[n])

\* No call of ConfigureKeyValueConf loses, moves or edits a line that is there.
LinesKept == [][KeepsLines]_vars

\* "If the key is already set on an active line, that key is left unchanged"
\* (README.md:342): what a client reads for a key, in the format of the call,
\* is never changed by the call, wherever the new lines are inserted.
KeepsSetKeys ==
    IsKeyValueCall => \A k \in Words :
        LET was == GetKeyValue(file, call'.req.type, k)
        IN  was # NotFound => GetKeyValue(file', call'.req.type, k) = was

\* No call of ConfigureKeyValueConf changes what a key that is set reads as.
SetKeysKept == [][KeepsSetKeys]_vars

\* A request that succeeds leaves each of its keys set: a key that was missing
\* reads as the first entry of the request for it, with its type.
SetsMissingKeys ==
    IsKeyValueCall /\ call'.status # "refused" /\ AllReadable(call'.req) =>
        \A i \in DOMAIN call'.req.entries :
            LET q == call'.req
                key == q.entries[i].key
                first == Min({j \in DOMAIN q.entries : q.entries[j].key = key})
            IN  GetKeyValue(file, q.type, key) = NotFound =>
                    GetKeyValue(file', q.type, key) = ReadBack(q.entries[first])

\* What ConfigureKeyValueConf has added, ConfigureGetKeyValue returns.
EntriesReadBack == [][SetsMissingKeys]_vars

\* Asking for the same once more finds every key set and adds nothing.
RepeatAddsNothing ==
    kind = "keyvalue" => \A q \in Requests : AllReadable(q) =>
        ConfigureLines(ConfigureLines(file, q).content, q).status # "new"

\* "inserts the new line immediately after that comment. Otherwise, it appends
\* the new line to the bottom of the file" (README.md:342), of however many
\* keys one request adds.
PlacesByComment ==
    IsKeyValueCall /\ call'.status = "new" /\ AllReadable(call'.req) =>
        \A k \in {call'.req.entries[i].key : i \in DOMAIN call'.req.entries} :
            FindActive(file, call'.req.type, k) = {} =>
                LET new == Min(FindActive(file', call'.req.type, k))
                    comments == FindComment(file', k)
                IN  IF comments # {}
                    THEN new = Max(comments) + 1
                    ELSE \A i \in new..Len(file') : i = new \/
                            \E n \in DOMAIN call'.req.entries :
                                file'[i] = FormatLine(call'.req.type, call'.req.entries[n])

\* Every line a call adds stands where the README says it goes.
PlacedByComment == [][PlacesByComment]_vars

-----------------------------------------------------------------------------
(* Properties of pg_hba.conf. *)

IsPgHbaCall == kind = "pghba"

\* A rule each column of which is one word.
IsPlain(q) == \A i \in DOMAIN Columns(q) : Len(Columns(q)[i]) = 1

\* How often the file holds a rule.
Times(content, q) == Cardinality({i \in DOMAIN content.lines : content.lines[i].words = RuleWords(q)})

\* PostgreSQL obeys the first rule that matches a connection: the rules and
\* comments of the file keep their text and their place, and a new rule comes
\* after them all, on a line of its own.
KeepsRules ==
    IsPgHbaCall => /\ IsPrefix(file.lines, file'.lines)
                   /\ Times(file', call'.req) >= 1
                   /\ call'.status = "kept" => file' = file

\* No call of ConfigurePgHbaConf touches the rules that come before its own.
EarlierRulesFirst == [][KeepsRules]_vars

\* A rule of plain columns is added once, however often it is asked for and
\* whatever else is added in between.
AddsPlainRuleOnce ==
    IsPgHbaCall /\ IsPlain(call'.req) =>
        Times(file', call'.req) = IF Times(file, call'.req) = 0 THEN 1
                                 ELSE Times(file, call'.req)

\* No call adds a rule of plain columns that the file holds.
PlainRuleOnce == [][AddsPlainRuleOnce]_vars

\* "checks whether a matching row already exists. Existing rows return
\* is_valid=true and is_new=false" (README.md:316): a row the file holds, as a
\* reader of the file sees it, is not new.
ExistingRowNotNew ==
    [][IsPgHbaCall /\ Times(file, call'.req) > 0 => call'.status # "new"]_vars
=============================================================================
