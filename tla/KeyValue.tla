------------------------------- MODULE KeyValue -------------------------------
(***************************************************************************)
(* The lines of a key/value configuration file, as internal/keyvalue reads *)
(* and rewrites them.                                                      *)
(*                                                                         *)
(* A line is abstracted to what the parser tells apart.  Keys are words:   *)
(* without white space or delimiter, and not starting with "#"; a value    *)
(* written as a NUMBER does not start with a quote.  The code checks none  *)
(* of this.                                                                *)
(***************************************************************************)
EXTENDS Integers, Sequences, FiniteSets, FiniteSetsExt, SequencesExt

CONSTANTS
    Words,   \* the keys, and the words comments begin with
    Texts,   \* the values of the entries
    Trim     \* strings.TrimSpace on them

ASSUME TrimAssumption == Trim \in [Texts -> Texts] /\ \A t \in Texts : Trim[Trim[t]] = Trim[t]

ConfTypes == {"UNSPECIFIED", "SPACE", "EQUAL", "COLON"}
ValueTypes == {"UNSPECIFIED", "STRING", "NUMBER"}
Entry == [key : Words \cup {""}, text : Texts, type : ValueTypes]

\* What stands between the key and the value of a line.
Marks == {" ", " = ", "=", " : ", ":"}
Empty == [kind |-> "empty"]
Comment(w) == [kind |-> "comment", word |-> w]
Setting(w, mark, value) == [kind |-> "setting", word |-> w, mark |-> mark, value |-> value]
WrittenValues == [quoted : BOOLEAN, text : Texts]
Line == {Empty} \cup {Comment(w) : w \in Words}
          \cup {Setting(w, m, v) : w \in Words, m \in Marks, v \in WrittenValues}

\* splitLines drops the empty lines at the end of the file.
SplitLines(file) ==
    SubSeq(file, 1, CHOOSE n \in 0..Len(file) :
                        /\ n = 0 \/ file[n] # Empty
                        /\ \A i \in n + 1..Len(file) : file[i] = Empty)

\* Mutant: the key is compared with the white space before the delimiter.
ParsesUntrimmed(type, line) ==
    /\ line.kind = "setting"
    /\ \/ type = "EQUAL" /\ line.mark = "="
       \/ type = "COLON" /\ line.mark = ":"
       \/ type = "SPACE" /\ line.mark \in {" ", " = ", " : "}

\* parseLine, ok: under SPACE a spaced delimiter is a field like any other, and
\* a line needs two fields.
Parses(type, line) ==
    /\ line.kind = "setting"
    /\ \/ type = "EQUAL" /\ line.mark \in {" = ", "="}
       \/ type = "COLON" /\ line.mark \in {" : ", ":"}
       \/ type = "SPACE" /\ line.mark \in {" = ", " : "}
       \/ type = "SPACE" /\ line.mark = " " /\ (line.value.quoted \/ Trim[line.value.text] # "")

\* findActive: the lines that set a key.
FindActive(lines, type, key) ==
    {i \in DOMAIN lines : Parses(type, lines[i]) /\ lines[i].word = key}

FindComment(lines, key) == {i \in DOMAIN lines : lines[i] = Comment(key)}

\* Mutant: a value is quoted only when the request says STRING.
FormatLineAsked(type, e) ==
    Setting(e.key,
            CASE type = "EQUAL" -> " = " [] type = "COLON" -> " : " [] OTHER -> " ",
            [quoted |-> e.type = "STRING", text |-> e.text])

\* formatLine and formatValue.
FormatLine(type, e) ==
    Setting(e.key,
            CASE type = "EQUAL" -> " = " [] type = "COLON" -> " : " [] OTHER -> " ",
            [quoted |-> e.type # "NUMBER", text |-> e.text])

\* Mutant: copy moves one line too few, the line at index is overwritten.
OverwriteLine(lines, index, line) ==
    IF index =< Len(lines) THEN [lines EXCEPT ![index] = line] ELSE Append(lines, line)

\* Mutant: the line goes before the comment.
InsertLineBefore(lines, index, line) == InsertAt(lines, index - 1, line)

InsertLine(lines, index, line) == InsertAt(lines, index, line)

\* Mutant: an active line of the key is replaced.
ReplaceEntry(lines, type, e) ==
    IF FindActive(lines, type, e.key) # {}
    THEN [lines EXCEPT ![Min(FindActive(lines, type, e.key))] = FormatLine(type, e)]
    ELSE Append(lines, FormatLine(type, e))

\* One entry of a request: an active line of the key is left unchanged.
SetEntry(lines, type, e) ==
    CASE FindActive(lines, type, e.key) # {} -> lines
      [] FindActive(lines, type, e.key) = {} /\ FindComment(lines, e.key) # {} ->
            InsertLine(lines, Max(FindComment(lines, e.key)) + 1, FormatLine(type, e))
      [] OTHER -> Append(lines, FormatLine(type, e))

\* The loop of Configure: what the lines become, entry by entry.
SetEntries(lines, q) ==
    LET after[n \in 0..Len(q.entries)] ==
            IF n = 0 THEN lines ELSE SetEntry(after[n-1], q.type, q.entries[n])
    IN  after[Len(q.entries)]

\* Mutant: blank keys are not refused.
ConfigureUnchecked(file, q) ==
    LET lines == SetEntries(SplitLines(file), q)
    IN  IF Len(lines) = Len(SplitLines(file))
        THEN [status |-> "kept", content |-> file]
        ELSE [status |-> "new", content |-> lines]

\* Configure: a blank key fails the request; nothing is written unless an
\* entry was missing.
ConfigureLines(file, q) ==
    LET lines == SetEntries(SplitLines(file), q)
    IN  CASE \E i \in DOMAIN q.entries : q.entries[i].key = "" ->
                [status |-> "refused", content |-> file]
          [] (\A i \in DOMAIN q.entries : q.entries[i].key # "")
                /\ Len(lines) = Len(SplitLines(file)) ->
                [status |-> "kept", content |-> file]
          [] OTHER -> [status |-> "new", content |-> lines]

\* Get: what a setting reads as.  White space around a value is lost, inside
\* the quotes too; a spaced delimiter is part of a SPACE value.
Reading(type, line) ==
    IF type = "SPACE" /\ line.mark # " "
    THEN [type |-> "NUMBER", text |-> <<line.mark, line.value>>]
    ELSE [type |-> IF line.value.quoted THEN "STRING" ELSE "NUMBER",
          text |-> Trim[line.value.text]]

NotFound == [type |-> "UNSPECIFIED", text |-> ""]

GetKeyValue(file, type, key) ==
    LET lines == SplitLines(file)
        active == FindActive(lines, type, key)
    IN  IF active = {} THEN NotFound ELSE Reading(type, lines[Min(active)])
=============================================================================
