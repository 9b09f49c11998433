-------------------------------- MODULE PgHba ---------------------------------
(***************************************************************************)
(* The rules of a pg_hba.conf file, as internal/pghba reads and appends    *)
(* them.  A column of a rule is the sequence of its words: one, as a rule; *)
(* none, when the client leaves it empty; two, when it is a quoted name    *)
(* with a space.  No word contains "#".                                    *)
(***************************************************************************)
EXTENDS Integers, Sequences, SequencesExt

CONSTANTS
    HbaWords,    \* what rules are made of
    NoAddress    \* the request has no address

HbaTypes == {"UNSPECIFIED", "LOCAL", "HOST"}

ASSUME WordsAssumption == {"local", "host", "unspecified"} \subseteq HbaWords

\* What a request may ask for.
Rule == [type : HbaTypes, database : Seq(HbaWords), users : Seq(HbaWords),
         address : Seq(HbaWords) \cup {NoAddress}, method : Seq(HbaWords),
         options : Seq(HbaWords)]

\* A line of the file: its fields once the comment is stripped, and whether
\* there was one.  The last line may lack its newline.
HbaLine == [words : Seq(HbaWords), comment : BOOLEAN]
HbaFile == [lines : Seq(HbaLine), ended : BOOLEAN]

TypeColumn(type) ==
    CASE type = "LOCAL" -> <<"local">> [] type = "HOST" -> <<"host">> [] OTHER -> <<"unspecified">>

\* columns: an absent method is skipped, an absent database or user is not.
Columns(q) ==
    <<TypeColumn(q.type), q.database, q.users>>
      \o (IF q.type # "LOCAL" /\ q.address # NoAddress THEN <<q.address>> ELSE << >>)
      \o (IF q.method # << >> THEN <<q.method>> ELSE << >>)
      \o [i \in DOMAIN q.options |-> <<q.options[i]>>]

EqualColumns(got, want) ==
    Len(got) = Len(want) /\ \A i \in DOMAIN got : <<got[i]>> = want[i]

\* Mutant: only the last line is looked at.
LastLineContains(file, want) ==
    file.lines # << >> /\ EqualColumns(Last(file.lines).words, want)

\* containsColumns.
ContainsColumns(file, want) ==
    \E i \in DOMAIN file.lines :
        file.lines[i].words # << >> /\ EqualColumns(file.lines[i].words, want)

\* The columns joined with tabs: what a reader of the file makes of them.
RuleWords(q) == FlattenSeq(Columns(q))

\* Mutant: the newline is taken to be there.
EndLineUnchecked(file) == file

\* The newline appendLine adds when the last line has none.
EndLine(file) == [file EXCEPT !.ended = TRUE]

\* What follows an unfinished line becomes part of it, or of its comment.
WriteLine(file, words) ==
    IF file.ended \/ file.lines = << >>
    THEN [lines |-> Append(file.lines, [words |-> words, comment |-> FALSE]), ended |-> TRUE]
    ELSE [lines |-> [file.lines EXCEPT ![Len(file.lines)].words =
                        IF file.lines[Len(file.lines)].comment THEN @ ELSE @ \o words],
          ended |-> TRUE]

\* Configure.
ConfigureRules(file, q) ==
    IF ContainsColumns(file, Columns(q))
    THEN [status |-> "kept", content |-> file]
    ELSE [status |-> "new", content |-> WriteLine(EndLine(file), RuleWords(q))]
=============================================================================
