--------------------------- MODULE ConfCallsProofs ----------------------------
(* What the calls make of a key/value file and of pg_hba.conf, for any file, *)
(* any keys and values, and requests of any number of entries.               *)
EXTENDS ConfCalls, FiniteSetTheorems, TLAPS

Data == INSTANCE FoldTheorems WITH Op <- Append

-----------------------------------------------------------------------------
(* Numbers. *)

\* Some numbers have a least one.
LEMMA MinOf ==
    ASSUME NEW S \in SUBSET Nat, S # {}
    PROVE  Min(S) \in S /\ \A y \in S : Min(S) =< y
  BY Data!LeastNumber DEF Min

\* There is one least number.
LEMMA MinIs ==
    ASSUME NEW S \in SUBSET Nat, NEW x \in S, \A y \in S : x =< y
    PROVE  Min(S) = x
  <1>1. Min(S) \in S /\ \A y \in S : Min(S) =< y
    BY MinOf
  <1>2. Min(S) =< x /\ x =< Min(S) /\ Min(S) \in Nat /\ x \in Nat
    BY <1>1
  <1> QED BY <1>2

\* Some of the numbers up to n have a largest one.
LEMMA MaxOf ==
    ASSUME NEW n \in Nat, NEW S \in SUBSET (1..n), S # {}
    PROVE  Max(S) \in S /\ \A y \in S : Max(S) >= y
  <1>1. Data!Largest(S) \in S /\ \A y \in S : y =< Data!Largest(S)
    BY Data!LargestOf
  <1>2. Max(S) = Data!Largest(S)
    BY DEF Max, Data!Largest
  <1> QED BY <1>1, <1>2

\* There is one largest number.
LEMMA MaxIs ==
    ASSUME NEW n \in Nat, NEW S \in SUBSET (1..n), NEW x \in S, \A y \in S : x >= y
    PROVE  Max(S) = x
  <1>1. Max(S) \in S /\ \A y \in S : Max(S) >= y
    BY MaxOf
  <1>2. Max(S) \in 1..n /\ x \in 1..n
    BY <1>1
  <1>3. Max(S) >= x /\ x >= Max(S)
    BY <1>1
  <1> QED BY <1>2, <1>3

-----------------------------------------------------------------------------
(* Inserting a line. *)

\* Where a line goes when another one is put at position p.
Shift(p, i) == IF i < p THEN i ELSE i + 1

\* t is s with the line x put at position p.
Inserted(s, p, x, t) ==
    /\ p \in 1..(Len(s) + 1)
    /\ t \in Seq(Line) /\ Len(t) = Len(s) + 1
    /\ t[p] = x
    /\ \A i \in 1..Len(s) : t[Shift(p, i)] = s[i]

\* A line is new or was there before.
LEMMA InsertedIndex ==
    ASSUME NEW n \in Nat, NEW p \in 1..(n+1), NEW j \in 1..(n+1), j # p
    PROVE  \E i \in 1..n : j = Shift(p, i)
  <1>1. CASE j < p
    <2>1. j \in 1..n /\ j = Shift(p, j)
      BY <1>1 DEF Shift
    <2> QED BY <2>1
  <1>2. CASE j > p
    <2>1. j - 1 \in 1..n /\ j = Shift(p, j - 1)
      BY <1>2 DEF Shift
    <2> QED BY <2>1
  <1> QED BY <1>1, <1>2

\* Positions keep their order and stay apart from p.
LEMMA ShiftOrder ==
    ASSUME NEW n \in Nat, NEW p \in 1..(n+1)
    PROVE  /\ \A i \in 1..n : Shift(p, i) \in 1..(n+1) /\ Shift(p, i) # p
           /\ \A i, j \in 1..n : i < j => Shift(p, i) < Shift(p, j)
  BY DEF Shift

\* The elements of one sequence after those of another.
LEMMA Concatenated ==
    ASSUME NEW S, NEW c \in Seq(S), NEW b \in Seq(S)
    PROVE  /\ c \o b \in Seq(S) /\ Len(c \o b) = Len(c) + Len(b)
           /\ \A i \in 1..Len(c) : (c \o b)[i] = c[i]
           /\ \A i \in 1..Len(b) : (c \o b)[Len(c) + i] = b[i]
  OBVIOUS

\* InsertAt of the community modules.
LEMMA InsertAtIs ==
    ASSUME NEW s \in Seq(Line), NEW x \in Line, NEW p \in 1..(Len(s) + 1)
    PROVE  Inserted(s, p, x, InsertAt(s, p, x))
  <1> DEFINE a == SubSeq(s, 1, p - 1)
             b == SubSeq(s, p, Len(s))
             t == InsertAt(s, p, x)
  <1>1. a \in Seq(Line) /\ Len(a) = p - 1 /\ \A i \in 1..(p-1) : a[i] = s[i]
    OBVIOUS
  <1>2. b \in Seq(Line) /\ Len(b) = Len(s) - p + 1 /\ \A i \in 1..(Len(s)-p+1) : b[i] = s[p+i-1]
    OBVIOUS
  <1>3. t = (a \o <<x>>) \o b
    BY DEF InsertAt
  <1> HIDE DEF a, b, t
  <1> DEFINE c == a \o <<x>>
  <1>4. /\ c \in Seq(Line) /\ Len(c) = p /\ c[p] = x
        /\ \A i \in 1..(p-1) : c[i] = a[i]
    BY <1>1
  <1>5. t = c \o b
    BY <1>3
  <1> HIDE DEF c
  <1>6. /\ t \in Seq(Line) /\ Len(t) = Len(s) + 1
        /\ \A i \in 1..p : t[i] = c[i]
        /\ \A i \in 1..(Len(s)-p+1) : t[p+i] = b[i]
    <2>1. /\ t \in Seq(Line) /\ Len(t) = Len(c) + Len(b)
          /\ \A i \in 1..Len(c) : t[i] = c[i]
          /\ \A i \in 1..Len(b) : t[Len(c) + i] = b[i]
      BY <1>2, <1>4, <1>5, Concatenated
    <2>2. Len(c) = p /\ Len(b) = Len(s) - p + 1
      BY <1>2, <1>4
    <2> QED BY <2>1, <2>2
  <1>7. t[p] = x
    BY <1>4, <1>6
  <1>8. ASSUME NEW i \in 1..Len(s)
        PROVE  t[Shift(p, i)] = s[i]
    <2>1. CASE i < p
      <3>1. i \in 1..(p-1) /\ i \in 1..p /\ Shift(p, i) = i
        BY <2>1 DEF Shift
      <3> QED BY <3>1, <1>1, <1>4, <1>6
    <2>2. CASE i >= p
      <3>1. i - p + 1 \in 1..(Len(s)-p+1) /\ p + (i - p + 1) = i + 1 /\ p + (i - p + 1) - 1 = i
            /\ Shift(p, i) = i + 1
        BY <2>2 DEF Shift
      <3>2. t[p + (i - p + 1)] = b[i - p + 1] /\ b[i - p + 1] = s[p + (i - p + 1) - 1]
        BY <3>1, <1>2, <1>6
      <3> QED BY <3>1, <3>2
    <2> QED BY <2>1, <2>2
  <1> QED BY <1>6, <1>7, <1>8 DEF Inserted, t

\* At the end of the file.
LEMMA AppendIs ==
    ASSUME NEW s \in Seq(Line), NEW x \in Line
    PROVE  Inserted(s, Len(s) + 1, x, Append(s, x))
  BY DEF Inserted, Shift

-----------------------------------------------------------------------------
(* Lines. *)

\* What is known of the line an entry is written as.
LEMMA FormatIs ==
    ASSUME NEW type \in ConfTypes, NEW e \in Entry, e.key \in Words
    PROVE  /\ FormatLine(type, e) \in Line
           /\ FormatLine(type, e) # Empty
           /\ \A k : FormatLine(type, e) # Comment(k)
           /\ FormatLine(type, e).word = e.key
           /\ Readable(type, e) => /\ Parses(type, FormatLine(type, e))
                                   /\ Reading(type, FormatLine(type, e)) = ReadBack(e)
  <1> DEFINE mark == CASE type = "EQUAL" -> " = " [] type = "COLON" -> " : " [] OTHER -> " "
             value == [quoted |-> e.type # "NUMBER", text |-> e.text]
             x == FormatLine(type, e)
  <1>1. x = Setting(e.key, mark, value)
    BY DEF FormatLine
  <1>2. mark \in Marks /\ (type = "SPACE" => mark = " ") /\ (type = "EQUAL" => mark = " = ")
        /\ (type = "COLON" => mark = " : ")
    BY DEF Marks
  <1>3. value \in WrittenValues /\ e.text \in Texts /\ e.type \in ValueTypes
    BY DEF Entry, WrittenValues
  <1>4. value.quoted = (e.type # "NUMBER") /\ value.text = e.text
    OBVIOUS
  <1> HIDE DEF mark, value, x
  <1>5. x \in Line
    <2>0. e.key \in Words /\ mark \in Marks /\ value \in WrittenValues
      BY <1>2, <1>3
    <2>1. x \in {Setting(w, m, v) : w \in Words, m \in Marks, v \in WrittenValues}
      BY <1>1, <2>0
    <2> QED BY <2>1 DEF Line
  <1>6. /\ x.kind = "setting" /\ x.word = e.key /\ x.mark = mark /\ x.value = value
    BY <1>1 DEF Setting
  <1>7. x # Empty /\ \A k : x # Comment(k)
    BY <1>6 DEF Empty, Comment
  <1>8. ASSUME Readable(type, e)
        PROVE  Parses(type, x) /\ Reading(type, x) = ReadBack(e)
    <2>1. /\ type \in {"SPACE", "EQUAL", "COLON"}
          /\ type = "SPACE" /\ e.type = "NUMBER" => Trim[e.text] # ""
      BY <1>8 DEF Readable, ConfTypes
    <2>2. Parses(type, x)
      BY <2>1, <1>2, <1>4, <1>6 DEF Parses
    <2>3. ~(type = "SPACE" /\ x.mark # " ")
      BY <1>2, <1>6
    <2>4. Reading(type, x) = [type |-> IF e.type # "NUMBER" THEN "STRING" ELSE "NUMBER",
                              text |-> Trim[e.text]]
      BY <2>3, <1>4, <1>6 DEF Reading
    <2> QED BY <2>2, <2>4 DEF ReadBack
  <1> QED BY <1>5, <1>6, <1>7, <1>8 DEF x

\* A key that can be read has an active line.
LEMMA Found ==
    ASSUME NEW type, NEW line
    PROVE  Reading(type, line) # NotFound
  <1>1. CASE type = "SPACE" /\ line.mark # " "
    BY <1>1 DEF Reading, NotFound
  <1>2. CASE ~(type = "SPACE" /\ line.mark # " ")
    <2>1. Reading(type, line) = [type |-> IF line.value.quoted THEN "STRING" ELSE "NUMBER",
                                 text |-> Trim[line.value.text]]
      BY <1>2 DEF Reading
    <2>2. Reading(type, line).type # "UNSPECIFIED"
      BY <2>1
    <2>3. NotFound.type = "UNSPECIFIED"
      BY DEF NotFound
    <2> QED BY <2>2, <2>3
  <1> QED BY <1>1, <1>2

\* Which lines are active, or a comment, is a set of their numbers.
LEMMA LineNumbers ==
    ASSUME NEW s \in Seq(Line), NEW type, NEW k
    PROVE  /\ FindActive(s, type, k) \in SUBSET (1..Len(s)) /\ FindActive(s, type, k) \in SUBSET Nat
           /\ FindComment(s, k) \in SUBSET (1..Len(s)) /\ FindComment(s, k) \in SUBSET Nat
           /\ Len(s) \in Nat
  BY DEF FindActive, FindComment

\* The last comment about a key.
LEMMA LastComment ==
    ASSUME NEW s \in Seq(Line), NEW k, FindComment(s, k) # {}
    PROVE  Max(FindComment(s, k)) \in 1..Len(s) /\ s[Max(FindComment(s, k))] = Comment(k)
  <1>1. Max(FindComment(s, k)) \in FindComment(s, k)
    BY LineNumbers, MaxOf
  <1> HIDE DEF Max
  <1> QED BY <1>1, LineNumbers DEF FindComment

\* What one entry does to the lines.
LEMMA SetEntryIs ==
    ASSUME NEW s \in Seq(Line), NEW type \in ConfTypes, NEW e \in Entry, e.key \in Words
    PROVE  \/ FindActive(s, type, e.key) # {} /\ SetEntry(s, type, e) = s
           \/ /\ FindActive(s, type, e.key) = {}
              /\ \E p : /\ Inserted(s, p, FormatLine(type, e), SetEntry(s, type, e))
                        /\ p = IF FindComment(s, e.key) # {} THEN Max(FindComment(s, e.key)) + 1
                               ELSE Len(s) + 1
  <1> DEFINE x == FormatLine(type, e)
             c == FindComment(s, e.key)
  <1>1. x \in Line
    BY FormatIs
  <1>2. c \in SUBSET (1..Len(s)) /\ Len(s) \in Nat
    BY LineNumbers
  <1>3. CASE FindActive(s, type, e.key) # {}
    BY <1>3 DEF SetEntry
  <1>4. CASE FindActive(s, type, e.key) = {} /\ c # {}
    <2>1. SetEntry(s, type, e) = InsertAt(s, Max(c) + 1, x)
      BY <1>4 DEF SetEntry, InsertLine
    <2> HIDE DEF c, x
    <2>2. Max(c) \in 1..Len(s)
      BY <1>2, <1>4, MaxOf
    <2>3. Max(c) + 1 \in 1..(Len(s) + 1)
      BY <1>2, <2>2
    <2>4. Inserted(s, Max(c) + 1, x, SetEntry(s, type, e))
      BY <1>1, <2>1, <2>3, InsertAtIs
    <2> QED BY <1>4, <2>4 DEF c, x
  <1>5. CASE FindActive(s, type, e.key) = {} /\ c = {}
    <2>1. SetEntry(s, type, e) = Append(s, x)
      BY <1>5 DEF SetEntry
    <2> HIDE DEF x
    <2>2. Inserted(s, Len(s) + 1, x, SetEntry(s, type, e))
      BY <1>1, <2>1, AppendIs
    <2> QED BY <1>5, <2>2 DEF x
  <1> QED BY <1>3, <1>4, <1>5

-----------------------------------------------------------------------------
(* Sets of line numbers. *)

\* The least and the largest of some numbers stay so when all are shifted.
LEMMA ShiftedMin ==
    ASSUME NEW n \in Nat, NEW p \in 1..(n+1), NEW S \in SUBSET (1..n), S # {},
           NEW T, T = {Shift(p, i) : i \in S}
    PROVE  Min(T) = Shift(p, Min(S)) /\ Max(T) = Shift(p, Max(S)) /\ T # {}
  <1>1. /\ Min(S) \in S /\ \A y \in S : Min(S) =< y
        /\ Max(S) \in S /\ \A y \in S : Max(S) >= y
    <2>1. S \in SUBSET Nat
      OBVIOUS
    <2> QED BY <2>1, MinOf, MaxOf
  <1>2. ASSUME NEW i \in S, NEW j \in S, i =< j
        PROVE  Shift(p, i) =< Shift(p, j) /\ Shift(p, i) \in 1..(n+1) /\ Shift(p, j) \in 1..(n+1)
    BY <1>2 DEF Shift
  <1>3. T \in SUBSET (1..(n+1)) /\ T \in SUBSET Nat
    BY <1>2
  <1>4. Shift(p, Min(S)) \in T /\ \A y \in T : Shift(p, Min(S)) =< y
    BY <1>1, <1>2
  <1>5. Shift(p, Max(S)) \in T /\ \A y \in T : Shift(p, Max(S)) >= y
    BY <1>1, <1>2
  <1> HIDE DEF Shift
  <1>6. Min(T) = Shift(p, Min(S))
    BY <1>3, <1>4, MinIs
  <1>7. Max(T) = Shift(p, Max(S))
    <2>1. n + 1 \in Nat
      OBVIOUS
    <2> QED BY <1>3, <1>5, <2>1, MaxIs
  <1> QED BY <1>4, <1>6, <1>7

\* Inserting a line that is not one of those that are looked for moves them.
LEMMA SelectedMoved ==
    ASSUME NEW s \in Seq(Line), NEW p, NEW x, NEW t, Inserted(s, p, x, t),
           NEW Good, x \notin Good
    PROVE  {i \in DOMAIN t : t[i] \in Good} =
               {Shift(p, i) : i \in {i \in DOMAIN s : s[i] \in Good}}
  <1>1. PICK n \in Nat : n = Len(s)
    OBVIOUS
  <1>2. /\ p \in 1..(n+1) /\ DOMAIN t = 1..(n+1) /\ t[p] = x
        /\ DOMAIN s = 1..n /\ \A i \in 1..n : t[Shift(p, i)] = s[i]
    BY <1>1 DEF Inserted
  <1>3. /\ \A j \in 1..(n+1) : j # p => \E i \in 1..n : j = Shift(p, i)
        /\ \A i \in 1..n : Shift(p, i) \in 1..(n+1)
    BY <1>2, InsertedIndex, ShiftOrder
  <1> QED BY <1>2, <1>3

\* Inserting a line that does not set a key moves the lines that set it.
LEMMA ActiveMoved ==
    ASSUME NEW s \in Seq(Line), NEW p, NEW x, NEW t, Inserted(s, p, x, t),
           NEW type, NEW k, ~(Parses(type, x) /\ x.word = k)
    PROVE  /\ FindActive(s, type, k) = {} => FindActive(t, type, k) = {}
           /\ FindActive(s, type, k) # {} =>
                /\ FindActive(t, type, k) # {}
                /\ Min(FindActive(t, type, k)) = Shift(p, Min(FindActive(s, type, k)))
                /\ t[Min(FindActive(t, type, k))] = s[Min(FindActive(s, type, k))]
  <1> DEFINE Good == {l \in Line : Parses(type, l) /\ l.word = k}
             S == FindActive(s, type, k)
             T == FindActive(t, type, k)
  <1>1. PICK n \in Nat : n = Len(s)
    OBVIOUS
  <1>2. /\ p \in 1..(n+1) /\ t \in Seq(Line)
        /\ \A i \in 1..n : t[Shift(p, i)] = s[i]
    BY <1>1 DEF Inserted
  <1>3. S = {i \in DOMAIN s : s[i] \in Good} /\ T = {i \in DOMAIN t : t[i] \in Good}
    BY <1>2 DEF FindActive
  <1>4. x \notin Good
    OBVIOUS
  <1>5. S \in SUBSET (1..n)
    BY <1>1, LineNumbers
  <1> HIDE DEF Good, S, T
  <1>6. T = {Shift(p, i) : i \in S}
    BY <1>3, <1>4, SelectedMoved
  <1>7. CASE S # {}
    <2>1. Min(T) = Shift(p, Min(S)) /\ T # {}
      BY <1>2, <1>5, <1>6, <1>7, ShiftedMin
    <2>2. Min(S) \in S
      <3>1. S \in SUBSET Nat
        BY <1>5
      <3> QED BY <3>1, <1>7, MinOf
    <2>3. Min(S) \in 1..n
      BY <1>5, <2>2
    <2> QED BY <1>2, <1>7, <2>1, <2>3 DEF S, T
  <1>8. CASE S = {}
    BY <1>6, <1>8 DEF S, T
  <1> QED BY <1>7, <1>8

\* Inserting a line that is not a comment of a key moves those.
LEMMA CommentsMoved ==
    ASSUME NEW s \in Seq(Line), NEW p, NEW x, NEW t, Inserted(s, p, x, t),
           NEW k, x # Comment(k)
    PROVE  /\ FindComment(s, k) = {} => FindComment(t, k) = {}
           /\ FindComment(s, k) # {} =>
                /\ FindComment(t, k) # {}
                /\ Max(FindComment(t, k)) = Shift(p, Max(FindComment(s, k)))
  <1> DEFINE Good == {Comment(k)}
             S == FindComment(s, k)
             T == FindComment(t, k)
  <1>1. PICK n \in Nat : n = Len(s)
    OBVIOUS
  <1>2. p \in 1..(n+1)
    BY <1>1 DEF Inserted
  <1>3. S = {i \in DOMAIN s : s[i] \in Good} /\ T = {i \in DOMAIN t : t[i] \in Good}
    BY DEF FindComment
  <1>4. x \notin Good
    OBVIOUS
  <1>5. S \in SUBSET (1..n)
    BY <1>1, LineNumbers
  <1> HIDE DEF Good, S, T
  <1>6. T = {Shift(p, i) : i \in S}
    BY <1>3, <1>4, SelectedMoved
  <1>7. CASE S # {}
    BY <1>2, <1>5, <1>6, <1>7, ShiftedMin DEF S, T
  <1>8. CASE S = {}
    BY <1>6, <1>8 DEF S, T
  <1> QED BY <1>7, <1>8

-----------------------------------------------------------------------------
(* The loop over the entries of a request. *)

Request == [type : ConfTypes, entries : Seq(Entry)]

\* A request that is not refused.
Named(q) == \A i \in DOMAIN q.entries : q.entries[i].key # ""

\* after[n] is what the first n entries of q make of some lines.
IsLoop(after, lines, q, m) ==
    after = [n \in 0..m |-> IF n = 0 THEN lines ELSE SetEntry(after[n-1], q.type, q.entries[n])]

\* The loop has an outcome.
LEMMA LoopExists ==
    ASSUME NEW lines, NEW q, NEW m \in Nat
    PROVE  \E after : IsLoop(after, lines, q, m)
  <1> DEFINE T == {n \in Nat : \E after : IsLoop(after, lines, q, n)}
  <1>1. 0 \in T
    <2> DEFINE f == [n \in 0..0 |-> lines]
    <2>1. IsLoop(f, lines, q, 0)
      BY DEF IsLoop
    <2> QED BY <2>1
  <1>2. ASSUME NEW n \in Nat, n \in T
        PROVE  n + 1 \in T
    <2>1. PICK f : IsLoop(f, lines, q, n)
      BY <1>2
    <2> DEFINE g == [i \in 0..(n+1) |->
                        IF i = n + 1 THEN SetEntry(f[n], q.type, q.entries[n+1]) ELSE f[i]]
    <2>2. ASSUME NEW i \in 0..(n+1)
          PROVE  g[i] = IF i = 0 THEN lines ELSE SetEntry(g[i-1], q.type, q.entries[i])
      <3>1. CASE i = n + 1
        <4>1. i # 0 /\ i - 1 = n /\ n \in 0..(n+1) /\ n # n + 1
          BY <3>1
        <4>2. g[i-1] = f[n] /\ g[i] = SetEntry(f[n], q.type, q.entries[n+1])
          BY <3>1, <4>1
        <4> QED BY <3>1, <4>1, <4>2
      <3>2. CASE i # n + 1
        <4>1. i \in 0..n /\ (i # 0 => i - 1 \in 0..n /\ i - 1 \in 0..(n+1) /\ i - 1 # n + 1)
          BY <3>2
        <4>2. f[i] = IF i = 0 THEN lines ELSE SetEntry(f[i-1], q.type, q.entries[i])
          BY <2>1, <4>1 DEF IsLoop
        <4>3. g[i] = f[i] /\ (i # 0 => g[i-1] = f[i-1])
          BY <3>2, <4>1
        <4> QED BY <4>2, <4>3
      <3> QED BY <3>1, <3>2
    <2>3. IsLoop(g, lines, q, n + 1)
      BY <2>2 DEF IsLoop
    <2> HIDE DEF g
    <2> QED BY <2>3
  <1> HIDE DEF T
  <1>3. Nat \subseteq T
    BY <1>1, <1>2, Data!Induction
  <1> QED BY <1>3 DEF T

\* Entry by entry, as sequences of lines.
Runs(after, lines, q) ==
    /\ after[0] = lines
    /\ \A n \in 0..Len(q.entries) : after[n] \in Seq(Line)
    /\ \A n \in 0..(Len(q.entries) - 1) : after[n+1] = SetEntry(after[n], q.type, q.entries[n+1])

\* Entry number n + 1 of a request.
LEMMA EntryTyped ==
    ASSUME NEW q \in Request, Named(q), NEW n \in Nat, n < Len(q.entries)
    PROVE  /\ n + 1 \in DOMAIN q.entries /\ n \in 0..(Len(q.entries) - 1)
           /\ q.type \in ConfTypes /\ q.entries[n+1] \in Entry /\ q.entries[n+1].key \in Words
  <1>1. q.type \in ConfTypes /\ q.entries \in Seq(Entry)
    BY DEF Request
  <1>2. n + 1 \in DOMAIN q.entries /\ n \in 0..(Len(q.entries) - 1)
    BY <1>1
  <1>3. q.entries[n+1] \in Entry
    BY <1>1, <1>2
  <1>4. q.entries[n+1].key # ""
    BY <1>2 DEF Named
  <1> QED BY <1>1, <1>2, <1>3, <1>4 DEF Entry

\* SetEntries runs through the entries.
LEMMA SetEntriesRuns ==
    ASSUME NEW lines \in Seq(Line), NEW q \in Request, Named(q)
    PROVE  \E after : /\ Runs(after, lines, q)
                      /\ SetEntries(lines, q) = after[Len(q.entries)]
  <1>1. PICK m \in Nat : m = Len(q.entries)
    BY DEF Request
  <1> DEFINE after == CHOOSE f : IsLoop(f, lines, q, m)
  <1>2. SetEntries(lines, q) = after[m]
    BY <1>1 DEF SetEntries, IsLoop
  <1>3. IsLoop(after, lines, q, m)
    BY LoopExists
  <1> HIDE DEF after
  <1>4. /\ after[0] = lines
        /\ \A n \in Nat : n < m => after[n+1] = SetEntry(after[n], q.type, q.entries[n+1])
    <2>1. after[0] = lines
      BY <1>3 DEF IsLoop
    <2>2. ASSUME NEW n \in Nat, n < m
          PROVE  after[n+1] = SetEntry(after[n], q.type, q.entries[n+1])
      <3>1. n + 1 \in 0..m /\ n + 1 # 0 /\ (n + 1) - 1 = n
        BY <2>2
      <3> QED BY <1>3, <3>1 DEF IsLoop
    <2> QED BY <2>1, <2>2
  <1> DEFINE T == {n \in Nat : n =< m => after[n] \in Seq(Line)}
  <1>5. 0 \in T
    BY <1>4
  <1>6. ASSUME NEW n \in Nat, n \in T
        PROVE  n + 1 \in T
    <2> SUFFICES ASSUME n + 1 =< m
                 PROVE  after[n+1] \in Seq(Line)
      OBVIOUS
    <2>1. n < m /\ after[n] \in Seq(Line)
      BY <1>6
    <2>2. /\ q.type \in ConfTypes /\ q.entries[n+1] \in Entry /\ q.entries[n+1].key \in Words
      BY <1>1, <2>1, EntryTyped
    <2>3. SetEntry(after[n], q.type, q.entries[n+1]) \in Seq(Line)
      BY <2>1, <2>2, SetEntryIs DEF Inserted
    <2> QED BY <1>4, <2>1, <2>3
  <1> HIDE DEF T
  <1>7. Nat \subseteq T
    BY <1>5, <1>6, Data!Induction
  <1>8. \A n \in 0..m : after[n] \in Seq(Line)
    BY <1>7 DEF T
  <1>9. Runs(after, lines, q)
    BY <1>1, <1>4, <1>8 DEF Runs
  <1> QED BY <1>1, <1>2, <1>9

-----------------------------------------------------------------------------
(* The lines of a file, without the empty ones at its end. *)

Trimmed(lines) == Len(lines) > 0 => lines[Len(lines)] # Empty

\* splitLines takes away empty lines at the end, and nothing else.
LEMMA SplitIs ==
    ASSUME NEW s \in Seq(Line)
    PROVE  /\ SplitLines(s) \in Seq(Line)
           /\ Len(SplitLines(s)) =< Len(s)
           /\ \A i \in 1..Len(SplitLines(s)) : SplitLines(s)[i] = s[i]
           /\ \A i \in (Len(SplitLines(s)) + 1)..Len(s) : s[i] = Empty
           /\ Trimmed(SplitLines(s))
  <1>1. PICK m \in Nat : m = Len(s)
    OBVIOUS
  <1> DEFINE Cut(n) == /\ n = 0 \/ s[n] # Empty
                       /\ \A i \in n + 1..m : s[i] = Empty
             full == {i \in 1..m : s[i] # Empty}
  <1>2. \E n \in 0..m : Cut(n)
    <2>1. CASE full = {}
      <3>1. Cut(0) /\ 0 \in 0..m
        BY <2>1
      <3> QED BY <3>1
    <2>2. CASE full # {}
      <3>1. full \in SUBSET (1..m)
        OBVIOUS
      <3>2. Max(full) \in full /\ \A y \in full : Max(full) >= y
        <4> HIDE DEF full
        <4> QED BY <2>2, <3>1, MaxOf
      <3>3. PICK x \in 1..m : s[x] # Empty /\ \A y \in full : x >= y
        BY <3>2
      <3>4. \A i \in x + 1..m : s[i] = Empty
        BY <3>3
      <3> QED BY <3>3, <3>4
    <2> QED BY <2>1, <2>2
  <1> DEFINE n == CHOOSE n \in 0..m : Cut(n)
  <1>3. SplitLines(s) = SubSeq(s, 1, n)
    BY <1>1 DEF SplitLines
  <1>4. n \in 0..m /\ Cut(n)
    BY <1>2
  <1> HIDE DEF n
  <1> DEFINE t == SubSeq(s, 1, n)
  <1>5. t \in Seq(Line) /\ Len(t) = n /\ \A i \in 1..n : t[i] = s[i]
    BY <1>1, <1>4
  <1>6. Trimmed(t)
    BY <1>4, <1>5 DEF Trimmed
  <1> HIDE DEF t
  <1>7. SplitLines(s) = t
    BY <1>3 DEF t
  <1> QED BY <1>1, <1>4, <1>5, <1>6, <1>7

\* What ends in a line that is not empty is left as it is.
LEMMA SplitTrimmed ==
    ASSUME NEW s \in Seq(Line), Trimmed(s)
    PROVE  SplitLines(s) = s
  <1> DEFINE t == SplitLines(s)
  <1>1. /\ t \in Seq(Line) /\ Len(t) =< Len(s)
        /\ \A i \in 1..Len(t) : t[i] = s[i]
        /\ \A i \in (Len(t) + 1)..Len(s) : s[i] = Empty
    BY SplitIs
  <1> HIDE DEF t
  <1>2. Len(t) = Len(s)
    BY <1>1 DEF Trimmed
  <1>3. t = s
    BY <1>1, <1>2
  <1> QED BY <1>3 DEF t

\* The lines that set a key are not among those at the end.
LEMMA SplitActive ==
    ASSUME NEW s \in Seq(Line), NEW type, NEW k
    PROVE  FindActive(SplitLines(s), type, k) = FindActive(s, type, k)
  <1> DEFINE t == SplitLines(s)
  <1>1. /\ t \in Seq(Line) /\ Len(t) =< Len(s)
        /\ \A i \in 1..Len(t) : t[i] = s[i]
        /\ \A i \in (Len(t) + 1)..Len(s) : s[i] = Empty
    BY SplitIs
  <1> HIDE DEF t
  <1>2. ~Parses(type, Empty)
    BY DEF Parses, Empty
  <1>3. FindActive(t, type, k) = FindActive(s, type, k)
    BY <1>1, <1>2 DEF FindActive
  <1> QED BY <1>3 DEF t

-----------------------------------------------------------------------------
(* What the loop keeps. *)

\* One entry leaves the lines alone, or inserts a line that sets its key.
Entered(s, type, e, t) ==
    \/ FindActive(s, type, e.key) # {} /\ t = s
    \/ /\ FindActive(s, type, e.key) = {}
       /\ \E p : /\ Inserted(s, p, FormatLine(type, e), t)
                 /\ p = IF FindComment(s, e.key) # {} THEN Max(FindComment(s, e.key)) + 1
                        ELSE Len(s) + 1

\* A request that is not refused enters one entry after the other.
LEMMA Enters ==
    ASSUME NEW q \in Request, Named(q), NEW lines \in Seq(Line), NEW after, Runs(after, lines, q),
           NEW n \in Nat, n < Len(q.entries)
    PROVE  /\ after[n] \in Seq(Line) /\ after[n+1] \in Seq(Line)
           /\ n + 1 \in DOMAIN q.entries
           /\ q.type \in ConfTypes /\ q.entries[n+1] \in Entry /\ q.entries[n+1].key \in Words
           /\ Entered(after[n], q.type, q.entries[n+1], after[n+1])
  <1>1. /\ n + 1 \in DOMAIN q.entries /\ n \in 0..(Len(q.entries) - 1)
        /\ q.type \in ConfTypes /\ q.entries[n+1] \in Entry /\ q.entries[n+1].key \in Words
    BY EntryTyped
  <1>2. q.entries \in Seq(Entry)
    BY DEF Request
  <1>3. n \in 0..Len(q.entries) /\ n + 1 \in 0..Len(q.entries)
    BY <1>1, <1>2
  <1>4. /\ after[n] \in Seq(Line) /\ after[n+1] \in Seq(Line)
        /\ after[n+1] = SetEntry(after[n], q.type, q.entries[n+1])
    BY <1>1, <1>3 DEF Runs
  <1> QED BY <1>1, <1>4, SetEntryIs DEF Entered

\* The file grows when it changes, and does not come to end in an empty line.
LEMMA Grows ==
    ASSUME NEW q \in Request, Named(q), NEW lines \in Seq(Line), Trimmed(lines)
    PROVE  LET t == SetEntries(lines, q)
           IN  /\ t \in Seq(Line) /\ Trimmed(t)
               /\ t = lines \/ Len(t) > Len(lines)
  <1>1. PICK m \in Nat : m = Len(q.entries)
    BY DEF Request
  <1>2. PICK after : Runs(after, lines, q) /\ SetEntries(lines, q) = after[m]
    BY <1>1, SetEntriesRuns
  <1> DEFINE Ok(t) == Trimmed(t) /\ (t = lines \/ Len(t) > Len(lines))
             T == {n \in Nat : n =< m => Ok(after[n])}
  <1>3. 0 \in T
    BY <1>2 DEF Runs
  <1>4. ASSUME NEW n \in Nat, n \in T
        PROVE  n + 1 \in T
    <2> SUFFICES ASSUME n + 1 =< m
                 PROVE  Ok(after[n+1])
      OBVIOUS
    <2>1. n < m /\ Ok(after[n])
      BY <1>4
    <2>2. PICK s, t, e : s = after[n] /\ t = after[n+1] /\ e = q.entries[n+1]
      OBVIOUS
    <2>3. /\ s \in Seq(Line) /\ t \in Seq(Line) /\ e \in Entry /\ e.key \in Words
          /\ q.type \in ConfTypes /\ Entered(s, q.type, e, t)
      BY <1>1, <1>2, <2>1, <2>2, Enters
    <2>4. Ok(s)
      BY <2>1, <2>2
    <2>5. ASSUME NEW p, Inserted(s, p, FormatLine(q.type, e), t)
          PROVE  Ok(t)
      <3>1. Len(t) = Len(s) + 1 /\ Len(s) \in Nat
        BY <2>3, <2>5 DEF Inserted
      <3>2. Trimmed(t)
        <4>1. CASE p = Len(s) + 1
          BY <4>1, <2>3, <2>5, <3>1, FormatIs DEF Inserted, Trimmed
        <4>2. CASE p # Len(s) + 1
          <5>1. p =< Len(s) /\ Len(s) \in 1..Len(s) /\ Shift(p, Len(s)) = Len(s) + 1
            BY <4>2, <2>5, <3>1 DEF Inserted, Shift
          <5>2. t[Len(s) + 1] = s[Len(s)]
            BY <5>1, <2>5 DEF Inserted
          <5> QED BY <5>1, <5>2, <2>4, <3>1 DEF Trimmed
        <4> QED BY <4>1, <4>2
      <3> QED BY <2>4, <3>1, <3>2
    <2>6. Ok(t)
      <3> HIDE DEF Ok
      <3> QED BY <2>3, <2>4, <2>5 DEF Entered
    <2> QED BY <2>2, <2>6
  <1> HIDE DEF T
  <1>5. Nat \subseteq T
    BY <1>3, <1>4, Data!Induction
  <1>6. Ok(after[m])
    BY <1>5 DEF T
  <1>7. m \in 0..Len(q.entries)
    BY <1>1
  <1>8. after[m] \in Seq(Line)
    BY <1>2, <1>7 DEF Runs
  <1> QED BY <1>2, <1>6, <1>8

\* An active line of a key stays the first one, whatever is inserted.
LEMMA SetKeyStep ==
    ASSUME NEW s \in Seq(Line), NEW t \in Seq(Line), NEW type \in ConfTypes,
           NEW e \in Entry, e.key \in Words, Entered(s, type, e, t),
           NEW k, FindActive(s, type, k) # {}
    PROVE  /\ FindActive(t, type, k) # {}
           /\ t[Min(FindActive(t, type, k))] = s[Min(FindActive(s, type, k))]
  <1>1. CASE t = s
    BY <1>1
  <1>2. ASSUME NEW p, Inserted(s, p, FormatLine(type, e), t), FindActive(s, type, e.key) = {}
        PROVE  /\ FindActive(t, type, k) # {}
               /\ t[Min(FindActive(t, type, k))] = s[Min(FindActive(s, type, k))]
    <2>1. FormatLine(type, e).word # k
      BY <1>2, FormatIs
    <2> QED BY <1>2, <2>1, ActiveMoved
  <1> QED BY <1>1, <1>2 DEF Entered

\* The same of all entries of a request.
LEMMA SetKeyKept ==
    ASSUME NEW q \in Request, Named(q), NEW lines \in Seq(Line),
           NEW k, FindActive(lines, q.type, k) # {}
    PROVE  LET t == SetEntries(lines, q)
           IN  /\ FindActive(t, q.type, k) # {}
               /\ t[Min(FindActive(t, q.type, k))] = lines[Min(FindActive(lines, q.type, k))]
  <1>1. PICK m \in Nat : m = Len(q.entries)
    BY DEF Request
  <1>2. PICK after : Runs(after, lines, q) /\ SetEntries(lines, q) = after[m]
    BY <1>1, SetEntriesRuns
  <1> DEFINE Ok(t) == /\ FindActive(t, q.type, k) # {}
                      /\ t[Min(FindActive(t, q.type, k))] = lines[Min(FindActive(lines, q.type, k))]
             T == {n \in Nat : n =< m => Ok(after[n])}
  <1>3. 0 \in T
    BY <1>2 DEF Runs
  <1>4. ASSUME NEW n \in Nat, n \in T
        PROVE  n + 1 \in T
    <2> SUFFICES ASSUME n + 1 =< m
                 PROVE  Ok(after[n+1])
      OBVIOUS
    <2>1. n < m /\ Ok(after[n])
      BY <1>4
    <2>2. /\ after[n] \in Seq(Line) /\ after[n+1] \in Seq(Line)
          /\ q.type \in ConfTypes /\ q.entries[n+1] \in Entry /\ q.entries[n+1].key \in Words
          /\ Entered(after[n], q.type, q.entries[n+1], after[n+1])
      BY <1>1, <1>2, <2>1, Enters
    <2> QED BY <2>1, <2>2, SetKeyStep
  <1> HIDE DEF T
  <1>5. Nat \subseteq T
    BY <1>3, <1>4, Data!Induction
  <1>6. Ok(after[m])
    BY <1>5 DEF T
  <1> QED BY <1>2, <1>6

\* The line that sets a missing key is the one its first entry asks for,
Told(q, n, k, x) ==
    \A m \in 1..n : q.entries[m].key = k /\ (\A j \in 1..(m-1) : q.entries[j].key # k) =>
        x = FormatLine(q.type, q.entries[m])

\* and is next to the last comment of the key, or followed by new lines only.
Placed(q, n, k, s) ==
    LET new == Min(FindActive(s, q.type, k))
    IN  IF FindComment(s, k) # {}
        THEN new = Max(FindComment(s, k)) + 1
        ELSE \A i \in new..Len(s) : i = new \/
                \E m \in 1..n : s[i] = FormatLine(q.type, q.entries[m])

KeySet(q, n, k, s) ==
    IF \E m \in 1..n : q.entries[m].key = k
    THEN /\ FindActive(s, q.type, k) # {}
         /\ Told(q, n, k, s[Min(FindActive(s, q.type, k))])
         /\ Placed(q, n, k, s)
    ELSE FindActive(s, q.type, k) = {}

\* An entry for a key that is missing.
LEMMA MissingKeyStep ==
    ASSUME NEW q, NEW n \in Nat, NEW k, NEW s \in Seq(Line), NEW t \in Seq(Line),
           q.type \in ConfTypes, q.entries[n+1] \in Entry, k \in Words,
           q.entries[n+1].key = k, Readable(q.type, q.entries[n+1]),
           NEW p, Inserted(s, p, FormatLine(q.type, q.entries[n+1]), t),
           p = IF FindComment(s, k) # {} THEN Max(FindComment(s, k)) + 1 ELSE Len(s) + 1,
           FindActive(s, q.type, k) = {}, \A m \in 1..n : q.entries[m].key # k
    PROVE  KeySet(q, n + 1, k, t)
  <1> DEFINE x == FormatLine(q.type, q.entries[n+1])
             T == FindActive(t, q.type, k)
  <1>1. PICK N \in Nat : N = Len(s)
    OBVIOUS
  <1>2. Parses(q.type, x) /\ x.word = k /\ x # Comment(k)
    BY FormatIs
  <1>3. /\ p \in 1..(N+1) /\ Len(t) = N + 1 /\ t[p] = x
        /\ \A i \in 1..N : t[Shift(p, i)] = s[i]
    BY <1>1 DEF Inserted
  <1>4. T = {p}
    <2>1. p \in T
      BY <1>2, <1>3 DEF FindActive
    <2>2. ASSUME NEW j \in T, j # p
          PROVE  FALSE
      <3>1. j \in 1..(N+1)
        BY <1>3 DEF FindActive
      <3>2. PICK i \in 1..N : j = Shift(p, i)
        BY <1>3, <2>2, <3>1, InsertedIndex
      <3>3. t[j] = s[i]
        BY <1>3, <3>2
      <3>4. Parses(q.type, s[i]) /\ s[i].word = k
        BY <3>3 DEF FindActive
      <3> QED BY <1>1, <3>4 DEF FindActive
    <2> QED BY <2>1, <2>2
  <1> HIDE DEF x
  <1>5. Min(T) = p
    <2>1. p \in Nat
      BY <1>3
    <2>2. T \in SUBSET Nat /\ p \in T /\ \A y \in T : p =< y
      BY <1>4, <2>1
    <2> HIDE DEF T
    <2> QED BY <2>2, MinIs
  <1>6. Told(q, n + 1, k, t[Min(T)])
    BY <1>3, <1>5 DEF Told, x
  <1>7. Placed(q, n + 1, k, t)
    <2>1. CASE FindComment(s, k) # {}
      <3>1. FindComment(t, k) # {} /\ Max(FindComment(t, k)) = Shift(p, Max(FindComment(s, k)))
        BY <1>2, <2>1, CommentsMoved DEF x
      <3>2. Max(FindComment(s, k)) \in 1..N
        BY <1>1, <2>1, LineNumbers, MaxOf
      <3>3. Shift(p, Max(FindComment(s, k))) = Max(FindComment(s, k))
        BY <2>1, <3>2 DEF Shift
      <3> QED BY <1>5, <2>1, <3>1, <3>3 DEF Placed
    <2>2. CASE FindComment(s, k) = {}
      <3>1. FindComment(t, k) = {}
        BY <1>2, <2>2, CommentsMoved DEF x
      <3>2. p = N + 1 /\ \A i \in p..Len(t) : i = p
        BY <1>1, <1>3, <2>2
      <3> QED BY <1>5, <3>1, <3>2 DEF Placed
    <2> QED BY <2>1, <2>2
  <1>8. \E m \in 1..(n+1) : q.entries[m].key = k
    OBVIOUS
  <1> QED BY <1>4, <1>6, <1>7, <1>8 DEF KeySet

\* An entry for another key.
LEMMA OtherKeyStep ==
    ASSUME NEW q, NEW n \in Nat, NEW k, NEW s \in Seq(Line), NEW t \in Seq(Line),
           q.type \in ConfTypes, q.entries[n+1] \in Entry, q.entries[n+1].key \in Words,
           q.entries[n+1].key # k,
           Entered(s, q.type, q.entries[n+1], t), KeySet(q, n, k, s)
    PROVE  KeySet(q, n + 1, k, t)
  <1> DEFINE e == q.entries[n+1]
             x == FormatLine(q.type, e)
             S == FindActive(s, q.type, k)
             T == FindActive(t, q.type, k)
  <1>1. PICK N \in Nat : N = Len(s)
    OBVIOUS
  <1>2. x.word # k /\ x # Comment(k) /\ \A c : x # Comment(c)
    BY FormatIs
  <1>3. \A y : Told(q, n, k, y) => Told(q, n + 1, k, y)
    BY DEF Told
  <1>4. (\E m \in 1..(n+1) : q.entries[m].key = k) <=> (\E m \in 1..n : q.entries[m].key = k)
    OBVIOUS
  <1>5. CASE t = s
    <2>1. Placed(q, n, k, s) => Placed(q, n + 1, k, s)
      BY DEF Placed
    <2> QED BY <1>3, <1>4, <1>5, <2>1 DEF KeySet
  <1>6. ASSUME NEW p, Inserted(s, p, x, t),
               p = IF FindComment(s, e.key) # {} THEN Max(FindComment(s, e.key)) + 1 ELSE Len(s) + 1
        PROVE  KeySet(q, n + 1, k, t)
    <2>1. CASE S = {}
      <3>1. T = {}
        BY <1>2, <1>6, <2>1, ActiveMoved
      <3> QED BY <1>4, <2>1, <3>1 DEF KeySet
    <2>2. CASE S # {}
      <3> DEFINE i == Min(S)
      <3>1. T # {} /\ Min(T) = Shift(p, i) /\ t[Min(T)] = s[i]
        BY <1>2, <1>6, <2>2, ActiveMoved
      <3>2. (\E m \in 1..n : q.entries[m].key = k) /\ Told(q, n, k, s[i]) /\ Placed(q, n, k, s)
        BY <2>2 DEF KeySet
      <3>3. i \in 1..N /\ i \in S
        BY <1>1, <2>2, LineNumbers, MinOf
      <3>4. /\ p \in 1..(N+1) /\ Len(t) = N + 1 /\ t[p] = x
            /\ \A j \in 1..N : t[Shift(p, j)] = s[j]
        BY <1>1, <1>6 DEF Inserted
      <3> HIDE DEF x
      <3>5. Placed(q, n + 1, k, t)
        <4>1. CASE FindComment(s, k) # {}
          <5> DEFINE c == Max(FindComment(s, k))
          <5>1. FindComment(t, k) # {} /\ Max(FindComment(t, k)) = Shift(p, c)
            BY <1>2, <1>6, <4>1, CommentsMoved
          <5>2. c \in 1..N /\ s[c] = Comment(k)
            BY <1>1, <4>1, LastComment
          <5>3. i = c + 1
            BY <3>2, <4>1 DEF Placed
          <5>4. p # c + 1
            <6>1. CASE FindComment(s, e.key) # {}
              <7>1. /\ Max(FindComment(s, e.key)) \in 1..N
                    /\ s[Max(FindComment(s, e.key))] = Comment(e.key)
                BY <1>1, <6>1, LastComment
              <7>2. Comment(e.key) # Comment(k)
                <8>1. Comment(e.key).word = e.key /\ Comment(k).word = k
                  BY DEF Comment
                <8> QED BY <8>1
              <7>3. Max(FindComment(s, e.key)) # c
                BY <5>2, <7>1, <7>2
              <7> HIDE DEF c
              <7> QED BY <1>6, <5>2, <6>1, <7>1, <7>3
            <6>2. CASE FindComment(s, e.key) = {}
              BY <1>1, <1>6, <3>3, <5>3, <6>2
            <6> QED BY <6>1, <6>2
          <5> HIDE DEF c, i
          <5>5. Shift(p, i) = Shift(p, c) + 1
            BY <3>3, <3>4, <5>2, <5>3, <5>4 DEF Shift
          <5> QED BY <3>1, <5>1, <5>5 DEF Placed
        <4>2. CASE FindComment(s, k) = {}
          <5>1. FindComment(t, k) = {}
            BY <1>2, <1>6, <4>2, CommentsMoved
          <5>2. \A j \in i..N : j = i \/ \E m \in 1..n : s[j] = FormatLine(q.type, q.entries[m])
            BY <1>1, <3>2, <4>2 DEF Placed
          <5> HIDE DEF i
          <5>3. ASSUME NEW j \in Shift(p, i)..(N+1), j # Shift(p, i)
                PROVE  \E m \in 1..(n+1) : t[j] = FormatLine(q.type, q.entries[m])
            <6>1. CASE j = p
              <7>1. t[j] = FormatLine(q.type, q.entries[n+1]) /\ n + 1 \in 1..(n+1)
                BY <3>4, <6>1 DEF x
              <7> QED BY <7>1
            <6>2. CASE j # p
              <7>1. j \in 1..(N+1) /\ Shift(p, i) < j
                BY <3>3, <3>4, <5>3 DEF Shift
              <7>2. PICK l \in 1..N : j = Shift(p, l)
                BY <3>4, <6>2, <7>1, InsertedIndex
              <7>3. i < l
                BY <3>3, <3>4, <7>1, <7>2 DEF Shift
              <7>4. l \in i..N /\ l # i
                BY <3>3, <7>3
              <7>5. PICK m \in 1..n : s[l] = FormatLine(q.type, q.entries[m])
                BY <5>2, <7>4
              <7>6. t[j] = FormatLine(q.type, q.entries[m]) /\ m \in 1..(n+1)
                BY <3>4, <7>2, <7>5
              <7> QED BY <7>6
            <6> QED BY <6>1, <6>2
          <5> QED BY <3>1, <3>4, <5>1, <5>3 DEF Placed
        <4> QED BY <4>1, <4>2
      <3> QED BY <1>3, <1>4, <3>1, <3>2, <3>5 DEF KeySet
    <2> QED BY <2>1, <2>2
  <1> QED BY <1>5, <1>6 DEF Entered

\* A key that was missing, after the first n entries of a request.
LEMMA KeyEntered ==
    ASSUME NEW q \in Request, Named(q), AllReadable(q), NEW lines \in Seq(Line),
           NEW k \in Words, FindActive(lines, q.type, k) = {}
    PROVE  KeySet(q, Len(q.entries), k, SetEntries(lines, q))
  <1>1. PICK m \in Nat : m = Len(q.entries)
    BY DEF Request
  <1>2. PICK after : Runs(after, lines, q) /\ SetEntries(lines, q) = after[m]
    BY <1>1, SetEntriesRuns
  <1> DEFINE T == {n \in Nat : n =< m => KeySet(q, n, k, after[n])}
  <1>3. 0 \in T
    <2>1. ~\E i \in 1..0 : q.entries[i].key = k
      OBVIOUS
    <2>2. KeySet(q, 0, k, lines)
      BY <2>1 DEF KeySet
    <2> QED BY <1>2, <2>2 DEF Runs
  <1>4. ASSUME NEW n \in Nat, n \in T
        PROVE  n + 1 \in T
    <2> SUFFICES ASSUME n + 1 =< m
                 PROVE  KeySet(q, n + 1, k, after[n+1])
      OBVIOUS
    <2>1. n < m /\ KeySet(q, n, k, after[n])
      BY <1>4
    <2>2. PICK s, t : s = after[n] /\ t = after[n+1]
      OBVIOUS
    <2>3. /\ s \in Seq(Line) /\ t \in Seq(Line) /\ n + 1 \in DOMAIN q.entries
          /\ q.type \in ConfTypes /\ q.entries[n+1] \in Entry /\ q.entries[n+1].key \in Words
          /\ Entered(s, q.type, q.entries[n+1], t)
      BY <1>1, <1>2, <2>1, <2>2, Enters
    <2>4. KeySet(q, n, k, s)
      BY <2>1, <2>2
    <2>5. Readable(q.type, q.entries[n+1])
      BY <2>3 DEF AllReadable
    <2>6. CASE q.entries[n+1].key # k
      BY <2>2, <2>3, <2>4, <2>6, OtherKeyStep
    <2>7. CASE q.entries[n+1].key = k /\ FindActive(s, q.type, k) = {}
      <3>1. \A i \in 1..n : q.entries[i].key # k
        BY <2>4, <2>7 DEF KeySet
      <3>2. PICK p : /\ Inserted(s, p, FormatLine(q.type, q.entries[n+1]), t)
                     /\ p = IF FindComment(s, k) # {} THEN Max(FindComment(s, k)) + 1
                            ELSE Len(s) + 1
        BY <2>3, <2>7 DEF Entered
      <3> QED BY <2>2, <2>3, <2>5, <2>7, <3>1, <3>2, MissingKeyStep
    <2>8. CASE q.entries[n+1].key = k /\ FindActive(s, q.type, k) # {}
      <3>1. t = s
        BY <2>3, <2>8 DEF Entered
      <3>2. \E i \in 1..n : q.entries[i].key = k
        BY <2>4, <2>8 DEF KeySet
      <3>3. Told(q, n + 1, k, s[Min(FindActive(s, q.type, k))])
        BY <2>4, <3>2 DEF KeySet, Told
      <3>4. Placed(q, n + 1, k, s)
        BY <2>4, <3>2 DEF KeySet, Placed
      <3>5. \E i \in 1..(n+1) : q.entries[i].key = k
        BY <3>2
      <3> QED BY <2>2, <2>8, <3>1, <3>3, <3>4, <3>5 DEF KeySet
    <2> QED BY <2>6, <2>7, <2>8
  <1> HIDE DEF T
  <1>5. Nat \subseteq T
    BY <1>3, <1>4, Data!Induction
  <1>6. KeySet(q, m, k, after[m])
    BY <1>5 DEF T
  <1> QED BY <1>1, <1>2, <1>6

\* Entries whose keys are all set change nothing.
LEMMA NothingEntered ==
    ASSUME NEW q \in Request, Named(q), NEW lines \in Seq(Line),
           \A i \in DOMAIN q.entries : FindActive(lines, q.type, q.entries[i].key) # {}
    PROVE  SetEntries(lines, q) = lines
  <1>1. PICK m \in Nat : m = Len(q.entries)
    BY DEF Request
  <1>2. PICK after : Runs(after, lines, q) /\ SetEntries(lines, q) = after[m]
    BY <1>1, SetEntriesRuns
  <1> DEFINE T == {n \in Nat : n =< m => after[n] = lines}
  <1>3. 0 \in T
    BY <1>2 DEF Runs
  <1>4. ASSUME NEW n \in Nat, n \in T
        PROVE  n + 1 \in T
    <2> SUFFICES ASSUME n + 1 =< m
                 PROVE  after[n+1] = lines
      OBVIOUS
    <2>1. n < m /\ after[n] = lines
      BY <1>4
    <2>2. n + 1 \in DOMAIN q.entries /\ Entered(after[n], q.type, q.entries[n+1], after[n+1])
      BY <1>1, <1>2, <2>1, Enters
    <2> QED BY <2>1, <2>2 DEF Entered
  <1> HIDE DEF T
  <1>5. Nat \subseteq T
    BY <1>3, <1>4, Data!Induction
  <1> QED BY <1>2, <1>5 DEF T

\* Where the lines of the file are after the first n entries of a request.
Holds(q, n, lines, s, at) ==
    /\ at \in [1..Len(lines) -> 1..Len(s)]
    /\ \A i, j \in 1..Len(lines) : i < j => at[i] < at[j]
    /\ \A i \in 1..Len(lines) : s[at[i]] = lines[i]
    /\ \A j \in 1..Len(s) : \/ \E i \in 1..Len(lines) : at[i] = j
                            \/ \E m \in 1..n : s[j] = FormatLine(q.type, q.entries[m])

\* One entry moves the lines, and adds one that it asks for.
LEMMA HoldsStep ==
    ASSUME NEW q, NEW n \in Nat, NEW lines \in Seq(Line), NEW s \in Seq(Line), NEW t \in Seq(Line),
           NEW at, Holds(q, n, lines, s, at), Entered(s, q.type, q.entries[n+1], t)
    PROVE  \E new : Holds(q, n + 1, lines, t, new)
  <1> DEFINE x == FormatLine(q.type, q.entries[n+1])
  <1>1. PICK N \in Nat, M \in Nat : N = Len(s) /\ M = Len(lines)
    OBVIOUS
  <1>2. /\ at \in [1..M -> 1..N]
        /\ \A i, j \in 1..M : i < j => at[i] < at[j]
        /\ \A i \in 1..M : s[at[i]] = lines[i]
        /\ \A j \in 1..N : \/ \E i \in 1..M : at[i] = j
                           \/ \E m \in 1..n : s[j] = FormatLine(q.type, q.entries[m])
    BY <1>1 DEF Holds
  <1>3. CASE t = s
    <2>0. ASSUME NEW j \in 1..N
          PROVE  \/ \E i \in 1..M : at[i] = j
                 \/ \E m \in 1..(n+1) : s[j] = FormatLine(q.type, q.entries[m])
      <3>1. 1..n \subseteq 1..(n+1)
        OBVIOUS
      <3> QED BY <1>2, <3>1
    <2>1. Holds(q, n + 1, lines, t, at)
      BY <1>1, <1>2, <1>3, <2>0 DEF Holds
    <2> QED BY <2>1
  <1>4. ASSUME NEW p, Inserted(s, p, x, t)
        PROVE  \E new : Holds(q, n + 1, lines, t, new)
    <2>1. /\ p \in 1..(N+1) /\ Len(t) = N + 1 /\ t[p] = x
          /\ \A i \in 1..N : t[Shift(p, i)] = s[i]
      BY <1>1, <1>4 DEF Inserted
    <2> DEFINE new == [i \in 1..M |-> Shift(p, at[i])]
    <2>2. new \in [1..M -> 1..(N+1)] /\ \A i, j \in 1..M : i < j => new[i] < new[j]
      BY <1>2, <2>1, ShiftOrder
    <2>3. \A i \in 1..M : t[new[i]] = lines[i]
      BY <1>2, <2>1
    <2>4. ASSUME NEW j \in 1..(N+1)
          PROVE  \/ \E i \in 1..M : new[i] = j
                 \/ \E m \in 1..(n+1) : t[j] = FormatLine(q.type, q.entries[m])
      <3>1. CASE j = p
        <4>1. t[j] = FormatLine(q.type, q.entries[n+1]) /\ n + 1 \in 1..(n+1)
          BY <2>1, <3>1
        <4> QED BY <4>1
      <3>2. CASE j # p
        <4>1. PICK l \in 1..N : j = Shift(p, l)
          BY <2>1, <3>2, InsertedIndex
        <4>2. CASE \E i \in 1..M : at[i] = l
          BY <4>1, <4>2
        <4>3. CASE \E m \in 1..n : s[l] = FormatLine(q.type, q.entries[m])
          <5>1. PICK m \in 1..n : s[l] = FormatLine(q.type, q.entries[m])
            BY <4>3
          <5>2. m \in 1..(n+1) /\ t[j] = FormatLine(q.type, q.entries[m])
            BY <2>1, <4>1, <5>1
          <5> QED BY <5>2
        <4> QED BY <1>2, <4>2, <4>3
      <3> QED BY <3>1, <3>2
    <2> HIDE DEF new
    <2>5. Holds(q, n + 1, lines, t, new)
      BY <1>1, <2>1, <2>2, <2>3, <2>4 DEF Holds
    <2> QED BY <2>5
  <1> QED BY <1>3, <1>4 DEF Entered

\* The same of all entries of a request.
LEMMA LinesHeld ==
    ASSUME NEW q \in Request, Named(q), NEW lines \in Seq(Line)
    PROVE  \E at : Holds(q, Len(q.entries), lines, SetEntries(lines, q), at)
  <1>1. PICK m \in Nat : m = Len(q.entries)
    BY DEF Request
  <1>2. PICK after : Runs(after, lines, q) /\ SetEntries(lines, q) = after[m]
    BY <1>1, SetEntriesRuns
  <1> DEFINE T == {n \in Nat : n =< m => \E at : Holds(q, n, lines, after[n], at)}
  <1>3. 0 \in T
    <2> DEFINE at == [i \in 1..Len(lines) |-> i]
    <2>1. Holds(q, 0, lines, lines, at)
      BY DEF Holds
    <2>2. after[0] = lines
      BY <1>2 DEF Runs
    <2> HIDE DEF at
    <2> QED BY <2>1, <2>2
  <1>4. ASSUME NEW n \in Nat, n \in T
        PROVE  n + 1 \in T
    <2> SUFFICES ASSUME n + 1 =< m
                 PROVE  \E at : Holds(q, n + 1, lines, after[n+1], at)
      OBVIOUS
    <2>1. PICK at : Holds(q, n, lines, after[n], at)
      BY <1>4
    <2>2. /\ after[n] \in Seq(Line) /\ after[n+1] \in Seq(Line)
          /\ Entered(after[n], q.type, q.entries[n+1], after[n+1])
      <3>1. n < m
        OBVIOUS
      <3> QED BY <1>1, <1>2, <3>1, Enters
    <2> QED BY <2>1, <2>2, HoldsStep
  <1> HIDE DEF T
  <1>5. Nat \subseteq T
    BY <1>3, <1>4, Data!Induction
  <1>6. \E at : Holds(q, m, lines, after[m], at)
    BY <1>5 DEF T
  <1> QED BY <1>1, <1>2, <1>6

\* The lines of the file can be told by counting.
LEMMA Ranked ==
    ASSUME NEW M \in Nat, NEW N \in Nat, NEW at \in [1..M -> 1..N],
           \A i, j \in 1..M : i < j => at[i] < at[j],
           NEW S, S = {at[i] : i \in 1..M}
    PROVE  /\ Cardinality(S) = M
           /\ \A a \in 1..M : Cardinality({j \in S : j =< at[a]}) = a
  <1> DEFINE Upto(a) == {at[i] : i \in 1..a}
  <1>1. \A i, j \in 1..M : at[i] = at[j] => i = j
    OBVIOUS
  <1>2. ASSUME NEW a \in Nat, a =< M
        PROVE  Cardinality(Upto(a)) = a
    <2> DEFINE f == [i \in 1..a |-> at[i]]
               U == Upto(a)
    <2>1. f \in [1..a -> U]
      OBVIOUS
    <2>2. \A i, j \in 1..a : f[i] = f[j] => i = j
      BY <1>1, <1>2
    <2>3. \A u \in U : \E i \in 1..a : f[i] = u
      OBVIOUS
    <2> HIDE DEF f, U
    <2>4. f \in Bijection(1..a, U)
      BY <2>1, <2>2, <2>3 DEF Bijection, Injection, Surjection, IsInjective
    <2>5. ExistsBijection(1..a, U)
      BY <2>4 DEF ExistsBijection
    <2>6. Cardinality(U) = a
      BY <2>5, FS_CountingElements
    <2> QED BY <2>6 DEF U
  <1>3. ASSUME NEW a \in 1..M
        PROVE  Cardinality({j \in S : j =< at[a]}) = a
    <2>1. {j \in S : j =< at[a]} = Upto(a)
      <3>1. ASSUME NEW i \in 1..M
            PROVE  (at[i] =< at[a]) <=> (i =< a)
        <4>1. i < a \/ i = a \/ a < i
          OBVIOUS
        <4>2. at[i] \in 1..N /\ at[a] \in 1..N
          OBVIOUS
        <4> QED BY <4>1, <4>2
      <3> QED BY <3>1
    <2>2. a \in Nat /\ a =< M
      OBVIOUS
    <2> HIDE DEF Upto
    <2> QED BY <1>2, <2>1, <2>2
  <1>4. S = Upto(M)
    OBVIOUS
  <1> HIDE DEF Upto
  <1> QED BY <1>2, <1>3, <1>4

-----------------------------------------------------------------------------
(* A call on the key/value file. *)

\* Configure, in terms of the loop.
LEMMA ConfigureIs ==
    ASSUME NEW s \in Seq(Line), NEW q \in Request
    PROVE  LET r == ConfigureLines(s, q)
               lines == SplitLines(s)
               t == SetEntries(lines, q)
           IN  \/ ~Named(q) /\ r.status = "refused" /\ r.content = s
               \/ Named(q) /\ t = lines /\ r.status = "kept" /\ r.content = s
               \/ /\ Named(q) /\ r.status = "new" /\ r.content = t
                  /\ t \in Seq(Line) /\ Trimmed(t) /\ Len(t) > Len(lines)
  <1> DEFINE lines == SplitLines(s)
             t == SetEntries(lines, q)
             r == ConfigureLines(s, q)
  <1>1. lines \in Seq(Line) /\ Trimmed(lines)
    BY SplitIs
  <1>2. CASE ~Named(q)
    <2>1. r = [status |-> "refused", content |-> s]
      BY <1>2 DEF ConfigureLines, Named
    <2> HIDE DEF r
    <2>2. r.status = "refused" /\ r.content = s
      BY <2>1
    <2> QED BY <1>2, <2>2 DEF r
  <1>3. CASE Named(q)
    <2>1. t \in Seq(Line) /\ Trimmed(t) /\ (t = lines \/ Len(t) > Len(lines))
      BY <1>1, <1>3, Grows
    <2>2. r = IF Len(t) = Len(lines) THEN [status |-> "kept", content |-> s]
              ELSE [status |-> "new", content |-> t]
      BY <1>3 DEF ConfigureLines, Named
    <2> HIDE DEF r, t, lines
    <2>3. CASE Len(t) = Len(lines)
      <3>1. t = lines /\ r.status = "kept" /\ r.content = s
        BY <1>1, <2>1, <2>2, <2>3
      <3> QED BY <1>3, <3>1 DEF r, t, lines
    <2>4. CASE Len(t) # Len(lines)
      <3>1. Len(t) > Len(lines) /\ r.status = "new" /\ r.content = t
        BY <1>1, <2>1, <2>2, <2>4
      <3> QED BY <1>3, <2>1, <3>1 DEF r, t, lines
    <2> QED BY <2>3, <2>4
  <1> QED BY <1>2, <1>3

\* What a step of the key/value file is.
KeyValueStep(q) ==
    LET lines == SplitLines(file)
        t == SetEntries(lines, q)
    IN  /\ call'.req = q
        /\ \/ ~Named(q) /\ call'.status = "refused" /\ file' = file
           \/ Named(q) /\ t = lines /\ call'.status = "kept" /\ file' = file
           \/ /\ Named(q) /\ call'.status = "new" /\ file' = t
              /\ t \in Seq(Line) /\ Trimmed(t) /\ Len(t) > Len(lines)

\* Every step of the key/value file is a call of Configure.
LEMMA KeyValueSteps ==
    ASSUME TypeOK, Next, kind = "keyvalue"
    PROVE  /\ file \in Seq(Line)
           /\ SplitLines(file) \in Seq(Line) /\ Trimmed(SplitLines(file))
           /\ kind' = kind
           /\ \E q \in Request : KeyValueStep(q)
  <1>1. file \in Seq(Line)
    BY DEF TypeOK
  <1>2. PICK q \in Requests : ConfigureKeyValueConf(q)
    BY DEF Next, ConfigurePgHbaConf
  <1>3. q \in Request
    BY RequestsAssumption DEF Request
  <1>4. /\ file' = ConfigureLines(file, q).content /\ kind' = kind
        /\ call' = [req |-> q, status |-> ConfigureLines(file, q).status]
    BY <1>2 DEF ConfigureKeyValueConf
  <1>5. call'.req = q /\ call'.status = ConfigureLines(file, q).status
    BY <1>4
  <1>6. KeyValueStep(q)
    BY <1>1, <1>3, <1>4, <1>5, ConfigureIs DEF KeyValueStep
  <1> QED BY <1>1, <1>3, <1>4, <1>6, SplitIs

\* Get, in terms of the first active line.
LEMMA GetIs ==
    ASSUME NEW s \in Seq(Line), NEW type, NEW k
    PROVE  LET lines == SplitLines(s)
           IN  /\ GetKeyValue(s, type, k) = NotFound <=> FindActive(lines, type, k) = {}
               /\ FindActive(lines, type, k) # {} =>
                    GetKeyValue(s, type, k) = Reading(type, lines[Min(FindActive(lines, type, k))])
  <1> QED BY Found DEF GetKeyValue

-----------------------------------------------------------------------------
(* What the calls on the key/value file promise. *)

\* A key that is set reads as before.
LEMMA SetKeysStay == TypeOK /\ Next => KeepsSetKeys
  <1> SUFFICES ASSUME TypeOK, Next, kind = "keyvalue", NEW k \in Words,
                      GetKeyValue(file, call'.req.type, k) # NotFound
               PROVE  GetKeyValue(file', call'.req.type, k) = GetKeyValue(file, call'.req.type, k)
    BY DEF KeepsSetKeys, IsKeyValueCall
  <1>1. /\ file \in Seq(Line) /\ SplitLines(file) \in Seq(Line)
        /\ \E q \in Request : KeyValueStep(q)
    BY KeyValueSteps
  <1>2. PICK q \in Request : KeyValueStep(q)
    BY <1>1
  <1>3. call'.req = q
    BY <1>2 DEF KeyValueStep
  <1>4. CASE file' = file
    BY <1>4
  <1>5. CASE /\ Named(q) /\ file' = SetEntries(SplitLines(file), q)
             /\ file' \in Seq(Line) /\ Trimmed(file')
    <2> DEFINE lines == SplitLines(file)
               t == SetEntries(lines, q)
    <2>1. SplitLines(file') = file'
      BY <1>5, SplitTrimmed
    <2>2. FindActive(lines, q.type, k) # {}
      BY <1>1, <1>3, GetIs
    <2>3. /\ FindActive(t, q.type, k) # {}
          /\ t[Min(FindActive(t, q.type, k))] = lines[Min(FindActive(lines, q.type, k))]
      BY <1>1, <1>5, <2>2, SetKeyKept
    <2>4. GetKeyValue(file, q.type, k) = Reading(q.type, lines[Min(FindActive(lines, q.type, k))])
      BY <1>1, <2>2, GetIs
    <2>5. GetKeyValue(file', q.type, k) = Reading(q.type, t[Min(FindActive(t, q.type, k))])
      BY <1>5, <2>1, <2>3, GetIs
    <2> QED BY <1>3, <2>3, <2>4, <2>5
  <1> QED BY <1>2, <1>4, <1>5 DEF KeyValueStep

\* In a request that is not refused, a missing key of an entry is one of Words.
LEMMA KeyOfEntry ==
    ASSUME NEW q \in Request, Named(q), NEW i \in DOMAIN q.entries
    PROVE  q.entries[i].key \in Words /\ q.entries[i] \in Entry /\ i \in 1..Len(q.entries)
  <1>1. q.entries \in Seq(Entry)
    BY DEF Request
  <1>2. q.entries[i] \in Entry /\ i \in 1..Len(q.entries)
    BY <1>1
  <1>3. q.entries[i].key # ""
    BY DEF Named
  <1> QED BY <1>2, <1>3 DEF Entry

\* A missing key is read as its first entry afterwards.
LEMMA MissingKeysSet == TypeOK /\ Next => SetsMissingKeys
  <1> SUFFICES ASSUME TypeOK, Next, kind = "keyvalue", call'.status # "refused",
                      AllReadable(call'.req), NEW i \in DOMAIN call'.req.entries,
                      NEW key, key = call'.req.entries[i].key,
                      NEW D, D = {j \in DOMAIN call'.req.entries : call'.req.entries[j].key = key},
                      GetKeyValue(file, call'.req.type, key) = NotFound
               PROVE  GetKeyValue(file', call'.req.type, key) = ReadBack(call'.req.entries[Min(D)])
    BY DEF SetsMissingKeys, IsKeyValueCall
  <1>1. file \in Seq(Line) /\ SplitLines(file) \in Seq(Line) /\ Trimmed(SplitLines(file))
    BY KeyValueSteps
  <1>2. PICK q \in Request : KeyValueStep(q)
    BY KeyValueSteps
  <1> DEFINE lines == SplitLines(file)
             t == SetEntries(lines, q)
             new == Min(FindActive(t, q.type, key))
  <1>3. call'.req = q
    BY <1>2 DEF KeyValueStep
  <1>4. Named(q) /\ SplitLines(file') = t
    <2>1. CASE Named(q) /\ t = lines /\ file' = file
      BY <2>1
    <2>2. CASE Named(q) /\ file' = t /\ t \in Seq(Line) /\ Trimmed(t)
      <3> HIDE DEF t
      <3> QED BY <2>2, SplitTrimmed
    <2> QED BY <1>2, <2>1, <2>2 DEF KeyValueStep
  <1>5. key \in Words /\ i \in 1..Len(q.entries) /\ i \in DOMAIN q.entries /\ q.entries[i].key = key
    BY <1>3, <1>4, KeyOfEntry
  <1>6. FindActive(lines, q.type, key) = {}
    BY <1>1, <1>3, GetIs
  <1>7. KeySet(q, Len(q.entries), key, t)
    BY <1>1, <1>3, <1>4, <1>5, <1>6, KeyEntered
  <1>8. FindActive(t, q.type, key) # {} /\ Told(q, Len(q.entries), key, t[new])
    BY <1>5, <1>7 DEF KeySet
  <1>9. Min(D) \in DOMAIN q.entries /\ t[new] = FormatLine(q.type, q.entries[Min(D)])
    <2>1. q.entries \in Seq(Entry)
      BY DEF Request
    <2>2. D \in SUBSET (1..Len(q.entries)) /\ D \in SUBSET Nat /\ i \in D
      BY <1>3, <1>5, <2>1
    <2>3. Min(D) \in D /\ \A y \in D : Min(D) =< y
      BY <2>2, MinOf
    <2>4. PICK d : d = Min(D)
      OBVIOUS
    <2>5. d \in 1..Len(q.entries) /\ q.entries[d].key = key
      BY <1>3, <2>2, <2>3, <2>4
    <2>6. \A j \in 1..(d-1) : q.entries[j].key # key
      <3> SUFFICES ASSUME NEW j \in 1..(d-1), q.entries[j].key = key
                   PROVE  FALSE
        OBVIOUS
      <3>1. j \in DOMAIN q.entries
        BY <2>1, <2>5
      <3>2. j \in D
        BY <1>3, <3>1
      <3>3. d =< j
        BY <2>3, <2>4, <3>2
      <3> QED BY <2>5, <3>3
    <2> HIDE DEF new, t
    <2>7. t[new] = FormatLine(q.type, q.entries[d])
      BY <1>8, <2>5, <2>6 DEF Told
    <2>8. DOMAIN q.entries = 1..Len(q.entries)
      BY <2>1
    <2> HIDE DEF FormatLine, Min
    <2> QED BY <2>4, <2>5, <2>7, <2>8
  <1>10. GetKeyValue(file', q.type, key) = Reading(q.type, t[new])
    <2>1. file' \in Seq(Line)
      BY <1>1, <1>2 DEF KeyValueStep
    <2> QED BY <1>4, <1>8, <2>1, GetIs
  <1>11. Reading(q.type, FormatLine(q.type, q.entries[Min(D)])) = ReadBack(q.entries[Min(D)])
    <2>1. q.type \in ConfTypes
      BY DEF Request
    <2>2. q.entries[Min(D)] \in Entry /\ q.entries[Min(D)].key \in Words
      BY <1>4, <1>9, KeyOfEntry
    <2>3. Readable(q.type, q.entries[Min(D)])
      BY <1>3, <1>9 DEF AllReadable
    <2> QED BY <2>1, <2>2, <2>3, FormatIs
  <1> QED BY <1>3, <1>9, <1>10, <1>11

\* What a call adds stands in its place.
LEMMA NewLinesPlaced == TypeOK /\ Next => PlacesByComment
  <1> SUFFICES ASSUME TypeOK, Next, kind = "keyvalue", call'.status = "new",
                      AllReadable(call'.req),
                      NEW k \in {call'.req.entries[i].key : i \in DOMAIN call'.req.entries},
                      FindActive(file, call'.req.type, k) = {}
               PROVE  LET new == Min(FindActive(file', call'.req.type, k))
                          comments == FindComment(file', k)
                      IN  IF comments # {}
                          THEN new = Max(comments) + 1
                          ELSE \A i \in new..Len(file') : i = new \/
                                  \E n \in DOMAIN call'.req.entries :
                                      file'[i] = FormatLine(call'.req.type, call'.req.entries[n])
    BY DEF PlacesByComment, IsKeyValueCall
  <1>1. file \in Seq(Line) /\ SplitLines(file) \in Seq(Line)
    BY KeyValueSteps
  <1>2. PICK q \in Request : KeyValueStep(q)
    BY KeyValueSteps
  <1>3. call'.req = q /\ Named(q) /\ file' = SetEntries(SplitLines(file), q)
    BY <1>2 DEF KeyValueStep
  <1>4. PICK i \in DOMAIN q.entries : q.entries[i].key = k
    BY <1>3
  <1>5. k \in Words /\ i \in 1..Len(q.entries)
    BY <1>3, <1>4, KeyOfEntry
  <1>6. FindActive(SplitLines(file), q.type, k) = {}
    BY <1>1, <1>3, SplitActive
  <1>7. KeySet(q, Len(q.entries), k, file')
    BY <1>1, <1>3, <1>5, <1>6, KeyEntered
  <1>8. Placed(q, Len(q.entries), k, file')
    BY <1>4, <1>5, <1>7 DEF KeySet
  <1>9. DOMAIN q.entries = 1..Len(q.entries)
    BY DEF Request
  <1> QED BY <1>3, <1>8, <1>9 DEF Placed

\* A call keeps the lines that are there.
LEMMA LinesStay == TypeOK /\ Next => KeepsLines
  <1> SUFFICES ASSUME TypeOK, Next, kind = "keyvalue"
               PROVE  \/ file' = file /\ call'.status \in {"kept", "refused"}
                      \/ /\ call'.status = "new" /\ Len(file') > Len(SplitLines(file))
                         /\ \E S \in kSubset(Len(SplitLines(file)), DOMAIN file') :
                              /\ \A i \in S : file'[i] = file[Cardinality({j \in S : j =< i})]
                              /\ \A i \in DOMAIN file' \ S : \E n \in DOMAIN call'.req.entries :
                                    file'[i] = FormatLine(call'.req.type, call'.req.entries[n])
    BY DEF KeepsLines, IsKeyValueCall
  <1>1. file \in Seq(Line) /\ SplitLines(file) \in Seq(Line)
    BY KeyValueSteps
  <1>2. PICK q \in Request : KeyValueStep(q)
    BY KeyValueSteps
  <1>3. CASE file' = file /\ call'.status \in {"kept", "refused"}
    BY <1>3
  <1>4. CASE /\ Named(q) /\ call'.status = "new" /\ file' = SetEntries(SplitLines(file), q)
             /\ file' \in Seq(Line) /\ Len(file') > Len(SplitLines(file))
    <2> DEFINE lines == SplitLines(file)
    <2>1. call'.req = q
      BY <1>2 DEF KeyValueStep
    <2>2. PICK at : Holds(q, Len(q.entries), lines, file', at)
      BY <1>1, <1>4, LinesHeld
    <2>3. PICK M \in Nat, N \in Nat : M = Len(lines) /\ N = Len(file')
      BY <1>1, <1>4
    <2>4. /\ at \in [1..M -> 1..N]
          /\ \A i, j \in 1..M : i < j => at[i] < at[j]
          /\ \A i \in 1..M : file'[at[i]] = lines[i]
          /\ \A j \in 1..N : \/ \E i \in 1..M : at[i] = j
                             \/ \E m \in 1..Len(q.entries) :
                                    file'[j] = FormatLine(q.type, q.entries[m])
      BY <2>2, <2>3 DEF Holds
    <2>5. \A i \in 1..M : lines[i] = file[i]
      BY <1>1, <2>3, SplitIs
    <2> HIDE DEF lines
    <2>6. PICK S : S = {at[i] : i \in 1..M}
      OBVIOUS
    <2>7. /\ Cardinality(S) = M
          /\ \A a \in 1..M : Cardinality({j \in S : j =< at[a]}) = a
      <3>1. at \in [1..M -> 1..N]
        BY <2>4
      <3>2. \A i, j \in 1..M : i < j => at[i] < at[j]
        BY <2>4
      <3> QED BY <3>1, <3>2, <2>6, Ranked
    <2>8. DOMAIN file' = 1..N
      BY <1>4, <2>3
    <2>9. S \in kSubset(M, DOMAIN file')
      BY <2>4, <2>6, <2>7, <2>8 DEF kSubset
    <2>10. \A i \in S : file'[i] = file[Cardinality({j \in S : j =< i})]
      <3> SUFFICES ASSUME NEW a \in 1..M
                   PROVE  file'[at[a]] = file[Cardinality({j \in S : j =< at[a]})]
        BY <2>6
      <3> QED BY <2>4, <2>5, <2>7
    <2>11. \A i \in DOMAIN file' \ S : \E n \in DOMAIN q.entries :
              file'[i] = FormatLine(q.type, q.entries[n])
      <3>1. DOMAIN q.entries = 1..Len(q.entries)
        BY DEF Request
      <3> QED BY <2>4, <2>6, <2>8, <3>1
    <2>12. M = Len(SplitLines(file))
      BY <2>3 DEF lines
    <2> QED BY <1>4, <2>1, <2>9, <2>10, <2>11, <2>12
  <1> QED BY <1>2, <1>3, <1>4 DEF KeyValueStep

\* Asking once more adds nothing.
LEMMA NothingRepeated == TypeOK => RepeatAddsNothing
  <1> SUFFICES ASSUME TypeOK, kind = "keyvalue", NEW q \in Requests, AllReadable(q)
               PROVE  ConfigureLines(ConfigureLines(file, q).content, q).status # "new"
    BY DEF RepeatAddsNothing
  <1>1. file \in Seq(Line) /\ q \in Request
    BY RequestsAssumption DEF TypeOK, Request
  <1> DEFINE lines == SplitLines(file)
             t == SetEntries(lines, q)
             r == ConfigureLines(file, q)
  <1>2. lines \in Seq(Line)
    BY <1>1, SplitIs
  <1>3. CASE r.status # "new"
    <2>1. r.content = file
      BY <1>1, <1>3, ConfigureIs
    <2> QED BY <1>3, <2>1
  <1>4. CASE r.status = "new"
    <2>1. Named(q) /\ r.content = t /\ t \in Seq(Line) /\ Trimmed(t)
      BY <1>1, <1>4, ConfigureIs
    <2> HIDE DEF r
    <2>2. SplitLines(t) = t
      <3> HIDE DEF t
      <3> QED BY <2>1, SplitTrimmed
    <2>3. ASSUME NEW i \in DOMAIN q.entries
          PROVE  FindActive(t, q.type, q.entries[i].key) # {}
      <3>1. q.entries[i].key \in Words /\ i \in 1..Len(q.entries)
        BY <1>1, <2>1, KeyOfEntry
      <3>2. CASE FindActive(lines, q.type, q.entries[i].key) # {}
        BY <1>1, <1>2, <2>1, <3>2, SetKeyKept
      <3>3. CASE FindActive(lines, q.type, q.entries[i].key) = {}
        <4>1. KeySet(q, Len(q.entries), q.entries[i].key, t)
          BY <1>1, <1>2, <2>1, <3>1, <3>3, KeyEntered
        <4> QED BY <3>1, <4>1 DEF KeySet
      <3> QED BY <3>2, <3>3
    <2>4. SetEntries(t, q) = t
      <3> HIDE DEF t
      <3> QED BY <1>1, <2>1, <2>3, NothingEntered
    <2> HIDE DEF t
    <2>5. ConfigureLines(t, q).status # "new"
      <3>1. ~(Len(SetEntries(SplitLines(t), q)) > Len(SplitLines(t)))
        BY <2>1, <2>2, <2>4
      <3> QED BY <1>1, <2>1, <3>1, ConfigureIs
    <2> QED BY <2>1, <2>5 DEF r
  <1> QED BY <1>3, <1>4

-----------------------------------------------------------------------------
(* The rules of pg_hba.conf. *)

\* Columns of one word each, joined.
LEMMA SingleWords ==
    ASSUME NEW S, NEW w \in Seq(S), 1 =< Len(w), NEW c, Len(c) = Len(w),
           \A i \in 1..Len(w) : c[i] = <<w[i]>>
    PROVE  FlattenSeq(c) = w
  <1>1. PICK m \in Nat : m = Len(w)
    OBVIOUS
  <1> DEFINE f == Data!TheFlatten(c, m)
  <1>2. FlattenSeq(c) = f[m]
    <2>1. FlattenSeq(c) = Data!Flatten(c)
      BY DEF FlattenSeq, Data!Flatten, Data!TheFlatten, Data!IsFlatten
    <2> QED BY <1>1, <2>1 DEF Data!Flatten
  <1>3. /\ f[1] = c[1]
        /\ \A i \in Nat : 1 =< i /\ i + 1 =< m => f[i+1] = f[i] \o c[i+1]
    BY <1>1, Data!FlattenUnfolds
  <1> HIDE DEF f
  <1> DEFINE T == {n \in Nat : 1 =< n /\ n =< m => f[n] = SubSeq(w, 1, n)}
  <1>4. 0 \in T
    OBVIOUS
  <1>5. ASSUME NEW n \in Nat, n \in T
        PROVE  n + 1 \in T
    <2> SUFFICES ASSUME n + 1 =< m
                 PROVE  f[n+1] = SubSeq(w, 1, n + 1)
      OBVIOUS
    <2>1. n + 1 \in 1..Len(w) /\ c[n+1] = <<w[n+1]>>
      BY <1>1
    <2>2. CASE n = 0
      BY <1>3, <2>1, <2>2
    <2>3. CASE n # 0
      <3>1. f[n+1] = SubSeq(w, 1, n) \o <<w[n+1]>>
        <4>1. 1 =< n /\ n =< m
          BY <2>3
        <4>2. f[n] = SubSeq(w, 1, n)
          BY <1>5, <4>1
        <4>3. f[n+1] = f[n] \o c[n+1]
          BY <1>3, <4>1
        <4> QED BY <2>1, <4>2, <4>3
      <3>2. SubSeq(w, 1, n) \o <<w[n+1]>> = SubSeq(w, 1, n + 1)
        BY <2>1
      <3> QED BY <3>1, <3>2
    <2> QED BY <2>2, <2>3
  <1> HIDE DEF T
  <1>6. Nat \subseteq T
    BY <1>4, <1>5, Data!Induction
  <1>7. f[m] = SubSeq(w, 1, m)
    BY <1>1, <1>6 DEF T
  <1>8. SubSeq(w, 1, m) = w
    BY <1>1
  <1> QED BY <1>2, <1>7, <1>8

\* A rule has a type, a database and users at least.
LEMMA ColumnsTyped ==
    ASSUME NEW q \in Rule
    PROVE  /\ Columns(q) \in Seq(Seq(HbaWords)) /\ 3 =< Len(Columns(q))
           /\ DOMAIN Columns(q) = 1..Len(Columns(q)) /\ Len(Columns(q)) \in Nat
           /\ \A i \in 1..Len(Columns(q)) : Columns(q)[i] \in Seq(HbaWords)
  <1> DEFINE Q == Seq(HbaWords)
             a == <<TypeColumn(q.type), q.database, q.users>>
             b == IF q.type # "LOCAL" /\ q.address # NoAddress THEN <<q.address>> ELSE << >>
             c == IF q.method # << >> THEN <<q.method>> ELSE << >>
             d == [i \in DOMAIN q.options |-> <<q.options[i]>>]
  <1>1. TypeColumn(q.type) \in Q /\ q.database \in Q /\ q.users \in Q
    <2>1. q.database \in Q /\ q.users \in Q
      BY DEF Rule
    <2>2. TypeColumn(q.type) \in {<<"local">>, <<"host">>, <<"unspecified">>}
      BY DEF TypeColumn
    <2>3. <<"local">> \in Q /\ <<"host">> \in Q /\ <<"unspecified">> \in Q
      BY WordsAssumption
    <2> HIDE DEF Q
    <2> QED BY <2>1, <2>2, <2>3
  <1>2. (q.address # NoAddress => q.address \in Q) /\ q.method \in Q
    BY DEF Rule
  <1>3. /\ q.options \in Seq(HbaWords) /\ DOMAIN q.options = 1..Len(q.options)
        /\ \A i \in DOMAIN q.options : <<q.options[i]>> \in Q
    BY DEF Rule
  <1>4. d \in Seq(Q)
    <2>1. PICK n \in Nat : n = Len(q.options)
      BY <1>3
    <2> HIDE DEF Q
    <2>2. d \in [1..n -> Q]
      BY <1>3, <2>1
    <2> HIDE DEF d
    <2> QED BY <2>2
  <1> HIDE DEF Q
  <1>5. a \in Seq(Q) /\ Len(a) = 3 /\ b \in Seq(Q) /\ c \in Seq(Q)
    BY <1>1, <1>2
  <1>6. Columns(q) = ((a \o b) \o c) \o d
    BY DEF Columns
  <1> HIDE DEF a, b, c, d
  <1>7. (a \o b) \in Seq(Q) /\ Len(a \o b) = Len(a) + Len(b)
    BY <1>5, Concatenated
  <1>8. ((a \o b) \o c) \in Seq(Q) /\ Len((a \o b) \o c) = Len(a \o b) + Len(c)
    BY <1>5, <1>7, Concatenated
  <1>9. Columns(q) \in Seq(Q) /\ Len(Columns(q)) = Len((a \o b) \o c) + Len(d)
    BY <1>4, <1>6, <1>8, Concatenated
  <1>10. Len(b) \in Nat /\ Len(c) \in Nat /\ Len(d) \in Nat
    BY <1>4, <1>5
  <1>11. 3 =< Len(Columns(q))
    BY <1>5, <1>7, <1>8, <1>9, <1>10
  <1>12. /\ DOMAIN Columns(q) = 1..Len(Columns(q))
         /\ \A i \in 1..Len(Columns(q)) : Columns(q)[i] \in Q
    BY <1>9
  <1>13. Len(Columns(q)) \in Nat
    BY <1>9
  <1> QED BY <1>9, <1>11, <1>12, <1>13 DEF Q

\* A row that is found reads as the rule,
LEMMA EqualRow ==
    ASSUME NEW q \in Rule, NEW words \in Seq(HbaWords), EqualColumns(words, Columns(q))
    PROVE  words = RuleWords(q)
  <1>1. 3 =< Len(Columns(q))
    BY ColumnsTyped
  <1> DEFINE C == Columns(q)
  <1>2. Len(words) = Len(C) /\ \A i \in 1..Len(words) : C[i] = <<words[i]>>
    BY DEF EqualColumns
  <1> HIDE DEF C
  <1>3. 1 =< Len(words)
    BY <1>1, <1>2 DEF C
  <1>4. FlattenSeq(C) = words
    BY <1>2, <1>3, SingleWords
  <1> QED BY <1>4 DEF RuleWords, C

\* and a row that reads as a rule of plain columns is found.
LEMMA PlainRow ==
    ASSUME NEW q \in Rule, IsPlain(q)
    PROVE  RuleWords(q) # << >> /\ EqualColumns(RuleWords(q), Columns(q))
  <1> DEFINE C == Columns(q)
  <1>1. PICK n \in Nat : n = Len(C) /\ 3 =< n
    BY ColumnsTyped
  <1>2. \A i \in 1..n : C[i] \in Seq(HbaWords) /\ Len(C[i]) = 1
    BY <1>1, ColumnsTyped DEF IsPlain
  <1> HIDE DEF C
  <1> DEFINE w == [i \in 1..n |-> C[i][1]]
  <1>3. \A i \in 1..n : C[i][1] \in HbaWords /\ C[i] = <<C[i][1]>>
    BY <1>2
  <1>4. w \in Seq(HbaWords) /\ Len(w) = n /\ DOMAIN w = 1..n /\ \A i \in 1..n : C[i] = <<w[i]>>
    BY <1>3
  <1> HIDE DEF w
  <1>5. FlattenSeq(C) = w
    BY <1>1, <1>4, SingleWords
  <1>6. EqualColumns(w, C)
    BY <1>1, <1>4 DEF EqualColumns
  <1>7. w # << >>
    BY <1>1, <1>4
  <1> QED BY <1>5, <1>6, <1>7 DEF RuleWords, C

\* The words of a rule are words.
LEMMA RuleTyped ==
    ASSUME NEW q \in Rule
    PROVE  RuleWords(q) \in Seq(HbaWords)
  <1>1. Columns(q) \in Seq(Seq(HbaWords))
    BY ColumnsTyped
  <1>2. RuleWords(q) = Data!Flatten(Columns(q))
    BY DEF RuleWords, FlattenSeq, Data!Flatten, Data!TheFlatten, Data!IsFlatten
  <1> QED BY <1>1, <1>2, Data!FlattenTyped

\* What a step of pg_hba.conf is.
RuleStep(q) ==
    /\ call'.req = q
    /\ \/ ContainsColumns(file, Columns(q)) /\ call'.status = "kept" /\ file' = file
       \/ /\ ~ContainsColumns(file, Columns(q)) /\ call'.status = "new"
          /\ file' = [lines |-> Append(file.lines, [words |-> RuleWords(q), comment |-> FALSE]),
                      ended |-> TRUE]

\* The lines where a rule is.
Places(lines, words) == {i \in DOMAIN lines : lines[i].words = words}

\* Every step of pg_hba.conf is a call that finds the rule, or appends it.
LEMMA RuleSteps ==
    ASSUME TypeOK, Next, kind = "pghba"
    PROVE  /\ file \in HbaFile /\ file.lines \in Seq(HbaLine)
           /\ \A i \in DOMAIN file.lines : file.lines[i].words \in Seq(HbaWords)
           /\ kind' = kind
           /\ \E q \in Rule : RuleStep(q)
  <1>1. file \in HbaFile /\ file.lines \in Seq(HbaLine)
    BY DEF TypeOK, HbaFile
  <1>2. \A i \in DOMAIN file.lines : file.lines[i].words \in Seq(HbaWords)
    <2> SUFFICES ASSUME NEW i \in DOMAIN file.lines
                 PROVE  file.lines[i].words \in Seq(HbaWords)
      OBVIOUS
    <2>1. file.lines[i] \in HbaLine
      BY <1>1
    <2> QED BY <2>1 DEF HbaLine
  <1>3. PICK q \in Rules : ConfigurePgHbaConf(q)
    BY DEF Next, ConfigureKeyValueConf
  <1>4. q \in Rule
    BY RulesAssumption
  <1>5. /\ kind' = kind /\ file' = ConfigureRules(file, q).content
        /\ call' = [req |-> q, status |-> ConfigureRules(file, q).status]
    BY <1>3 DEF ConfigurePgHbaConf
  <1>6. call'.req = q /\ call'.status = ConfigureRules(file, q).status
    BY <1>5
  <1>7. CASE ContainsColumns(file, Columns(q))
    <2>1. ConfigureRules(file, q) = [status |-> "kept", content |-> file]
      BY <1>7 DEF ConfigureRules
    <2>2. RuleStep(q)
      BY <1>5, <1>6, <1>7, <2>1 DEF RuleStep
    <2> QED BY <1>1, <1>2, <1>4, <1>5, <2>2
  <1>8. CASE ~ContainsColumns(file, Columns(q))
    <2>1. ConfigureRules(file, q) =
              [status |-> "new", content |-> WriteLine(EndLine(file), RuleWords(q))]
      BY <1>8 DEF ConfigureRules
    <2>2. EndLine(file).ended /\ EndLine(file).lines = file.lines
      BY <1>1 DEF EndLine, HbaFile
    <2>3. WriteLine(EndLine(file), RuleWords(q)) =
              [lines |-> Append(file.lines, [words |-> RuleWords(q), comment |-> FALSE]),
               ended |-> TRUE]
      BY <2>2 DEF WriteLine
    <2>4. RuleStep(q)
      BY <1>5, <1>6, <1>8, <2>1, <2>3 DEF RuleStep
    <2> QED BY <1>1, <1>2, <1>4, <1>5, <2>4
  <1> QED BY <1>7, <1>8

\* Appending a line adds one place.
LEMMA PlacesAppend ==
    ASSUME NEW lines \in Seq(HbaLine), NEW words
    PROVE  LET more == Append(lines, [words |-> words, comment |-> FALSE])
           IN  /\ IsFiniteSet(Places(lines, words)) /\ Cardinality(Places(lines, words)) \in Nat
               /\ Places(lines, words) = {} <=> Cardinality(Places(lines, words)) = 0
               /\ Cardinality(Places(more, words)) = Cardinality(Places(lines, words)) + 1
               /\ IsPrefix(lines, more)
  <1> DEFINE x == [words |-> words, comment |-> FALSE]
             more == Append(lines, x)
             P == Places(lines, words)
  <1>1. PICK n \in Nat : n = Len(lines)
    OBVIOUS
  <1>2. x.words = words
    OBVIOUS
  <1> HIDE DEF x
  <1>3. /\ Len(more) = n + 1 /\ DOMAIN more = 1..(n+1) /\ DOMAIN lines = 1..n
        /\ more[n+1] = x /\ \A i \in 1..n : more[i] = lines[i]
    BY <1>1
  <1>4. IsPrefix(lines, more)
    <2>1. SubSeq(lines, 1, Len(lines)) = SubSeq(more, 1, Len(lines))
      BY <1>1, <1>3
    <2> QED BY <1>1, <1>3, <2>1 DEF IsPrefix
  <1> HIDE DEF more
  <1>5. Places(more, words) = P \cup {n + 1}
    BY <1>2, <1>3 DEF Places
  <1>6. P \in SUBSET (1..n) /\ n + 1 \notin P
    BY <1>3 DEF Places
  <1>7. IsFiniteSet(1..n)
    BY FS_Interval
  <1> HIDE DEF P
  <1>8. IsFiniteSet(P)
    BY <1>6, <1>7, FS_Subset
  <1>9. Cardinality(P) \in Nat /\ (Cardinality(P) = 0 <=> P = {})
    BY <1>8, FS_CardinalityType, FS_EmptySet
  <1>10. Cardinality(P \cup {n + 1}) = Cardinality(P) + 1
    BY <1>6, <1>8, FS_AddElement
  <1> QED BY <1>4, <1>5, <1>8, <1>9, <1>10 DEF P, more, x

\* Where a row is found, the file holds the rule.
LEMMA ContainsPlaces ==
    ASSUME NEW q \in Rule, file.lines \in Seq(HbaLine),
           \A i \in DOMAIN file.lines : file.lines[i].words \in Seq(HbaWords)
    PROVE  /\ ContainsColumns(file, Columns(q)) => Places(file.lines, RuleWords(q)) # {}
           /\ IsPlain(q) /\ Places(file.lines, RuleWords(q)) # {} =>
                 ContainsColumns(file, Columns(q))
  <1>1. ASSUME ContainsColumns(file, Columns(q))
        PROVE  Places(file.lines, RuleWords(q)) # {}
    <2>1. PICK i \in DOMAIN file.lines : EqualColumns(file.lines[i].words, Columns(q))
      BY <1>1 DEF ContainsColumns
    <2>2. file.lines[i].words = RuleWords(q)
      BY <2>1, EqualRow
    <2> QED BY <2>2 DEF Places
  <1>2. ASSUME IsPlain(q), Places(file.lines, RuleWords(q)) # {}
        PROVE  ContainsColumns(file, Columns(q))
    <2>1. PICK i \in DOMAIN file.lines : file.lines[i].words = RuleWords(q)
      BY <1>2 DEF Places
    <2>2. RuleWords(q) # << >> /\ EqualColumns(RuleWords(q), Columns(q))
      BY <1>2, PlainRow
    <2> QED BY <2>1, <2>2 DEF ContainsColumns
  <1> QED BY <1>1, <1>2

\* The rules of the file keep their places.
LEMMA RulesStay == TypeOK /\ Next => KeepsRules
  <1> SUFFICES ASSUME TypeOK, Next, kind = "pghba"
               PROVE  /\ IsPrefix(file.lines, file'.lines)
                      /\ Times(file', call'.req) >= 1
                      /\ call'.status = "kept" => file' = file
    BY DEF KeepsRules, IsPgHbaCall
  <1>1. /\ file \in HbaFile /\ file.lines \in Seq(HbaLine)
        /\ \A i \in DOMAIN file.lines : file.lines[i].words \in Seq(HbaWords)
    BY RuleSteps
  <1>2. PICK q \in Rule : RuleStep(q)
    BY RuleSteps
  <1>3. \A f : Times(f, q) = Cardinality(Places(f.lines, RuleWords(q)))
    BY DEF Times, Places
  <1>4. CASE ContainsColumns(file, Columns(q)) /\ file' = file
    <2>1. Cardinality(Places(file.lines, RuleWords(q))) >= 1
      <3>1. Places(file.lines, RuleWords(q)) # {}
        BY <1>1, <1>4, ContainsPlaces
      <3>2. /\ Cardinality(Places(file.lines, RuleWords(q))) \in Nat
            /\ Cardinality(Places(file.lines, RuleWords(q))) # 0
        BY <1>1, <3>1, PlacesAppend
      <3> QED BY <3>2
    <2>2. IsPrefix(file.lines, file'.lines)
      BY <1>1, <1>4 DEF IsPrefix
    <2> QED BY <1>2, <1>3, <1>4, <2>1, <2>2 DEF RuleStep
  <1>5. CASE /\ call'.status = "new"
             /\ file' = [lines |-> Append(file.lines, [words |-> RuleWords(q), comment |-> FALSE]),
                         ended |-> TRUE]
    <2>1. file'.lines = Append(file.lines, [words |-> RuleWords(q), comment |-> FALSE])
      BY <1>5
    <2>2. /\ Cardinality(Places(file.lines, RuleWords(q))) \in Nat
          /\ Cardinality(Places(file'.lines, RuleWords(q))) =
                Cardinality(Places(file.lines, RuleWords(q))) + 1
          /\ IsPrefix(file.lines, file'.lines)
      BY <1>1, <2>1, PlacesAppend
    <2>3. Cardinality(Places(file'.lines, RuleWords(q))) >= 1
      BY <2>2
    <2> QED BY <1>2, <1>3, <1>5, <2>2, <2>3 DEF RuleStep
  <1> QED BY <1>2, <1>4, <1>5 DEF RuleStep

\* A rule of plain columns is added if it is not there.
LEMMA PlainRuleAdded == TypeOK /\ Next => AddsPlainRuleOnce
  <1> SUFFICES ASSUME TypeOK, Next, kind = "pghba", IsPlain(call'.req)
               PROVE  Times(file', call'.req) = IF Times(file, call'.req) = 0 THEN 1
                                                ELSE Times(file, call'.req)
    BY DEF AddsPlainRuleOnce, IsPgHbaCall
  <1>1. /\ file \in HbaFile /\ file.lines \in Seq(HbaLine)
        /\ \A i \in DOMAIN file.lines : file.lines[i].words \in Seq(HbaWords)
    BY RuleSteps
  <1>2. PICK q \in Rule : RuleStep(q)
    BY RuleSteps
  <1>3. \A f : Times(f, q) = Cardinality(Places(f.lines, RuleWords(q)))
    BY DEF Times, Places
  <1>4. call'.req = q /\ IsPlain(q)
    BY <1>2 DEF RuleStep
  <1>5. ContainsColumns(file, Columns(q)) <=> Cardinality(Places(file.lines, RuleWords(q))) # 0
    <2>1. ContainsColumns(file, Columns(q)) <=> Places(file.lines, RuleWords(q)) # {}
      BY <1>1, <1>4, ContainsPlaces
    <2>2. Places(file.lines, RuleWords(q)) = {} <=>
              Cardinality(Places(file.lines, RuleWords(q))) = 0
      BY <1>1, PlacesAppend
    <2> QED BY <2>1, <2>2
  <1>6. CASE ContainsColumns(file, Columns(q)) /\ file' = file
    BY <1>3, <1>4, <1>5, <1>6
  <1>7. CASE /\ ~ContainsColumns(file, Columns(q))
             /\ file' = [lines |-> Append(file.lines, [words |-> RuleWords(q), comment |-> FALSE]),
                         ended |-> TRUE]
    <2>1. file'.lines = Append(file.lines, [words |-> RuleWords(q), comment |-> FALSE])
      BY <1>7
    <2>2. Cardinality(Places(file'.lines, RuleWords(q))) =
              Cardinality(Places(file.lines, RuleWords(q))) + 1
      BY <1>1, <2>1, PlacesAppend
    <2>3. Cardinality(Places(file.lines, RuleWords(q))) = 0
      BY <1>5, <1>7
    <2>4. Cardinality(Places(file'.lines, RuleWords(q))) = 1
      BY <2>2, <2>3
    <2> QED BY <1>3, <1>4, <2>3, <2>4
  <1> QED BY <1>2, <1>6, <1>7 DEF RuleStep

-----------------------------------------------------------------------------
(* The theorems. *)

\* The files start as sequences of lines.
LEMMA TypesInit == Init => TypeOK
  BY FilesAssumption DEF Init, TypeOK

\* Every call leaves a sequence of lines.
LEMMA TypesNext == TypeOK /\ [Next]_vars => TypeOK'
  <1> SUFFICES ASSUME TypeOK, [Next]_vars
               PROVE  TypeOK'
    OBVIOUS
  <1>1. kind \in {"keyvalue", "pghba"} \/ UNCHANGED vars
    BY DEF Next, ConfigureKeyValueConf, ConfigurePgHbaConf
  <1>2. CASE UNCHANGED vars
    BY <1>2 DEF vars, TypeOK
  <1>3. CASE Next /\ kind = "keyvalue"
    <2>1. file \in Seq(Line) /\ kind' = kind /\ \E q \in Request : KeyValueStep(q)
      BY <1>3, KeyValueSteps
    <2>2. file' \in Seq(Line) /\ call'.status \in {"none", "refused", "kept", "new"}
      BY <2>1 DEF KeyValueStep
    <2> QED BY <1>3, <2>1, <2>2 DEF TypeOK
  <1>4. CASE Next /\ kind = "pghba"
    <2>1. file \in HbaFile /\ file.lines \in Seq(HbaLine) /\ kind' = kind
      BY <1>4, RuleSteps
    <2>2. PICK q \in Rule : RuleStep(q)
      BY <1>4, RuleSteps
    <2>3. [words |-> RuleWords(q), comment |-> FALSE] \in HbaLine
      BY RuleTyped DEF HbaLine
    <2>4. Append(file.lines, [words |-> RuleWords(q), comment |-> FALSE]) \in Seq(HbaLine)
      BY <2>1, <2>3
    <2>5. file' \in HbaFile /\ call'.status \in {"none", "refused", "kept", "new"}
      <3>1. CASE file' = file /\ call'.status = "kept"
        BY <2>1, <3>1
      <3>2. CASE /\ call'.status = "new"
                 /\ file' = [lines |-> Append(file.lines,
                                              [words |-> RuleWords(q), comment |-> FALSE]),
                             ended |-> TRUE]
        BY <2>4, <3>2 DEF HbaFile
      <3> QED BY <2>2, <3>1, <3>2 DEF RuleStep
    <2> QED BY <1>4, <2>1, <2>5 DEF TypeOK
  <1> QED BY <1>1, <1>2, <1>3, <1>4

\* The files stay sequences of lines, whatever is asked for.
THEOREM ConfCallTypes == Spec => []TypeOK
  BY TypesInit, TypesNext, PTL DEF Spec

\* For any file and any requests, no call loses, moves or edits a line.
THEOREM ConfLinesKept == Spec => LinesKept
  BY ConfCallTypes, LinesStay, PTL DEF Spec, LinesKept

\* Nor changes what a key that is set reads as.
THEOREM ConfSetKeysKept == Spec => SetKeysKept
  BY ConfCallTypes, SetKeysStay, PTL DEF Spec, SetKeysKept

\* Every missing key of a request is set, and reads as its first entry.
THEOREM ConfEntriesReadBack == Spec => EntriesReadBack
  BY ConfCallTypes, MissingKeysSet, PTL DEF Spec, EntriesReadBack

\* The new lines stand after the comments of their keys, or at the end.
THEOREM ConfPlacedByComment == Spec => PlacedByComment
  BY ConfCallTypes, NewLinesPlaced, PTL DEF Spec, PlacedByComment

\* A request made again adds nothing to the file it has left.
THEOREM ConfRepeatAddsNothing == Spec => []RepeatAddsNothing
  BY ConfCallTypes, NothingRepeated, PTL

\* The rules of pg_hba.conf keep their text, their place and their precedence.
THEOREM HbaEarlierRulesFirst == Spec => EarlierRulesFirst
  BY ConfCallTypes, RulesStay, PTL DEF Spec, EarlierRulesFirst

\* A rule of plain columns is never in the file once more than before.
THEOREM HbaPlainRuleOnce == Spec => PlainRuleOnce
  BY ConfCallTypes, PlainRuleAdded, PTL DEF Spec, PlainRuleOnce
=============================================================================
