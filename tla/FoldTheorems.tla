----------------------------- MODULE FoldTheorems -----------------------------
(* Induction over data, for the proofs about the pure parts of the model: a  *)
(* set of numbers stands for the predicate, so that the provers can use the  *)
(* facts, and a module that folds another operator instantiates this one.    *)
EXTENDS Integers, Sequences, FiniteSetTheorems, TLAPS

CONSTANT Op(_, _)   \* what is folded over a sequence, from the left

\* FoldLeft(Op, base, s) and FlattenSeq(s) of the community modules, expanded.
Largest(t) == CHOOSE x \in t : \A y \in t : x >= y

IsFold(f, base, s, n) ==
    f = [t \in SUBSET (1..n) |->
            IF t = {} THEN base ELSE Op(f[t \ {Largest(t)}], s[Largest(t)])]

TheFold(base, s, n) == CHOOSE f : IsFold(f, base, s, n)

Fold(base, s) == TheFold(base, s, Len(s))[1..Len(s)]

IsFlatten(f, s, n) == f = [i \in 1..n |-> IF i = 1 THEN s[i] ELSE f[i-1] \o s[i]]

TheFlatten(s, n) == CHOOSE f : IsFlatten(f, s, n)

Flatten(s) == IF Len(s) = 0 THEN s ELSE TheFlatten(s, Len(s))[Len(s)]

-----------------------------------------------------------------------------
(* Numbers. *)

\* A set of natural numbers that is not empty has a least one.
LEMMA LeastNumber ==
    ASSUME NEW T \in SUBSET Nat, T # {}
    PROVE  \E x \in T : \A y \in T : x =< y
  <1> DEFINE R == OpToRel(<, Nat)
  <1>1. IsWellFoundedOn(R, Nat)
    BY NatLessThanWellFounded
  <1>2. \A m, n \in Nat : m < n => <<m, n>> \in R
    BY DEF OpToRel
  <1> HIDE DEF R
  <1>3. PICK x \in T : \A y \in T : ~(<<y, x>> \in R)
    BY <1>1, WFMin
  <1>4. \A y \in T : ~(y < x)
    BY <1>2, <1>3
  <1> QED BY <1>3, <1>4

\* Induction: a set with 0, and with n + 1 when it has n, has every number.
LEMMA Induction ==
    ASSUME NEW T, 0 \in T, \A n \in Nat : n \in T => n + 1 \in T
    PROVE  Nat \subseteq T
  <1> SUFFICES ASSUME Nat \ T # {} PROVE FALSE
    OBVIOUS
  <1>1. PICK x \in Nat \ T : \A y \in Nat \ T : x =< y
    BY LeastNumber
  <1>2. x # 0 /\ x - 1 \in Nat /\ x - 1 \in T
    BY <1>1
  <1>3. (x - 1) + 1 = x
    BY <1>1
  <1> QED BY <1>1, <1>2, <1>3

\* The largest of some of the numbers up to n is one of them.
LEMMA LargestOf ==
    ASSUME NEW n \in Nat, NEW t \in SUBSET (1..n), t # {}
    PROVE  Largest(t) \in t /\ \A y \in t : y =< Largest(t)
  <1> DEFINE D == {d \in Nat : n - d \in t}
  <1>1. \A x \in t : x \in 1..n /\ n - x \in Nat /\ n - (n - x) = x
    OBVIOUS
  <1>2. \A x \in t : n - x \in D
    BY <1>1
  <1>3. D \in SUBSET Nat /\ D # {}
    BY <1>2
  <1>4. PICK d \in D : \A e \in D : d =< e
    BY <1>3, LeastNumber
  <1>5. n - d \in t /\ d \in Nat
    OBVIOUS
  <1>6. \A y \in t : n - d >= y
    <2> SUFFICES ASSUME NEW y \in t PROVE n - d >= y
      OBVIOUS
    <2>1. d =< n - y
      BY <1>2, <1>4
    <2> QED BY <1>1, <1>5, <2>1
  <1> HIDE DEF D
  <1>7. Largest(t) \in t /\ \A y \in t : Largest(t) >= y
    BY <1>5, <1>6 DEF Largest
  <1> QED BY <1>1, <1>7

\* A set of them that has n has no larger one.
LEMMA LargestLast ==
    ASSUME NEW n \in Nat, NEW t \in SUBSET (1..n), n \in t
    PROVE  Largest(t) = n
  <1>1. Largest(t) \in t /\ n =< Largest(t)
    BY LargestOf
  <1>2. Largest(t) \in 1..n
    BY <1>1
  <1> HIDE DEF Largest
  <1> QED BY <1>1, <1>2

-----------------------------------------------------------------------------
(* Folds. *)

\* A fold over a sequence exists.
LEMMA FoldExists ==
    ASSUME NEW base, NEW s, NEW m \in Nat
    PROVE  \E f : IsFold(f, base, s, m)
  <1> DEFINE T == {n \in Nat : \E f : IsFold(f, base, s, n)}
  <1>1. 0 \in T
    <2> DEFINE f == [t \in SUBSET (1..0) |-> base]
    <2>1. IsFold(f, base, s, 0)
      BY DEF IsFold
    <2> QED BY <2>1
  <1>2. ASSUME NEW n \in Nat, n \in T
        PROVE  n + 1 \in T
    <2>1. PICK f : IsFold(f, base, s, n)
      BY <1>2
    <2> DEFINE g == [t \in SUBSET (1..(n+1)) |->
                        IF n + 1 \in t THEN Op(f[t \ {n+1}], s[n+1]) ELSE f[t]]
    <2>2. ASSUME NEW t \in SUBSET (1..(n+1))
          PROVE  g[t] = IF t = {} THEN base ELSE Op(g[t \ {Largest(t)}], s[Largest(t)])
      <3>1. CASE n + 1 \in t
        <4>1. Largest(t) = n + 1
          BY <3>1, LargestLast
        <4>2. t \ {n+1} \in SUBSET (1..n) /\ n + 1 \notin t \ {n+1}
          OBVIOUS
        <4> QED BY <3>1, <4>1, <4>2
      <3>2. CASE n + 1 \notin t
        <4>1. t \in SUBSET (1..n)
          BY <3>2
        <4>2. g[t] = f[t]
          BY <3>2
        <4>3. f[t] = IF t = {} THEN base ELSE Op(f[t \ {Largest(t)}], s[Largest(t)])
          BY <2>1, <4>1 DEF IsFold
        <4>4. g[t \ {Largest(t)}] = f[t \ {Largest(t)}]
          BY <3>2, <4>1
        <4> QED BY <4>2, <4>3, <4>4
      <3> QED BY <3>1, <3>2
    <2>3. IsFold(g, base, s, n + 1)
      BY <2>2 DEF IsFold
    <2> HIDE DEF g
    <2> QED BY <2>3
  <1> HIDE DEF T
  <1>3. Nat \subseteq T
    BY <1>1, <1>2, Induction
  <1> QED BY <1>3 DEF T

\* The fold that is chosen is a fold.
LEMMA TheFoldIs ==
    ASSUME NEW base, NEW s, NEW m \in Nat
    PROVE  IsFold(TheFold(base, s, m), base, s, m)
  BY FoldExists DEF TheFold

\* It takes one element after the other.
LEMMA FoldUnfolds ==
    ASSUME NEW base, NEW s, NEW m \in Nat, NEW f, IsFold(f, base, s, m)
    PROVE  \A n \in Nat : n + 1 =< m => f[1..(n+1)] = Op(f[1..n], s[n+1])
  <1> SUFFICES ASSUME NEW n \in Nat, n + 1 =< m
               PROVE  f[1..(n+1)] = Op(f[1..n], s[n+1])
    OBVIOUS
  <1> DEFINE u == 1..(n+1)
  <1>1. n + 1 \in Nat /\ n + 1 \in u
    OBVIOUS
  <1>2. u \in SUBSET (1..m) /\ u # {}
    OBVIOUS
  <1>3. u \ {n+1} = 1..n
    OBVIOUS
  <1>4. Largest(u) = n + 1
    BY <1>1, LargestLast
  <1>5. f[u] = Op(f[u \ {Largest(u)}], s[Largest(u)])
    <2> HIDE DEF u
    <2> QED BY <1>2 DEF IsFold
  <1> QED BY <1>3, <1>4, <1>5

\* Two folds over the first n elements agree on them.
LEMMA FoldAgrees ==
    ASSUME NEW base, NEW s, NEW t, NEW m \in Nat, NEW k \in Nat, k =< m,
           \A i \in 1..k : s[i] = t[i],
           NEW f, IsFold(f, base, s, k), NEW g, IsFold(g, base, t, m)
    PROVE  f[1..k] = g[1..k]
  <1>a. \A i \in Nat : i + 1 =< k => f[1..(i+1)] = Op(f[1..i], s[i+1])
    BY FoldUnfolds
  <1>b. \A i \in Nat : i + 1 =< m => g[1..(i+1)] = Op(g[1..i], t[i+1])
    BY FoldUnfolds
  <1> DEFINE T == {n \in Nat : n =< k => f[1..n] = g[1..n]}
  <1>1. 0 \in T
    <2>1. 1..0 = {}
      OBVIOUS
    <2>2. f[{}] = base /\ g[{}] = base
      BY DEF IsFold
    <2> QED BY <2>1, <2>2
  <1>2. ASSUME NEW n \in Nat, n \in T
        PROVE  n + 1 \in T
    <2> SUFFICES ASSUME n + 1 =< k
                 PROVE  f[1..(n+1)] = g[1..(n+1)]
      OBVIOUS
    <2>1. f[1..n] = g[1..n] /\ s[n+1] = t[n+1] /\ n + 1 =< m
      BY <1>2
    <2> QED BY <2>1, <1>a, <1>b
  <1> HIDE DEF T
  <1>3. Nat \subseteq T
    BY <1>1, <1>2, Induction
  <1> QED BY <1>3 DEF T

\* A fold goes on from what it has made of the elements before.
LEMMA FoldEmpty ==
    ASSUME NEW base
    PROVE  Fold(base, << >>) = base
  <1>1. IsFold(TheFold(base, << >>, 0), base, << >>, 0)
    BY TheFoldIs
  <1>2. 1..0 = {} /\ Len(<< >>) = 0
    OBVIOUS
  <1> QED BY <1>1, <1>2 DEF Fold, IsFold

\* One more element is one more application of Op.
LEMMA FoldAppend ==
    ASSUME NEW base, NEW S, NEW s \in Seq(S), NEW x \in S
    PROVE  Fold(base, Append(s, x)) = Op(Fold(base, s), x)
  <1>1. PICK t : t = Append(s, x)
    OBVIOUS
  <1>2. PICK n \in Nat : n = Len(s)
    OBVIOUS
  <1>3. PICK m \in Nat : m = Len(t)
    BY <1>1
  <1>4. m = n + 1 /\ t[m] = x
    BY <1>1, <1>2, <1>3
  <1>5. n =< m /\ \A i \in 1..n : s[i] = t[i]
    BY <1>1, <1>2, <1>4
  <1> DEFINE f == TheFold(base, s, n)
             g == TheFold(base, t, m)
  <1>6. IsFold(f, base, s, n) /\ IsFold(g, base, t, m)
    BY TheFoldIs
  <1>7. Fold(base, s) = f[1..n] /\ Fold(base, t) = g[1..m]
    BY <1>2, <1>3 DEF Fold
  <1> HIDE DEF f, g
  <1>8. f[1..n] = g[1..n]
    BY <1>5, <1>6, FoldAgrees
  <1>9. \A i \in Nat : i + 1 =< m => g[1..(i+1)] = Op(g[1..i], t[i+1])
    BY <1>6, FoldUnfolds
  <1>10. g[1..m] = Op(f[1..n], t[m])
    BY <1>4, <1>8, <1>9
  <1> QED BY <1>1, <1>4, <1>7, <1>10

-----------------------------------------------------------------------------
(* Sequences of sequences. *)

\* Sequences can be put end to end, however many they are.
LEMMA FlattenExists ==
    ASSUME NEW s, NEW m \in Nat
    PROVE  \E f : IsFlatten(f, s, m)
  <1> DEFINE T == {n \in Nat : \E f : IsFlatten(f, s, n)}
  <1>1. 0 \in T
    <2> DEFINE f == [i \in 1..0 |-> s]
    <2>1. IsFlatten(f, s, 0)
      BY DEF IsFlatten
    <2> QED BY <2>1
  <1>2. ASSUME NEW n \in Nat, n \in T
        PROVE  n + 1 \in T
    <2>1. PICK f : IsFlatten(f, s, n)
      BY <1>2
    <2> DEFINE g == [i \in 1..(n+1) |->
                        IF i = n + 1 THEN IF i = 1 THEN s[i] ELSE f[i-1] \o s[i] ELSE f[i]]
    <2>2. ASSUME NEW i \in 1..(n+1)
          PROVE  g[i] = IF i = 1 THEN s[i] ELSE g[i-1] \o s[i]
      <3>1. CASE i = n + 1
        <4>1. i # 1 => i - 1 \in 1..(n+1) /\ i - 1 # n + 1
          BY <3>1
        <4>2. i # 1 => g[i-1] = f[i-1]
          BY <4>1
        <4> QED BY <3>1, <4>2
      <3>2. CASE i # n + 1
        <4>1. i \in 1..n /\ (i # 1 => i - 1 \in 1..n /\ i - 1 # n + 1 /\ i - 1 \in 1..(n+1))
          BY <3>2
        <4>2. f[i] = IF i = 1 THEN s[i] ELSE f[i-1] \o s[i]
          BY <2>1, <4>1 DEF IsFlatten
        <4>3. g[i] = f[i] /\ (i # 1 => g[i-1] = f[i-1])
          BY <3>2, <4>1
        <4> QED BY <4>2, <4>3
      <3> QED BY <3>1, <3>2
    <2>3. IsFlatten(g, s, n + 1)
      BY <2>2 DEF IsFlatten
    <2> HIDE DEF g
    <2> QED BY <2>3
  <1> HIDE DEF T
  <1>3. Nat \subseteq T
    BY <1>1, <1>2, Induction
  <1> QED BY <1>3 DEF T

\* Each step of a flattening appends one sequence.
LEMMA FlattenUnfolds ==
    ASSUME NEW s, NEW m \in Nat
    PROVE  /\ 1 =< m => TheFlatten(s, m)[1] = s[1]
           /\ \A i \in Nat : 1 =< i /\ i + 1 =< m =>
                 TheFlatten(s, m)[i+1] = TheFlatten(s, m)[i] \o s[i+1]
  <1>1. PICK f : f = TheFlatten(s, m)
    OBVIOUS
  <1>2. IsFlatten(f, s, m)
    BY <1>1, FlattenExists DEF TheFlatten
  <1>3. 1 =< m => f[1] = s[1]
    BY <1>2 DEF IsFlatten
  <1>4. ASSUME NEW i \in Nat, 1 =< i, i + 1 =< m
        PROVE  f[i+1] = f[i] \o s[i+1]
    <2>1. i + 1 \in 1..m /\ i + 1 # 1 /\ (i + 1) - 1 = i
      BY <1>4
    <2>2. f[i+1] = f[(i+1)-1] \o s[i+1]
      BY <1>2, <2>1 DEF IsFlatten
    <2> QED BY <2>1, <2>2
  <1> QED BY <1>1, <1>3, <1>4

\* Sequences that begin alike are flattened alike as far as they do.
LEMMA FlattenAgrees ==
    ASSUME NEW s, NEW t, NEW m \in Nat, NEW k \in Nat,
           \A i \in 1..k : s[i] = t[i], k =< m, 1 =< k
    PROVE  TheFlatten(s, k)[k] = TheFlatten(t, m)[k]
  <1> DEFINE f == TheFlatten(s, k)
             g == TheFlatten(t, m)
  <1>a. f[1] = s[1] /\ \A i \in Nat : 1 =< i /\ i + 1 =< k => f[i+1] = f[i] \o s[i+1]
    BY FlattenUnfolds
  <1>b. g[1] = t[1] /\ \A i \in Nat : 1 =< i /\ i + 1 =< m => g[i+1] = g[i] \o t[i+1]
    <2>1. 1 =< m
      OBVIOUS
    <2> QED BY <2>1, FlattenUnfolds
  <1> HIDE DEF f, g
  <1> DEFINE T == {n \in Nat : 1 =< n /\ n =< k => f[n] = g[n]}
  <1>1. 0 \in T
    OBVIOUS
  <1>2. ASSUME NEW n \in Nat, n \in T
        PROVE  n + 1 \in T
    <2>1. CASE n = 0
      BY <1>a, <1>b, <2>1
    <2>2. CASE 1 =< n /\ n + 1 =< k
      <3>1. f[n] = g[n] /\ s[n+1] = t[n+1] /\ n + 1 =< m
        BY <1>2, <2>2
      <3>2. f[n+1] = f[n] \o s[n+1] /\ g[n+1] = g[n] \o t[n+1]
        BY <1>a, <1>b, <2>2, <3>1
      <3>3. f[n+1] = g[n+1]
        BY <3>1, <3>2
      <3> QED BY <3>3
    <2>3. CASE ~(n + 1 =< k)
      BY <2>3
    <2> QED BY <2>1, <2>2, <2>3
  <1> HIDE DEF T
  <1>3. Nat \subseteq T
    BY <1>1, <1>2, Induction
  <1>4. f[k] = g[k]
    BY <1>3 DEF T
  <1> QED BY <1>4 DEF f, g

\* There is one sequence without elements.
LEMMA EmptySequence ==
    ASSUME NEW S, NEW s \in Seq(S), Len(s) = 0
    PROVE  s = << >>
  OBVIOUS

\* A sequence stays one of the same elements.
LEMMA AppendTyped ==
    ASSUME NEW S, NEW s \in Seq(S), NEW x \in S
    PROVE  Append(s, x) \in Seq(S)
  OBVIOUS

\* A flattening has the elements of its parts.
LEMMA FlattenTyped ==
    ASSUME NEW S, NEW s \in Seq(Seq(S))
    PROVE  Flatten(s) \in Seq(S)
  <1>1. PICK m \in Nat : m = Len(s)
    OBVIOUS
  <1>2. CASE m = 0
    <2>1. s = << >>
      BY <1>1, <1>2, EmptySequence
    <2> QED BY <1>1, <1>2, <2>1 DEF Flatten
  <1>3. CASE m # 0
    <2> DEFINE f == TheFlatten(s, m)
    <2>1. f[1] = s[1] /\ \A i \in Nat : 1 =< i /\ i + 1 =< m => f[i+1] = f[i] \o s[i+1]
      <3>1. 1 =< m
        BY <1>3
      <3> QED BY <3>1, FlattenUnfolds
    <2>2. \A i \in Nat : 1 =< i /\ i =< m => s[i] \in Seq(S)
      BY <1>1
    <2> HIDE DEF f
    <2> DEFINE T == {n \in Nat : 1 =< n /\ n =< m => f[n] \in Seq(S)}
    <2>3. 0 \in T
      OBVIOUS
    <2>4. ASSUME NEW n \in Nat, n \in T
          PROVE  n + 1 \in T
      <3>1. CASE n = 0
        BY <2>1, <2>2, <3>1
      <3>2. CASE 1 =< n /\ n + 1 =< m
        <4>1. f[n] \in Seq(S) /\ s[n+1] \in Seq(S)
          BY <2>2, <2>4, <3>2
        <4>2. f[n+1] = f[n] \o s[n+1]
          BY <2>1, <3>2
        <4>3. f[n+1] \in Seq(S)
          BY <4>1, <4>2
        <4> QED BY <4>3
      <3>3. CASE ~(n + 1 =< m)
        BY <3>3
      <3> QED BY <3>1, <3>2, <3>3
    <2> HIDE DEF T
    <2>5. Nat \subseteq T
      BY <2>3, <2>4, Induction
    <2>6. f[m] \in Seq(S)
      BY <1>3, <2>5 DEF T
    <2> QED BY <1>1, <1>3, <2>6 DEF Flatten, f
  <1> QED BY <1>2, <1>3

\* One more sequence is one more concatenation.
LEMMA FlattenAppend ==
    ASSUME NEW S, NEW s \in Seq(Seq(S)), NEW x \in Seq(S)
    PROVE  Flatten(Append(s, x)) = Flatten(s) \o x
  <1> DEFINE Q == Seq(S)
  <1>0. s \in Seq(Q) /\ x \in Q
    OBVIOUS
  <1> HIDE DEF Q
  <1>1. PICK t \in Seq(Q) : t = Append(s, x)
    BY <1>0, AppendTyped
  <1>2. PICK n \in Nat : n = Len(s)
    BY <1>0
  <1>3. PICK m \in Nat : m = Len(t)
    OBVIOUS
  <1>4. m = n + 1 /\ t[m] = x
    BY <1>0, <1>1, <1>2, <1>3
  <1>5. CASE n = 0
    <2>1. TheFlatten(t, m)[1] = t[1]
      <3>1. 1 =< m
        BY <1>4
      <3> QED BY <3>1, FlattenUnfolds
    <2>2. Flatten(t) = x
      BY <1>3, <1>4, <1>5, <2>1 DEF Flatten
    <2>3. s = << >> /\ Flatten(s) = << >>
      <3>1. s = << >>
        BY <1>0, <1>2, <1>5, EmptySequence
      <3> QED BY <1>2, <1>5, <3>1 DEF Flatten
    <2>4. << >> \o x = x
      OBVIOUS
    <2> QED BY <1>1, <2>2, <2>3, <2>4
  <1>6. CASE n # 0
    <2>1. 1 =< n /\ n =< m /\ \A i \in 1..n : s[i] = t[i]
      BY <1>0, <1>1, <1>2, <1>4, <1>6
    <2>2. TheFlatten(s, n)[n] = TheFlatten(t, m)[n]
      BY <2>1, FlattenAgrees
    <2>3. \A i \in Nat : 1 =< i /\ i + 1 =< m =>
              TheFlatten(t, m)[i+1] = TheFlatten(t, m)[i] \o t[i+1]
      BY FlattenUnfolds
    <2>4. TheFlatten(t, m)[m] = TheFlatten(t, m)[n] \o x
      <3>1. n + 1 =< m /\ n + 1 = m
        BY <1>4
      <3>2. TheFlatten(t, m)[n+1] = TheFlatten(t, m)[n] \o t[n+1]
        BY <2>1, <2>3, <3>1
      <3> QED BY <1>4, <3>1, <3>2
    <2>5. Flatten(t) = TheFlatten(t, m)[m] /\ Flatten(s) = TheFlatten(s, n)[n]
      BY <1>2, <1>3, <1>4, <1>6 DEF Flatten
    <2> QED BY <1>1, <2>2, <2>4, <2>5
  <1> QED BY <1>5, <1>6

-----------------------------------------------------------------------------
(* Orders. *)

\* f lists n elements of S, each of them once, in the order R.
Lists(f, n, S, R) ==
    /\ f \in [1..n -> S]
    /\ \A i, j \in 1..n : i # j => f[i] # f[j]
    /\ \A i, j \in 1..n : i < j => <<f[i], f[j]>> \in R

\* Every set of elements of S has one that comes before the others.
HasFirsts(S, R) ==
    \A I \in SUBSET S : I # {} => \E i \in I : \A j \in I \ {i} : <<i, j>> \in R

\* The others can be listed after the first one.
LEMMA ListsLonger ==
    ASSUME NEW S, NEW R, NEW n \in Nat, NEW r \in S, \A j \in S \ {r} : <<r, j>> \in R,
           NEW f, Lists(f, n, S \ {r}, R)
    PROVE  \E g : Lists(g, n + 1, S, R)
  <1> DEFINE g == [i \in 1..(n + 1) |-> IF i = 1 THEN r ELSE f[i - 1]]
  <1>1. \A i \in 1..(n + 1) : i # 1 => i - 1 \in 1..n /\ g[i] = f[i - 1] /\ f[i - 1] \in S \ {r}
    BY DEF Lists
  <1>2. g[1] = r
    OBVIOUS
  <1>3. g \in [1..(n + 1) -> S]
    BY <1>1
  <1> HIDE DEF g
  <1>4. ASSUME NEW i \in 1..(n + 1), NEW j \in 1..(n + 1), i < j
        PROVE  g[i] # g[j] /\ <<g[i], g[j]>> \in R
    <2>1. j # 1 /\ j - 1 \in 1..n /\ g[j] = f[j - 1] /\ f[j - 1] \in S \ {r}
      BY <1>1, <1>4
    <2>2. CASE i = 1
      BY <1>2, <2>1, <2>2
    <2>3. CASE i # 1
      <3>1. i - 1 \in 1..n /\ g[i] = f[i - 1] /\ i - 1 < j - 1 /\ i - 1 # j - 1
        BY <1>1, <1>4, <2>3
      <3> QED BY <2>1, <3>1 DEF Lists
    <2> QED BY <2>2, <2>3
  <1>5. ASSUME NEW i \in 1..(n + 1), NEW j \in 1..(n + 1), i # j
        PROVE  g[i] # g[j]
    <2>1. i < j \/ j < i
      BY <1>5
    <2> QED BY <1>4, <2>1
  <1> QED BY <1>3, <1>4, <1>5 DEF Lists

\* g counts the elements of S.
Counts(g, n, S) ==
    /\ g \in [1..n -> S]
    /\ \A i, j \in 1..n : i # j => g[i] # g[j]
    /\ \A x \in S : \E i \in 1..n : g[i] = x

\* A set that can be counted is finite.
LEMMA CountedFinite ==
    ASSUME NEW S, NEW n \in Nat, NEW g, Counts(g, n, S)
    PROVE  IsFiniteSet(S) /\ Cardinality(S) = n
  <1>1. g \in Bijection(1..n, S)
    BY DEF Counts, Bijection, Injection, Surjection, IsInjective
  <1>2. IsFiniteSet(1..n) /\ Cardinality(1..n) = n
    BY FS_Interval
  <1>3. ExistsBijection(1..n, S)
    BY <1>1 DEF ExistsBijection
  <1> QED BY <1>2, <1>3, FS_Bijection

\* A list as long as the set leaves out nothing.
LEMMA ListsAll ==
    ASSUME NEW S, NEW n \in Nat, NEW g, Counts(g, n, S), NEW R, NEW f, Lists(f, n, S, R)
    PROVE  \A x \in S : \E i \in 1..n : f[i] = x
  <1>1. f \in Injection(1..n, S)
    BY DEF Lists, Injection, IsInjective
  <1>2. IsFiniteSet(1..n) /\ Cardinality(1..n) = n
    BY FS_Interval
  <1>3. IsFiniteSet(S) /\ Cardinality(S) = n
    BY CountedFinite
  <1>4. f \in Surjection(1..n, S)
    BY <1>1, <1>2, <1>3, FS_Injection
  <1> QED BY <1>4 DEF Surjection

\* A finite set is listed by an order that gives each part of it a first element.
LEMMA ListExists ==
    ASSUME NEW S, NEW n \in Nat, NEW g, Counts(g, n, S), NEW R, HasFirsts(S, R)
    PROVE  \E f : Lists(f, n, S, R)
  <1> DEFINE T == {m \in Nat : \A I \in SUBSET S :
                      IsFiniteSet(I) /\ Cardinality(I) = m => \E f : Lists(f, m, I, R)}
  <1>1. 0 \in T
    <2> SUFFICES ASSUME NEW I \in SUBSET S PROVE \E f : Lists(f, 0, I, R)
      OBVIOUS
    <2> DEFINE f == [i \in 1..0 |-> CHOOSE r \in I : TRUE]
    <2>1. Lists(f, 0, I, R)
      BY DEF Lists
    <2> HIDE DEF f
    <2> QED BY <2>1
  <1>2. ASSUME NEW m \in Nat, m \in T
        PROVE  m + 1 \in T
    <2> SUFFICES ASSUME NEW I \in SUBSET S, IsFiniteSet(I), Cardinality(I) = m + 1
                 PROVE  \E f : Lists(f, m + 1, I, R)
      OBVIOUS
    <2>1. I # {}
      BY FS_EmptySet
    <2>2. PICK r \in I : \A j \in I \ {r} : <<r, j>> \in R
      BY <2>1 DEF HasFirsts
    <2>3. IsFiniteSet(I \ {r}) /\ Cardinality(I \ {r}) = m
      <3>1. IsFiniteSet(I \ {r}) /\ Cardinality(I \ {r}) = (m + 1) - 1
        BY FS_RemoveElement
      <3> QED BY <3>1
    <2>4. PICK f : Lists(f, m, I \ {r}, R)
      BY <1>2, <2>3
    <2> HIDE DEF T
    <2> QED BY <2>2, <2>4, ListsLonger
  <1> HIDE DEF T
  <1>3. Nat \subseteq T
    BY <1>1, <1>2, Induction
  <1>4. IsFiniteSet(S) /\ Cardinality(S) = n /\ S \in SUBSET S
    BY CountedFinite
  <1> QED BY <1>3, <1>4 DEF T
=============================================================================
