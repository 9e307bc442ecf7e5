---------------------------- MODULE Texts_proofs ----------------------------
(***************************************************************************)
(* Induction, and what holds of texts of any length.                       *)
(***************************************************************************)
EXTENDS Texts, FiniteSetTheorems, SequenceTheorems, WellFoundedInduction, TLAPS

(***************************************************************************)
(* Induction.  A property is given as the set of the numbers that have it. *)
(***************************************************************************)
(* A set of naturals has a least element: initial intervals are well       *)
(* founded under inclusion.                                                *)
LEMMA NatMin ==
  ASSUME NEW S \in SUBSET Nat, S # {}
  PROVE  \E n \in S : \A k \in S : n <= k
<1>1. PICK m \in S : TRUE
  OBVIOUS
<1> DEFINE U == FiniteSubsetsOf(1..m)
           T == {1..k : k \in {j \in S : j <= m}}
<1>2. IsWellFoundedOn(StrictSubsetOrdering(1..m), U)
  BY FS_StrictSubsetOrderingWellFounded
<1>3. T \subseteq U /\ T # {}
  <2>1. ASSUME NEW k \in S, k <= m PROVE 1..k \in U
    BY <2>1, FS_Interval DEF FiniteSubsetsOf
  <2> QED
    BY <1>1, <2>1
<1>4. PICK t \in T : \A y \in T : ~(<<y, t>> \in StrictSubsetOrdering(1..m))
  <2> HIDE DEF T, U
  <2> QED
    BY <1>2, <1>3, WFMin
<1>5. PICK n \in S : n <= m /\ t = 1..n
  BY <1>4
<1>6. ASSUME NEW k \in S, k < n PROVE FALSE
  <2>1. 1..k \in T /\ 1..k \subseteq 1..n /\ n \in 1..n /\ n \notin 1..k /\ n <= m
    BY <1>5, <1>6
  <2>2. <<1..k, 1..n>> \in StrictSubsetOrdering(1..m)
    BY <2>1 DEF StrictSubsetOrdering
  <2> QED
    BY <1>4, <1>5, <2>1, <2>2
<1> QED
  BY <1>6

(* A set with 0 and the successor of each of its elements holds every      *)
(* natural number; the least one it lacked would have a predecessor.       *)
LEMMA NatInductive ==
  ASSUME NEW S, 0 \in S, \A i \in Nat : i \in S => i + 1 \in S
  PROVE  \A i \in Nat : i \in S
<1> SUFFICES ASSUME Nat \ S # {} PROVE FALSE
  OBVIOUS
<1>1. PICK n \in Nat \ S : \A k \in Nat \ S : n <= k
  BY NatMin
<1>2. n # 0 /\ n - 1 \in Nat /\ n - 1 \in S
  BY <1>1
<1>3. (n - 1) + 1 \in S
  BY <1>2
<1> QED
  BY <1>1, <1>2, <1>3

(* Of an interval, upwards. *)
LEMMA UpInduction ==
  ASSUME NEW n \in Nat, NEW S, 0 \in S,
         \A i \in 0..(n - 1) : i \in S => i + 1 \in S
  PROVE  \A i \in 0..n : i \in S
<1> DEFINE T == S \cup {i \in Nat : i > n}
<1>1. 0 \in T /\ \A i \in Nat : i \in T => i + 1 \in T
  OBVIOUS
<1>2. \A i \in Nat : i \in T
  <2> HIDE DEF T
  <2> QED
    BY <1>1, NatInductive
<1> QED
  BY <1>2

(* Of an interval, downwards. *)
LEMMA DownInduction ==
  ASSUME NEW n \in Nat, NEW S, n \in S,
         \A i \in 1..n : i \in S => i - 1 \in S
  PROVE  \A i \in 0..n : i \in S
<1> DEFINE T == {i \in 0..n : n - i \in S}
<1>1. 0 \in T /\ \A i \in 0..(n - 1) : i \in T => i + 1 \in T
  OBVIOUS
<1>2. \A i \in 0..n : i \in T
  <2> HIDE DEF T
  <2> QED
    BY <1>1, UpInduction
<1> QED
  BY <1>2

(* A recursion along an interval defines a function.                       *)
IsRecursion(f, n, base, step) ==
  f[0] = base /\ \A i \in 1..n : f[i] = step[i][f[i - 1]]

LEMMA Recursion ==
  ASSUME NEW n \in Nat, NEW S, NEW base \in S, NEW step \in [1..n -> [S -> S]]
  PROVE  \E f \in [0..n -> S] : IsRecursion(f, n, base, step)
<1> DEFINE Works(f, k) == IsRecursion(f, k, base, step)
           D == {k \in 0..n : \E f \in [0..k -> S] : Works(f, k)}
<1> USE DEF IsRecursion
<1>1. 0 \in D
  <2> DEFINE g == [i \in 0..0 |-> base]
  <2>1. g \in [0..0 -> S] /\ Works(g, 0)
    OBVIOUS
  <2> HIDE DEF g, IsRecursion
  <2> QED
    BY <2>1
<1>2. ASSUME NEW k \in 0..(n - 1), k \in D
      PROVE  k + 1 \in D
  <2>1. PICK f \in [0..k -> S] : Works(f, k)
    BY <1>2
  <2> DEFINE g == [i \in 0..(k + 1) |-> IF i = k + 1 THEN step[k + 1][f[k]] ELSE f[i]]
  <2>2. g \in [0..(k + 1) -> S]
    OBVIOUS
  <2>3. Works(g, k + 1)
    <3>1. g[0] = base
      BY <2>1
    <3>2. ASSUME NEW i \in 1..(k + 1) PROVE g[i] = step[i][g[i - 1]]
      <4>1. CASE i = k + 1
        BY <4>1
      <4>2. CASE i # k + 1
        BY <2>1, <4>2
      <4> QED
        BY <4>1, <4>2
    <3> QED
      BY <3>1, <3>2
  <2> HIDE DEF g, IsRecursion
  <2> QED
    BY <2>2, <2>3
<1>3. \A k \in 0..n : k \in D
  <2> HIDE DEF D
  <2> QED
    BY <1>1, <1>2, UpInduction
<1> QED
  BY <1>3
(* And one down an interval. *)
IsDownRecursion(f, n, last, step) ==
  f[n + 1] = last /\ \A i \in 1..n : f[i] = step[i][f[i + 1]]

LEMMA DownRecursion ==
  ASSUME NEW n \in Nat, NEW S, NEW last \in S, NEW step \in [1..n -> [S -> S]]
  PROVE  \E f \in [1..(n + 1) -> S] : IsDownRecursion(f, n, last, step)
<1> DEFINE back == [i \in 1..n |-> step[n + 1 - i]]
<1>1. back \in [1..n -> [S -> S]]
  OBVIOUS
<1>2. PICK g \in [0..n -> S] : IsRecursion(g, n, last, back)
  <2> HIDE DEF back
  <2> QED
    BY <1>1, Recursion
<1> DEFINE f == [i \in 1..(n + 1) |-> g[n + 1 - i]]
<1>3. f \in [1..(n + 1) -> S]
  OBVIOUS
<1>4. f[n + 1] = last
  BY <1>2 DEF IsRecursion
<1>5. ASSUME NEW i \in 1..n PROVE f[i] = step[i][f[i + 1]]
  <2>1. n + 1 - i \in 1..n /\ (n + 1 - i) - 1 = n + 1 - (i + 1) /\ n + 1 - (n + 1 - i) = i
    OBVIOUS
  <2>2. g[n + 1 - i] = back[n + 1 - i][g[n + 1 - (i + 1)]]
    BY <1>2, <2>1 DEF IsRecursion
  <2>3. back[n + 1 - i] = step[i]
    BY <2>1
  <2>4. f[i] = g[n + 1 - i] /\ f[i + 1] = g[n + 1 - (i + 1)]
    BY <2>1
  <2> HIDE DEF f, back
  <2> QED
    BY <2>2, <2>3, <2>4
<1> HIDE DEF f
<1> QED
  BY <1>3, <1>4, <1>5 DEF IsDownRecursion

(***************************************************************************)
(* Concatenation.                                                          *)
(***************************************************************************)
(* The recursion in FlattenSeq. *)
IsFlatten(f, seqs) ==
  f = [i \in 1..Len(seqs) |-> IF i = 1 THEN seqs[i] ELSE f[i - 1] \o seqs[i]]

LEMMA FlattenExists ==
  ASSUME NEW S, NEW seqs \in Seq(Seq(S)), seqs # <<>>
  PROVE  /\ \E f \in [1..Len(seqs) -> Seq(S)] : IsFlatten(f, seqs)
<1> DEFINE n == Len(seqs)
           step == [i \in 1..n |-> [t \in Seq(S) |-> t \o seqs[i]]]
<1>1. n \in Nat \ {0} /\ \A i \in 1..n : seqs[i] \in Seq(S)
  OBVIOUS
<1>2. step \in [1..n -> [Seq(S) -> Seq(S)]] /\ <<>> \in Seq(S)
  BY <1>1
<1>3. PICK g \in [0..n -> Seq(S)] :
        g[0] = <<>> /\ \A i \in 1..n : g[i] = step[i][g[i - 1]]
  <2> DEFINE T == Seq(S)
             empty == <<>>
  <2>1. n \in Nat /\ step \in [1..n -> [T -> T]] /\ empty \in T
    BY <1>1, <1>2
  <2> HIDE DEF n, step, T, empty
  <2>2. \E g \in [0..n -> T] : IsRecursion(g, n, empty, step)
    BY <2>1, Recursion
  <2> QED
    BY <2>2 DEF T, empty, IsRecursion
<1> DEFINE f == [i \in 1..n |-> g[i]]
<1>4. f \in [1..n -> Seq(S)]
  BY <1>3
<1>5. ASSUME NEW i \in 1..n
      PROVE  f[i] = IF i = 1 THEN seqs[i] ELSE f[i - 1] \o seqs[i]
  <2>0. g[i - 1] \in Seq(S) /\ seqs[i] \in Seq(S)
    <3> HIDE DEF n
    <3> QED
      BY <1>1, <1>3
  <2>1. g[i] = g[i - 1] \o seqs[i]
    <3>1. step[i][g[i - 1]] = g[i - 1] \o seqs[i]
      BY <2>0
    <3> QED
      BY <1>3, <3>1
  <2>2. i = 1 => g[i] = seqs[i]
    <3>1. <<>> \o seqs[i] = seqs[i]
      BY <2>0, ConcatEmptySeq
    <3> HAVE i = 1
    <3>2. g[i - 1] = <<>>
      BY <1>3
    <3> HIDE DEF f
    <3> QED
      BY <2>1, <3>1, <3>2
  <2>3. i # 1 => g[i - 1] = f[i - 1]
    OBVIOUS
  <2> QED
    BY <2>1, <2>2, <2>3
<1>6. IsFlatten(f, seqs)
  BY <1>5 DEF IsFlatten
<1> QED
  <2> HIDE DEF f
  <2> QED
    BY <1>4, <1>6

(* Two lists agree in their first n elements. *)
Agree(s, t, n) == \A i \in 1..n : s[i] = t[i]

(* Where two lists agree, so do the recursions over them. *)
LEMMA FlattenAgrees ==
  ASSUME NEW seqs, NEW tuples, NEW n \in Nat, n <= Len(seqs), n <= Len(tuples),
         Len(seqs) \in Nat, Len(tuples) \in Nat,
         Agree(seqs, tuples, n),
         NEW f, IsFlatten(f, seqs), NEW g, IsFlatten(g, tuples)
  PROVE  Agree(f, g, n)
<1>1. ASSUME NEW j \in 1..Len(seqs)
      PROVE  f[j] = IF j = 1 THEN seqs[j] ELSE f[j - 1] \o seqs[j]
  BY DEF IsFlatten
<1>2. ASSUME NEW j \in 1..Len(tuples)
      PROVE  g[j] = IF j = 1 THEN tuples[j] ELSE g[j - 1] \o tuples[j]
  BY DEF IsFlatten
<1> USE DEF Agree
<1> DEFINE E == {i \in Nat : i = 0 \/ f[i] = g[i]}
<1>3. 0 \in E
  OBVIOUS
<1>4. ASSUME NEW i \in 0..(n - 1), i \in E
      PROVE  i + 1 \in E
  <2>1. i + 1 \in 1..n /\ i + 1 \in 1..Len(seqs) /\ i + 1 \in 1..Len(tuples) /\ (i + 1) - 1 = i
    OBVIOUS
  <2>2. f[i + 1] = IF i + 1 = 1 THEN seqs[i + 1] ELSE f[i] \o seqs[i + 1]
    BY <1>1, <2>1
  <2>3. g[i + 1] = IF i + 1 = 1 THEN tuples[i + 1] ELSE g[i] \o tuples[i + 1]
    BY <1>2, <2>1
  <2>4. i # 0 => f[i] = g[i]
    BY <1>4
  <2>5. seqs[i + 1] = tuples[i + 1] /\ (i + 1 = 1 <=> i = 0)
    BY <2>1
  <2>6. f[i + 1] = g[i + 1]
    BY <2>2, <2>3, <2>4, <2>5
  <2>7. i + 1 \in Nat
    OBVIOUS
  <2> QED
    BY <2>6, <2>7
<1>5. \A i \in 0..n : i \in E
  <2> HIDE DEF E
  <2> QED
    BY <1>3, <1>4, UpInduction
<1> QED
  BY <1>5

(* FlattenSeq is the recursion's last value. *)
LEMMA FlattenDef ==
  ASSUME NEW S, NEW seqs \in Seq(Seq(S)), seqs # <<>>
  PROVE  \E f \in [1..Len(seqs) -> Seq(S)] :
           IsFlatten(f, seqs) /\ FlattenSeq(seqs) = f[Len(seqs)]
<1> DEFINE g == CHOOSE f : IsFlatten(f, seqs)
<1>1. PICK f \in [1..Len(seqs) -> Seq(S)] : IsFlatten(f, seqs)
  BY FlattenExists
<1>2. IsFlatten(g, seqs)
  BY <1>1
<1>3. FlattenSeq(seqs) = g[Len(seqs)]
  BY DEF FlattenSeq, IsFlatten
<1>4. Len(seqs) \in Nat \ {0}
  OBVIOUS
<1>5. f[Len(seqs)] = g[Len(seqs)]
  <2> HIDE DEF g
  <2>1. Agree(seqs, seqs, Len(seqs))
    BY DEF Agree
  <2>2. Agree(f, g, Len(seqs))
    BY <1>1, <1>2, <1>4, <2>1, FlattenAgrees
  <2> QED
    BY <1>4, <2>2 DEF Agree
<1> QED
  BY <1>1, <1>3, <1>5

(***************************************************************************)
(* FlattenSeq, of no sequence and of one more.                             *)
(***************************************************************************)
LEMMA FlattenEmpty == FlattenSeq(<<>>) = <<>>
BY DEF FlattenSeq

LEMMA FlattenType ==
  ASSUME NEW S, NEW seqs \in Seq(Seq(S))
  PROVE  FlattenSeq(seqs) \in Seq(S)
<1>1. CASE seqs = <<>>
  <2>1. <<>> \in Seq(S)
    OBVIOUS
  <2> QED
    BY <1>1, <2>1, FlattenEmpty
<1>2. CASE seqs # <<>>
  <2> DEFINE n == Len(seqs)
             T == Seq(S)
  <2>1. n \in 1..n
    BY <1>2
  <2>2. PICK f \in [1..n -> T] : FlattenSeq(seqs) = f[n]
    BY <1>2, FlattenDef
  <2> HIDE DEF n, T
  <2>3. FlattenSeq(seqs) \in T
    BY <2>1, <2>2
  <2> QED
    BY <2>3 DEF T
<1> QED
  BY <1>1, <1>2

LEMMA FlattenAppend ==
  ASSUME NEW S, NEW seqs \in Seq(Seq(S)), NEW s \in Seq(S)
  PROVE  FlattenSeq(Append(seqs, s)) = FlattenSeq(seqs) \o s
<1> DEFINE more == Append(seqs, s)
           n == Len(seqs)
<1>1. /\ more \in Seq(Seq(S)) /\ more # <<>> /\ Len(more) = n + 1 /\ more[n + 1] = s
      /\ n \in Nat /\ \A i \in 1..n : more[i] = seqs[i]
  BY AppendProperties
<1>2. PICK g \in [1..(n + 1) -> Seq(S)] : IsFlatten(g, more) /\ FlattenSeq(more) = g[n + 1]
  <2> HIDE DEF more
  <2> QED
    BY <1>1, FlattenDef
<1> HIDE DEF more
<1>3. CASE seqs = <<>>
  <2>1. n = 0 /\ g[1] = more[1]
    BY <1>1, <1>2, <1>3 DEF IsFlatten
  <2> QED
    BY <1>1, <1>2, <1>3, <2>1, FlattenEmpty, ConcatEmptySeq DEF more
<1>4. CASE seqs # <<>>
  <2>1. PICK f \in [1..n -> Seq(S)] : IsFlatten(f, seqs) /\ FlattenSeq(seqs) = f[n]
    BY <1>4, FlattenDef
  <2>2. n \in Nat \ {0} /\ n <= Len(seqs) /\ n <= Len(more) /\ Len(seqs) \in Nat /\ Len(more) \in Nat
    BY <1>1, <1>4
  <2>3. Agree(f, g, n)
    <3>1. Agree(seqs, more, n)
      BY <1>1 DEF Agree
    <3> HIDE DEF n
    <3> QED
      BY <1>2, <2>1, <2>2, <3>1, FlattenAgrees
  <2> HIDE DEF n
  <2>4. g[n + 1] = g[n] \o more[n + 1]
    <3>1. n + 1 \in 1..Len(more) /\ n + 1 # 1 /\ (n + 1) - 1 = n
      BY <1>1, <2>2
    <3> QED
      BY <1>2, <3>1 DEF IsFlatten
  <2>5. f[n] = g[n]
    BY <2>2, <2>3 DEF Agree
  <2> QED
    BY <1>1, <1>2, <2>1, <2>4, <2>5 DEF more
<1> QED
  BY <1>3, <1>4

(***************************************************************************)
(* FlattenSeq of growing beginnings of a list.                             *)
(***************************************************************************)
Begin(seqs, k) == [i \in 1..k |-> seqs[i]]

LEMMA BeginProperties ==
  ASSUME NEW S, NEW seqs \in Seq(S)
  PROVE  /\ Begin(seqs, 0) = <<>>
         /\ Begin(seqs, Len(seqs)) = seqs
         /\ \A k \in 0..Len(seqs) : Begin(seqs, k) \in Seq(S)
         /\ \A k \in 1..Len(seqs) : Begin(seqs, k) = Append(Begin(seqs, k - 1), seqs[k])
<1>1. Begin(seqs, 0) = <<>> /\ Begin(seqs, Len(seqs)) = seqs
  BY DEF Begin
<1>2. ASSUME NEW k \in 0..Len(seqs)
      PROVE  Begin(seqs, k) \in Seq(S) /\ Len(Begin(seqs, k)) = k
  BY DEF Begin
<1>3. ASSUME NEW k \in 1..Len(seqs)
      PROVE  Begin(seqs, k) = Append(Begin(seqs, k - 1), seqs[k])
  <2> DEFINE u == Begin(seqs, k)
             v == Append(Begin(seqs, k - 1), seqs[k])
  <2>1. k - 1 \in 0..Len(seqs) /\ k \in 0..Len(seqs) /\ seqs[k] \in S
    OBVIOUS
  <2>2. u \in Seq(S) /\ Len(u) = k
    BY <1>2, <2>1
  <2>3. v \in Seq(S) /\ Len(v) = k
    BY <1>2, <2>1, AppendProperties
  <2>4. ASSUME NEW i \in 1..k PROVE u[i] = v[i]
    <3>1. u[i] = seqs[i]
      BY DEF Begin
    <3>2. CASE i = k
      BY <1>2, <2>1, <3>1, <3>2, AppendProperties
    <3>3. CASE i # k
      <4>1. i \in 1..(k - 1)
        BY <3>3
      <4>2. v[i] = Begin(seqs, k - 1)[i]
        BY <1>2, <2>1, <4>1, AppendProperties
      <4> QED
        BY <3>1, <4>1, <4>2 DEF Begin
    <3> QED
      BY <3>2, <3>3
  <2> HIDE DEF u, v
  <2>5. u = v
    BY <2>2, <2>3, <2>4, SeqEqual
  <2> QED
    BY <2>5 DEF u, v
<1> QED
  BY <1>1, <1>2, <1>3

(* Each step appends what the list has there. *)
LEMMA FlattenBegin ==
  ASSUME NEW S, NEW seqs \in Seq(Seq(S))
  PROVE  /\ FlattenSeq(Begin(seqs, 0)) = <<>>
         /\ FlattenSeq(Begin(seqs, Len(seqs))) = FlattenSeq(seqs)
         /\ \A k \in 0..Len(seqs) : FlattenSeq(Begin(seqs, k)) \in Seq(S)
         /\ \A k \in 1..Len(seqs) :
              FlattenSeq(Begin(seqs, k)) = FlattenSeq(Begin(seqs, k - 1)) \o seqs[k]
<1>1. ASSUME NEW k \in 1..Len(seqs)
      PROVE  FlattenSeq(Begin(seqs, k)) = FlattenSeq(Begin(seqs, k - 1)) \o seqs[k]
  <2>1. Begin(seqs, k - 1) \in Seq(Seq(S)) /\ seqs[k] \in Seq(S)
    BY BeginProperties
  <2>2. Begin(seqs, k) = Append(Begin(seqs, k - 1), seqs[k])
    BY BeginProperties
  <2> QED
    BY <2>1, <2>2, FlattenAppend
<1>2. \A k \in 0..Len(seqs) : FlattenSeq(Begin(seqs, k)) \in Seq(S)
  BY BeginProperties, FlattenType
<1> QED
  BY <1>1, <1>2, BeginProperties, FlattenEmpty

(* s is what t starts with. *)
Starts(s, t) == Len(s) <= Len(t) /\ \A i \in 1..Len(s) : t[i] = s[i]

LEMMA StartsConcat ==
  ASSUME NEW S, NEW s \in Seq(S), NEW t \in Seq(S), NEW u \in Seq(S), Starts(s, t)
  PROVE  Starts(s, t \o u)
<1>1. Len(t \o u) = Len(t) + Len(u) /\ \A i \in 1..Len(t) : (t \o u)[i] = t[i]
  BY ConcatProperties
<1>2. Len(s) \in Nat /\ Len(t) \in Nat /\ Len(u) \in Nat
  OBVIOUS
<1> QED
  BY <1>1, <1>2 DEF Starts

(* So a longer beginning flattens to a longer text with the same start.    *)
LEMMA FlattenMonotone ==
  ASSUME NEW S, NEW seqs \in Seq(Seq(S)), NEW k \in 0..Len(seqs), NEW m \in k..Len(seqs)
  PROVE  Starts(FlattenSeq(Begin(seqs, k)), FlattenSeq(Begin(seqs, m)))
<1> DEFINE f == [j \in 0..Len(seqs) |-> FlattenSeq(Begin(seqs, j))]
           D == {d \in Nat : k + d <= Len(seqs) => Starts(f[k], f[k + d])}
<1>1. \A j \in 0..Len(seqs) : f[j] \in Seq(S)
  BY FlattenBegin
<1>2. ASSUME NEW j \in 0..(Len(seqs) - 1) PROVE f[j + 1] = f[j] \o seqs[j + 1]
  <2>1. j + 1 \in 1..Len(seqs) /\ (j + 1) - 1 = j
    OBVIOUS
  <2>2. FlattenSeq(Begin(seqs, j + 1)) = FlattenSeq(Begin(seqs, j)) \o seqs[j + 1]
    BY <2>1, FlattenBegin
  <2>3. f[j + 1] = FlattenSeq(Begin(seqs, j + 1))
    BY <2>1
  <2>4. f[j] = FlattenSeq(Begin(seqs, j))
    OBVIOUS
  <2> HIDE DEF f
  <2> QED
    BY <2>2, <2>3, <2>4
<1>3. f[k] = FlattenSeq(Begin(seqs, k)) /\ f[m] = FlattenSeq(Begin(seqs, m))
  OBVIOUS
<1> HIDE DEF f
<1>4. 0 \in D
  BY <1>1 DEF Starts
<1>5. ASSUME NEW d \in Nat, d \in D
      PROVE  d + 1 \in D
  <2> SUFFICES ASSUME k + (d + 1) <= Len(seqs) PROVE Starts(f[k], f[k + (d + 1)])
    OBVIOUS
  <2>1. Starts(f[k], f[k + d])
    BY <1>5
  <2>2. PICK j \in 0..(Len(seqs) - 1) : j = k + d /\ j + 1 = k + (d + 1)
    OBVIOUS
  <2>3. f[j + 1] = f[j] \o seqs[j + 1]
    BY <1>2
  <2>4. f[k] \in Seq(S) /\ f[j] \in Seq(S) /\ seqs[j + 1] \in Seq(S)
    BY <1>1
  <2>5. Starts(f[k], f[j + 1])
    BY <2>1, <2>2, <2>3, <2>4, StartsConcat
  <2> QED
    BY <2>2, <2>5
<1>6. \A d \in Nat : d \in D
  <2> HIDE DEF D
  <2> QED
    BY <1>4, <1>5, NatInductive
<1>7. m - k \in Nat /\ k + (m - k) = m /\ m <= Len(seqs)
  OBVIOUS
<1> QED
  BY <1>3, <1>6, <1>7
(***************************************************************************)
(* split, of a text with one more character.                               *)
(***************************************************************************)
Parts(S) == Seq(Seq(S)) \ {<<>>}

(* What `split` does with character i, given the parts so far. *)
SplitAt(text, sep, i, parts) ==
  IF text[i] = sep THEN Append(parts, <<>>) ELSE Extend(parts, text[i])

IsSplit(f, text, sep) ==
  f[0] = <<<<>>>> /\ \A i \in 1..Len(text) : f[i] = SplitAt(text, sep, i, f[i - 1])

LEMMA ExtendType ==
  ASSUME NEW S, NEW parts \in Parts(S), NEW c \in S
  PROVE  /\ Extend(parts, c) \in Parts(S)
         /\ Append(parts, <<>>) \in Parts(S)
<1>1. parts \in Seq(Seq(S)) /\ Len(parts) \in Nat \ {0} /\ parts[Len(parts)] \in Seq(S)
  BY DEF Parts
<1>2. Append(parts[Len(parts)], c) \in Seq(S)
  BY <1>1
<1>3. Extend(parts, c) \in [1..Len(parts) -> Seq(S)]
  BY <1>1, <1>2 DEF Extend
<1>4. Extend(parts, c) \in Seq(Seq(S)) /\ Len(Extend(parts, c)) = Len(parts)
  <2> DEFINE T == Seq(S)
             n == Len(parts)
             h == Extend(parts, c)
  <2>1. h \in [1..n -> T] /\ n \in Nat
    BY <1>1, <1>3
  <2> HIDE DEF T, n, h
  <2>2. h \in Seq(T) /\ Len(h) = n
    BY <2>1
  <2> QED
    BY <2>2 DEF T, n, h
<1>5. Append(parts, <<>>) \in Seq(Seq(S)) /\ Append(parts, <<>>) # <<>>
  <2>1. <<>> \in Seq(S)
    OBVIOUS
  <2> DEFINE empty == <<>>
             T == Seq(S)
  <2>2. parts \in Seq(T) /\ empty \in T
    BY <1>1, <2>1
  <2> HIDE DEF empty, T
  <2>3. Append(parts, empty) \in Seq(T) /\ Len(Append(parts, empty)) = Len(parts) + 1
    BY <2>2, AppendProperties
  <2>4. Append(parts, empty) # <<>>
    BY <1>1, <2>3
  <2> QED
    BY <2>3, <2>4 DEF empty, T
<1> QED
  BY <1>1, <1>4, <1>5 DEF Parts

LEMMA SplitDef ==
  ASSUME NEW S, NEW text \in Seq(S), NEW sep
  PROVE  \E f \in [0..Len(text) -> Parts(S)] :
           IsSplit(f, text, sep) /\ split(text, sep) = f[Len(text)]
<1> DEFINE n == Len(text)
           one == <<<<>>>>
           step == [i \in 1..n |-> [parts \in Parts(S) |-> SplitAt(text, sep, i, parts)]]
           Is(f) == f = [i \in 0..n |-> IF i = 0 THEN <<<<>>>>
                                        ELSE IF text[i] = sep THEN Append(f[i - 1], <<>>)
                                        ELSE Extend(f[i - 1], text[i])]
           all == CHOOSE f : Is(f)
<1>1. n \in Nat /\ \A i \in 1..n : text[i] \in S
  OBVIOUS
<1>2. one \in Parts(S)
  <2>1. <<>> \in Seq(S)
    OBVIOUS
  <2> QED
    BY <2>1 DEF Parts
<1>3. step \in [1..n -> [Parts(S) -> Parts(S)]]
  <2>1. ASSUME NEW i \in 1..n, NEW parts \in Parts(S)
        PROVE  SplitAt(text, sep, i, parts) \in Parts(S)
    BY <1>1, ExtendType DEF SplitAt
  <2> HIDE DEF n
  <2> QED
    BY <2>1
<1>4. PICK g \in [0..n -> Parts(S)] : IsRecursion(g, n, one, step)
  <2> DEFINE T == Parts(S)
  <2>1. n \in Nat /\ step \in [1..n -> [T -> T]] /\ one \in T
    BY <1>1, <1>2, <1>3
  <2> HIDE DEF n, step, T, one
  <2>2. \E g \in [0..n -> T] : IsRecursion(g, n, one, step)
    BY <2>1, Recursion
  <2> QED
    BY <2>2 DEF T
<1>5. g[0] = one /\ \A i \in 1..n : g[i] = SplitAt(text, sep, i, g[i - 1])
  <2>1. ASSUME NEW i \in 1..n PROVE g[i] = SplitAt(text, sep, i, g[i - 1])
    <3>1. g[i - 1] \in Parts(S)
      BY <1>1, <1>4
    <3>2. step[i][g[i - 1]] = SplitAt(text, sep, i, g[i - 1])
      BY <3>1
    <3> HIDE DEF step
    <3> QED
      BY <1>4, <3>2 DEF IsRecursion
  <2> QED
    BY <1>4, <2>1 DEF IsRecursion
<1>6. Is(g)
  <2> DEFINE h == [i \in 0..n |-> IF i = 0 THEN <<<<>>>>
                                  ELSE IF text[i] = sep THEN Append(g[i - 1], <<>>)
                                  ELSE Extend(g[i - 1], text[i])]
  <2>1. ASSUME NEW i \in 0..n PROVE g[i] = h[i]
    <3>1. CASE i = 0
      BY <1>5, <3>1
    <3>2. CASE i # 0
      <4>1. i \in 1..n
        BY <1>1, <3>2
      <4> QED
        BY <1>5, <3>2, <4>1 DEF SplitAt
    <3> QED
      BY <3>1, <3>2
  <2>2. g = h
    BY <1>4, <2>1
  <2> QED
    BY <2>2
<1>7. Is(all)
  BY <1>6
<1>8. split(text, sep) = all[n]
  BY DEF split
<1> HIDE DEF all
<1> DEFINE D == {i \in 0..n : all[i] = g[i]}
<1>9. 0 \in D
  BY <1>1, <1>5, <1>7
<1>10. ASSUME NEW i \in 0..(n - 1), i \in D
       PROVE  i + 1 \in D
  <2>1. i + 1 \in 1..n /\ i + 1 \in 0..n /\ (i + 1) - 1 = i /\ i + 1 # 0
    BY <1>1
  <2>2. all[i + 1] = IF text[i + 1] = sep THEN Append(all[i], <<>>) ELSE Extend(all[i], text[i + 1])
    BY <1>7, <2>1
  <2>3. g[i + 1] = SplitAt(text, sep, i + 1, g[i])
    BY <1>5, <2>1
  <2> QED
    BY <1>10, <2>1, <2>2, <2>3 DEF SplitAt
<1>11. \A i \in 0..n : i \in D
  <2> HIDE DEF D
  <2> QED
    BY <1>1, <1>9, <1>10, UpInduction
<1>12. all[n] = g[n]
  BY <1>1, <1>11
<1>13. IsSplit(g, text, sep)
  BY <1>5 DEF IsSplit
<1> QED
  BY <1>4, <1>8, <1>12, <1>13

LEMMA SplitType ==
  ASSUME NEW S, NEW text \in Seq(S), NEW sep
  PROVE  split(text, sep) \in Parts(S)
<1>1. Len(text) \in 0..Len(text)
  OBVIOUS
<1> QED
  BY <1>1, SplitDef

LEMMA SplitEmpty == ASSUME NEW sep PROVE split(<<>>, sep) = <<<<>>>>
<1> DEFINE empty == <<>>
<1>1. empty \in Seq({}) /\ Len(empty) = 0
  OBVIOUS
<1> HIDE DEF empty
<1>2. PICK f : IsSplit(f, empty, sep) /\ split(empty, sep) = f[Len(empty)]
  BY <1>1, SplitDef
<1>3. split(empty, sep) = f[0] /\ f[0] = <<<<>>>>
  BY <1>1, <1>2 DEF IsSplit
<1> QED
  BY <1>3 DEF empty

LEMMA SplitAppend ==
  ASSUME NEW S, NEW text \in Seq(S), NEW c \in S, NEW sep
  PROVE  split(Append(text, c), sep) =
           IF c = sep THEN Append(split(text, sep), <<>>) ELSE Extend(split(text, sep), c)
<1> DEFINE more == Append(text, c)
           n == Len(text)
<1>1. /\ n \in Nat /\ more \in Seq(S) /\ Len(more) = n + 1 /\ more[n + 1] = c
      /\ \A i \in 1..n : more[i] = text[i]
  BY AppendProperties
<1>2. PICK f \in [0..n -> Parts(S)] : IsSplit(f, text, sep) /\ split(text, sep) = f[n]
  BY SplitDef
<1>3. PICK g \in [0..(n + 1) -> Parts(S)] : IsSplit(g, more, sep) /\ split(more, sep) = g[n + 1]
  <2> HIDE DEF more
  <2> QED
    BY <1>1, SplitDef
<1> HIDE DEF more
<1> DEFINE D == {i \in 0..n : f[i] = g[i]}
<1>4. 0 \in D
  <2>1. f[0] = <<<<>>>> /\ g[0] = <<<<>>>>
    BY <1>2, <1>3 DEF IsSplit
  <2>2. f[0] = g[0]
    BY <2>1
  <2> QED
    BY <1>1, <2>2
<1>5. ASSUME NEW i \in 0..(n - 1), i \in D
      PROVE  i + 1 \in D
  <2>1. i + 1 \in 1..n /\ i + 1 \in 0..n /\ i + 1 \in 1..Len(more) /\ (i + 1) - 1 = i
    BY <1>1
  <2>2. f[i + 1] = SplitAt(text, sep, i + 1, f[i]) /\ g[i + 1] = SplitAt(more, sep, i + 1, g[i])
    BY <1>2, <1>3, <2>1 DEF IsSplit
  <2> QED
    BY <1>1, <1>5, <2>1, <2>2 DEF SplitAt
<1>6. f[n] = g[n]
  <2>1. \A i \in 0..n : i \in D
    <3> HIDE DEF D
    <3> QED
      BY <1>1, <1>4, <1>5, UpInduction
  <2> QED
    BY <1>1, <2>1
<1>7. g[n + 1] = SplitAt(more, sep, n + 1, g[n])
  <2>1. n + 1 \in 1..Len(more) /\ (n + 1) - 1 = n
    BY <1>1
  <2> QED
    BY <1>3, <2>1 DEF IsSplit
<1> QED
  BY <1>1, <1>2, <1>3, <1>6, <1>7 DEF SplitAt, more
LEMMA ConcatAppend ==
  ASSUME NEW S, NEW s \in Seq(S), NEW t \in Seq(S), NEW c \in S
  PROVE  /\ s \o t \in Seq(S) /\ Append(t, c) \in Seq(S)
         /\ s \o Append(t, c) = Append(s \o t, c)
<1> DEFINE one == <<c>>
           st == s \o t
<1>1. one \in Seq(S) /\ st \in Seq(S) /\ Append(t, c) \in Seq(S)
  BY ConcatProperties, AppendProperties
<1>2. Append(t, c) = t \o one
  BY AppendIsConcat
<1> HIDE DEF st
<1>3. Append(st, c) = st \o one
  BY <1>1, AppendIsConcat
<1> HIDE DEF one
<1>4. s \o (t \o one) = st \o one
  BY <1>1, ConcatAssociative DEF st
<1> QED
  BY <1>1, <1>2, <1>3, <1>4 DEF st

LEMMA ExtendAppend ==
  ASSUME NEW S, NEW parts \in Seq(Seq(S)), NEW p \in Seq(S), NEW c \in S
  PROVE  Extend(Append(parts, p), c) = Append(parts, Append(p, c))
<1> DEFINE T == Seq(S)
           q == Append(p, c)
           u == Append(parts, p)
           v == Append(parts, q)
           w == Extend(u, c)
           n == Len(parts)
<1>1. p \in T /\ q \in T /\ n \in Nat /\ parts \in Seq(T)
  BY AppendProperties
<1> HIDE DEF T
<1>2. u \in Seq(T) /\ Len(u) = n + 1 /\ u[n + 1] = p /\ \A i \in 1..n : u[i] = parts[i]
  BY <1>1, AppendProperties
<1>3. v \in Seq(T) /\ Len(v) = n + 1 /\ v[n + 1] = q /\ \A i \in 1..n : v[i] = parts[i]
  <2> HIDE DEF q
  <2> QED
    BY <1>1, AppendProperties
<1> HIDE DEF u, v
<1>4. w \in Seq(T) /\ Len(w) = n + 1
  <2>1. w \in [1..(n + 1) -> T]
    BY <1>1, <1>2 DEF Extend
  <2> HIDE DEF w, n
  <2> QED
    BY <1>1, <2>1
<1>5. ASSUME NEW i \in 1..(n + 1) PROVE w[i] = v[i]
  <2>1. w[i] = IF i = n + 1 THEN Append(u[i], c) ELSE u[i]
    BY <1>1, <1>2 DEF Extend
  <2> HIDE DEF w
  <2> QED
    BY <1>1, <1>2, <1>3, <2>1
<1> HIDE DEF w, n
<1>6. w = v
  BY <1>3, <1>4, <1>5, SeqEqual
<1> QED
  BY <1>6 DEF u, v, w, q

(* The last of some parts, made longer. *)
Lengthen(parts, s) == [parts EXCEPT ![Len(parts)] = @ \o s]

LEMMA LengthenAppend ==
  ASSUME NEW T, NEW parts \in Seq(Seq(T)), NEW p \in Seq(T), NEW q \in Seq(T)
  PROVE  Lengthen(Append(parts, p), q) = Append(parts, p \o q)
<1> DEFINE S == Seq(T)
           u == Append(parts, p)
           v == Append(parts, p \o q)
           w == Lengthen(u, q)
           n == Len(parts)
<1>1. p \in S /\ p \o q \in S /\ n \in Nat /\ parts \in Seq(S)
  BY ConcatProperties
<1> HIDE DEF S
<1>2. u \in Seq(S) /\ Len(u) = n + 1 /\ u[n + 1] = p /\ \A i \in 1..n : u[i] = parts[i]
  BY <1>1, AppendProperties
<1>3. v \in Seq(S) /\ Len(v) = n + 1 /\ v[n + 1] = p \o q /\ \A i \in 1..n : v[i] = parts[i]
  BY <1>1, AppendProperties
<1> HIDE DEF u, v
<1>4. w \in Seq(S) /\ Len(w) = n + 1
  <2>1. w \in [1..(n + 1) -> S]
    BY <1>1, <1>2 DEF Lengthen
  <2> HIDE DEF w, n
  <2> QED
    BY <1>1, <2>1
<1>5. ASSUME NEW i \in 1..(n + 1) PROVE w[i] = v[i]
  <2>1. w[i] = IF i = n + 1 THEN u[i] \o q ELSE u[i]
    BY <1>1, <1>2 DEF Lengthen
  <2> HIDE DEF w, n
  <2>2. CASE i = n + 1
    BY <1>2, <1>3, <2>1, <2>2
  <2>3. CASE i # n + 1
    <3>1. i \in 1..n
      BY <1>1, <2>3
    <3> QED
      BY <1>2, <1>3, <2>1, <2>3, <3>1
  <2> QED
    BY <2>2, <2>3
<1> HIDE DEF w, n
<1>6. w = v
  BY <1>3, <1>4, <1>5, SeqEqual
<1> QED
  BY <1>6 DEF u, v, w

(* Parts are some and a last one. *)
LEMMA LastPart ==
  ASSUME NEW S, NEW parts \in Parts(S)
  PROVE  \E first \in Seq(Seq(S)), last \in Seq(S) : parts = Append(first, last)
<1>1. parts \in Seq(Seq(S)) /\ Len(parts) \in 1..Len(parts)
  BY DEF Parts
<1>2. /\ parts = Append(Begin(parts, Len(parts) - 1), parts[Len(parts)])
      /\ Begin(parts, Len(parts) - 1) \in Seq(Seq(S))
  <2> DEFINE T == Seq(S)
             n == Len(parts)
  <2>1. parts \in Seq(T) /\ n \in 1..n /\ n - 1 \in 0..n
    BY <1>1
  <2> HIDE DEF T
  <2>2. Begin(parts, n) = parts
    BY <2>1, BeginProperties
  <2>3. Begin(parts, n) = Append(Begin(parts, n - 1), parts[n])
    BY <2>1, BeginProperties
  <2>4. Begin(parts, n - 1) \in Seq(T)
    BY <2>1, BeginProperties
  <2> QED
    BY <2>2, <2>3, <2>4 DEF T
<1>3. parts[Len(parts)] \in Seq(S)
  BY <1>1
<1> QED
  BY <1>2, <1>3

(* A text without the separator lengthens the last part. *)
LEMMA SplitPart ==
  ASSUME NEW S, NEW text \in Seq(S), NEW sep, NEW part \in Seq(S \ {sep})
  PROVE  split(text \o part, sep) = Lengthen(split(text, sep), part)
<1> DEFINE n == Len(part)
           so(k) == text \o Begin(part, k)
           D == {k \in 0..n : split(so(k), sep) = Lengthen(split(text, sep), Begin(part, k))}
<1>1. n \in Nat /\ part \in Seq(S) /\ \A i \in 1..n : part[i] \in S /\ part[i] # sep
  OBVIOUS
<1>2. PICK first \in Seq(Seq(S)), last \in Seq(S) : split(text, sep) = Append(first, last)
  BY SplitType, LastPart
<1>3. ASSUME NEW q \in Seq(S)
      PROVE  Lengthen(split(text, sep), q) = Append(first, last \o q)
  <2>1. Lengthen(Append(first, last), q) = Append(first, last \o q)
    BY <1>2, LengthenAppend
  <2> QED
    BY <1>2, <2>1
<1>4. 0 \in D
  <2>1. Begin(part, 0) = <<>> /\ <<>> \in Seq(S)
    BY <1>1, BeginProperties
  <2>2. so(0) = text /\ last \o <<>> = last
    BY <2>1, <1>2, ConcatEmptySeq
  <2>3. Lengthen(split(text, sep), <<>>) = Append(first, last \o <<>>)
    BY <1>3, <2>1
  <2> HIDE DEF so
  <2>4. split(so(0), sep) = Lengthen(split(text, sep), Begin(part, 0))
    BY <1>2, <2>1, <2>2, <2>3
  <2> QED
    BY <1>1, <2>4
<1>5. ASSUME NEW k \in 0..(n - 1), k \in D
      PROVE  k + 1 \in D
  <2> DEFINE q == Begin(part, k)
             c == part[k + 1]
  <2>1. q \in Seq(S) /\ c \in S /\ c # sep /\ k + 1 \in 0..n
    <3>1. k \in 0..n /\ k + 1 \in 1..n
      BY <1>1
    <3> QED
      BY <1>1, <3>1, BeginProperties
  <2>2. Begin(part, k + 1) = Append(q, c)
    <3>1. k + 1 \in 1..n /\ (k + 1) - 1 = k
      BY <1>1
    <3>2. Begin(part, k + 1) = Append(Begin(part, (k + 1) - 1), part[k + 1])
      BY <1>1, <3>1, BeginProperties
    <3> QED
      BY <3>1, <3>2
  <2>3. split(text \o q, sep) = Lengthen(split(text, sep), q)
    BY <1>5
  <2>4. so(k + 1) = Append(text \o q, c) /\ text \o q \in Seq(S) /\ last \o q \in Seq(S)
        /\ Append(q, c) \in Seq(S) /\ last \o Append(q, c) = Append(last \o q, c)
    <3>1. so(k + 1) = text \o Append(q, c)
      BY <2>2
    <3>0. q \in Seq(S) /\ c \in S
      BY <2>1
    <3> HIDE DEF q, c, so, n, D
    <3>2. /\ text \o q \in Seq(S) /\ Append(q, c) \in Seq(S)
          /\ text \o Append(q, c) = Append(text \o q, c)
      BY <3>0, ConcatAppend
    <3>3. last \o q \in Seq(S) /\ last \o Append(q, c) = Append(last \o q, c)
      BY <3>0, ConcatAppend
    <3> QED
      BY <3>1, <3>2, <3>3
  <2> HIDE DEF q, c, so
  <2>5. split(Append(text \o q, c), sep) = Extend(Append(first, last \o q), c)
    <3> DEFINE r == text \o q
    <3>1. r \in Seq(S)
      BY <2>4
    <3> HIDE DEF r
    <3>2. split(Append(r, c), sep) = Extend(split(r, sep), c)
      BY <2>1, <3>1, SplitAppend
    <3>3. split(r, sep) = Append(first, last \o q)
      BY <1>3, <2>1, <2>3 DEF r
    <3> QED
      BY <3>2, <3>3 DEF r
  <2>6. Extend(Append(first, last \o q), c) = Append(first, Append(last \o q, c))
    <3> DEFINE r == last \o q
    <3>1. first \in Seq(Seq(S)) /\ r \in Seq(S)
      BY <1>2, <2>4
    <3> HIDE DEF r
    <3>2. Extend(Append(first, r), c) = Append(first, Append(r, c))
      BY <2>1, <3>1, ExtendAppend
    <3> QED
      BY <3>2 DEF r
  <2>7. Lengthen(split(text, sep), Append(q, c)) = Append(first, Append(last \o q, c))
    BY <1>3, <2>4
  <2>8. split(so(k + 1), sep) = Lengthen(split(text, sep), Begin(part, k + 1))
    BY <2>2, <2>4, <2>5, <2>6, <2>7
  <2> QED
    BY <2>1, <2>8
<1>6. n \in D
  <2>1. \A k \in 0..n : k \in D
    <3> HIDE DEF D
    <3> QED
      BY <1>1, <1>4, <1>5, UpInduction
  <2> QED
    BY <1>1, <2>1
<1>7. Begin(part, n) = part
  BY <1>1, BeginProperties
<1> QED
  BY <1>6, <1>7
(* A set that holds the empty sequence, and with a sequence every longer   *)
(* one by one element, holds all.                                          *)
LEMMA SeqInduction ==
  ASSUME NEW S, NEW T, <<>> \in T,
         \A s \in Seq(S), e \in S : s \in T => Append(s, e) \in T
  PROVE  \A s \in Seq(S) : s \in T
<1> SUFFICES ASSUME NEW s \in Seq(S) PROVE s \in T
  OBVIOUS
<1> DEFINE n == Len(s)
           D == {k \in 0..n : Begin(s, k) \in T}
<1>1. n \in Nat /\ Begin(s, 0) = <<>> /\ Begin(s, n) = s
  BY BeginProperties
<1>2. 0 \in D
  BY <1>1
<1>3. ASSUME NEW k \in 0..(n - 1), k \in D
      PROVE  k + 1 \in D
  <2>1. k \in 0..n /\ k + 1 \in 1..n /\ (k + 1) - 1 = k /\ k + 1 \in 0..n
    BY <1>1
  <2>2. Begin(s, k) \in Seq(S) /\ s[k + 1] \in S
    BY <2>1, BeginProperties
  <2>3. Begin(s, k + 1) = Append(Begin(s, (k + 1) - 1), s[k + 1])
    BY <2>1, BeginProperties
  <2>4. Append(Begin(s, k), s[k + 1]) \in T
    BY <1>3, <2>2
  <2> QED
    BY <2>1, <2>3, <2>4
<1>4. \A k \in 0..n : k \in D
  <2> HIDE DEF D
  <2> QED
    BY <1>1, <1>2, <1>3, UpInduction
<1> QED
  BY <1>1, <1>4

(***************************************************************************)
(* Join.                                                                   *)
(***************************************************************************)
LEMMA TailConcat ==
  ASSUME NEW S, NEW s \in Seq(S), s # <<>>, NEW t \in Seq(S)
  PROVE  Tail(s \o t) = Tail(s) \o t
<1> DEFINE st == s \o t
           u == Tail(st)
           r == Tail(s)
           v == r \o t
<1>1. Len(s) \in Nat \ {0} /\ Len(t) \in Nat
  OBVIOUS
<1>2. /\ st \in Seq(S) /\ Len(st) = Len(s) + Len(t)
      /\ \A i \in 1..(Len(s) + Len(t)) : st[i] = IF i <= Len(s) THEN s[i] ELSE t[i - Len(s)]
  BY ConcatProperties
<1> HIDE DEF st
<1>3. st # <<>>
  BY <1>1, <1>2
<1>4. u \in Seq(S) /\ Len(u) = Len(st) - 1 /\ \A i \in 1..Len(u) : u[i] = st[i + 1]
  BY <1>2, <1>3, HeadTailProperties
<1>5. r \in Seq(S) /\ Len(r) = Len(s) - 1 /\ \A i \in 1..Len(r) : r[i] = s[i + 1]
  BY HeadTailProperties
<1> HIDE DEF u, r
<1>6. /\ v \in Seq(S) /\ Len(v) = Len(r) + Len(t)
      /\ \A i \in 1..(Len(r) + Len(t)) : v[i] = IF i <= Len(r) THEN r[i] ELSE t[i - Len(r)]
  BY <1>5, ConcatProperties
<1> HIDE DEF v
<1>7. Len(u) = Len(v)
  BY <1>1, <1>2, <1>4, <1>5, <1>6
<1>8. ASSUME NEW i \in 1..Len(u) PROVE u[i] = v[i]
  <2>1. /\ i + 1 \in 1..(Len(s) + Len(t)) /\ i \in 1..(Len(r) + Len(t))
        /\ (i <= Len(r) <=> i + 1 <= Len(s)) /\ (i + 1) - Len(s) = i - Len(r)
    BY <1>1, <1>2, <1>4, <1>5
  <2>2. u[i] = IF i + 1 <= Len(s) THEN s[i + 1] ELSE t[(i + 1) - Len(s)]
    BY <1>2, <1>4, <2>1
  <2>3. v[i] = IF i <= Len(r) THEN r[i] ELSE t[i - Len(r)]
    BY <1>6, <2>1
  <2>4. i <= Len(r) => r[i] = s[i + 1]
    BY <1>1, <1>5
  <2> QED
    BY <2>1, <2>2, <2>3, <2>4
<1>9. u = v
  BY <1>4, <1>6, <1>7, <1>8, SeqEqual
<1> QED
  BY <1>9 DEF u, v, st, r

Headed(parts, sep) == [k \in DOMAIN parts |-> <<sep>> \o parts[k]]

LEMMA HeadedType ==
  ASSUME NEW S, NEW sep \in S, NEW parts \in Seq(Seq(S))
  PROVE  Headed(parts, sep) \in Seq(Seq(S)) /\ Len(Headed(parts, sep)) = Len(parts)
<1> DEFINE T == Seq(S)
           h == Headed(parts, sep)
<1>1. DOMAIN parts = 1..Len(parts) /\ Len(parts) \in Nat
  OBVIOUS
<1>2. ASSUME NEW k \in 1..Len(parts) PROVE <<sep>> \o parts[k] \in T
  <2>1. <<sep>> \in Seq(S) /\ parts[k] \in Seq(S)
    BY <1>1
  <2> QED
    BY <2>1, ConcatProperties
<1> HIDE DEF T
<1>3. h \in [1..Len(parts) -> T]
  BY <1>1, <1>2 DEF Headed
<1> HIDE DEF h
<1> DEFINE n == Len(parts)
<1>4. n \in Nat /\ h \in [1..n -> T]
  BY <1>1, <1>3
<1> HIDE DEF n
<1>5. h \in Seq(T) /\ Len(h) = n
  BY <1>4
<1> QED
  BY <1>5 DEF T, h, n

LEMMA HeadedAppend ==
  ASSUME NEW S, NEW sep \in S, NEW parts \in Seq(Seq(S)), NEW p \in Seq(S)
  PROVE  Headed(Append(parts, p), sep) = Append(Headed(parts, sep), <<sep>> \o p)
<1> DEFINE T == Seq(S)
           more == Append(parts, p)
           q == <<sep>> \o p
           h == Headed(parts, sep)
           u == Headed(more, sep)
           v == Append(h, q)
           n == Len(parts)
<1>1. /\ more \in Seq(T) /\ Len(more) = n + 1 /\ more[n + 1] = p /\ n \in Nat
      /\ \A i \in 1..n : more[i] = parts[i]
  <2>1. parts \in Seq(T) /\ p \in T
    OBVIOUS
  <2> HIDE DEF T
  <2> QED
    BY <2>1, AppendProperties
<1>2. q \in T
  <2>1. <<sep>> \in Seq(S)
    OBVIOUS
  <2> QED
    BY <2>1, ConcatProperties
<1>3. h \in Seq(T) /\ Len(h) = n
  BY HeadedType
<1>4. \A i \in 1..n : h[i] = <<sep>> \o parts[i]
  BY DEF Headed
<1>5. u \in Seq(T) /\ Len(u) = n + 1
  <2> HIDE DEF more
  <2> QED
    BY <1>1, HeadedType
<1>6. \A i \in 1..(n + 1) : u[i] = <<sep>> \o more[i]
  <2>1. DOMAIN more = 1..(n + 1)
    BY <1>1
  <2> HIDE DEF more
  <2> QED
    BY <2>1 DEF Headed
<1> HIDE DEF more, T, h, u
<1>7. v \in Seq(T) /\ Len(v) = n + 1 /\ v[n + 1] = q /\ \A i \in 1..n : v[i] = h[i]
  <2> HIDE DEF q
  <2> QED
    BY <1>2, <1>3, AppendProperties
<1> HIDE DEF v
<1>8. ASSUME NEW i \in 1..(n + 1) PROVE u[i] = v[i]
  <2>1. CASE i = n + 1
    BY <1>1, <1>6, <1>7, <2>1
  <2>2. CASE i # n + 1
    <3>1. i \in 1..n
      BY <1>1, <2>2
    <3> QED
      BY <1>1, <1>4, <1>6, <1>7, <3>1
  <2> QED
    BY <2>1, <2>2
<1> HIDE DEF n
<1>9. u = v
  BY <1>5, <1>7, <1>8, SeqEqual
<1> QED
  BY <1>9 DEF u, v, h, more

LEMMA JoinOne ==
  ASSUME NEW S, NEW sep \in S, NEW p \in Seq(S)
  PROVE  Join(<<p>>, sep) = p
<1> DEFINE one == <<sep>>
           q == one \o p
           none == <<>>
<1>1. one \in Seq(S) /\ q \in Seq(S) /\ none \in Seq(Seq(S))
  BY ConcatProperties
<1>2. Append(none, p) = <<p>> /\ Headed(none, sep) = <<>>
  BY DEF Headed
<1>3. Headed(<<p>>, sep) = Append(<<>>, q)
  <2> HIDE DEF none
  <2>1. Headed(Append(none, p), sep) = Append(Headed(none, sep), <<sep>> \o p)
    BY <1>1, HeadedAppend
  <2> QED
    BY <1>2, <2>1
<1>4. FlattenSeq(Append(<<>>, q)) = q
  <2> HIDE DEF q, none
  <2>1. FlattenSeq(Append(none, q)) = FlattenSeq(none) \o q
    BY <1>1, FlattenAppend
  <2>2. FlattenSeq(none) \o q = q
    BY <1>1, FlattenEmpty, ConcatEmptySeq DEF none
  <2> QED
    BY <2>1, <2>2 DEF none
<1>5. Join(<<p>>, sep) = Tail(q)
  BY <1>3, <1>4 DEF Join, Headed
<1>6. Tail(q) = Tail(one) \o p
  <2>1. one # <<>>
    OBVIOUS
  <2> HIDE DEF one
  <2> QED
    BY <1>1, <2>1, TailConcat
<1>7. Tail(one) = <<>>
  OBVIOUS
<1> QED
  BY <1>5, <1>6, <1>7, ConcatEmptySeq

LEMMA JoinAppend ==
  ASSUME NEW S, NEW sep \in S, NEW parts \in Parts(S), NEW p \in Seq(S)
  PROVE  /\ Join(parts, sep) \in Seq(S)
         /\ Join(Append(parts, p), sep) = Join(parts, sep) \o (<<sep>> \o p)
<1> DEFINE h == Headed(parts, sep)
           q == <<sep>> \o p
           f == FlattenSeq(h)
<1>1. parts \in Seq(Seq(S)) /\ h \in Seq(Seq(S)) /\ f \in Seq(S)
  <2>1. parts \in Seq(Seq(S)) /\ h \in Seq(Seq(S))
    BY HeadedType DEF Parts
  <2> HIDE DEF h
  <2> QED
    BY <2>1, FlattenType
<1>2. q \in Seq(S)
  <2>1. <<sep>> \in Seq(S)
    OBVIOUS
  <2> QED
    BY <2>1, ConcatProperties
<1>3. f # <<>>
  <2>1. PICK first \in Seq(Seq(S)), last \in Seq(S) : parts = Append(first, last)
    BY LastPart
  <2> DEFINE hf == Headed(first, sep)
             r == <<sep>> \o last
             g == FlattenSeq(hf)
             one == <<sep>>
  <2>2. h = Append(hf, r)
    BY <2>1, HeadedAppend
  <2>3. hf \in Seq(Seq(S)) /\ one \in Seq(S) /\ Len(one) = 1
    BY HeadedType
  <2>4. r \in Seq(S) /\ Len(r) = Len(one) + Len(last)
    <3> HIDE DEF one
    <3> QED
      BY <2>3, ConcatProperties DEF one
  <2> HIDE DEF hf, r
  <2>5. f = g \o r /\ g \in Seq(S)
    BY <2>2, <2>3, <2>4, FlattenAppend, FlattenType
  <2>6. Len(g \o r) = Len(g) + Len(r)
    <3> HIDE DEF g
    <3> QED
      BY <2>4, <2>5, ConcatProperties
  <2>7. Len(last) \in Nat /\ Len(g) \in Nat
    <3> HIDE DEF g
    <3> QED
      BY <2>5
  <2>8. Len(f) # 0
    BY <2>3, <2>4, <2>5, <2>6, <2>7
  <2> QED
    BY <2>8
<1>4. Join(parts, sep) = Tail(f)
  BY DEF Join, Headed
<1>5. Join(Append(parts, p), sep) = Tail(f \o q)
  <2>1. Join(Append(parts, p), sep) = Tail(FlattenSeq(Headed(Append(parts, p), sep)))
    BY DEF Join, Headed
  <2>2. Headed(Append(parts, p), sep) = Append(h, q)
    BY <1>1, HeadedAppend
  <2> HIDE DEF h, q
  <2>3. FlattenSeq(Append(h, q)) = f \o q
    BY <1>1, <1>2, FlattenAppend
  <2> QED
    BY <2>1, <2>2, <2>3
<1> HIDE DEF f, q
<1>6. Tail(f \o q) = Tail(f) \o q /\ Tail(f) \in Seq(S)
  BY <1>1, <1>2, <1>3, TailConcat, HeadTailProperties
<1> QED
  BY <1>4, <1>5, <1>6 DEF q
(***************************************************************************)
(* split and Join, split_once.                                             *)
(***************************************************************************)
LEMMA SplitNext ==
  ASSUME NEW S, NEW sep \in S, NEW text \in Seq(S), NEW part \in Seq(S \ {sep})
  PROVE  split(text \o (<<sep>> \o part), sep) = Append(split(text, sep), part)
<1> DEFINE more == Append(text, sep)
           none == <<>>
           parts == split(text, sep)
<1>1. more \in Seq(S) /\ part \in Seq(S) /\ none \in Seq(S) /\ <<sep>> \in Seq(S)
  BY AppendProperties
<1>2. more \o part = text \o (<<sep>> \o part)
  <2>1. more = text \o <<sep>>
    BY AppendIsConcat
  <2> HIDE DEF more
  <2> DEFINE one == <<sep>>
  <2>2. one \in Seq(S)
    BY <1>1
  <2> HIDE DEF one
  <2>3. (text \o one) \o part = text \o (one \o part)
    BY <1>1, <2>2, ConcatAssociative
  <2> QED
    BY <2>1, <2>3 DEF one
<1>3. split(more, sep) = Append(parts, none)
  BY SplitAppend
<1>4. parts \in Seq(Seq(S))
  BY SplitType DEF Parts
<1> HIDE DEF more, parts, none
<1>5. split(more \o part, sep) = Lengthen(Append(parts, none), part)
  <2>1. split(more \o part, sep) = Lengthen(split(more, sep), part)
    BY <1>1, SplitPart
  <2> QED
    BY <1>3, <2>1
<1>6. Lengthen(Append(parts, none), part) = Append(parts, none \o part)
  BY <1>1, <1>4, LengthenAppend
<1>7. none \o part = part
  BY <1>1, ConcatEmptySeq DEF none
<1> QED
  BY <1>2, <1>5, <1>6, <1>7 DEF parts

LEMMA SplitOne ==
  ASSUME NEW S, NEW sep, NEW part \in Seq(S \ {sep})
  PROVE  split(part, sep) = <<part>>
<1> DEFINE none == <<>>
<1>1. none \in Seq(S) /\ part \in Seq(S) /\ none \in Seq(Seq(S))
  OBVIOUS
<1>2. none \o part = part
  BY <1>1, ConcatEmptySeq
<1>3. split(none, sep) = Append(none, none) /\ Append(none, part) = <<part>>
  BY SplitEmpty
<1> HIDE DEF none
<1>4. split(none \o part, sep) = Lengthen(Append(none, none), part)
  <2>1. split(none \o part, sep) = Lengthen(split(none, sep), part)
    BY <1>1, SplitPart
  <2> QED
    BY <1>3, <2>1
<1>5. Lengthen(Append(none, none), part) = Append(none, none \o part)
  BY <1>1, LengthenAppend
<1> QED
  BY <1>2, <1>3, <1>4, <1>5

(* `str::split` takes apart again what was joined: any number of parts     *)
(* that do not hold the separator.                                         *)
THEOREM SplitJoin ==
  ASSUME NEW S, NEW sep \in S, NEW parts \in Seq(Seq(S \ {sep})), parts # <<>>
  PROVE  split(Join(parts, sep), sep) = parts
<1> DEFINE P == Seq(S \ {sep})
           T == {s \in Seq(P) : s = <<>> \/ split(Join(s, sep), sep) = s}
<1>1. <<>> \in T
  OBVIOUS
<1>2. ASSUME NEW s \in Seq(P), NEW p \in P, s \in T
      PROVE  Append(s, p) \in T
  <2>1. p \in Seq(S) /\ Append(s, p) \in Seq(P)
    OBVIOUS
  <2>2. CASE s = <<>>
    <3>1. Append(s, p) = <<p>>
      BY <2>2
    <3>2. Join(<<p>>, sep) = p
      BY <2>1, JoinOne
    <3>3. split(p, sep) = <<p>>
      BY SplitOne
    <3> QED
      BY <2>1, <3>1, <3>2, <3>3
  <2>3. CASE s # <<>>
    <3>1. s \in Parts(S)
      <4>1. \A q \in P : q \in Seq(S)
        OBVIOUS
      <4>2. s \in Seq(Seq(S))
        <5> HIDE DEF P
        <5> QED
          BY <4>1
      <4> QED
        BY <2>3, <4>2 DEF Parts
    <3>2. Join(s, sep) \in Seq(S) /\ Join(Append(s, p), sep) = Join(s, sep) \o (<<sep>> \o p)
      BY <2>1, <3>1, JoinAppend
    <3>3. split(Join(s, sep) \o (<<sep>> \o p), sep) = Append(split(Join(s, sep), sep), p)
      BY <3>2, SplitNext
    <3>4. split(Join(s, sep), sep) = s
      BY <1>2, <2>3
    <3> QED
      BY <2>1, <3>2, <3>3, <3>4
  <2> QED
    BY <2>2, <2>3
<1>3. \A s \in Seq(P) : s \in T
  <2> HIDE DEF T, P
  <2> QED
    BY <1>1, <1>2, SeqInduction
<1> QED
  BY <1>3

LEMMA JoinType ==
  ASSUME NEW S, NEW sep \in S, NEW parts \in Parts(S)
  PROVE  Join(parts, sep) \in Seq(S)
<1>1. <<>> \in Seq(S)
  OBVIOUS
<1> QED
  BY <1>1, JoinAppend

LEMMA ConcatAt ==
  ASSUME NEW S, NEW s \in Seq(S), NEW t \in Seq(S)
  PROVE  /\ Len(s \o t) = Len(s) + Len(t)
         /\ \A j \in 1..Len(t) : (s \o t)[Len(s) + j] = t[j]
<1>1. /\ s \o t \in Seq(S) /\ Len(s \o t) = Len(s) + Len(t)
      /\ \A i \in 1..Len(s) + Len(t) : (s \o t)[i] = IF i <= Len(s) THEN s[i] ELSE t[i - Len(s)]
  BY ConcatProperties
<1>2. Len(s) \in Nat /\ Len(t) \in Nat
  OBVIOUS
<1>3. ASSUME NEW j \in 1..Len(t) PROVE (s \o t)[Len(s) + j] = t[j]
  <2>1. PICK i \in 1..(Len(s) + Len(t)) : i = Len(s) + j /\ ~(i <= Len(s)) /\ i - Len(s) = j
    BY <1>2
  <2> QED
    BY <1>1, <2>1
<1> QED
  BY <1>1, <1>3

(* What stands on either side of a separator, and the separator.           *)
LEMMA AroundSep ==
  ASSUME NEW S, NEW sep \in S, NEW a \in Seq(S), NEW b \in Seq(S)
  PROVE  LET t == a \o (<<sep>> \o b) IN
         /\ t \in Seq(S) /\ Len(t) = Len(a) + (1 + Len(b))
         /\ \A i \in 1..Len(a) : t[i] = a[i]
         /\ t[Len(a) + 1] = sep
         /\ \A i \in 1..Len(b) : t[Len(a) + 1 + i] = b[i]
<1> DEFINE one == <<sep>>
           c == one \o b
           t == a \o c
<1>1. one \in Seq(S) /\ Len(one) = 1 /\ one[1] = sep /\ Len(a) \in Nat /\ Len(b) \in Nat
  OBVIOUS
<1> HIDE DEF one
<1>2. /\ c \in Seq(S) /\ Len(c) = 1 + Len(b)
      /\ \A i \in 1..(1 + Len(b)) : c[i] = IF i <= 1 THEN one[i] ELSE b[i - 1]
  <2>1. /\ c \in Seq(S) /\ Len(c) = Len(one) + Len(b)
        /\ \A i \in 1..(Len(one) + Len(b)) : c[i] = IF i <= Len(one) THEN one[i] ELSE b[i - Len(one)]
    BY <1>1, ConcatProperties
  <2> HIDE DEF c
  <2> QED
    BY <1>1, <2>1
<1> HIDE DEF c
<1>3. /\ t \in Seq(S) /\ Len(t) = Len(a) + Len(c)
      /\ \A i \in 1..(Len(a) + Len(c)) : t[i] = IF i <= Len(a) THEN a[i] ELSE c[i - Len(a)]
  BY <1>1, <1>2, ConcatProperties
<1> HIDE DEF t
<1>4. \A i \in 1..Len(a) : t[i] = a[i]
  BY <1>1, <1>2, <1>3
<1>5. ASSUME NEW j \in 1..Len(c) PROVE t[Len(a) + j] = c[j]
  BY <1>2, ConcatAt DEF t
<1>6. t[Len(a) + 1] = sep
  <2>1. 1 \in 1..Len(c) /\ 1 \in 1..(1 + Len(b))
    BY <1>1, <1>2
  <2>2. c[1] = sep
    BY <1>1, <1>2, <2>1
  <2> QED
    BY <1>5, <2>1, <2>2
<1>7. ASSUME NEW i \in 1..Len(b) PROVE t[Len(a) + 1 + i] = b[i]
  <2>1. PICK j \in 1..Len(c) : j = 1 + i /\ j \in 1..(1 + Len(b)) /\ ~(j <= 1) /\ j - 1 = i
                               /\ Len(a) + j = Len(a) + 1 + i
    BY <1>1, <1>2
  <2>2. c[j] = b[i]
    BY <1>2, <2>1
  <2> QED
    BY <1>5, <2>1, <2>2
<1> QED
  BY <1>2, <1>3, <1>4, <1>6, <1>7 DEF t, c, one

(* A text is found to begin with all before the first separator. *)
LEMMA PrefixFound ==
  ASSUME NEW S, NEW sep \in S, NEW a \in Seq(S \ {sep}), NEW b \in Seq(S)
  PROVE  /\ PrefixBefore(a, {sep}) = Len(a)
         /\ PrefixBefore(a \o (<<sep>> \o b), {sep}) = Len(a)
<1> DEFINE t == a \o (<<sep>> \o b)
           none == {i \in 1..Len(a) : a[i] \in {sep}}
           found == {i \in 1..Len(t) : t[i] \in {sep}}
<1>1. /\ Len(a) \in Nat /\ Len(b) \in Nat /\ a \in Seq(S)
      /\ \A i \in 1..Len(a) : a[i] # sep
  OBVIOUS
<1>2. t \in Seq(S) /\ Len(t) = Len(a) + (1 + Len(b)) /\ t[Len(a) + 1] = sep
      /\ \A i \in 1..Len(a) : t[i] = a[i]
  BY <1>1, AroundSep
<1>3. none = {}
  BY <1>1
<1>4. PrefixBefore(a, {sep}) = Len(a)
  BY <1>3 DEF PrefixBefore, SelectInSeq
<1> HIDE DEF t
<1>5. found # {} /\ Min(found) = Len(a) + 1
  <2>1. \A i \in found : i \in Nat /\ ~(i <= Len(a))
    BY <1>1, <1>2
  <2>2. Len(a) + 1 \in found
    BY <1>1, <1>2
  <2>3. \A i \in found : Len(a) + 1 <= i
    BY <1>1, <2>1
  <2>4. \A i \in found : (\A j \in found : i <= j) => i = Len(a) + 1
    BY <1>1, <2>1, <2>2, <2>3
  <2> HIDE DEF found
  <2> QED
    BY <2>2, <2>3, <2>4 DEF Min
<1>6. PrefixBefore(t, {sep}) = (Len(a) + 1) - 1
  <2>1. PrefixBefore(t, {sep}) = IF (IF found # {} THEN Min(found) ELSE 0) = 0 THEN Len(t)
                                 ELSE (IF found # {} THEN Min(found) ELSE 0) - 1
    BY DEF PrefixBefore, SelectInSeq
  <2> HIDE DEF found
  <2> QED
    BY <1>1, <1>5, <2>1
<1> QED
  BY <1>1, <1>4, <1>6 DEF t

(* n elements of a text, from behind its first b on. *)
LEMMA Slice ==
  ASSUME NEW S, NEW s \in Seq(S), NEW b \in 0..Len(s), NEW n \in 0..(Len(s) - b)
  PROVE  /\ SubSeq(s, b + 1, b + n) \in Seq(S)
         /\ Len(SubSeq(s, b + 1, b + n)) = n
         /\ \A j \in 1..n : SubSeq(s, b + 1, b + n)[j] = s[b + j]
<1> DEFINE m == b + 1
           l == b + n
           t == SubSeq(s, m, l)
<1>1. Len(s) \in Nat /\ m \in Int /\ l \in Int /\ l <= Len(s) /\ l - m + 1 = n
      /\ (m <= l <=> n # 0) /\ m - 1 = b
  OBVIOUS
<1>2. \A i \in m..l : s[i] \in S
  BY <1>1
<1> HIDE DEF m, l
<1>3. /\ t \in Seq(S) /\ Len(t) = (IF m <= l THEN l - m + 1 ELSE 0)
      /\ \A i \in 1..(l - m + 1) : t[i] = s[m + i - 1]
  BY <1>1, <1>2, SubSeqProperties
<1> HIDE DEF t
<1>4. Len(t) = n /\ \A i \in 1..n : t[i] = s[m + i - 1]
  BY <1>1, <1>3
<1>5. \A i \in 1..n : m + i - 1 = b + i
  BY DEF m
<1> QED
  BY <1>3, <1>4, <1>5 DEF t, m, l

LEMMA ConcatParts ==
  ASSUME NEW S, NEW a \in Seq(S), NEW b \in Seq(S)
  PROVE  /\ SubSeq(a \o b, 1, Len(a)) = a
         /\ SubSeq(a \o b, Len(a) + 1, Len(a \o b)) = b
<1> DEFINE t == a \o b
           u == SubSeq(t, 1, Len(a))
           v == SubSeq(t, Len(a) + 1, Len(t))
<1>1. Len(a) \in Nat /\ Len(b) \in Nat
  OBVIOUS
<1>2. /\ t \in Seq(S) /\ Len(t) = Len(a) + Len(b)
      /\ \A i \in 1..Len(t) : t[i] = IF i <= Len(a) THEN a[i] ELSE b[i - Len(a)]
  BY ConcatProperties
<1> HIDE DEF t
<1>3. u \in Seq(S) /\ Len(u) = Len(a) /\ \A i \in 1..Len(a) : u[i] = t[i]
  BY <1>1, <1>2, SubSeqProperties
<1>4. v \in Seq(S) /\ Len(v) = Len(b) /\ \A i \in 1..Len(b) : v[i] = t[Len(a) + i]
  <2>1. /\ Len(a) + 1 \in Int /\ Len(t) \in Int
        /\ \A i \in (Len(a) + 1)..Len(t) : t[i] \in S
    BY <1>1, <1>2
  <2>2. /\ v \in Seq(S)
        /\ Len(v) = IF Len(a) + 1 <= Len(t) THEN Len(t) - (Len(a) + 1) + 1 ELSE 0
        /\ \A i \in 1..(Len(t) - (Len(a) + 1) + 1) : v[i] = t[(Len(a) + 1) + i - 1]
    BY <2>1, SubSeqProperties
  <2> HIDE DEF v
  <2>3. Len(v) = Len(b) /\ Len(t) - (Len(a) + 1) + 1 = Len(b)
    BY <1>1, <1>2, <2>2
  <2>4. \A i \in 1..Len(b) : (Len(a) + 1) + i - 1 = Len(a) + i
    BY <1>1
  <2> QED
    BY <2>2, <2>3, <2>4
<1> HIDE DEF u, v
<1>5. u = a
  <2>1. \A i \in 1..Len(a) : u[i] = a[i]
    BY <1>1, <1>2, <1>3
  <2> QED
    BY <1>3, <2>1, SeqEqual
<1>6. v = b
  <2>1. ASSUME NEW i \in 1..Len(b) PROVE v[i] = b[i]
    <3>1. PICK j \in 1..Len(t) : j = Len(a) + i /\ ~(j <= Len(a)) /\ j - Len(a) = i
      BY <1>1, <1>2
    <3> QED
      BY <1>2, <1>4, <3>1
  <2> QED
    BY <1>4, <2>1, SeqEqual
<1> QED
  BY <1>5, <1>6 DEF u, v, t

LEMMA SepParts ==
  ASSUME NEW S, NEW sep \in S, NEW a \in Seq(S), NEW b \in Seq(S)
  PROVE  LET t == a \o (<<sep>> \o b) IN
         /\ SubSeq(t, 1, Len(a)) = a
         /\ SubSeq(t, Len(a) + 2, Len(t)) = b
<1> DEFINE one == <<sep>>
           ao == a \o one
           ob == one \o b
           t == a \o ob
<1>1. one \in Seq(S) /\ Len(one) = 1 /\ Len(a) \in Nat
  OBVIOUS
<1> HIDE DEF one
<1>2. ao \in Seq(S) /\ Len(ao) = Len(a) + Len(one) /\ ob \in Seq(S)
  BY <1>1, ConcatProperties
<1>3. t = ao \o b
  BY <1>1, ConcatAssociative
<1> HIDE DEF ao, ob
<1>4. SubSeq(t, 1, Len(a)) = a
  BY <1>2, ConcatParts
<1> HIDE DEF t
<1>5. SubSeq(t, Len(ao) + 1, Len(t)) = b
  BY <1>2, <1>3, ConcatParts
<1>6. Len(ao) + 1 = Len(a) + 2
  BY <1>1, <1>2
<1> QED
  BY <1>4, <1>5, <1>6 DEF t, ob, one

LEMMA SplitNowhere ==
  ASSUME NEW S, NEW sep \in S, NEW a \in Seq(S \ {sep}), NEW otherwise
  PROVE  split_once(a, sep, otherwise) = <<a, otherwise>>
<1> DEFINE none == <<>>
<1>1. a \in Seq(S) /\ none \in Seq(S) /\ Len(a) \in Nat
  OBVIOUS
<1> HIDE DEF none
<1>2. PrefixBefore(a, {sep}) = Len(a)
  BY <1>1, PrefixFound
<1>3. UpTo(a, Len(a)) = a
  BY <1>1, SubSeqFull DEF UpTo
<1>4. ~(Len(a) < Len(a))
  BY <1>1
<1> QED
  BY <1>2, <1>3, <1>4 DEF split_once

LEMMA SplitOnce ==
  ASSUME NEW S, NEW sep \in S, NEW a \in Seq(S \ {sep}), NEW b \in Seq(S), NEW otherwise
  PROVE  split_once(a \o (<<sep>> \o b), sep, otherwise) = <<a, b>>
<1> DEFINE t == a \o (<<sep>> \o b)
<1>1. a \in Seq(S) /\ Len(a) \in Nat /\ Len(b) \in Nat
  OBVIOUS
<1>2. PrefixBefore(t, {sep}) = Len(a)
  BY PrefixFound
<1>3. UpTo(t, Len(a)) = a /\ From(t, Len(a) + 2) = b
  BY <1>1, SepParts DEF UpTo, From
<1>4. Len(t) = Len(a) + (1 + Len(b))
  BY <1>1, AroundSep
<1> HIDE DEF t
<1>5. Len(a) < Len(t)
  BY <1>1, <1>4
<1>6. split_once(t, sep, otherwise) = <<a, b>>
  BY <1>2, <1>3, <1>5 DEF split_once
<1> QED
  BY <1>6 DEF t

LEMMA FlattenOnes ==
  ASSUME NEW S, NEW s \in Seq(S)
  PROVE  FlattenSeq([k \in DOMAIN s |-> <<s[k]>>]) = s
<1> DEFINE Ones(r) == [k \in DOMAIN r |-> <<r[k]>>]
           T == {r \in Seq(S) : FlattenSeq(Ones(r)) = r}
<1>1. <<>> \in T
  <2>1. Ones(<<>>) = <<>>
    OBVIOUS
  <2> HIDE DEF Ones
  <2> QED
    BY <2>1, FlattenEmpty
<1>2. ASSUME NEW r \in Seq(S), NEW e \in S, r \in T
      PROVE  Append(r, e) \in T
  <2> DEFINE u == Ones(Append(r, e))
             o == Ones(r)
             one == <<e>>
             v == Append(o, one)
             n == Len(r)
             R == Seq(S)
             re == Append(r, e)
  <2>1. n \in Nat /\ one \in R /\ DOMAIN r = 1..n
    OBVIOUS
  <2>2. re \in Seq(S) /\ Len(re) = n + 1 /\ re[n + 1] = e /\ \A i \in 1..n : re[i] = r[i]
    BY AppendProperties
  <2>3. o \in Seq(R) /\ Len(o) = n /\ \A i \in 1..n : o[i] = <<r[i]>>
    <3>1. \A i \in 1..n : <<r[i]>> \in R
      OBVIOUS
    <3>2. o \in [1..n -> R] /\ \A i \in 1..n : o[i] = <<r[i]>>
      BY <2>1, <3>1
    <3> HIDE DEF o, R, n
    <3> QED
      BY <2>1, <3>2
  <2>4. u \in Seq(R) /\ Len(u) = n + 1 /\ \A i \in 1..(n + 1) : u[i] = <<re[i]>>
    <3>1. DOMAIN re = 1..(n + 1)
      BY <2>1, <2>2
    <3>2. \A i \in 1..(n + 1) : <<re[i]>> \in R
      <4>1. \A i \in 1..(n + 1) : re[i] \in S
        BY <2>1, <2>2
      <4> HIDE DEF re
      <4> QED
        BY <4>1
    <3> HIDE DEF re
    <3>3. u \in [1..(n + 1) -> R] /\ \A i \in 1..(n + 1) : u[i] = <<re[i]>>
      BY <3>1, <3>2 DEF re
    <3> HIDE DEF u, R, n
    <3> QED
      BY <2>1, <3>3
  <2> HIDE DEF u, o, one, R, re
  <2>5. v \in Seq(R) /\ Len(v) = n + 1 /\ v[n + 1] = one /\ \A i \in 1..n : v[i] = o[i]
    BY <2>1, <2>3, AppendProperties
  <2> HIDE DEF v
  <2>6. ASSUME NEW i \in 1..(n + 1) PROVE u[i] = v[i]
    <3>1. CASE i = n + 1
      BY <2>2, <2>4, <2>5, <3>1 DEF one
    <3>2. CASE i # n + 1
      <4>1. i \in 1..n
        BY <2>1, <3>2
      <4> QED
        BY <2>2, <2>3, <2>4, <2>5, <4>1
    <3> QED
      BY <3>1, <3>2
  <2> HIDE DEF n
  <2>7. u = v
    BY <2>4, <2>5, <2>6, SeqEqual
  <2>8. FlattenSeq(v) = FlattenSeq(o) \o one
    <3>1. o \in Seq(Seq(S)) /\ one \in Seq(S)
      BY <2>1, <2>3 DEF R
    <3> QED
      BY <3>1, FlattenAppend DEF v
  <2>9. FlattenSeq(o) = r
    BY <1>2 DEF o
  <2>10. r \o one = re
    BY AppendIsConcat DEF one, re
  <2>11. FlattenSeq(Ones(re)) = re
    BY <2>7, <2>8, <2>9, <2>10 DEF u, re
  <2> HIDE DEF Ones
  <2> QED
    BY <2>2, <2>11 DEF re
<1>3. \A r \in Seq(S) : r \in T
  <2> HIDE DEF T
  <2> QED
    BY <1>1, <1>2, SeqInduction
<1> QED
  BY <1>3

(***************************************************************************)
(* Pieces of a text, each behind a '/'.                                    *)
(***************************************************************************)
Slashed(pieces) == FlattenSeq(Headed(pieces, "/"))

LEMMA SlashedEmpty == Slashed(<<>>) = <<>>
<1>1. Headed(<<>>, "/") = <<>>
  BY DEF Headed
<1> QED
  BY <1>1, FlattenEmpty DEF Slashed

LEMMA SlashedAppend ==
  ASSUME NEW C, "/" \in C, NEW pieces \in Seq(Seq(C)), NEW p \in Seq(C)
  PROVE  /\ Slashed(pieces) \in Seq(C)
         /\ Slashed(Append(pieces, p)) = Slashed(pieces) \o (<<"/">> \o p)
<1>1. Headed(pieces, "/") \in Seq(Seq(C))
  BY HeadedType
<1>2. Slashed(pieces) \in Seq(C)
  BY <1>1, FlattenType DEF Slashed
<1>3. <<"/">> \o p \in Seq(C)
  <2>1. <<"/">> \in Seq(C)
    OBVIOUS
  <2> QED
    BY <2>1, ConcatProperties
<1>4. Headed(Append(pieces, p), "/") = Append(Headed(pieces, "/"), <<"/">> \o p)
  BY HeadedAppend
<1>5. Slashed(Append(pieces, p)) = Slashed(pieces) \o (<<"/">> \o p)
  <2> DEFINE h == Headed(pieces, "/")
             q == <<"/">> \o p
  <2> HIDE DEF h, q
  <2>1. FlattenSeq(Append(h, q)) = FlattenSeq(h) \o q
    BY <1>1, <1>3, FlattenAppend DEF h, q
  <2> QED
    BY <1>4, <2>1 DEF h, q, Slashed
<1> QED
  BY <1>2, <1>5

(* What is left of a text behind a '/' is all from some position on.       *)
LEMMA LeftBehind ==
  ASSUME NEW C, "/" \in C, NEW text \in Seq(C), NEW a \in Seq(C), NEW rest \in Seq(C),
         rest # <<>>, <<"/">> \o text = a \o rest
  PROVE  /\ Len(text) - Len(rest) + 2 \in 1..(Len(text) + 1)
         /\ From(text, Len(text) - Len(rest) + 2) = Tail(rest)
<1> DEFINE one == <<"/">>
           all == one \o text
           b == Len(a)
           n == Len(rest) - 1
           l == Len(text)
           r == Tail(rest)
           t == SubSeq(text, b + 1, b + n)
<1>1. one \in Seq(C) /\ Len(one) = 1 /\ b \in Nat /\ n \in Nat /\ l \in Nat
  OBVIOUS
<1>2. Len(all) = 1 + l /\ \A j \in 1..l : all[1 + j] = text[j]
  BY <1>1, ConcatAt
<1>3. Len(a \o rest) = b + Len(rest) /\ \A j \in 1..Len(rest) : (a \o rest)[b + j] = rest[j]
  BY ConcatAt
<1> HIDE DEF one
<1>4. l = b + n /\ \A j \in 1..Len(rest) : all[b + j] = rest[j]
  BY <1>1, <1>2, <1>3 DEF one
<1> HIDE DEF all, b, l
<1>5. r \in Seq(C) /\ Len(r) = n /\ \A j \in 1..n : r[j] = rest[j + 1]
  BY HeadTailProperties
<1> HIDE DEF r
<1>6. t \in Seq(C) /\ Len(t) = n /\ \A j \in 1..n : t[j] = text[b + j]
  <2>1. b \in 0..Len(text) /\ n \in 0..(Len(text) - b)
    BY <1>1, <1>4 DEF l
  <2> HIDE DEF n
  <2> QED
    BY <2>1, Slice
<1> HIDE DEF t
<1>7. ASSUME NEW j \in 1..n PROVE t[j] = r[j]
  <2>1. b + j \in 1..l /\ 1 + (b + j) = b + (j + 1) /\ j + 1 \in 1..Len(rest)
    BY <1>1, <1>4
  <2>2. text[b + j] = all[b + (j + 1)]
    BY <1>2, <2>1
  <2> QED
    BY <1>4, <1>5, <1>6, <2>1, <2>2
<1>8. t = r
  BY <1>5, <1>6, <1>7, SeqEqual
<1>9. l - Len(rest) + 2 = b + 1
  BY <1>1, <1>4
<1> QED
  BY <1>1, <1>4, <1>8, <1>9 DEF From, t, r, l, n

(* Texts one behind the other, as an operation of which the provers know   *)
(* nothing but that it is associative.                                     *)
Cat(a, b) == a \o b

One(c) == <<c>>

LEMMA Cats ==
  ASSUME NEW C
  PROVE  /\ \A c \in C : One(c) \in Seq(C)
         /\ \A a, b \in Seq(C) : Cat(a, b) \in Seq(C)
         /\ \A a, b, c \in Seq(C) : Cat(Cat(a, b), c) = Cat(a, Cat(b, c))
<1>1. \A c \in C : One(c) \in Seq(C)
  BY DEF One
<1>2. \A a, b \in Seq(C) : Cat(a, b) \in Seq(C)
  BY ConcatProperties DEF Cat
<1>3. \A a, b, c \in Seq(C) : Cat(Cat(a, b), c) = Cat(a, Cat(b, c))
  BY ConcatAssociative DEF Cat
<1> QED
  BY <1>1, <1>2, <1>3

LEMMA SlashTail ==
  ASSUME NEW C, "/" \in C, NEW rest \in Seq(C), StartsWith(rest, "/")
  PROVE  rest # <<>> /\ Tail(rest) \in Seq(C) /\ rest = Cat(One("/"), Tail(rest))
<1>1. rest # <<>> /\ Head(rest) = "/"
  BY DEF StartsWith
<1> QED
  BY <1>1, HeadTailProperties DEF Cat, One

LEMMA Joined ==
  ASSUME NEW C, "/" \in C, NEW pieces \in Seq(Seq(C)), pieces # <<>>,
         NEW text \in Seq(C), NEW rest \in Seq(C),
         Cat(One("/"), text) = Cat(Slashed(pieces), rest)
  PROVE  text = Cat(Join(pieces, "/"), rest)
<1>1. Slashed(pieces) \in Seq(C) /\ Join(pieces, "/") = Tail(Slashed(pieces))
  BY FlattenType, HeadedType DEF Slashed, Headed, Join
<1>2. Slashed(pieces) # <<>>
  <2>1. PICK first \in Seq(Seq(C)), last \in Seq(C) : pieces = Append(first, last)
    <3>1. pieces \in Parts(C)
      BY DEF Parts
    <3> QED
      BY <3>1, LastPart
  <2>2. Slashed(pieces) = Slashed(first) \o (<<"/">> \o last) /\ Slashed(first) \in Seq(C)
    BY <2>1, SlashedAppend
  <2>3. <<"/">> \in Seq(C) /\ Len(<<"/">>) = 1
    OBVIOUS
  <2>4. Len(<<"/">> \o last) = 1 + Len(last) /\ <<"/">> \o last \in Seq(C)
    BY <2>3, ConcatProperties
  <2>5. Len(Slashed(pieces)) = Len(Slashed(first)) + (1 + Len(last))
    BY <2>2, <2>4, ConcatProperties
  <2>6. Len(last) \in Nat /\ Len(Slashed(first)) \in Nat
    BY <2>2
  <2>7. Len(Slashed(pieces)) # 0
    BY <2>5, <2>6
  <2> QED
    BY <2>7
<1>3. Tail(Slashed(pieces) \o rest) = Tail(Slashed(pieces)) \o rest
  BY <1>1, <1>2, TailConcat
<1>4. Tail(Cat(One("/"), text)) = text
  BY DEF Cat, One
<1> QED
  BY <1>1, <1>3, <1>4 DEF Cat

(***************************************************************************)
(* A text cut in two.                                                      *)
(***************************************************************************)
LEMMA Cut ==
  ASSUME NEW S, NEW text \in Seq(S), NEW e \in 0..Len(text)
  PROVE  /\ UpTo(text, e) \in Seq(S) /\ Len(UpTo(text, e)) = e
         /\ \A j \in 1..e : UpTo(text, e)[j] = text[j]
         /\ From(text, e + 1) \in Seq(S) /\ Len(From(text, e + 1)) = Len(text) - e
         /\ \A j \in 1..(Len(text) - e) : From(text, e + 1)[j] = text[e + j]
         /\ text = Cat(UpTo(text, e), From(text, e + 1))
<1> DEFINE u == UpTo(text, e)
           v == From(text, e + 1)
           n == Len(text) - e
           t == u \o v
<1>1. e \in Nat /\ n \in Nat /\ Len(text) \in Nat /\ Len(text) = e + n
  OBVIOUS
<1>2. u \in Seq(S) /\ Len(u) = e /\ \A j \in 1..e : u[j] = text[j]
  <2>1. 0 \in 0..Len(text) /\ e \in 0..(Len(text) - 0)
    BY <1>1
  <2>2. LET w == SubSeq(text, 0 + 1, 0 + e) IN
        w \in Seq(S) /\ Len(w) = e /\ \A j \in 1..e : w[j] = text[0 + j]
    BY <2>1, Slice
  <2>3. 0 + 1 = 1 /\ 0 + e = e /\ \A j \in 1..e : 0 + j = j
    BY <1>1
  <2> QED
    BY <2>2, <2>3 DEF UpTo
<1>3. v \in Seq(S) /\ Len(v) = n /\ \A j \in 1..n : v[j] = text[e + j]
  <2>1. n \in 0..(Len(text) - e)
    BY <1>1
  <2>2. LET w == SubSeq(text, e + 1, e + n) IN
        w \in Seq(S) /\ Len(w) = n /\ \A j \in 1..n : w[j] = text[e + j]
    BY <2>1, Slice
  <2>3. v = SubSeq(text, e + 1, e + n)
    BY <1>1 DEF From
  <2> QED
    BY <2>2, <2>3
<1> HIDE DEF u, v, n
<1>4. t \in Seq(S) /\ Len(t) = e + n
      /\ \A i \in 1..Len(t) : t[i] = IF i <= Len(u) THEN u[i] ELSE v[i - Len(u)]
  <2>1. u \in Seq(S) /\ v \in Seq(S)
    BY <1>2, <1>3
  <2>2. t \in Seq(S) /\ Len(t) = Len(u) + Len(v)
        /\ \A i \in 1..Len(t) : t[i] = IF i <= Len(u) THEN u[i] ELSE v[i - Len(u)]
    BY <2>1, ConcatProperties
  <2> QED
    BY <1>2, <1>3, <2>2
<1> HIDE DEF t
<1>5. ASSUME NEW i \in 1..Len(text) PROVE text[i] = t[i]
  <2>1. CASE i <= e
    BY <1>1, <1>2, <1>4, <2>1
  <2>2. CASE ~(i <= e)
    <3>1. PICK j \in 1..n : i = e + j /\ i - e = j
      BY <1>1, <2>2
    <3> QED
      BY <1>1, <1>2, <1>3, <1>4, <2>2, <3>1
  <2> QED
    BY <2>1, <2>2
<1>6. text = t
  BY <1>1, <1>4, <1>5, SeqEqual
<1> QED
  BY <1>2, <1>3, <1>6 DEF u, v, t, n, Cat

LEMMA PrefixCuts ==
  ASSUME NEW S, NEW text \in Seq(S), NEW D
  PROVE  LET e == PrefixBefore(text, D) IN
         /\ e \in 0..Len(text)
         /\ UpTo(text, e) \in Seq(S \ D)
<1> DEFINE e == PrefixBefore(text, D)
           found == {i \in 1..Len(text) : text[i] \in D}
<1>1. Len(text) \in Nat
  OBVIOUS
<1>2. e = IF (IF found # {} THEN Min(found) ELSE 0) = 0 THEN Len(text)
          ELSE (IF found # {} THEN Min(found) ELSE 0) - 1
  BY DEF PrefixBefore, SelectInSeq
<1>3. e \in 0..Len(text) /\ \A i \in 1..e : text[i] \notin D
  <2>1. CASE found = {}
    BY <1>1, <1>2, <2>1
  <2>2. CASE found # {}
    <3>1. found \in SUBSET Nat
      OBVIOUS
    <3>2. PICK m \in found : \A i \in found : m <= i
      <4> HIDE DEF found
      <4> QED
        BY <2>2, <3>1, NatMin
    <3>3. \A i \in found : (\A j \in found : i <= j) => i = m
      BY <3>2
    <3>4. Min(found) = m
      <4> HIDE DEF found
      <4> QED
        BY <3>2, <3>3 DEF Min
    <3>5. m \in 1..Len(text)
      OBVIOUS
    <3>6. e = m - 1
      <4> HIDE DEF found, e
      <4> QED
        BY <1>2, <2>2, <3>4, <3>5
    <3>7. ASSUME NEW i \in 1..e PROVE text[i] \notin D
      <4>1. i \in 1..Len(text) /\ ~(m <= i)
        BY <1>1, <3>5, <3>6
      <4>2. i \notin found
        BY <3>2, <4>1
      <4> QED
        BY <4>1, <4>2
    <3> HIDE DEF e
    <3> QED
      BY <1>1, <3>5, <3>6, <3>7
  <2> QED
    BY <2>1, <2>2
<1> HIDE DEF e
<1>4. UpTo(text, e) \in Seq(S) /\ Len(UpTo(text, e)) = e /\ \A j \in 1..e : UpTo(text, e)[j] = text[j]
  BY <1>3, Cut
<1>5. UpTo(text, e) \in Seq(S \ D)
  <2> DEFINE u == UpTo(text, e)
  <2> HIDE DEF u
  <2>1. \A j \in 1..Len(u) : u[j] \in S \ D
    BY <1>3, <1>4 DEF u
  <2>2. u \in Seq(S \ D)
    BY <1>4, <2>1 DEF u
  <2> QED
    BY <2>2 DEF u
<1> QED
  BY <1>3, <1>5 DEF e

LEMMA OneCut ==
  ASSUME NEW C, NEW text \in Seq(C), NEW c, StartsWith(text, c)
  PROVE  /\ c \in C /\ text # <<>> /\ Tail(text) \in Seq(C)
         /\ One(c) \in Seq(C) /\ text = Cat(One(c), Tail(text))
<1>1. text # <<>> /\ Head(text) = c
  BY DEF StartsWith
<1> QED
  BY <1>1, HeadTailProperties DEF Cat, One

LEMMA FromType ==
  ASSUME NEW C, NEW text \in Seq(C), NEW i \in 1..(Len(text) + 1)
  PROVE  From(text, i) \in Seq(C)
<1>1. i - 1 \in 0..Len(text) /\ (i - 1) + 1 = i
  OBVIOUS
<1>2. From(text, (i - 1) + 1) \in Seq(C)
  BY <1>1, Cut
<1> QED
  BY <1>1, <1>2

(* `join` is the inverse of `split`: no text is lost where it is split.   *)
THEOREM JoinSplit ==
  ASSUME NEW S, NEW sep \in S, NEW text \in Seq(S)
  PROVE  Join(split(text, sep), sep) = text
<1> DEFINE T == {t \in Seq(S) : Join(split(t, sep), sep) = t}
<1>1. <<>> \in T
  <2> DEFINE none == <<>>
  <2>1. none \in Seq(S) /\ split(none, sep) = <<none>>
    BY SplitEmpty
  <2> HIDE DEF none
  <2>2. Join(<<none>>, sep) = none
    BY <2>1, JoinOne
  <2> QED
    BY <2>1, <2>2 DEF none
<1>2. ASSUME NEW t \in Seq(S), NEW c \in S, t \in T
      PROVE  Append(t, c) \in T
  <2> DEFINE parts == split(t, sep)
             none == <<>>
  <2>1. parts \in Parts(S) /\ Join(parts, sep) = t
    BY <1>2, SplitType
  <2>2. split(Append(t, c), sep) = IF c = sep THEN Append(parts, none) ELSE Extend(parts, c)
    BY SplitAppend
  <2>3. none \in Seq(S) /\ Append(t, c) \in Seq(S)
    BY AppendProperties
  <2>4. PICK first \in Seq(Seq(S)), last \in Seq(S) : parts = Append(first, last)
    BY <2>1, LastPart
  <2> HIDE DEF parts
  <2>5. CASE c = sep
    <3>1. Join(Append(parts, none), sep) = t \o (<<sep>> \o none)
      BY <2>1, <2>3, JoinAppend
    <3>2. <<sep>> \o none = <<sep>> /\ t \o <<sep>> = Append(t, sep)
      BY AppendIsConcat
    <3> QED
      BY <2>2, <2>3, <2>5, <3>1, <3>2
  <2>6. CASE c # sep
    <3> DEFINE more == Append(last, c)
    <3>1. Extend(parts, c) = Append(first, more) /\ more \in Seq(S)
      BY <2>4, ExtendAppend, AppendProperties
    <3> HIDE DEF more
    <3>2. CASE first = <<>>
      <4>1. Append(first, more) = <<more>> /\ parts = <<last>>
        BY <2>4, <3>2
      <4>2. Join(<<more>>, sep) = more /\ Join(<<last>>, sep) = last
        BY <3>1, JoinOne
      <4> QED
        BY <2>1, <2>2, <2>3, <2>6, <3>1, <4>1, <4>2 DEF more
    <3>3. CASE first # <<>>
      <4>1. first \in Parts(S)
        BY <3>3 DEF Parts
      <4>2. Join(parts, sep) = Join(first, sep) \o (<<sep>> \o last) /\ Join(first, sep) \in Seq(S)
        BY <2>4, <4>1, JoinAppend
      <4>3. Join(Append(first, more), sep) = Join(first, sep) \o (<<sep>> \o more)
        BY <3>1, <4>1, JoinAppend
      <4> DEFINE one == <<sep>>
                 head == Join(first, sep)
      <4>4. one \in Seq(S)
        OBVIOUS
      <4> HIDE DEF one, head
      <4>5. one \o more = Append(one \o last, c) /\ one \o last \in Seq(S)
        BY <4>4, ConcatAppend DEF more
      <4>6. head \o Append(one \o last, c) = Append(head \o (one \o last), c)
        <5> DEFINE end == one \o last
        <5>1. head \in Seq(S) /\ end \in Seq(S)
          BY <4>2, <4>5 DEF head
        <5> HIDE DEF end
        <5>2. head \o Append(end, c) = Append(head \o end, c)
          BY <5>1, ConcatAppend
        <5> QED
          BY <5>2 DEF end
      <4>7. Join(Append(first, more), sep) = Append(t, c)
        <5>1. t = head \o (one \o last)
          BY <2>1, <4>2, Zenon DEF head, one
        <5>2. Join(Append(first, more), sep) = head \o (one \o more)
          BY <4>3, Zenon DEF head, one
        <5> QED
          BY <4>5, <4>6, <5>1, <5>2, Zenon
      <4> QED
        BY <2>2, <2>3, <2>6, <3>1, <4>7
    <3> QED
      BY <3>2, <3>3
  <2> QED
    BY <2>5, <2>6
<1>3. \A t \in Seq(S) : t \in T
  <2> HIDE DEF T
  <2> QED
    BY <1>1, <1>2, SeqInduction
<1> QED
  BY <1>3

(***************************************************************************)
(* Texts put together.                                                     *)
(***************************************************************************)
(* A text with a character before it. *)
LEMMA Before1 ==
  ASSUME NEW C, NEW c \in C, NEW s \in Seq(C)
  PROVE  /\ Cat(One(c), s) \in Seq(C) /\ Cat(One(c), s) # <<>>
         /\ StartsWith(Cat(One(c), s), c)
         /\ Tail(Cat(One(c), s)) = s /\ Len(Cat(One(c), s)) = Len(s) + 1
<1> DEFINE one == <<c>>
           t == one \o s
<1>1. one \in Seq(C) /\ Len(one) = 1 /\ one[1] = c /\ Len(s) \in Nat
  OBVIOUS
<1> HIDE DEF one
<1>2. t \in Seq(C) /\ Len(t) = 1 + Len(s) /\ t[1] = c
  <2>1. t \in Seq(C) /\ Len(t) = Len(one) + Len(s)
    BY <1>1, ConcatProperties
  <2>2. \A i \in 1..(Len(one) + Len(s)) : t[i] = IF i <= Len(one) THEN one[i] ELSE s[i - Len(one)]
    BY <1>1, ConcatProperties
  <2> QED
    BY <1>1, <2>1, <2>2
<1>3. t # <<>> /\ Head(t) = c
  BY <1>1, <1>2
<1>4. Tail(t) = s
  BY DEF one
<1> HIDE DEF t
<1>5. StartsWith(t, c) /\ Len(t) = Len(s) + 1
  BY <1>1, <1>2, <1>3 DEF StartsWith
<1>6. Cat(One(c), s) = t
  BY DEF t, one, Cat, One
<1> QED
  BY <1>2, <1>3, <1>4, <1>5, <1>6

LEMMA AppendType ==
  ASSUME NEW S, NEW s \in Seq(S), NEW e \in S
  PROVE  Append(s, e) \in Seq(S)
OBVIOUS

(* Each piece is behind a '/'. *)
LEMMA SlashedLong ==
  ASSUME NEW C, "/" \in C, NEW pieces \in Seq(Seq(C))
  PROVE  Slashed(pieces) \in Seq(C) /\ Len(pieces) <= Len(Slashed(pieces))
<1> DEFINE T == {s \in Seq(Seq(C)) : Slashed(s) \in Seq(C) /\ Len(s) <= Len(Slashed(s))}
           U == Seq(C)
<1>1. <<>> \in T
  <2> DEFINE none == <<>>
  <2>1. none \in Seq(U) /\ none \in U /\ Len(none) = 0 /\ 0 <= 0
    OBVIOUS
  <2>2. Slashed(none) = none
    BY SlashedEmpty
  <2> HIDE DEF none
  <2>3. Slashed(none) \in Seq(C) /\ Len(none) <= Len(Slashed(none))
    BY <2>1, <2>2
  <2>4. none \in T
    BY <2>1, <2>3
  <2> QED
    BY <2>4 DEF none
<1>2. ASSUME NEW s \in Seq(U), NEW p \in U, s \in T PROVE Append(s, p) \in T
  <2>1. Slashed(s) \in Seq(C) /\ Slashed(Append(s, p)) = Cat(Slashed(s), Cat(One("/"), p))
    BY SlashedAppend DEF Cat, One
  <2>2. Cat(One("/"), p) \in Seq(C) /\ Len(Cat(One("/"), p)) = Len(p) + 1
    BY Before1
  <2> DEFINE a == Slashed(s)
             b == Cat(One("/"), p)
  <2>3. Cat(a, b) \in Seq(C) /\ Len(Cat(a, b)) = Len(a) + Len(b)
    <3> HIDE DEF a, b
    <3>1. a \in Seq(C) /\ b \in Seq(C)
      BY <2>1, <2>2 DEF a, b
    <3> QED
      BY <3>1, ConcatProperties DEF Cat
  <2>4. Append(s, p) \in Seq(U) /\ Len(Append(s, p)) = Len(s) + 1
    <3> HIDE DEF U
    <3> QED
      BY AppendProperties
  <2>5. Len(s) <= Len(a) /\ Len(s) \in Nat /\ Len(a) \in Nat /\ Len(p) \in Nat
    BY <1>2, <2>1
  <2> HIDE DEF a, b
  <2>6. Len(s) + 1 <= Len(a) + Len(b)
    BY <2>2, <2>5 DEF b
  <2> QED
    BY <2>1, <2>3, <2>4, <2>6 DEF a, b
<1>3. \A s \in Seq(U) : s \in T
  <2> HIDE DEF T, U
  <2> QED
    BY <1>1, <1>2, SeqInduction
<1> QED
  BY <1>3

(* A text begins with what its first part begins with. *)
LEMMA StartsCat ==
  ASSUME NEW C, NEW a \in Seq(C), NEW b \in Seq(C), NEW c, StartsWith(a, c)
  PROVE  StartsWith(Cat(a, b), c)
<1> DEFINE t == a \o b
<1>1. a # <<>> /\ Head(a) = c
  BY DEF StartsWith
<1>2. Len(a) \in Nat \ {0} /\ Len(b) \in Nat /\ a[1] = c
  BY <1>1
<1>3. t \in Seq(C) /\ Len(t) = Len(a) + Len(b)
  BY ConcatProperties
<1>4. \A i \in 1..Len(a) : t[i] = a[i]
  BY ConcatProperties
<1> HIDE DEF t
<1>5. Len(t) # 0 /\ t[1] = c
  BY <1>2, <1>3, <1>4
<1>6. t # <<>> /\ Head(t) = c
  BY <1>3, <1>5
<1> QED
  BY <1>6 DEF StartsWith, Cat, t

LEMMA SlashedStarts ==
  ASSUME NEW C, "/" \in C, NEW pieces \in Seq(Seq(C)), pieces # <<>>
  PROVE  StartsWith(Slashed(pieces), "/")
<1> DEFINE U == Seq(C)
           T == {s \in Seq(U) : s = <<>> \/ StartsWith(Slashed(s), "/")}
<1>1. <<>> \in T
  OBVIOUS
<1>2. ASSUME NEW s \in Seq(U), NEW p \in U, s \in T PROVE Append(s, p) \in T
  <2>1. Slashed(s) \in Seq(C) /\ Slashed(Append(s, p)) = Cat(Slashed(s), Cat(One("/"), p))
    BY SlashedAppend DEF Cat, One
  <2>2. Cat(One("/"), p) \in Seq(C) /\ StartsWith(Cat(One("/"), p), "/")
    BY Before1
  <2>3. Append(s, p) \in Seq(U)
    OBVIOUS
  <2>4. CASE s = <<>>
    <3>1. Cat(Slashed(s), Cat(One("/"), p)) = Cat(One("/"), p)
      BY <2>2, <2>4, SlashedEmpty, ConcatEmptySeq DEF Cat
    <3> QED
      BY <2>1, <2>2, <2>3, <3>1
  <2>5. CASE s # <<>>
    <3>1. StartsWith(Slashed(s), "/")
      BY <1>2, <2>5
    <3> DEFINE a == Slashed(s)
               b == Cat(One("/"), p)
    <3>2. StartsWith(Cat(a, b), "/")
      <4>1. a \in Seq(C) /\ b \in Seq(C) /\ StartsWith(a, "/")
        BY <2>1, <2>2, <3>1
      <4> HIDE DEF a, b
      <4> QED
        BY <4>1, StartsCat
    <3> QED
      BY <2>1, <2>3, <3>2
  <2> QED
    BY <2>4, <2>5
<1>3. \A s \in Seq(U) : s \in T
  <2> HIDE DEF T, U
  <2> QED
    BY <1>1, <1>2, SeqInduction
<1> QED
  BY <1>3

(* Pieces each behind a '/' are their join behind one. *)
LEMMA SlashedJoin ==
  ASSUME NEW C, "/" \in C, NEW pieces \in Seq(Seq(C)), pieces # <<>>
  PROVE  Slashed(pieces) = Cat(One("/"), Join(pieces, "/")) /\ Join(pieces, "/") \in Seq(C)
<1>1. Slashed(pieces) \in Seq(C) /\ Join(pieces, "/") = Tail(Slashed(pieces))
  BY FlattenType, HeadedType DEF Slashed, Headed, Join
<1>2. StartsWith(Slashed(pieces), "/")
  BY SlashedStarts
<1> QED
  BY <1>1, <1>2, OneCut

(* The prefix ends where the second part begins, if the first part holds   *)
(* nothing that ends it and the second begins with what does.              *)
LEMMA PrefixEnds ==
  ASSUME NEW S, NEW D, NEW a \in Seq(S), \A i \in 1..Len(a) : a[i] \notin D,
         NEW b \in Seq(S), b = <<>> \/ Head(b) \in D
  PROVE  PrefixBefore(Cat(a, b), D) = Len(a)
<1> DEFINE t == a \o b
           found == {i \in 1..Len(t) : t[i] \in D}
<1>1. Len(a) \in Nat /\ Len(b) \in Nat
  OBVIOUS
<1>2. t \in Seq(S) /\ Len(t) = Len(a) + Len(b)
  BY ConcatProperties
<1>3. \A i \in 1..Len(a) : t[i] = a[i]
  BY ConcatProperties
<1>4. PrefixBefore(t, D) = IF (IF found # {} THEN Min(found) ELSE 0) = 0 THEN Len(t)
                           ELSE (IF found # {} THEN Min(found) ELSE 0) - 1
  BY DEF PrefixBefore, SelectInSeq
<1>5. CASE b = <<>>
  <2>1. Len(b) = 0
    BY <1>5
  <2>2. found = {}
    <3> HIDE DEF t
    <3> QED
      BY <1>1, <1>2, <1>3, <2>1
  <2> HIDE DEF found, t
  <2> QED
    BY <1>1, <1>2, <1>4, <2>1, <2>2 DEF Cat, t
<1>6. CASE b # <<>>
  <2>1. Len(b) \in Nat \ {0} /\ b[1] \in D
    BY <1>6
  <2>2. t[Len(a) + 1] = b[1]
    <3>1. 1 \in 1..Len(b)
      BY <2>1
    <3> QED
      BY <3>1, ConcatAt
  <2> HIDE DEF t
  <2>3. found # {} /\ Min(found) = Len(a) + 1
    <3>1. \A i \in found : i \in Nat /\ ~(i <= Len(a))
      BY <1>1, <1>2, <1>3
    <3>2. Len(a) + 1 \in found
      BY <1>1, <1>2, <2>1, <2>2
    <3>3. \A i \in found : Len(a) + 1 <= i
      BY <1>1, <3>1
    <3>4. \A i \in found : (\A j \in found : i <= j) => i = Len(a) + 1
      BY <1>1, <3>1, <3>2, <3>3
    <3> HIDE DEF found
    <3> QED
      BY <3>2, <3>3, <3>4 DEF Min
  <2> HIDE DEF found
  <2> QED
    BY <1>1, <1>4, <2>3 DEF Cat, t
<1> QED
  BY <1>5, <1>6

(* The parts of a concatenation, and its characters. *)
LEMMA CatParts ==
  ASSUME NEW S, NEW a \in Seq(S), NEW b \in Seq(S)
  PROVE  UpTo(Cat(a, b), Len(a)) = a /\ From(Cat(a, b), Len(a) + 1) = b
BY ConcatParts DEF Cat, UpTo, From

LEMMA SeqSet ==
  ASSUME NEW S, NEW s \in Seq(S)
  PROVE  DOMAIN s = 1..Len(s) /\ \A i \in 1..Len(s) : s[i] \in ToSet(s)
BY DEF ToSet

LEMMA FirstOfCat ==
  ASSUME NEW S, NEW a \in Seq(S), a # <<>>, NEW b \in Seq(S)
  PROVE  /\ Cat(a, b) \in Seq(S) /\ Cat(a, b) # <<>>
         /\ Cat(a, b)[1] = a[1] /\ \A c : StartsWith(Cat(a, b), c) <=> a[1] = c
<1> DEFINE t == a \o b
<1>1. Len(a) \in Nat \ {0} /\ Len(b) \in Nat
  OBVIOUS
<1>2. t \in Seq(S) /\ Len(t) = Len(a) + Len(b)
  BY ConcatProperties
<1>3. \A i \in 1..Len(a) : t[i] = a[i]
  BY ConcatProperties
<1> HIDE DEF t
<1>4. t[1] = a[1] /\ Len(t) # 0
  BY <1>1, <1>2, <1>3
<1>5. t # <<>> /\ Head(t) = t[1]
  BY <1>2, <1>4
<1> QED
  BY <1>2, <1>4, <1>5 DEF StartsWith, Cat, t

LEMMA FirstIn ==
  ASSUME NEW S, NEW s \in Seq(S), s # <<>>
  PROVE  1 \in 1..Len(s)
OBVIOUS

LEMMA CatAt ==
  ASSUME NEW S, NEW a \in Seq(S), NEW b \in Seq(S)
  PROVE  /\ Len(Cat(a, b)) = Len(a) + Len(b) /\ Len(Cat(a, b)) >= Len(a)
         /\ \A i \in 1..Len(a) : Cat(a, b)[i] = a[i]
         /\ \A i \in 1..Len(b) : Cat(a, b)[Len(a) + i] = b[i]
<1> DEFINE t == a \o b
<1>1. Len(t) = Len(a) + Len(b) /\ Len(a) \in Nat /\ Len(b) \in Nat
  BY ConcatProperties
<1>2. \A i \in 1..Len(a) : t[i] = a[i]
  BY ConcatProperties
<1>3. \A i \in 1..Len(b) : t[Len(a) + i] = b[i]
  BY ConcatAt
<1> HIDE DEF t
<1>4. Len(t) >= Len(a)
  BY <1>1
<1> QED
  BY <1>1, <1>2, <1>3, <1>4 DEF Cat, t

(* What sequences are made of. *)
LEMMA NotEmpty ==
  ASSUME NEW S, NEW s \in Seq(S), s # <<>>
  PROVE  Len(s) # 0
OBVIOUS

LEMMA WiderSeq ==
  ASSUME NEW S, NEW T, S \subseteq T
  PROVE  Seq(S) \subseteq Seq(T)
OBVIOUS

LEMMA HeadIs ==
  ASSUME NEW text, NEW c, StartsWith(text, c)
  PROVE  text # <<>> /\ Head(text) = c
BY DEF StartsWith

LEMMA NotAmong ==
  ASSUME NEW S, NEW D, NEW s \in Seq(S \ D)
  PROVE  \A i \in 1..Len(s) : s[i] \notin D
OBVIOUS

LEMMA CatLonger ==
  ASSUME NEW S, NEW a \in Seq(S), NEW b \in Seq(S), b # <<>>
  PROVE  Len(a) # Len(Cat(a, b))
<1>1. Len(b) # 0
  OBVIOUS
<1>2. Len(Cat(a, b)) = Len(a) + Len(b)
  BY CatAt
<1> QED
  BY <1>1, <1>2

(* For all texts at once: what a proof hides the texts in. *)
LEMMA CatAtSets ==
  ASSUME NEW S
  PROVE  /\ \A x, y \in Seq(S) : Cat(x, y) \in Seq(S)
         /\ \A x, y \in Seq(S) : Len(Cat(x, y)) = Len(x) + Len(y)
         /\ \A x, y \in Seq(S) : \A i \in 1..Len(x) : Cat(x, y)[i] = x[i]
         /\ \A x, y \in Seq(S) : \A i \in 1..Len(y) : Cat(x, y)[Len(x) + i] = y[i]
<1>1. \A x, y \in Seq(S) : Cat(x, y) \in Seq(S)
  BY Cats
<1>2. \A x, y \in Seq(S) : Len(Cat(x, y)) = Len(x) + Len(y)
  BY CatAt
<1>3. \A x, y \in Seq(S) : \A i \in 1..Len(x) : Cat(x, y)[i] = x[i]
  BY CatAt
<1>4. \A x, y \in Seq(S) : \A i \in 1..Len(y) : Cat(x, y)[Len(x) + i] = y[i]
  BY CatAt
<1> QED
  BY <1>1, <1>2, <1>3, <1>4

(* A text in three parts. *)
InParts(t, a, s, z) ==
  /\ Len(t) = Len(a) + (Len(s) + Len(z))
  /\ \A i \in 1..Len(a) : t[i] = a[i]
  /\ \A i \in 1..Len(s) : t[Len(a) + i] = s[i]
  /\ \A i \in 1..Len(z) : t[Len(a) + (Len(s) + i)] = z[i]

LEMMA ThreeParts ==
  ASSUME NEW S, NEW a \in Seq(S), NEW s \in Seq(S), NEW z \in Seq(S)
  PROVE  Cat(a, Cat(s, z)) \in Seq(S) /\ InParts(Cat(a, Cat(s, z)), a, s, z)
<1> DEFINE T == Seq(S)
           b == Cat(s, z)
           t == Cat(a, b)
<1>1. a \in T /\ z \in T /\ s \in T
  OBVIOUS
<1>2. Len(a) \in Nat /\ Len(s) \in Nat /\ Len(z) \in Nat
  OBVIOUS
<1>3. /\ \A x, y \in T : Cat(x, y) \in T
      /\ \A x, y \in T : Len(Cat(x, y)) = Len(x) + Len(y)
      /\ \A x, y \in T : \A i \in 1..Len(x) : Cat(x, y)[i] = x[i]
      /\ \A x, y \in T : \A i \in 1..Len(y) : Cat(x, y)[Len(x) + i] = y[i]
  <2>1. \A x, y \in T : Cat(x, y) \in T
    BY CatAtSets
  <2>2. \A x, y \in T : Len(Cat(x, y)) = Len(x) + Len(y)
    BY CatAtSets
  <2>3. \A x, y \in T : \A i \in 1..Len(x) : Cat(x, y)[i] = x[i]
    BY CatAtSets
  <2>4. \A x, y \in T : \A i \in 1..Len(y) : Cat(x, y)[Len(x) + i] = y[i]
    BY CatAtSets
  <2> QED
    BY <2>1, <2>2, <2>3, <2>4
<1> HIDE DEF T
<1>4. b \in T /\ Len(b) = Len(s) + Len(z)
  BY <1>1, <1>3
<1>5. \A i \in 1..Len(s) : b[i] = s[i]
  BY <1>1, <1>3
<1>6. \A i \in 1..Len(z) : b[Len(s) + i] = z[i]
  BY <1>1, <1>3
<1> HIDE DEF b
<1>7. t \in T /\ Len(t) = Len(a) + Len(b)
  BY <1>1, <1>3, <1>4
<1>8. \A i \in 1..Len(a) : t[i] = a[i]
  BY <1>1, <1>3, <1>4
<1>9. \A i \in 1..Len(b) : t[Len(a) + i] = b[i]
  BY <1>1, <1>3, <1>4
<1> HIDE DEF t
<1>10. \A i \in 1..Len(s) : t[Len(a) + i] = s[i]
  <2> TAKE i \in 1..Len(s)
  <2>1. i \in 1..Len(b)
    BY <1>2, <1>4
  <2> QED
    BY <1>5, <1>9, <2>1
<1>11. \A i \in 1..Len(z) : t[Len(a) + (Len(s) + i)] = z[i]
  <2> TAKE i \in 1..Len(z)
  <2>1. Len(s) + i \in 1..Len(b)
    BY <1>2, <1>4
  <2> QED
    BY <1>6, <1>9, <2>1
<1> QED
  BY <1>4, <1>7, <1>8, <1>10, <1>11 DEF t, b, T, InParts

(* A text between two characters. *)
Enclosed(t, s, a, z) ==
  /\ Len(t) = Len(s) + 2 /\ t[1] = a[1] /\ t[Len(s) + 2] = z[1]
  /\ \A i \in 1..Len(s) : t[i + 1] = s[i]

LEMMA Around ==
  ASSUME NEW S, NEW a \in Seq(S), NEW z \in Seq(S), Len(a) = 1, Len(z) = 1, NEW s \in Seq(S)
  PROVE  Cat(a, Cat(s, z)) \in Seq(S) /\ Enclosed(Cat(a, Cat(s, z)), s, a, z)
<1> DEFINE t == Cat(a, Cat(s, z))
           n == Len(s)
<1>1. n \in Nat
  BY SMT
<1>2. t \in Seq(S) /\ InParts(t, a, s, z)
  BY ThreeParts
<1> HIDE DEF t
<1>3. /\ Len(t) = Len(a) + (n + Len(z))
      /\ \A i \in 1..Len(a) : t[i] = a[i]
      /\ \A i \in 1..n : t[Len(a) + i] = s[i]
      /\ \A i \in 1..Len(z) : t[Len(a) + (n + i)] = z[i]
  BY <1>2, Zenon DEF InParts
<1> HIDE DEF n
<1>4. 1 \in 1..Len(a) /\ 1 \in 1..Len(z) /\ Len(a) + (n + Len(z)) = n + 2 /\ Len(a) + (n + 1) = n + 2
  BY <1>1
<1>5. t[1] = a[1] /\ t[n + 2] = z[1]
  BY <1>3, <1>4
<1>6. \A i \in 1..n : t[i + 1] = s[i]
  <2> TAKE i \in 1..n
  <2>1. Len(a) + i = i + 1
    BY <1>1
  <2> QED
    BY <1>3, <2>1
<1>7. Enclosed(t, s, a, z)
  BY <1>3, <1>4, <1>5, <1>6 DEF Enclosed, n
<1> QED
  BY <1>2, <1>7 DEF t

(* A set of positions has a last one. *)
LEMMA UpperMost ==
  ASSUME NEW n \in Nat, NEW D \in SUBSET (1..n), D # {}
  PROVE  \E i \in D : \A j \in D : j <= i
<1> DEFINE from_end == {n - i : i \in D}
<1>1. from_end \in SUBSET Nat /\ from_end # {}
  <2>1. \A i \in D : n - i \in Nat
    OBVIOUS
  <2> QED
    BY <2>1
<1>2. PICK m \in from_end : \A k \in from_end : m <= k
  <2> HIDE DEF from_end
  <2> QED
    BY <1>1, NatMin
<1>3. PICK i \in D : m = n - i
  BY <1>2
<1>4. \A j \in D : j <= i
  <2> TAKE j \in D
  <2>1. n - i <= n - j
    BY <1>2, <1>3
  <2> QED
    BY <2>1
<1> QED
  BY <1>4

LEMMA WithoutSeq ==
  ASSUME NEW C, NEW D, NEW s \in Seq(C), \A i \in 1..Len(s) : s[i] \notin D
  PROVE  s \in Seq(C \ D)
OBVIOUS
=============================================================================
