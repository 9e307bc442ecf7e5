------------------------ MODULE PathTemplate_proofs ------------------------
(***************************************************************************)
(* Overlap is exact for templates of any length over any alphabet: two     *)
(* templates overlap exactly if some path matches both.                    *)
(***************************************************************************)
EXTENDS TemplateWalk, Texts_proofs

USE DEF Lit, Single, CatchAll

(* The fixed slots of a template are literals or `*`: `**` can only be the *)
(* last one.                                                               *)
LEMMA FixedSlots ==
  ASSUME NEW s \in SlotSeq
  PROVE  /\ Len(s) \in Nat \ {0}
         /\ Fixed(s) \in Nat
         /\ Fixed(s) <= Len(s)
         /\ IsOpen(s) => Fixed(s) = Len(s) - 1
         /\ ~IsOpen(s) => Fixed(s) = Len(s)
         /\ \A i \in 1..Fixed(s) :
              s[i] = Single \/ (s[i].kind = "lit" /\ s[i].text \in Text /\ s[i] = Lit(s[i].text))
<1>1. s \in Seq(Slot) /\ s # <<>> /\ \A i \in 1..(Len(s) - 1) : s[i] # CatchAll
  BY DEF SlotSeq
<1>2. Len(s) \in Nat \ {0}
  BY <1>1
<1>3. /\ Fixed(s) \in Nat /\ Fixed(s) <= Len(s)
      /\ IsOpen(s) => Fixed(s) = Len(s) - 1
      /\ ~IsOpen(s) => Fixed(s) = Len(s)
  BY <1>2 DEF Fixed
<1>4. ASSUME NEW i \in 1..Fixed(s)
      PROVE  s[i] = Single \/ (s[i].kind = "lit" /\ s[i].text \in Text /\ s[i] = Lit(s[i].text))
  <2>1. s[i] # CatchAll
    BY <1>1, <1>2, <1>3 DEF IsOpen
  <2>2. s[i] \in Slot
    BY <1>1, <1>2, <1>3
  <2>3. s[i] \in [kind : {"lit"}, text : Text] \/ s[i] = Single
    BY <2>1, <2>2 DEF Slot
  <2> QED
    BY <2>3
<1> QED
  BY <1>2, <1>3, <1>4

LEMMA FixedNotRest ==
  ASSUME NEW s \in SlotSeq
  PROVE  \A i \in 1..Fixed(s) : i \in 1..Len(s) /\ s[i] # CatchAll
<1> SUFFICES ASSUME NEW i \in 1..Fixed(s) PROVE i \in 1..Len(s) /\ s[i] # CatchAll
  OBVIOUS
<1>1. s[i] = Single \/ s[i].kind = "lit"
  BY FixedSlots
<1> QED
  BY <1>1, FixedSlots

(* A path that fits two templates shows that they overlap.                 *)
LEMMA FitBothOverlap ==
  ASSUME NEW a \in SlotSeq, NEW b \in SlotSeq, NEW p \in Seq(Text),
         Fits(a, p), Fits(b, p)
  PROVE  templates_overlap(a, b)
<1>1. /\ Fixed(a) \in Nat /\ Fixed(b) \in Nat /\ Len(p) \in Nat
      /\ IsOpen(a) => Len(p) >= Fixed(a)
      /\ ~IsOpen(a) => Len(p) = Fixed(a)
      /\ IsOpen(b) => Len(p) >= Fixed(b)
      /\ ~IsOpen(b) => Len(p) = Fixed(b)
  BY FixedSlots DEF Fits
<1>2. ASSUME NEW i \in 1..Fixed(a), i <= Fixed(b)
      PROVE  Compatible(a[i], b[i])
  <2>1. SlotFits(a[i], p[i]) /\ SlotFits(b[i], p[i])
    BY <1>1, <1>2 DEF Fits
  <2> QED
    BY <2>1 DEF SlotFits, Compatible
<1>3. \/ Fixed(a) = Fixed(b)
      \/ Fixed(a) < Fixed(b) /\ IsOpen(a)
      \/ Fixed(b) < Fixed(a) /\ IsOpen(b)
  BY <1>1
<1> QED
  BY <1>2, <1>3 DEF templates_overlap

(* Two overlapping templates have a path in common: the literals of both,  *)
(* and any text where neither has one; it need not be longer than both.    *)
LEMMA OverlapHasPath ==
  ASSUME NEW a \in SlotSeq, NEW b \in SlotSeq, templates_overlap(a, b)
  PROVE  \E p \in Seq(Text) :
           /\ p # <<>> /\ (Len(p) <= Len(a) \/ Len(p) <= Len(b))
           /\ Fits(a, p) /\ Fits(b, p)
<1> DEFINE longer == IF Fixed(a) < Fixed(b) THEN Fixed(b) ELSE Fixed(a)
           n == IF longer = 0 THEN 1 ELSE longer
           LitAt(s, i) == i <= Fixed(s) /\ s[i].kind = "lit"
           p == [i \in 1..n |-> IF LitAt(a, i) THEN a[i].text
                                ELSE IF LitAt(b, i) THEN b[i].text
                                ELSE CHOOSE t \in Text : TRUE]
<1>1. /\ Fixed(a) \in Nat /\ Fixed(b) \in Nat
      /\ IsOpen(a) => Fixed(a) = Len(a) - 1
      /\ ~IsOpen(a) => Fixed(a) = Len(a)
      /\ IsOpen(b) => Fixed(b) = Len(b) - 1
      /\ ~IsOpen(b) => Fixed(b) = Len(b)
      /\ Len(a) \in Nat \ {0} /\ Len(b) \in Nat \ {0}
  BY FixedSlots
<1>2. /\ n \in Nat \ {0} /\ Fixed(a) <= n /\ Fixed(b) <= n
      /\ n <= Len(a) \/ n <= Len(b)
  BY <1>1
<1>3. \A i \in 1..n : p[i] \in Text
  <2>1. (CHOOSE t \in Text : TRUE) \in Text
    BY PathTemplateAssumptions
  <2> SUFFICES ASSUME NEW i \in 1..n PROVE p[i] \in Text
    OBVIOUS
  <2>2. LitAt(a, i) => a[i].text \in Text
    <3> HIDE DEF n
    <3>1. ASSUME LitAt(a, i) PROVE a[i].text \in Text
      <4>1. i \in 1..Fixed(a) /\ a[i].kind = "lit"
        BY <1>1, <1>2, <3>1
      <4>2. a[i] # Single
        BY <4>1
      <4> QED
        BY <4>1, <4>2, FixedSlots
    <3> QED
      BY <3>1
  <2>3. LitAt(b, i) => b[i].text \in Text
    <3> HIDE DEF n
    <3>1. ASSUME LitAt(b, i) PROVE b[i].text \in Text
      <4>1. i \in 1..Fixed(b) /\ b[i].kind = "lit"
        BY <1>1, <1>2, <3>1
      <4>2. b[i] # Single
        BY <4>1
      <4> QED
        BY <4>1, <4>2, FixedSlots
    <3> QED
      BY <3>1
  <2> QED
    BY <2>1, <2>2, <2>3
<1>4. p \in Seq(Text) /\ Len(p) = n /\ p # <<>>
  <2>1. p \in [1..n -> Text]
    BY <1>3
  <2> HIDE DEF n, p
  <2>2. p \in Seq(Text) /\ Len(p) = n
    BY <2>1, <1>2
  <2> QED
    BY <2>2, <1>2
<1>5. \A i \in 1..Fixed(a) : SlotFits(a[i], p[i])
  <2> SUFFICES ASSUME NEW i \in 1..Fixed(a) PROVE SlotFits(a[i], p[i])
    OBVIOUS
  <2>1. i \in 1..n
    BY <1>1, <1>2
  <2>2. a[i] = Single \/ (a[i].kind = "lit" /\ a[i] = Lit(a[i].text))
    BY FixedSlots
  <2>3. a[i].kind = "lit" => p[i] = a[i].text
    BY <2>1
  <2> QED
    BY <2>2, <2>3 DEF SlotFits
<1>6. \A i \in 1..Fixed(b) : SlotFits(b[i], p[i])
  <2> SUFFICES ASSUME NEW i \in 1..Fixed(b) PROVE SlotFits(b[i], p[i])
    OBVIOUS
  <2>1. i \in 1..n
    BY <1>1, <1>2
  <2>2. b[i] = Single \/ (b[i].kind = "lit" /\ b[i] = Lit(b[i].text))
    BY FixedSlots
  <2>3. b[i].kind = "lit" /\ LitAt(a, i) => a[i] = b[i]
    BY <1>1 DEF templates_overlap, Compatible
  <2>4. b[i].kind = "lit" => p[i] = b[i].text
    BY <2>1, <2>3
  <2> QED
    BY <2>2, <2>4 DEF SlotFits
<1>7. /\ IF IsOpen(a) THEN Len(p) >= Fixed(a) ELSE Len(p) = Fixed(a)
      /\ IF IsOpen(b) THEN Len(p) >= Fixed(b) ELSE Len(p) = Fixed(b)
  <2> HIDE DEF p
  <2> QED
    BY <1>1, <1>2, <1>4 DEF templates_overlap
<1>8. Fits(a, p) /\ Fits(b, p)
  <2> HIDE DEF p
  <2> QED
    BY <1>5, <1>6, <1>7 DEF Fits
<1> QED
  <2> HIDE DEF p, n
  <2> QED
    BY <1>2, <1>4, <1>8

(* `templates_overlap` is exact: it says yes exactly if some request path  *)
(* matches both templates, so a conflict report is never a false alarm and *)
(* no overlap goes unseen (routes.rs).                                     *)
THEOREM OverlapExact ==
  ASSUME NEW a \in SlotSeq, NEW b \in SlotSeq
  PROVE  templates_overlap(a, b)
           <=> \E p \in Seq(Text) : p # <<>> /\ Fits(a, p) /\ Fits(b, p)
BY FitBothOverlap, OverlapHasPath

(* A template matches some path: it overlaps itself.                       *)
COROLLARY EveryTemplateFits ==
  ASSUME NEW a \in SlotSeq
  PROVE  \E p \in Seq(Text) : p # <<>> /\ Fits(a, p)
<1>1. templates_overlap(a, a)
  BY FixedSlots DEF templates_overlap, Compatible
<1> QED
  BY <1>1, OverlapHasPath

(***************************************************************************)
(* The recursion of routes.rs computes the closed form of overlap.         *)
(***************************************************************************)
(* What `slots_overlap` does at one position, given its answer at the next. *)
OverlapAt(a, b, i, next) ==
  CASE i > Len(a) /\ i > Len(b) -> TRUE
    [] \/ i <= Len(a) /\ a[i] = CatchAll
       \/ i <= Len(b) /\ b[i] = CatchAll -> TRUE
    [] OTHER -> i <= Len(a) /\ i <= Len(b) /\ Compatible(a[i], b[i]) /\ next

Shorter(a, b) == IF Len(a) < Len(b) THEN Len(a) ELSE Len(b)

LEMMA OverlapCalls ==
  ASSUME NEW a \in SlotSeq, NEW b \in SlotSeq
  PROVE  \E call \in [1..(Shorter(a, b) + 1) -> BOOLEAN] :
           /\ slots_overlap(a, b) = call[1]
           /\ \A i \in 1..(Shorter(a, b) + 1) : call[i] = OverlapAt(a, b, i, call[i + 1])
<1> DEFINE n == Shorter(a, b)
           last == OverlapAt(a, b, n + 1, TRUE)
           step == [i \in 1..n |-> [next \in BOOLEAN |-> OverlapAt(a, b, i, next)]]
           Is(f) == f = [i \in 1..(n + 1) |-> OverlapAt(a, b, i, f[i + 1])]
<1>1. n \in Nat /\ n <= Len(a) /\ n <= Len(b) /\ (n = Len(a) \/ n = Len(b))
      /\ Len(a) \in Nat /\ Len(b) \in Nat
  BY FixedSlots DEF Shorter
<1>2. \A i, next : OverlapAt(a, b, i, next) \in BOOLEAN
  BY DEF OverlapAt, Compatible
<1>3. last \in BOOLEAN /\ step \in [1..n -> [BOOLEAN -> BOOLEAN]]
  <2> HIDE DEF n
  <2>1. last \in BOOLEAN
    BY <1>2
  <2>2. ASSUME NEW i \in 1..n PROVE step[i] \in [BOOLEAN -> BOOLEAN]
    BY <1>2
  <2> QED
    BY <2>1, <2>2
<1>4. PICK f \in [1..(n + 1) -> BOOLEAN] : IsDownRecursion(f, n, last, step)
  <2> HIDE DEF n, last, step
  <2> QED
    BY <1>1, <1>3, DownRecursion
<1>5. ASSUME NEW i \in 1..(n + 1)
      PROVE  f[i] = OverlapAt(a, b, i, f[i + 1])
  <2>1. CASE i = n + 1
    <3>1. f[n + 1] = OverlapAt(a, b, n + 1, TRUE)
      BY <1>4 DEF IsDownRecursion
    <3>2. \A x, y : OverlapAt(a, b, n + 1, x) = OverlapAt(a, b, n + 1, y)
      <4>1. ~(n + 1 <= Len(a) /\ n + 1 <= Len(b))
        BY <1>1
      <4> HIDE DEF n
      <4> QED
        BY <4>1 DEF OverlapAt
    <3> HIDE DEF n
    <3> QED
      BY <2>1, <3>1, <3>2
  <2>2. CASE i # n + 1
    <3>1. i \in 1..n /\ f[i + 1] \in BOOLEAN
      BY <1>1, <2>2
    <3>2. f[i] = step[i][f[i + 1]]
      BY <1>4, <3>1 DEF IsDownRecursion
    <3> HIDE DEF n
    <3>3. step[i][f[i + 1]] = OverlapAt(a, b, i, f[i + 1])
      BY <3>1
    <3> HIDE DEF step
    <3> QED
      BY <3>2, <3>3
  <2> QED
    BY <2>1, <2>2
<1>6. Is(f)
  <2> DEFINE h == [i \in 1..(n + 1) |-> OverlapAt(a, b, i, f[i + 1])]
  <2> HIDE DEF n
  <2>1. f = h
    BY <1>4, <1>5
  <2> QED
    BY <2>1
<1> DEFINE call == CHOOSE g : Is(g)
<1>7. Is(call)
  <2> HIDE DEF n, Is
  <2>1. \E g : Is(g)
    BY <1>6, Zenon
  <2> QED
    BY <2>1, ZenonT(60)
<1>8. slots_overlap(a, b) = call[1]
  BY ZenonT(60) DEF slots_overlap, Shorter, OverlapAt
<1>9. \A i \in 1..(n + 1) : call[i] = OverlapAt(a, b, i, call[i + 1])
  <2> HIDE DEF call, n
  <2> QED
    BY <1>7
<1>10. call \in [1..(n + 1) -> BOOLEAN]
  <2> HIDE DEF call, n
  <2> QED
    BY <1>2, <1>7
<1> QED
  <2> HIDE DEF call
  <2> QED
    BY <1>8, <1>9, <1>10

(* `slots_overlap` (routes.rs) says yes to exactly the pairs of templates  *)
(* that overlap, whatever their lengths.                                   *)
THEOREM OverlapByCalls ==
  ASSUME NEW a \in SlotSeq, NEW b \in SlotSeq
  PROVE  slots_overlap(a, b) <=> templates_overlap(a, b)
<1> DEFINE m == IF Fixed(a) < Fixed(b) THEN Fixed(a) ELSE Fixed(b)
           Meet == \/ Fixed(a) = Fixed(b)
                   \/ Fixed(a) < Fixed(b) /\ IsOpen(a)
                   \/ Fixed(b) < Fixed(a) /\ IsOpen(b)
           Onwards(i) == Meet /\ \A j \in i..m : Compatible(a[j], b[j])
<1>1. PICK call \in [1..(Shorter(a, b) + 1) -> BOOLEAN] :
        /\ slots_overlap(a, b) = call[1]
        /\ \A i \in 1..(Shorter(a, b) + 1) : call[i] = OverlapAt(a, b, i, call[i + 1])
  BY OverlapCalls
<1>2. /\ Fixed(a) \in Nat /\ Fixed(b) \in Nat /\ Len(a) \in Nat \ {0} /\ Len(b) \in Nat \ {0}
      /\ IF IsOpen(a) THEN Fixed(a) = Len(a) - 1 ELSE Fixed(a) = Len(a)
      /\ IF IsOpen(b) THEN Fixed(b) = Len(b) - 1 ELSE Fixed(b) = Len(b)
  BY FixedSlots
<1>3. /\ m \in Nat /\ m <= Fixed(a) /\ m <= Fixed(b) /\ (m = Fixed(a) \/ m = Fixed(b))
      /\ Shorter(a, b) \in Nat /\ m <= Shorter(a, b)
  BY <1>2 DEF Shorter
<1> HIDE DEF m, Meet
<1>4. call[m + 1] <=> Meet
  <2>1. call[m + 1] = OverlapAt(a, b, m + 1, call[(m + 1) + 1])
    <3>1. m + 1 \in 1..(Shorter(a, b) + 1)
      BY <1>3
    <3> QED
      BY <1>1, <3>1
  <2> DEFINE next == call[(m + 1) + 1]
  <2> HIDE DEF next
  <2>2. CASE Fixed(a) = Fixed(b)
    <3>1. OverlapAt(a, b, m + 1, next)
      BY <1>2, <1>3, <2>2 DEF OverlapAt, IsOpen
    <3> QED
      BY <2>1, <2>2, <3>1 DEF next, Meet
  <2>3. CASE Fixed(a) < Fixed(b)
    <3>1. m = Fixed(a) /\ m + 1 \in 1..Fixed(b)
      BY <1>2, <1>3, <2>3
    <3>2. b[m + 1] # CatchAll
      BY <3>1, FixedNotRest
    <3>3. OverlapAt(a, b, m + 1, next) <=> IsOpen(a)
      BY <1>2, <2>3, <3>1, <3>2 DEF OverlapAt, IsOpen
    <3>4. Meet <=> IsOpen(a)
      BY <1>2, <2>3 DEF Meet
    <3> QED
      BY <2>1, <3>3, <3>4 DEF next
  <2>4. CASE Fixed(b) < Fixed(a)
    <3>1. m = Fixed(b) /\ m + 1 \in 1..Fixed(a)
      BY <1>2, <1>3, <2>4
    <3>2. a[m + 1] # CatchAll
      BY <3>1, FixedNotRest
    <3>3. OverlapAt(a, b, m + 1, next) <=> IsOpen(b)
      BY <1>2, <2>4, <3>1, <3>2 DEF OverlapAt, IsOpen
    <3>4. Meet <=> IsOpen(b)
      BY <1>2, <2>4 DEF Meet
    <3> QED
      BY <2>1, <3>3, <3>4 DEF next
  <2> QED
    BY <1>2, <2>2, <2>3, <2>4
<1>5. ASSUME NEW i \in 1..m
      PROVE  call[i] <=> Compatible(a[i], b[i]) /\ call[i + 1]
  <2>1. i \in 1..Fixed(a) /\ i \in 1..Fixed(b) /\ i \in 1..(Shorter(a, b) + 1)
    BY <1>2, <1>3
  <2>2. a[i] # CatchAll /\ b[i] # CatchAll /\ i <= Len(a) /\ i <= Len(b)
    BY <1>2, <2>1, FixedNotRest
  <2>3. call[i] = OverlapAt(a, b, i, call[i + 1])
    BY <1>1, <2>1
  <2>4. OverlapAt(a, b, i, call[i + 1]) <=> Compatible(a[i], b[i]) /\ call[i + 1]
    BY <1>2, <2>2 DEF OverlapAt
  <2> QED
    BY <2>3, <2>4
<1> DEFINE D == {i \in 0..m : call[i + 1] <=> Onwards(i + 1)}
<1>6. m \in D
  BY <1>3, <1>4
<1>7. ASSUME NEW i \in 1..m, i \in D
      PROVE  i - 1 \in D
  <2>1. call[i] <=> Compatible(a[i], b[i]) /\ Onwards(i + 1)
    BY <1>5, <1>7
  <2>2. Onwards(i) <=> Compatible(a[i], b[i]) /\ Onwards(i + 1)
    BY <1>3
  <2> QED
    BY <1>3, <2>1, <2>2
<1>8. 0 \in D
  <2> HIDE DEF D
  <2> QED
    BY <1>3, <1>6, <1>7, DownInduction
<1>9. Onwards(1) <=> templates_overlap(a, b)
  BY <1>2 DEF templates_overlap, m, Meet
<1> QED
  <2> HIDE DEF Onwards
  <2> QED
    BY <1>1, <1>8, <1>9

(***************************************************************************)
(* The matcher of template.rs.  A variable's sub-pattern first.            *)
(***************************************************************************)
(* Call k of `sub_pattern_matches`, given the answer of the next one. *)
SubPatternAt(sub, input, k, next) ==
  IF k > Len(sub) THEN Len(input) = Len(sub)
  ELSE \/ /\ sub[k].kind = "lit"
          /\ k <= Len(input) /\ input[k] = sub[k].text
          /\ next
       \/ sub[k].kind = "any" /\ k <= Len(input) /\ next
       \/ sub[k].kind = "rest" /\ k = Len(sub)

LEMMA SlotKinds ==
  ASSUME NEW s \in SlotSeq, NEW k \in 1..Len(s)
  PROVE  /\ s[k].kind \in {"lit", "any", "rest"}
         /\ s[k].kind = "any" => s[k] = Single
         /\ s[k].kind = "rest" => s[k] = CatchAll /\ k = Len(s) /\ IsOpen(s)
         /\ s[k].kind = "lit" => s[k] = Lit(s[k].text) /\ s[k].text \in Text
<1>1. s \in Seq(Slot) /\ s # <<>> /\ \A i \in 1..(Len(s) - 1) : s[i] # CatchAll
  BY DEF SlotSeq
<1>2. s[k] \in Slot
  BY <1>1
<1>3. s[k] \in [kind : {"lit"}, text : Text] \/ s[k] = Single \/ s[k] = CatchAll
  BY <1>2 DEF Slot
<1>4. s[k] = CatchAll => k = Len(s)
  BY <1>1
<1> QED
  BY <1>3, <1>4 DEF IsOpen

LEMMA SubPatternCalls ==
  ASSUME NEW sub \in SlotSeq, NEW input \in Seq(Text)
  PROVE  \E call \in [1..(Len(sub) + 1) -> BOOLEAN] :
           /\ sub_pattern_matches(sub, input) = call[1]
           /\ \A k \in 1..(Len(sub) + 1) : call[k] = SubPatternAt(sub, input, k, call[k + 1])
<1> DEFINE n == Len(sub)
           last == SubPatternAt(sub, input, n + 1, TRUE)
           step == [k \in 1..n |-> [next \in BOOLEAN |-> SubPatternAt(sub, input, k, next)]]
           Is(f) == f = [k \in 1..(n + 1) |-> SubPatternAt(sub, input, k, f[k + 1])]
<1>1. n \in Nat
  BY FixedSlots
<1>2. \A k, next : SubPatternAt(sub, input, k, next) \in BOOLEAN
  BY DEF SubPatternAt
<1>3. last \in BOOLEAN /\ step \in [1..n -> [BOOLEAN -> BOOLEAN]]
  <2> HIDE DEF n
  <2>1. last \in BOOLEAN
    BY <1>2
  <2>2. ASSUME NEW k \in 1..n PROVE step[k] \in [BOOLEAN -> BOOLEAN]
    BY <1>2
  <2> QED
    BY <2>1, <2>2
<1>4. PICK f \in [1..(n + 1) -> BOOLEAN] : IsDownRecursion(f, n, last, step)
  <2> HIDE DEF n, last, step
  <2> QED
    BY <1>1, <1>3, DownRecursion
<1>5. ASSUME NEW k \in 1..(n + 1)
      PROVE  f[k] = SubPatternAt(sub, input, k, f[k + 1])
  <2>1. CASE k = n + 1
    <3>1. f[n + 1] = SubPatternAt(sub, input, n + 1, TRUE)
      BY <1>4 DEF IsDownRecursion
    <3>2. \A x, y : SubPatternAt(sub, input, n + 1, x) = SubPatternAt(sub, input, n + 1, y)
      <4>1. n + 1 > Len(sub)
        BY <1>1
      <4> HIDE DEF n
      <4> QED
        BY <4>1 DEF SubPatternAt
    <3> HIDE DEF n
    <3> QED
      BY <2>1, <3>1, <3>2
  <2>2. CASE k # n + 1
    <3>1. k \in 1..n /\ f[k + 1] \in BOOLEAN
      BY <1>1, <2>2
    <3>2. f[k] = step[k][f[k + 1]]
      BY <1>4, <3>1 DEF IsDownRecursion
    <3> QED
      BY <3>1, <3>2
  <2> QED
    BY <2>1, <2>2
<1>6. Is(f)
  BY <1>5
<1> DEFINE call == CHOOSE g : Is(g)
<1>7. Is(call)
  BY <1>6
<1>8. sub_pattern_matches(sub, input) = call[1]
  BY DEF sub_pattern_matches, SubPatternAt
<1>9. \A k \in 1..(n + 1) : call[k] = SubPatternAt(sub, input, k, call[k + 1])
  <2> HIDE DEF call, n
  <2> QED
    BY <1>7
<1>10. call \in [1..(n + 1) -> BOOLEAN]
  <2> HIDE DEF call, n
  <2> QED
    BY <1>2, <1>7
<1> QED
  <2> HIDE DEF call
  <2> QED
    BY <1>8, <1>9, <1>10

(* A sub-pattern matches what fits it. *)
LEMMA SubPatternFits ==
  ASSUME NEW sub \in SlotSeq, NEW input \in Seq(Text)
  PROVE  sub_pattern_matches(sub, input) <=> Fits(sub, input)
<1> DEFINE m == Fixed(sub)
           Ends == IsOpen(sub) \/ Len(input) = m
           Onwards(k) == Ends /\ \A j \in k..m : j <= Len(input) /\ SlotFits(sub[j], input[j])
<1>1. PICK call \in [1..(Len(sub) + 1) -> BOOLEAN] :
        /\ sub_pattern_matches(sub, input) = call[1]
        /\ \A k \in 1..(Len(sub) + 1) : call[k] = SubPatternAt(sub, input, k, call[k + 1])
  BY SubPatternCalls
<1>2. /\ m \in Nat /\ Len(sub) \in Nat \ {0} /\ Len(input) \in Nat
      /\ IF IsOpen(sub) THEN m = Len(sub) - 1 ELSE m = Len(sub)
  BY FixedSlots
<1> HIDE DEF m, Ends
<1>3. call[m + 1] <=> Ends
  <2>1. call[m + 1] = SubPatternAt(sub, input, m + 1, call[(m + 1) + 1])
    <3>1. m + 1 \in 1..(Len(sub) + 1)
      BY <1>2
    <3> QED
      BY <1>1, <3>1
  <2> DEFINE next == call[(m + 1) + 1]
  <2> HIDE DEF next
  <2>2. CASE IsOpen(sub)
    <3>1. m + 1 = Len(sub) /\ sub[m + 1].kind = "rest"
      BY <1>2, <2>2 DEF IsOpen
    <3> QED
      BY <1>2, <2>1, <2>2, <3>1 DEF SubPatternAt, Ends
  <2>3. CASE ~IsOpen(sub)
    <3>1. m = Len(sub) /\ m + 1 > Len(sub)
      BY <1>2, <2>3
    <3> QED
      BY <2>1, <2>3, <3>1 DEF SubPatternAt, Ends
  <2> QED
    BY <2>2, <2>3
<1>4. ASSUME NEW k \in 1..m
      PROVE  call[k] <=> k <= Len(input) /\ SlotFits(sub[k], input[k]) /\ call[k + 1]
  <2>1. k \in 1..Fixed(sub) /\ k \in 1..Len(sub) /\ k \in 1..(Len(sub) + 1)
    BY <1>2 DEF m
  <2>2. sub[k] = Single \/ (sub[k].kind = "lit" /\ sub[k] = Lit(sub[k].text))
    BY <2>1, FixedSlots
  <2>3. call[k] = SubPatternAt(sub, input, k, call[k + 1])
    BY <1>1, <2>1
  <2>4. SubPatternAt(sub, input, k, call[k + 1])
          <=> k <= Len(input) /\ SlotFits(sub[k], input[k]) /\ call[k + 1]
    <3>1. ~(k > Len(sub))
      BY <2>1
    <3> QED
      BY <2>2, <3>1 DEF SubPatternAt, SlotFits
  <2> QED
    BY <2>3, <2>4
<1> DEFINE D == {k \in 0..m : call[k + 1] <=> Onwards(k + 1)}
<1>5. m \in D
  BY <1>2, <1>3
<1>6. ASSUME NEW k \in 1..m, k \in D
      PROVE  k - 1 \in D
  <2>1. call[k] <=> k <= Len(input) /\ SlotFits(sub[k], input[k]) /\ Onwards(k + 1)
    BY <1>4, <1>6
  <2>2. Onwards(k) <=> k <= Len(input) /\ SlotFits(sub[k], input[k]) /\ Onwards(k + 1)
    BY <1>2
  <2> QED
    BY <1>2, <2>1, <2>2
<1>7. 0 \in D
  <2> HIDE DEF D
  <2> QED
    BY <1>2, <1>5, <1>6, DownInduction
<1>8. Onwards(1) <=> Fits(sub, input)
  BY <1>2 DEF Fits, m, Ends
<1> QED
  <2> HIDE DEF Onwards
  <2> QED
    BY <1>1, <1>7, <1>8

(***************************************************************************)
(* How a template's slots stand to its segments.                           *)
(***************************************************************************)
Expanded(t) == [i \in DOMAIN t.segments |-> expand(t.segments[i])]

LEMMA SegmentKinds ==
  ASSUME NEW F, NEW s \in Segment(F)
  PROVE  /\ \/ s.kind = "lit" /\ s = Lit(s.text) /\ s.text \in Text
            \/ s.kind = "any" /\ s = Single
            \/ s.kind = "rest" /\ s = CatchAll
            \/ s.kind = "var" /\ s.sub \in SlotSeq
         /\ s.kind # "var" => s \in Slot /\ expand(s) = <<s>>
         /\ s.kind = "var" => expand(s) = s.sub
<1>1. CASE s \in [kind : {"lit"}, text : Text]
  BY <1>1 DEF Slot, expand
<1>2. CASE s \in {Single, CatchAll}
  BY <1>2 DEF Slot, expand
<1>3. CASE s \in [kind : {"var"}, field : F, sub : SlotSeq]
  BY <1>3 DEF expand
<1> QED
  BY <1>1, <1>2, <1>3 DEF Segment, Slot

LEMMA OneSlot ==
  ASSUME NEW s \in Slot
  PROVE  /\ <<s>> \in SlotSeq /\ Len(<<s>>) = 1 /\ <<s>>[1] = s
         /\ IsOpen(<<s>>) <=> s = CatchAll
BY DEF SlotSeq, IsOpen

LEMMA ExpandedType ==
  ASSUME NEW F, NEW t \in Template(F)
  PROVE  /\ Len(t.segments) \in Nat \ {0}
         /\ DOMAIN t.segments = 1..Len(t.segments)
         /\ \A k \in 1..Len(t.segments) : t.segments[k] \in Segment(F)
         /\ Expanded(t) \in Seq(Seq(Slot))
         /\ Len(Expanded(t)) = Len(t.segments)
         /\ \A k \in 1..Len(t.segments) :
              Expanded(t)[k] = expand(t.segments[k]) /\ Expanded(t)[k] \in SlotSeq
         /\ template_slots(t) = FlattenSeq(Expanded(t))
         /\ template_slots(t) \in SlotSeq
<1>1. /\ t.segments \in Seq(Segment(F)) /\ t.segments # <<>>
      /\ template_slots(t) \in SlotSeq
  BY DEF Template
<1>2. /\ Len(t.segments) \in Nat \ {0}
      /\ DOMAIN t.segments = 1..Len(t.segments)
      /\ \A k \in 1..Len(t.segments) : t.segments[k] \in Segment(F)
  BY <1>1
<1>3. ASSUME NEW k \in 1..Len(t.segments)
      PROVE  Expanded(t)[k] = expand(t.segments[k]) /\ Expanded(t)[k] \in SlotSeq
  <2>1. t.segments[k] \in Segment(F)
    BY <1>2
  <2>2. expand(t.segments[k]) \in SlotSeq
    BY <2>1, SegmentKinds, OneSlot
  <2> QED
    BY <1>2, <2>2 DEF Expanded
<1>4. SlotSeq \subseteq Seq(Slot)
  BY DEF SlotSeq
<1>5. Expanded(t) \in [1..Len(t.segments) -> Seq(Slot)]
  BY <1>2, <1>3, <1>4 DEF Expanded
<1>6. Expanded(t) \in Seq(Seq(Slot)) /\ Len(Expanded(t)) = Len(t.segments)
  BY <1>2, <1>5
<1>7. template_slots(t) = FlattenSeq(Expanded(t))
  BY DEF template_slots, Expanded
<1> QED
  BY <1>1, <1>2, <1>3, <1>6, <1>7

(* The slots of segment k stand behind those of the segments before it.    *)
LEMMA SlotsInPlace ==
  ASSUME NEW F, NEW t \in Template(F)
  PROVE  LET n == Len(t.segments) slots == template_slots(t) IN
         /\ Before(t, 1) = 0
         /\ Before(t, n + 1) = Len(slots)
         /\ \A k \in 1..(n + 1) : Before(t, k) \in Nat /\ Before(t, k) <= Len(slots)
         /\ \A k \in 1..n :
              /\ Before(t, k + 1) = Before(t, k) + Len(Expanded(t)[k])
              /\ \A j \in 1..Len(Expanded(t)[k]) :
                   slots[Before(t, k) + j] = Expanded(t)[k][j]
<1> DEFINE n == Len(t.segments)
           slots == template_slots(t)
           e == Expanded(t)
           f == [k \in 0..n |-> FlattenSeq(Begin(e, k))]
<1>1. /\ n \in Nat \ {0} /\ DOMAIN t.segments = 1..n
      /\ e \in Seq(Seq(Slot)) /\ Len(e) = n
      /\ slots = FlattenSeq(e)
      /\ \A k \in 1..n : e[k] = expand(t.segments[k]) /\ e[k] \in Seq(Slot)
  BY ExpandedType
<1> HIDE DEF n, slots, e
<1>2. ASSUME NEW k \in 0..n
      PROVE  f[k] \in Seq(Slot) /\ Len(f[k]) = Before(t, k + 1) /\ Starts(f[k], slots)
  <2>1. f[k] = FlattenSeq(Begin(e, k)) /\ (k + 1) - 1 = k
    OBVIOUS
  <2>2. [i \in 1..k |-> expand(t.segments[i])] = Begin(e, k)
    <3>1. \A i \in 1..k : expand(t.segments[i]) = e[i]
      BY <1>1
    <3> QED
      BY <3>1 DEF Begin
  <2>3. f[k] \in Seq(Slot)
    BY <1>1, <2>1, FlattenBegin
  <2>4. Starts(FlattenSeq(Begin(e, k)), FlattenSeq(Begin(e, n)))
    <3>1. k \in 0..Len(e) /\ n \in k..Len(e)
      BY <1>1
    <3> QED
      BY <1>1, <3>1, FlattenMonotone
  <2>5. FlattenSeq(Begin(e, n)) = slots
    BY <1>1, FlattenBegin
  <2> HIDE DEF f
  <2>6. Before(t, k + 1) = Len(f[k])
    BY <2>1, <2>2 DEF Before
  <2> QED
    BY <2>1, <2>3, <2>4, <2>5, <2>6
<1>3. f[0] = <<>> /\ f[n] = slots
  <2>1. 0 \in 0..n /\ n \in 0..n
    BY <1>1
  <2>2. f[0] = FlattenSeq(Begin(e, 0)) /\ f[n] = FlattenSeq(Begin(e, n))
    BY <2>1
  <2> HIDE DEF f
  <2> QED
    BY <1>1, <2>2, FlattenBegin
<1>4. ASSUME NEW k \in 1..n
      PROVE  f[k] = f[k - 1] \o e[k]
  <2>1. FlattenSeq(Begin(e, k)) = FlattenSeq(Begin(e, k - 1)) \o e[k]
    BY <1>1, FlattenBegin
  <2>2. f[k] = FlattenSeq(Begin(e, k)) /\ f[k - 1] = FlattenSeq(Begin(e, k - 1))
    BY <1>1
  <2> HIDE DEF f
  <2> QED
    BY <2>1, <2>2
<1> HIDE DEF f
<1>5. Before(t, 1) = 0 /\ Before(t, n + 1) = Len(slots)
  BY <1>1, <1>2, <1>3
<1>6. ASSUME NEW k \in 1..(n + 1)
      PROVE  Before(t, k) \in Nat /\ Before(t, k) <= Len(slots)
  <2>1. k - 1 \in 0..n /\ (k - 1) + 1 = k
    BY <1>1
  <2> QED
    BY <1>2, <2>1 DEF Starts
<1>7. ASSUME NEW k \in 1..n
      PROVE  /\ Before(t, k + 1) = Before(t, k) + Len(e[k])
             /\ \A j \in 1..Len(e[k]) : slots[Before(t, k) + j] = e[k][j]
  <2> DEFINE g == f[k]
             h == f[k - 1]
             d == e[k]
  <2>1. /\ g \in Seq(Slot) /\ Len(g) = Before(t, k + 1) /\ Starts(g, slots)
        /\ h \in Seq(Slot) /\ Len(h) = Before(t, k)
        /\ d \in Seq(Slot) /\ g = h \o d
    <3>1. k \in 0..n /\ k - 1 \in 0..n /\ (k - 1) + 1 = k
      BY <1>1
    <3> QED
      BY <1>1, <1>2, <1>4, <3>1
  <2> HIDE DEF g, h, d
  <2>2. Len(g) = Len(h) + Len(d) /\ \A j \in 1..Len(d) : g[Len(h) + j] = d[j]
    BY <2>1, ConcatAt
  <2>3. \A i \in 1..Len(g) : slots[i] = g[i]
    BY <2>1 DEF Starts
  <2>4. Len(g) \in Nat /\ Len(h) \in Nat /\ Len(d) \in Nat
    BY <2>1
  <2>5. ASSUME NEW j \in 1..Len(d) PROVE slots[Len(h) + j] = d[j]
    <3>1. Len(h) + j \in 1..Len(g)
      BY <2>2, <2>4
    <3> QED
      BY <2>2, <2>3, <3>1
  <2> QED
    BY <2>1, <2>2, <2>5 DEF d
<1> QED
  BY <1>5, <1>6, <1>7 DEF n, slots, e
(* Only the last segment may be open, and it alone opens the template. *)
LEMMA OnlyLastOpen ==
  ASSUME NEW F, NEW t \in Template(F)
  PROVE  LET n == Len(t.segments) slots == template_slots(t) e == Expanded(t) IN
         /\ \A k \in 1..(n - 1) : ~IsOpen(e[k]) /\ Fixed(e[k]) = Len(e[k])
         /\ IsOpen(slots) <=> IsOpen(e[n])
         /\ Fixed(slots) = Before(t, n) + Fixed(e[n])
<1> DEFINE n == Len(t.segments)
           slots == template_slots(t)
           e == Expanded(t)
           b == [k \in 1..(n + 1) |-> Before(t, k)]
<1>1. n \in Nat \ {0} /\ slots \in SlotSeq /\ \A k \in 1..n : e[k] \in SlotSeq
  BY ExpandedType
<1>2. /\ b[n + 1] = Len(slots)
      /\ \A k \in 1..(n + 1) : b[k] \in Nat /\ b[k] <= Len(slots) /\ b[k] = Before(t, k)
      /\ \A k \in 1..n : b[k + 1] = b[k] + Len(e[k])
      /\ \A k \in 1..n : \A j \in 1..Len(e[k]) : slots[b[k] + j] = e[k][j]
  BY <1>1, SlotsInPlace
<1> HIDE DEF n, slots, e, b
<1>3. ASSUME NEW k \in 1..n
      PROVE  Len(e[k]) \in Nat \ {0} /\ slots[b[k + 1]] = e[k][Len(e[k])]
  <2>1. Len(e[k]) \in Nat \ {0}
    BY <1>1, FixedSlots
  <2>2. PICK j \in 1..Len(e[k]) : j = Len(e[k]) /\ b[k + 1] = b[k] + j
    BY <1>2, <2>1
  <2> QED
    BY <1>2, <2>1, <2>2
<1>4. IsOpen(slots) <=> IsOpen(e[n])
  BY <1>1, <1>2, <1>3 DEF IsOpen
<1>5. ASSUME NEW k \in 1..(n - 1)
      PROVE  ~IsOpen(e[k]) /\ Fixed(e[k]) = Len(e[k])
  <2>1. k \in 1..n /\ k + 1 \in 1..n /\ k + 1 \in 1..(n + 1) /\ (k + 1) + 1 \in 1..(n + 1)
    BY <1>1
  <2>2. b[(k + 1) + 1] = b[k + 1] + Len(e[k + 1]) /\ Len(e[k + 1]) \in Nat \ {0}
    BY <1>2, <1>3, <2>1
  <2>3. b[k + 1] \in 1..(Len(slots) - 1)
    <3>0. k \in 1..(n + 1)
      BY <1>1
    <3>1. b[k + 1] = b[k] + Len(e[k]) /\ Len(e[k]) \in Nat \ {0} /\ b[k] \in Nat
      <4>1. b[k + 1] = b[k] + Len(e[k])
        BY <1>2, <2>1
      <4>2. Len(e[k]) \in Nat \ {0}
        BY <1>3, <2>1
      <4>3. b[k] \in Nat
        BY <1>2, <3>0
      <4> QED
        BY <4>1, <4>2, <4>3
    <3>2. b[(k + 1) + 1] <= Len(slots) /\ Len(slots) \in Nat
      BY <1>1, <1>2, <2>1, FixedSlots
    <3> QED
      BY <2>2, <3>1, <3>2
  <2>4. slots[b[k + 1]] # CatchAll
    BY <1>1, <2>3 DEF SlotSeq
  <2> QED
    BY <1>1, <1>3, <2>1, <2>4, FixedSlots DEF IsOpen
<1>6. Fixed(slots) = b[n] + Fixed(e[n])
  <2>1. n \in 1..n /\ b[n + 1] = b[n] + Len(e[n]) /\ b[n] \in Nat
    BY <1>1, <1>2
  <2>2. /\ IF IsOpen(slots) THEN Fixed(slots) = Len(slots) - 1 ELSE Fixed(slots) = Len(slots)
        /\ IF IsOpen(e[n]) THEN Fixed(e[n]) = Len(e[n]) - 1 ELSE Fixed(e[n]) = Len(e[n])
        /\ Len(e[n]) \in Nat
    BY <1>1, <2>1, FixedSlots
  <2>3. Len(slots) = b[n] + Len(e[n])
    BY <1>2, <2>1
  <2> DEFINE x == b[n]
             y == Len(e[n])
             z == Len(slots)
             u == Fixed(slots)
             v == Fixed(e[n])
  <2>4. /\ z = x + y /\ x \in Nat /\ y \in Nat
        /\ (u = z - 1 /\ v = y - 1) \/ (u = z /\ v = y)
    BY <1>4, <2>1, <2>2, <2>3
  <2> HIDE DEF x, y, z, u, v
  <2>5. u = x + v
    BY <2>4
  <2> QED
    BY <2>5 DEF x, u, v
<1>7. b[n] = Before(t, n)
  BY <1>1, <1>2
<1> QED
  BY <1>4, <1>5, <1>6, <1>7 DEF n, slots, e

(***************************************************************************)
(* One step of the matcher.                                                *)
(***************************************************************************)
LEMMA SegmentCount ==
  ASSUME NEW sub \in SlotSeq
  PROVE  /\ segment_count(sub).fixed = Fixed(sub)
         /\ segment_count(sub).open <=> IsOpen(sub)
<1>1. /\ Len(sub) \in Nat \ {0} /\ DOMAIN sub = 1..Len(sub)
      /\ IF IsOpen(sub) THEN Fixed(sub) = Len(sub) - 1 ELSE Fixed(sub) = Len(sub)
  BY FixedSlots DEF SlotSeq
<1>2. \A i \in 1..Len(sub) : sub[i].kind = "rest" <=> i = Len(sub) /\ IsOpen(sub)
  <2> TAKE i \in 1..Len(sub)
  <2>1. sub[i].kind = "rest" => i = Len(sub) /\ IsOpen(sub)
    BY SlotKinds
  <2>2. i = Len(sub) /\ IsOpen(sub) => sub[i].kind = "rest"
    BY DEF IsOpen
  <2> QED
    BY <2>1, <2>2
<1>3. {i \in DOMAIN sub : sub[i].kind # "rest"} = 1..Fixed(sub)
  <2> DEFINE R == {i \in DOMAIN sub : sub[i].kind # "rest"}
  <2>1. \A i : i \in R <=> i \in 1..Len(sub) /\ ~(i = Len(sub) /\ IsOpen(sub))
    BY <1>1, <1>2
  <2> HIDE DEF R
  <2>2. \A i : i \in R <=> i \in 1..Fixed(sub)
    BY <1>1, <2>1
  <2> QED
    BY <2>2 DEF R
<1>4. Cardinality(1..Fixed(sub)) = Fixed(sub)
  <2>1. Fixed(sub) \in Nat
    BY <1>1
  <2>2. Cardinality(1..Fixed(sub)) = IF 1 > Fixed(sub) THEN 0 ELSE Fixed(sub) - 1 + 1
    BY <2>1, FS_Interval
  <2> QED
    BY <2>1, <2>2
<1>5. (\E i \in DOMAIN sub : sub[i].kind = "rest") <=> IsOpen(sub)
  BY <1>1, <1>2
<1> QED
  BY <1>3, <1>4, <1>5 DEF segment_count

(* A segment whose slots are s fits the path behind position b. *)
FitsBehind(s, p, b) ==
  b + Fixed(s) <= Len(p) /\ \A j \in 1..Fixed(s) : SlotFits(s[j], p[b + j])

(* Where the next segment goes on. *)
Behind(s, p, b) == IF IsOpen(s) THEN Len(p) ELSE b + Len(s)

LEMMA VariableStep ==
  ASSUME NEW F, NEW segments \in Seq(Segment(F)), NEW k \in 1..Len(segments),
         segments[k].kind = "var",
         NEW p \in Seq(Text), NEW b \in 0..Len(p), NEW captured
  PROVE  LET var == segments[k] sub == var.sub IN
         match_variable(segments, k, p, [at |-> b, captured |-> captured]) =
           IF FitsBehind(sub, p, b)
           THEN Call(Behind(sub, p, b),
                     captured \cup
                       {Capture(k, var.field, SubSeq(p, b + 1, Behind(sub, p, b)))})
           ELSE {}
<1> DEFINE var == segments[k]
           sub == var.sub
           c == [at |-> b, captured |-> captured]
           fixed == segment_count(sub).fixed
           n == take(segment_count(sub), Len(p) - b)
           head == SubSeq(p, b + 1, b + n)
<1>1. var \in Segment(F) /\ sub \in SlotSeq
  BY SegmentKinds
<1>2. /\ fixed = Fixed(sub) /\ Fixed(sub) \in Nat /\ Len(p) \in Nat
      /\ n = IF IsOpen(sub) THEN Len(p) - b ELSE Fixed(sub)
  BY <1>1, SegmentCount, FixedSlots DEF take
<1>3. match_variable(segments, k, p, c) =
        IF Len(p) - b >= fixed /\ Len(p) - b >= n /\ sub_pattern_matches(sub, head)
        THEN Call(b + n, captured \cup {Capture(k, var.field, head)}) ELSE {}
  BY DEF match_variable, NoMatch
<1>4. n = IF IsOpen(sub) THEN Len(p) - b ELSE Len(sub)
  BY <1>1, <1>2, FixedSlots
<1> HIDE DEF var, sub, c, fixed, n
<1>5. CASE ~(b + Fixed(sub) <= Len(p))
  <2>1. ~(Len(p) - b >= fixed)
    BY <1>2, <1>5
  <2> QED
    BY <1>3, <1>5, <2>1 DEF FitsBehind, var, sub, c
<1>6. CASE b + Fixed(sub) <= Len(p)
  <2>1. n \in 0..(Len(p) - b) /\ Len(p) - b >= fixed /\ Len(p) - b >= n /\ n >= Fixed(sub)
    BY <1>2, <1>6
  <2>2. head \in Seq(Text) /\ Len(head) = n /\ \A j \in 1..n : head[j] = p[b + j]
    BY <2>1, Slice
  <2> HIDE DEF head
  <2>3. sub_pattern_matches(sub, head) <=> FitsBehind(sub, p, b)
    <3>1. sub_pattern_matches(sub, head) <=> Fits(sub, head)
      BY <1>1, <2>2, SubPatternFits
    <3>2. ASSUME NEW j \in 1..Fixed(sub) PROVE head[j] = p[b + j]
      <4>1. j \in 1..n
        BY <1>2, <2>1
      <4> QED
        BY <2>2, <4>1
    <3>3. IF IsOpen(sub) THEN Len(head) >= Fixed(sub) ELSE Len(head) = Fixed(sub)
      BY <1>2, <2>1, <2>2
    <3> QED
      BY <1>6, <3>1, <3>2, <3>3 DEF Fits, FitsBehind
  <2>4. b + n = Behind(sub, p, b)
    BY <1>2, <1>4 DEF Behind
  <2> QED
    BY <1>3, <2>1, <2>3, <2>4 DEF head, var, sub, c
<1> QED
  BY <1>5, <1>6
(* What the walk does with segment k, having come as far as position b.    *)
LEMMA SegmentStep ==
  ASSUME NEW F, NEW t \in Template(F), NEW k \in 1..Len(t.segments),
         NEW p \in Seq(Text), NEW b \in 0..Len(p), b = Before(t, k), NEW captured
  PROVE  LET s == Expanded(t)[k] IN
         match_segment(t.segments, k, p, [at |-> b, captured |-> captured]) =
           IF FitsBehind(s, p, b)
           THEN Call(Behind(s, p, b),
                     captured \cup {Capture(j, t.segments[j].field, Span(t, p, j)) :
                                      j \in Variables(t) \cap {k}})
           ELSE {}
<1> DEFINE segment == t.segments[k]
           s == Expanded(t)[k]
           c == [at |-> b, captured |-> captured]
           new == {Capture(j, t.segments[j].field, Span(t, p, j)) : j \in Variables(t) \cap {k}}
<1>1. /\ segment \in Segment(F) /\ s = expand(segment) /\ s \in SlotSeq
      /\ t.segments \in Seq(Segment(F)) /\ DOMAIN t.segments = 1..Len(t.segments)
      /\ Len(t.segments) \in Nat
  BY ExpandedType DEF Template
<1>2. Len(p) \in Nat /\ c.at = b /\ c.captured = captured
  OBVIOUS
<1>3. CASE segment.kind = "var"
  <2>1. s = segment.sub
    BY <1>1, <1>3, SegmentKinds
  <2>2. match_segment(t.segments, k, p, c) = match_variable(t.segments, k, p, c)
    BY <1>3 DEF match_segment
  <2>3. match_variable(t.segments, k, p, c) =
          IF FitsBehind(s, p, b)
          THEN Call(Behind(s, p, b),
                    captured \cup
                      {Capture(k, segment.field, SubSeq(p, b + 1, Behind(s, p, b)))})
          ELSE {}
    BY <1>1, <1>3, <2>1, VariableStep
  <2>4. Span(t, p, k) = SubSeq(p, b + 1, Behind(s, p, b))
    BY <2>1 DEF Span, Behind
  <2>5. new = {Capture(k, segment.field, Span(t, p, k))}
    BY <1>1, <1>3 DEF Variables
  <2> HIDE DEF new, s, c, segment
  <2> QED
    BY <2>2, <2>3, <2>4, <2>5 DEF new, s, c, segment
<1>4. CASE segment.kind # "var"
  <2>1. s = <<segment>> /\ segment \in Slot /\ Len(s) = 1 /\ s[1] = segment
        /\ (IsOpen(s) <=> segment = CatchAll)
    BY <1>1, <1>4, SegmentKinds, OneSlot
  <2>2. new = {} /\ captured \cup new = captured
    BY <1>4 DEF Variables
  <2>3. CASE segment.kind = "rest"
    <3>1. segment = CatchAll
      BY <1>1, <2>3, SegmentKinds
    <3>2. IsOpen(s) /\ Fixed(s) = 0 /\ Behind(s, p, b) = Len(p) /\ FitsBehind(s, p, b)
      BY <1>2, <2>1, <3>1 DEF Fixed, Behind, FitsBehind
    <3>3. k = Len(t.segments)
      <4>1. k \notin 1..(Len(t.segments) - 1)
        BY <3>2, OnlyLastOpen
      <4> QED
        BY <1>1, <4>1
    <3>4. match_segment(t.segments, k, p, c) = Call(Len(p), captured)
      BY <1>2, <2>3, <3>3 DEF match_segment
    <3> HIDE DEF new, s, c, segment
    <3> QED
      BY <2>2, <3>2, <3>4 DEF new, s, c, segment
  <2>4. CASE segment.kind # "rest"
    <3>1. \/ segment.kind = "lit" /\ segment = Lit(segment.text)
          \/ segment.kind = "any" /\ segment = Single
      BY <1>1, <1>4, <2>4, SegmentKinds
    <3>2. ~IsOpen(s) /\ Fixed(s) = 1 /\ Behind(s, p, b) = b + 1
      BY <2>1, <3>1 DEF Fixed, Behind
    <3>3. FitsBehind(s, p, b) <=> b < Len(p) /\ SlotFits(segment, p[b + 1])
      BY <1>2, <2>1, <3>2 DEF FitsBehind
    <3>4. match_segment(t.segments, k, p, c) =
            IF b < Len(p) /\ SlotFits(segment, p[b + 1]) THEN Call(b + 1, captured) ELSE {}
      <4>1. CASE segment.kind = "lit"
        <5>1. SlotFits(segment, p[b + 1]) <=> p[b + 1] = segment.text
          BY <3>1, <4>1 DEF SlotFits
        <5> QED
          BY <1>2, <4>1, <5>1 DEF match_segment, NoMatch
      <4>2. CASE segment.kind = "any"
        <5>1. SlotFits(segment, p[b + 1])
          BY <3>1, <4>2 DEF SlotFits
        <5> QED
          BY <1>2, <4>2, <5>1 DEF match_segment, NoMatch
      <4> QED
        BY <3>1, <4>1, <4>2
    <3> HIDE DEF new, s, c, segment
    <3> QED
      BY <2>2, <3>2, <3>3, <3>4 DEF new, s, c, segment
  <2> QED
    BY <2>3, <2>4
<1> QED
  BY <1>3, <1>4

(***************************************************************************)
(* The whole walk.  Behind segment k it has looked at the slots up to Far; *)
(* it goes on if they fit.                                                 *)
(***************************************************************************)
Far(t, k) == IF k = 0 THEN 0 ELSE Before(t, k) + Fixed(Expanded(t)[k])

SoFarFits(t, p, k) ==
  Far(t, k) <= Len(p) /\ \A i \in 1..Far(t, k) : SlotFits(template_slots(t)[i], p[i])

Reached(t, p, k) == IF k = 0 THEN 0 ELSE Behind(Expanded(t)[k], p, Before(t, k))

Captured(t, p, k) ==
  {Capture(j, t.segments[j].field, Span(t, p, j)) : j \in Variables(t) \cap 1..k}

Walked(t, p, k) ==
  IF SoFarFits(t, p, k) THEN Call(Reached(t, p, k), Captured(t, p, k)) ELSE {}

LEMMA WalkStep ==
  ASSUME NEW F, NEW t \in Template(F), NEW k \in 1..Len(t.segments), NEW p \in Seq(Text)
  PROVE  Walked(t, p, k) =
           UNION {match_segment(t.segments, k, p, c) : c \in Walked(t, p, k - 1)}
<1> DEFINE n == Len(t.segments)
           slots == template_slots(t)
           s == Expanded(t)[k]
           b == Before(t, k)
<1>1. n \in Nat \ {0} /\ s \in SlotSeq /\ slots \in SlotSeq /\ Len(p) \in Nat
  BY ExpandedType
<1>2. /\ b \in Nat /\ Before(t, 1) = 0
      /\ \A j \in 1..Len(s) : slots[b + j] = s[j]
  <2>1. k \in 1..(n + 1)
    BY <1>1
  <2> QED
    BY <2>1, SlotsInPlace
<1>3. Fixed(s) \in Nat /\ Fixed(s) <= Len(s) /\ Len(s) \in Nat
  BY <1>1, FixedSlots
<1>4. Far(t, k - 1) = b /\ (SoFarFits(t, p, k - 1) => Reached(t, p, k - 1) = b)
  <2>1. CASE k = 1
    BY <1>2, <2>1 DEF Far, Reached
  <2>2. CASE k # 1
    <3> DEFINE q == Expanded(t)[k - 1]
    <3>1. k - 1 \in 1..(n - 1) /\ k - 1 \in 1..n /\ (k - 1) + 1 = k /\ k - 1 # 0
      BY <1>1, <2>2
    <3>2. ~IsOpen(q) /\ Fixed(q) = Len(q)
      BY <3>1, OnlyLastOpen
    <3>3. b = Before(t, k - 1) + Len(q)
      BY <3>1, SlotsInPlace
    <3> QED
      BY <3>1, <3>2, <3>3 DEF Far, Reached, Behind
  <2> QED
    BY <2>1, <2>2
<1>5. Far(t, k) = b + Fixed(s) /\ Reached(t, p, k) = Behind(s, p, b)
  BY DEF Far, Reached
<1>6. Captured(t, p, k) = Captured(t, p, k - 1) \cup
        {Capture(j, t.segments[j].field, Span(t, p, j)) : j \in Variables(t) \cap {k}}
  <2>1. 1..k = 1..(k - 1) \cup {k}
    OBVIOUS
  <2> QED
    BY <2>1 DEF Captured
<1>7. SoFarFits(t, p, k) <=> SoFarFits(t, p, k - 1) /\ FitsBehind(s, p, b)
  <2> HIDE DEF slots, s, b
  <2>1. \A j \in 1..Fixed(s) : slots[b + j] = s[j]
    BY <1>2, <1>3
  <2>2. SoFarFits(t, p, k) <=> b + Fixed(s) <= Len(p) /\ \A i \in 1..(b + Fixed(s)) : SlotFits(slots[i], p[i])
    BY <1>5 DEF SoFarFits, slots
  <2>3. SoFarFits(t, p, k - 1) <=> b <= Len(p) /\ \A i \in 1..b : SlotFits(slots[i], p[i])
    BY <1>4 DEF SoFarFits, slots
  <2>4. (\A i \in 1..(b + Fixed(s)) : SlotFits(slots[i], p[i]))
          <=> (\A i \in 1..b : SlotFits(slots[i], p[i])) /\ (\A j \in 1..Fixed(s) : SlotFits(s[j], p[b + j]))
    <3>1. ASSUME NEW i \in 1..(b + Fixed(s)), i \notin 1..b
          PROVE  \E j \in 1..Fixed(s) : i = b + j
      <4>1. i - b \in 1..Fixed(s) /\ i = b + (i - b)
        BY <1>2, <1>3, <3>1
      <4> QED
        BY <4>1
    <3>2. \A j \in 1..Fixed(s) : b + j \in 1..(b + Fixed(s))
      BY <1>2, <1>3
    <3>3. \A i \in 1..b : i \in 1..(b + Fixed(s))
      BY <1>2, <1>3
    <3> QED
      BY <2>1, <3>1, <3>2, <3>3
  <2> QED
    BY <1>1, <1>2, <1>3, <2>2, <2>3, <2>4 DEF FitsBehind
<1>8. CASE ~SoFarFits(t, p, k - 1)
  BY <1>7, <1>8 DEF Walked
<1>9. CASE SoFarFits(t, p, k - 1)
  <2> DEFINE c == [at |-> b, captured |-> Captured(t, p, k - 1)]
  <2>1. Walked(t, p, k - 1) = {c}
    BY <1>4, <1>9 DEF Walked, Call
  <2>2. UNION {match_segment(t.segments, k, p, d) : d \in {c}} = match_segment(t.segments, k, p, c)
    OBVIOUS
  <2>3. b \in 0..Len(p)
    BY <1>1, <1>2, <1>4, <1>9 DEF SoFarFits
  <2>4. match_segment(t.segments, k, p, c) =
          IF FitsBehind(s, p, b) THEN Call(Behind(s, p, b), Captured(t, p, k)) ELSE {}
    BY <1>6, <2>3, SegmentStep
  <2>5. Walked(t, p, k) =
          IF FitsBehind(s, p, b) THEN Call(Behind(s, p, b), Captured(t, p, k)) ELSE {}
    BY <1>5, <1>7, <1>9 DEF Walked
  <2> HIDE DEF c, s, b
  <2> QED
    BY <2>1, <2>2, <2>4, <2>5
<1> QED
  BY <1>8, <1>9

(* The matcher of template.rs gives exactly the paths that fit a template, *)
(* and for each exactly the captures its variables stand over: whatever    *)
(* the lengths of the template and of the path.                            *)
THEOREM WalkByCalls ==
  ASSUME NEW F, NEW t \in Template(F), NEW p \in Seq(Text)
  PROVE  match_segments(t.segments, p) =
           IF Fits(template_slots(t), p) THEN {captures(t, p)} ELSE {}
<1> DEFINE n == Len(t.segments)
           slots == template_slots(t)
           Is(f) == f = [k \in 0..n |->
                           IF k = 0 THEN Call(0, {})
                           ELSE UNION {match_segment(t.segments, k, p, c) : c \in f[k - 1]}]
           w == [k \in 0..n |-> Walked(t, p, k)]
           call == CHOOSE f : Is(f)
<1>1. /\ n \in Nat \ {0} /\ DOMAIN t.segments = 1..n /\ Len(p) \in Nat
      /\ slots \in SlotSeq /\ Expanded(t)[n] \in SlotSeq
  BY ExpandedType
<1>2. w[0] = Call(0, {})
  <2>1. Captured(t, p, 0) = {}
    BY DEF Captured
  <2>2. SoFarFits(t, p, 0) /\ Reached(t, p, 0) = 0
    BY <1>1 DEF SoFarFits, Far, Reached
  <2>3. w[0] = Walked(t, p, 0)
    BY <1>1
  <2> QED
    BY <2>1, <2>2, <2>3 DEF Walked
<1>3. ASSUME NEW k \in 1..n
      PROVE  w[k] = UNION {match_segment(t.segments, k, p, c) : c \in w[k - 1]}
  <2>1. w[k] = Walked(t, p, k) /\ w[k - 1] = Walked(t, p, k - 1)
    BY <1>1
  <2> HIDE DEF w
  <2> QED
    BY <2>1, WalkStep
<1>4. Is(w)
  <2> DEFINE v == [k \in 0..n |->
                     IF k = 0 THEN Call(0, {})
                     ELSE UNION {match_segment(t.segments, k, p, c) : c \in w[k - 1]}]
  <2>1. ASSUME NEW k \in 0..n PROVE w[k] = v[k]
    <3>1. CASE k = 0
      BY <1>2, <3>1
    <3>2. CASE k # 0
      <4>1. k \in 1..n
        BY <1>1, <3>2
      <4> HIDE DEF w
      <4> QED
        BY <1>3, <3>2, <4>1
    <3> QED
      BY <3>1, <3>2
  <2>2. w = v
    BY <2>1
  <2> QED
    BY <2>2
<1>5. Is(call)
  <2> HIDE DEF w
  <2> QED
    BY <1>4
<1>6. match_segments(t.segments, p) = {c.captured : c \in {d \in call[n] : d.at = Len(p)}}
  BY DEF match_segments
<1> HIDE DEF call, w
<1> DEFINE D == {k \in 0..n : call[k] = w[k]}
<1>7. 0 \in D
  BY <1>1, <1>2, <1>5
<1>8. ASSUME NEW k \in 0..(n - 1), k \in D
      PROVE  k + 1 \in D
  <2>1. k + 1 \in 1..n /\ k + 1 \in 0..n /\ (k + 1) - 1 = k /\ k + 1 # 0
    BY <1>1
  <2>2. call[k + 1] = UNION {match_segment(t.segments, k + 1, p, c) : c \in call[k]}
    BY <1>5, <2>1
  <2>3. w[k + 1] = UNION {match_segment(t.segments, k + 1, p, c) : c \in w[k]}
    BY <1>3, <2>1
  <2> QED
    BY <1>8, <2>1, <2>2, <2>3
<1>9. call[n] = Walked(t, p, n)
  <2>1. \A k \in 0..n : k \in D
    <3> HIDE DEF D
    <3> QED
      BY <1>1, <1>7, <1>8, UpInduction
  <2>2. n \in 0..n
    BY <1>1
  <2> QED
    BY <2>1, <2>2 DEF w
<1>10. SoFarFits(t, p, n) /\ Reached(t, p, n) = Len(p) <=> Fits(slots, p)
  <2>1. /\ Far(t, n) = Fixed(slots)
        /\ IsOpen(slots) <=> IsOpen(Expanded(t)[n])
    BY <1>1, OnlyLastOpen DEF Far
  <2>2. Reached(t, p, n) = IF IsOpen(slots) THEN Len(p) ELSE Len(slots)
    <3>1. n \in 1..n /\ n # 0
      BY <1>1
    <3>2. Len(slots) = Before(t, n) + Len(Expanded(t)[n])
      BY <3>1, SlotsInPlace
    <3> QED
      BY <2>1, <3>1, <3>2 DEF Reached, Behind
  <2>3. Fixed(slots) \in Nat /\ (~IsOpen(slots) => Fixed(slots) = Len(slots))
    BY <1>1, FixedSlots
  <2> QED
    BY <1>1, <2>1, <2>2, <2>3 DEF SoFarFits, Fits
<1>11. Captured(t, p, n) = captures(t, p)
  <2>1. Variables(t) \cap 1..n = Variables(t)
    BY <1>1 DEF Variables
  <2> QED
    BY <2>1 DEF Captured, captures
<1>12. CASE SoFarFits(t, p, n)
  <2>1. call[n] = {[at |-> Reached(t, p, n), captured |-> captures(t, p)]}
    BY <1>9, <1>11, <1>12 DEF Walked, Call
  <2>2. {c.captured : c \in {d \in call[n] : d.at = Len(p)}}
          = IF Reached(t, p, n) = Len(p) THEN {captures(t, p)} ELSE {}
    <3> DEFINE x == [at |-> Reached(t, p, n), captured |-> captures(t, p)]
               Ends == {d \in call[n] : d.at = Len(p)}
    <3>1. x.at = Reached(t, p, n) /\ x.captured = captures(t, p) /\ call[n] = {x}
      BY <2>1
    <3> HIDE DEF x
    <3>2. Ends = IF Reached(t, p, n) = Len(p) THEN {x} ELSE {}
      BY <3>1
    <3> HIDE DEF Ends
    <3>3. {c.captured : c \in Ends} = IF Reached(t, p, n) = Len(p) THEN {captures(t, p)} ELSE {}
      BY <3>1, <3>2
    <3> QED
      BY <3>3 DEF Ends
  <2> QED
    BY <1>6, <1>10, <1>12, <2>2
<1>13. CASE ~SoFarFits(t, p, n)
  <2>1. call[n] = {}
    BY <1>9, <1>13 DEF Walked
  <2> QED
    BY <1>6, <1>10, <1>13, <2>1
<1> QED
  BY <1>12, <1>13
=============================================================================
