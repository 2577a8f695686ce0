----------------------------- MODULE LoadProofs -----------------------------
(***************************************************************************)
(* Proofs about the interval list: what its three loops compute for every  *)
(* list, that a list once sorted is not written again, and that the list   *)
(* implements a set of bytes.                                              *)
(*                                                                         *)
(* The loops are recursive functions over the index.  Induction over it is *)
(* a fact about sets: a set of naturals has a least element, so a set that *)
(* has zero and, with each number, the next one is all of Nat.             *)
(***************************************************************************)
EXTENDS Load, TLAPS, WellFoundedInduction

-----------------------------------------------------------------------------
(* Induction, and loops.                                                   *)

(* The naturals are well founded.                                          *)
LEMMA LeastElement ==
    ASSUME NEW T \in SUBSET Nat, T # {}
    PROVE  \E x \in T : \A y \in T : x <= y
<1> DEFINE R == OpToRel(<, Nat)
<1>1. IsWellFoundedOn(R, Nat)
  BY NatLessThanWellFounded, Zenon
<1>2. \A x, y \in Nat : y < x => <<y, x>> \in R
  BY Zenon DEF OpToRel
<1> HIDE DEF R
<1>3. PICK x \in T : \A y \in T : ~(<<y, x>> \in R)
  BY <1>1, WFMin
<1>4. ASSUME NEW y \in T
      PROVE  x <= y
  <2>1. x \in Nat /\ y \in Nat /\ ~(y < x)
    BY <1>2, <1>3
  <2> QED
    BY <2>1, SMT
<1> QED
  BY <1>4

(* Induction, for the set of the numbers that have the property.           *)
LEMMA InductionOnSet ==
    ASSUME NEW S, 0 \in S, \A n \in Nat : n \in S => n + 1 \in S
    PROVE  Nat \subseteq S
<1> DEFINE T == Nat \ S
<1>1. SUFFICES ASSUME T # {}
               PROVE  FALSE
  OBVIOUS
<1>2. PICK x \in T : \A y \in T : x <= y
  BY <1>1, LeastElement
<1>3. x \in Nat /\ x - 1 \in Nat /\ ~(x <= x - 1) /\ (x - 1) + 1 = x
  BY SMT
<1>4. x - 1 \in S
  BY <1>2, <1>3
<1> QED
  BY <1>3, <1>4

(* What a loop of L iterations that starts with b computes, where the k-th *)
(* iteration is the function step[k].                                      *)
Iterates(g, L, b, step) ==
    g = [k \in 0..L |-> IF k = 0 THEN b ELSE step[k][g[k - 1]]]

(* There is such a sequence of states, and each is of the loop's type.     *)
LEMMA LoopExists ==
    ASSUME NEW L \in Nat, NEW Y, NEW b \in Y,
           NEW step \in [1..L -> [Y -> Y]]
    PROVE  \E g \in [0..L -> Y] : Iterates(g, L, b, step)
<1> DEFINE F(g, n) == /\ g \in [0..n -> Y] /\ g[0] = b
                      /\ \A k \in 1..n : g[k] = step[k][g[k - 1]]
           S == {n \in Nat : n <= L => \E g : F(g, n)}
<1>1. 0 \in S
  <2>1. F([k \in 0..0 |-> b], 0)
    BY SMT
  <2> QED
    BY <2>1
<1>2. ASSUME NEW n \in Nat, n \in S
      PROVE  n + 1 \in S
  <2>1. SUFFICES ASSUME n + 1 <= L
                 PROVE  \E g : F(g, n + 1)
    OBVIOUS
  <2>2. n <= L /\ n \in 0..n /\ n + 1 \in 1..L
    BY <2>1, SMT
  <2>3. PICK g : F(g, n)
    BY <1>2, <2>2
  <2> DEFINE h == [k \in 0..(n + 1) |->
                     IF k = n + 1 THEN step[n + 1][g[n]] ELSE g[k]]
  <2>4. h \in [0..(n + 1) -> Y]
    <3>1. step[n + 1][g[n]] \in Y
      BY <2>2, <2>3
    <3>2. \A k \in 0..(n + 1) : k # n + 1 => k \in 0..n
      BY SMT
    <3> QED
      BY <2>3, <3>1, <3>2
  <2>5. h[0] = b
    BY <2>3, SMT
  <2>6. ASSUME NEW k \in 1..(n + 1)
        PROVE  h[k] = step[k][h[k - 1]]
    <3>1. CASE k = n + 1
      BY <3>1, SMT
    <3>2. CASE k # n + 1
      <4>1. /\ k \in 1..n /\ k \in 0..(n + 1)
            /\ k - 1 \in 0..(n + 1) /\ k - 1 # n + 1
        BY <3>2, SMT
      <4> QED
        BY <2>3, <3>2, <4>1
    <3> QED
      BY <3>1, <3>2
  <2> QED
    BY <2>4, <2>5, <2>6
<1> HIDE DEF S
<1>3. L \in S
  BY <1>1, <1>2, InductionOnSet
<1>4. PICK g : F(g, L)
  BY <1>3, SMT DEF S
<1>5. \A k \in 0..L : g[k] = IF k = 0 THEN b ELSE step[k][g[k - 1]]
  BY <1>4, SMT
<1>6. Iterates(g, L, b, step)
  BY <1>4, <1>5 DEF Iterates
<1> QED
  BY <1>4, <1>6

(* A loop whose k-th state lies in T[k], if the one before did.            *)
LEMMA LoopInvariant ==
    ASSUME NEW L \in Nat, NEW g, NEW T, g[0] \in T[0],
           \A k \in 1..L : g[k - 1] \in T[k - 1] => g[k] \in T[k]
    PROVE  \A k \in 0..L : g[k] \in T[k]
<1> DEFINE S == {n \in Nat : n <= L => g[n] \in T[n]}
<1>1. 0 \in S
  OBVIOUS
<1>2. ASSUME NEW n \in Nat, n \in S
      PROVE  n + 1 \in S
  <2>1. SUFFICES ASSUME n + 1 <= L
                 PROVE  g[n + 1] \in T[n + 1]
    OBVIOUS
  <2>2. n <= L /\ n + 1 \in 1..L /\ (n + 1) - 1 = n
    BY <2>1, SMT
  <2> QED
    BY <1>2, <2>2
<1> HIDE DEF S
<1>3. Nat \subseteq S
  BY <1>1, <1>2, InductionOnSet
<1>4. ASSUME NEW k \in 0..L
      PROVE  g[k] \in T[k]
  <2>1. k \in S /\ k <= L
    BY <1>3, SMT
  <2> QED
    BY <2>1 DEF S
<1> QED
  BY <1>4

-----------------------------------------------------------------------------
(* truncate.                                                               *)

Ranges(B) == [start : B, end : B]

(* The slice that truncate works on, for a list of L ranges within B.      *)
Slices(B, L) == [arr : [1..L -> Ranges(B)], len : 0..L, panic : BOOLEAN]

(* An iteration keeps the type.                                            *)
LEMMA TruncateStepTyped ==
    ASSUME NEW B, NEW L \in Nat, NEW l \in Slices(B, L), NEW k \in 1..L,
           NEW end \in B
    PROVE  truncateStep(l, k, end) \in Slices(B, L)
<1>1. /\ l.arr \in [1..L -> Ranges(B)] /\ l.len \in 0..L
      /\ l.panic \in BOOLEAN
  BY DEF Slices
<1>2. removeRange(l, k) \in Slices(B, L)
  <2>1. CASE k > l.len
    BY <2>1 DEF removeRange, Slices
  <2>2. CASE ~(k > l.len)
    <3>1. l.len \in 1..L /\ l.len - 1 \in 0..L
      BY <1>1, <2>2, SMT
    <3>2. [l.arr EXCEPT ![k] = l.arr[l.len]] \in [1..L -> Ranges(B)]
      BY <1>1, <3>1
    <3> QED
      BY <2>2, <3>1, <3>2 DEF removeRange, Slices
  <2> QED
    BY <2>1, <2>2
<1>3. trimRange(l, k, end) \in Slices(B, L)
  <2>1. [l.arr EXCEPT ![k].end = end] \in [1..L -> Ranges(B)]
    BY <1>1 DEF Ranges
  <2> QED
    BY <2>1 DEF trimRange, Slices
<1> QED
  BY <1>2, <1>3 DEF truncateStep

(* The loop is the iteration of truncateStep.                              *)
LEMMA TruncateLoop ==
    ASSUME NEW B, NEW rs \in Seq(Ranges(B)), NEW end \in B
    PROVE  LET g == truncateLoop(rs, end)
               L == Len(rs) IN
           /\ g \in [0..L -> Slices(B, L)]
           /\ g[0] = Slice(rs)
           /\ \A k \in 1..L : g[k] = truncateStep(g[k - 1], k, end)
<1> DEFINE L == Len(rs)
           Y == Slices(B, L)
           step == [k \in 1..L |-> [l \in Y |-> truncateStep(l, k, end)]]
           P(g) == g = [k \in 0..Len(rs) |->
                          IF k = 0 THEN Slice(rs)
                          ELSE truncateStep(g[k - 1], k, end)]
<1>1. L \in Nat
  OBVIOUS
<1>2. Slice(rs) \in Y
  BY <1>1 DEF Slice, Slices
<1>3. step \in [1..L -> [Y -> Y]]
  BY <1>1, TruncateStepTyped
<1>4. PICK g \in [0..L -> Y] : Iterates(g, L, Slice(rs), step)
  <2> HIDE DEF L, Y, step
  <2> QED
    BY <1>1, <1>2, <1>3, LoopExists
<1>5. P(g)
  <2>1. ASSUME NEW k \in 0..L, k # 0
        PROVE  step[k][g[k - 1]] = truncateStep(g[k - 1], k, end)
    <3>1. k \in 1..L /\ k - 1 \in 0..L
      BY <1>1, <2>1, SMT
    <3> QED
      BY <1>4, <3>1
  <2> QED
    BY <1>4, <2>1 DEF Iterates
<1>6. P(truncateLoop(rs, end))
  <2>1. truncateLoop(rs, end) = CHOOSE h : P(h)
    BY DEF truncateLoop
  <2> HIDE DEF P
  <2> QED
    BY <1>5, <2>1
<1> DEFINE t == truncateLoop(rs, end)
<1>7. /\ t[0] = Slice(rs)
      /\ \A k \in 1..L : t[k] = truncateStep(t[k - 1], k, end)
      /\ t = [k \in 0..L |-> t[k]]
  <2> HIDE DEF t
  <2>1. P(t)
    BY <1>6 DEF t
  <2>2. 0 \in 0..L /\ \A k \in 1..L : k \in 0..L /\ k # 0
    BY <1>1, SMT
  <2> QED
    BY <2>1, <2>2
<1> HIDE DEF t, L, P, step
<1>8. \A k \in 0..L : t[k] \in Y
  <2> DEFINE T == [k \in 0..L |-> Y]
  <2>1. \A k \in 0..L : T[k] = Y
    OBVIOUS
  <2>2. 0 \in 0..L /\ \A k \in 1..L : k \in 0..L /\ k - 1 \in 0..L
    BY <1>1, SMT
  <2> HIDE DEF T
  <2>3. t[0] \in T[0]
    BY <1>2, <1>7, <2>1, <2>2
  <2>4. ASSUME NEW k \in 1..L, t[k - 1] \in T[k - 1]
        PROVE  t[k] \in T[k]
    <3>1. t[k - 1] \in Slices(B, L)
      BY <2>1, <2>2, <2>4
    <3>2. truncateStep(t[k - 1], k, end) \in Slices(B, L)
      BY <1>1, <3>1, TruncateStepTyped
    <3> QED
      BY <1>7, <2>1, <2>2, <3>2
  <2>5. \A k \in 0..L : t[k] \in T[k]
    BY <1>1, <2>3, <2>4, LoopInvariant
  <2> QED
    BY <2>1, <2>5
<1> QED
  BY <1>7, <1>8 DEF t, L

(* The byte b lies in the range v; all of v lies below end.                *)
Lies(v, b) == v.start <= b /\ b < v.end
Fits(v, end) == v.start < end /\ v.end <= end

(* The list stands for the bytes that lie in one of its ranges.            *)
LEMMA InCovered ==
    ASSUME NEW B \in SUBSET Int, NEW rs \in Seq(Ranges(B)), NEW b
    PROVE  b \in Covered(rs) <=>
               b \in Int /\ \E k \in 1..Len(rs) : Lies(rs[k], b)
<1>1. DOMAIN rs = 1..Len(rs)
  OBVIOUS
<1>2. ASSUME NEW k \in 1..Len(rs)
      PROVE  b \in rs[k].start..(rs[k].end - 1) <=>
                 b \in Int /\ Lies(rs[k], b)
  <2>1. rs[k] \in Ranges(B)
    OBVIOUS
  <2>2. rs[k].start \in Int /\ rs[k].end \in Int
    BY <2>1 DEF Ranges
  <2> QED
    BY <2>2, SMT DEF Lies
<1> QED
  BY <1>1, <1>2 DEF Covered

(* What holds after n iterations.  A range that has been visited lies      *)
(* below end, or was moved from a place beyond the list that the loop has  *)
(* yet to visit; and below end nothing has been lost or won.               *)
TruncateSound(l, rs, n, end) ==
    \/ l.panic
    \/ /\ \A k \in 1..l.len : k <= n =>
             \/ Fits(l.arr[k], end)
             \/ \E m \in 1..Len(rs) :
                    l.len < m /\ n < m /\ l.arr[m] = l.arr[k]
       /\ \A b \in Int : b < end =>
             (b \in Covered(rs) <=> \E k \in 1..l.len : Lies(l.arr[k], b))

LEMMA TruncateStepSound ==
    ASSUME NEW B \in SUBSET Int, NEW rs \in Seq(Ranges(B)),
           NEW l \in Slices(B, Len(rs)), NEW end \in B,
           NEW k \in 1..Len(rs), TruncateSound(l, rs, k - 1, end)
    PROVE  TruncateSound(truncateStep(l, k, end), rs, k, end)
<1> DEFINE L == Len(rs)
           v == l.arr[k]
           m == truncateStep(l, k, end)
<1>1. /\ L \in Nat /\ k \in Nat /\ k - 1 \in Nat /\ l.len \in 0..L
      /\ l.arr \in [1..L -> Ranges(B)] /\ l.panic \in BOOLEAN
      /\ end \in Int
  BY DEF Slices
<1>2. \A j \in 1..L : l.arr[j].start \in Int /\ l.arr[j].end \in Int
  BY <1>1 DEF Ranges
<1>3. CASE l.panic
  BY <1>3 DEF truncateStep, TruncateSound
<1>4. CASE ~l.panic /\ v.start >= end
  <2>1. m = removeRange(l, k)
    BY <1>4 DEF truncateStep
  <2>2. CASE k > l.len
    BY <2>1, <2>2 DEF removeRange, TruncateSound, Slices
  <2>3. CASE k <= l.len
    <3> DEFINE arr == [l.arr EXCEPT ![k] = l.arr[l.len]]
               len == l.len - 1
    <3>1. m = [l EXCEPT !.arr = arr, !.len = len]
      <4>1. ~(k > l.len)
        BY <1>1, <2>3, SMT
      <4> QED
        BY <2>1, <4>1 DEF removeRange
    <3>2. m.arr = arr /\ m.len = len /\ len \in 0..L /\ l.len \in 1..L
      <4>1. l.len \in 1..L /\ len \in 0..L
        BY <1>1, <2>3, SMT
      <4> QED
        BY <3>1, <4>1 DEF Slices
    <3>3. /\ arr[k] = l.arr[l.len]
          /\ \A j \in 1..L : j # k => arr[j] = l.arr[j]
      BY <1>1
    <3> HIDE DEF m, arr, v
    <3>4. ASSUME NEW j \in 1..len, j <= k
          PROVE  \/ Fits(arr[j], end)
                 \/ \E i \in 1..L : len < i /\ k < i /\ arr[i] = arr[j]
      <4>1. /\ j \in 1..l.len /\ j \in 1..L /\ j # l.len
            /\ j # k => j <= k - 1
        BY <1>1, <3>2, <3>4, SMT
      <4>2. CASE j = k
        <5>1. k < l.len /\ len < l.len /\ l.len # k
          BY <1>1, <2>3, <3>2, <4>1, <4>2, SMT
        <5> QED
          BY <3>2, <3>3, <4>2, <5>1
      <4>3. CASE j # k
        <5>1. CASE Fits(l.arr[j], end)
          BY <3>3, <4>1, <4>3, <5>1
        <5>2. ASSUME NEW i \in 1..L, l.len < i, k - 1 < i,
                     l.arr[i] = l.arr[j]
              PROVE  \E h \in 1..L :
                         len < h /\ k < h /\ arr[h] = arr[j]
          <6>1. i # k /\ len < i /\ k < i
            BY <1>1, <2>3, <3>2, <5>2, SMT
          <6> QED
            BY <3>3, <4>1, <4>3, <5>2, <6>1
        <5> QED
          BY <1>4, <4>1, <4>3, <5>1, <5>2 DEF TruncateSound
      <4> QED
        BY <4>2, <4>3
    <3>5. ASSUME NEW b \in Int, b < end
          PROVE  (\E j \in 1..l.len : Lies(l.arr[j], b))
                   <=> \E j \in 1..len : Lies(arr[j], b)
      <4>1. ~Lies(l.arr[k], b)
        BY <1>1, <1>2, <1>4, <3>5, SMT DEF Lies, v
      <4>2. ASSUME NEW j \in 1..l.len, Lies(l.arr[j], b)
            PROVE  \E i \in 1..len : Lies(arr[i], b)
        <5>1. j # k /\ j \in 1..L
          BY <1>1, <4>1, <4>2, SMT
        <5>2. CASE j = l.len
          <6>1. k \in 1..len
            BY <1>1, <2>3, <5>1, <5>2, SMT
          <6> QED
            BY <3>3, <4>2, <5>2, <6>1
        <5>3. CASE j # l.len
          <6>1. j \in 1..len
            BY <1>1, <5>3, SMT
          <6> QED
            BY <3>3, <4>2, <5>1, <6>1
        <5> QED
          BY <5>2, <5>3
      <4>3. ASSUME NEW j \in 1..len, Lies(arr[j], b)
            PROVE  \E i \in 1..l.len : Lies(l.arr[i], b)
        <5>1. j \in 1..l.len /\ j \in 1..L /\ l.len \in 1..l.len
          BY <1>1, <3>2, SMT
        <5> QED
          BY <3>3, <4>3, <5>1
      <4> QED
        BY <4>2, <4>3
    <3>6. /\ \A j \in 1..m.len : j <= k =>
               \/ Fits(m.arr[j], end)
               \/ \E i \in 1..Len(rs) :
                      m.len < i /\ k < i /\ m.arr[i] = m.arr[j]
          /\ \A b \in Int : b < end =>
               (b \in Covered(rs) <=>
                    \E j \in 1..m.len : Lies(m.arr[j], b))
      BY <1>4, <3>2, <3>4, <3>5 DEF TruncateSound
    <3> QED
      BY <3>6 DEF TruncateSound, m
  <2> QED
    BY <1>1, <2>2, <2>3, SMT
<1>5. CASE ~l.panic /\ v.start < end /\ v.end > end
  <2>1. m = trimRange(l, k, end)
    <3>1. ~(v.start >= end)
      BY <1>1, <1>2, <1>5, SMT
    <3> QED
      BY <1>5, <3>1 DEF truncateStep
  <2>2. CASE k > l.len
    BY <2>1, <2>2 DEF trimRange, TruncateSound, Slices
  <2>3. CASE k <= l.len
    <3> DEFINE arr == [l.arr EXCEPT ![k].end = end]
    <3>1. m = [l EXCEPT !.arr = arr]
      <4>1. ~(k > l.len)
        BY <1>1, <2>3, SMT
      <4> QED
        BY <2>1, <4>1 DEF trimRange
    <3>2. m.arr = arr /\ m.len = l.len
      BY <3>1 DEF Slices
    <3>3. /\ arr[k].start = v.start /\ arr[k].end = end
          /\ \A j \in 1..L : j # k => arr[j] = l.arr[j]
      BY <1>1 DEF Ranges
    <3> HIDE DEF m, arr, v
    <3>4. ASSUME NEW j \in 1..l.len, j <= k
          PROVE  \/ Fits(arr[j], end)
                 \/ \E i \in 1..L : l.len < i /\ k < i /\ arr[i] = arr[j]
      <4>1. j \in 1..L /\ (j # k => j <= k - 1)
        BY <1>1, <3>4, SMT
      <4>2. CASE j = k
        BY <1>1, <1>5, <3>3, <4>2, SMT DEF Fits
      <4>3. CASE j # k
        <5>1. CASE Fits(l.arr[j], end)
          BY <3>3, <4>1, <4>3, <5>1
        <5>2. ASSUME NEW i \in 1..L, l.len < i, l.arr[i] = l.arr[j]
              PROVE  l.len < i /\ k < i /\ arr[i] = arr[j]
          <6>1. i # k /\ k < i
            BY <1>1, <2>3, <5>2, SMT
          <6> QED
            BY <3>3, <4>1, <4>3, <5>2, <6>1
        <5> QED
          BY <1>5, <4>1, <4>3, <5>1, <5>2 DEF TruncateSound
      <4> QED
        BY <4>2, <4>3
    <3>5. ASSUME NEW b \in Int, b < end, NEW j \in 1..l.len
          PROVE  Lies(l.arr[j], b) <=> Lies(arr[j], b)
      <4>1. j \in 1..L
        BY <1>1, SMT
      <4>2. CASE j = k
        BY <1>1, <1>2, <1>5, <3>3, <3>5, <4>1, <4>2, SMT DEF Lies, v
      <4>3. CASE j # k
        BY <3>3, <4>1, <4>3
      <4> QED
        BY <4>2, <4>3
    <3>6. /\ \A j \in 1..m.len : j <= k =>
               \/ Fits(m.arr[j], end)
               \/ \E i \in 1..Len(rs) :
                      m.len < i /\ k < i /\ m.arr[i] = m.arr[j]
          /\ \A b \in Int : b < end =>
               (b \in Covered(rs) <=>
                    \E j \in 1..m.len : Lies(m.arr[j], b))
      BY <1>5, <3>2, <3>4, <3>5 DEF TruncateSound
    <3> QED
      BY <3>6 DEF TruncateSound, m
  <2> QED
    BY <1>1, <2>2, <2>3, SMT
<1>6. CASE ~l.panic /\ Fits(v, end)
  <2>1. ~(v.start >= end) /\ ~(v.end > end)
    BY <1>1, <1>2, <1>6, SMT DEF Fits
  <2>2. m = l
    BY <1>6, <2>1 DEF truncateStep
  <2>3. ASSUME NEW j \in 1..l.len, j <= k
        PROVE  \/ Fits(l.arr[j], end)
               \/ \E i \in 1..L : l.len < i /\ k < i /\ l.arr[i] = l.arr[j]
    <3>1. CASE j = k
      BY <1>6, <3>1
    <3>2. CASE j # k
      <4>1. j <= k - 1
        BY <1>1, <2>3, <3>2, SMT
      <4>2. ASSUME NEW i \in 1..L, l.len < i, k - 1 < i,
                   l.arr[i] = l.arr[j]
            PROVE  \/ Fits(l.arr[j], end)
                   \/ l.len < i /\ k < i /\ l.arr[i] = l.arr[j]
        <5>1. i = k \/ k < i
          BY <1>1, <4>2, SMT
        <5> QED
          BY <1>6, <4>2, <5>1
      <4> QED
        BY <1>6, <4>1, <4>2 DEF TruncateSound
    <3> QED
      BY <3>1, <3>2
  <2> QED
    BY <1>6, <2>2, <2>3 DEF TruncateSound
<1>7. v.start >= end \/ (v.start < end /\ v.end > end) \/ Fits(v, end)
  BY <1>1, <1>2, SMT DEF Fits
<1> QED
  BY <1>3, <1>4, <1>5, <1>6, <1>7

(* truncate returns the list cut at end, unless it panics, and never a     *)
(* range that is not within the bounds it had.                             *)
LEMMA TruncateCuts ==
    ASSUME NEW B \in SUBSET Int, NEW rs \in Seq(Ranges(B)), NEW end \in B
    PROVE  LET l == truncate(rs, end)
               r == SubSeq(l.arr, 1, l.len) IN
           /\ r \in Seq(Ranges(B)) /\ Len(r) <= Len(rs)
           /\ l.panic \in BOOLEAN
           /\ ~l.panic => Covered(r) = {b \in Covered(rs) : b < end}
<1> DEFINE L == Len(rs)
           g == truncateLoop(rs, end)
           l == truncate(rs, end)
           r == SubSeq(l.arr, 1, l.len)
<1>1. /\ L \in Nat /\ 0 \in 0..L /\ L \in 0..L
      /\ \A k \in 1..L : k \in 0..L /\ k - 1 \in 0..L
      /\ end \in Int
  BY SMT
<1>2. /\ g \in [0..L -> Slices(B, L)]
      /\ g[0] = Slice(rs)
      /\ \A k \in 1..L : g[k] = truncateStep(g[k - 1], k, end)
  BY TruncateLoop
<1>3. l = g[L] /\ l \in Slices(B, L)
  BY <1>1, <1>2 DEF truncate
<1> HIDE DEF g, l
<1>4. TruncateSound(l, rs, L, end)
  <2> DEFINE T == [k \in 0..L |->
                     {m \in Slices(B, L) : TruncateSound(m, rs, k, end)}]
  <2>1. g[0] \in T[0]
    <3>1. /\ g[0].arr = rs /\ g[0].len = L /\ g[0].panic = FALSE
          /\ g[0] \in Slices(B, L)
      <4>1. g[0] \in Slices(B, L)
        BY <1>1, <1>2
      <4>2. g[0] = [arr |-> rs, len |-> L, panic |-> FALSE]
        BY <1>2 DEF Slice
      <4> QED
        BY <4>1, <4>2
    <3>2. \A k \in 1..L : ~(k <= 0)
      BY <1>1, SMT
    <3>3. TruncateSound(g[0], rs, 0, end)
      BY <3>1, <3>2, InCovered DEF TruncateSound
    <3> QED
      BY <1>1, <3>1, <3>3
  <2>2. ASSUME NEW k \in 1..L, g[k - 1] \in T[k - 1]
        PROVE  g[k] \in T[k]
    <3>1. /\ g[k - 1] \in Slices(B, L) /\ g[k] \in Slices(B, L)
          /\ TruncateSound(g[k - 1], rs, k - 1, end)
      BY <1>1, <1>2, <2>2
    <3>2. TruncateSound(g[k], rs, k, end)
      BY <1>2, <3>1, TruncateStepSound
    <3> QED
      BY <1>1, <3>1, <3>2
  <2> HIDE DEF T
  <2>3. \A k \in 0..L : g[k] \in T[k]
    BY <1>1, <2>1, <2>2, LoopInvariant
  <2> QED
    BY <1>1, <1>3, <2>3 DEF T
<1>5. /\ l.arr \in [1..L -> Ranges(B)] /\ l.len \in 0..L
      /\ l.panic \in BOOLEAN
  BY <1>3 DEF Slices
<1>6. /\ r \in Seq(Ranges(B)) /\ Len(r) = l.len /\ Len(r) <= L
      /\ \A k \in 1..l.len : r[k] = l.arr[k]
  <2> HIDE DEF L
  <2>1. l.arr \in Seq(Ranges(B)) /\ Len(l.arr) = L
    BY ONLY <1>1, <1>5
  <2> QED
    BY <1>1, <1>5, <2>1, SMT
<1> HIDE DEF r, L
<1>7. ASSUME ~l.panic
      PROVE  Covered(r) = {b \in Covered(rs) : b < end}
  <2>1. ASSUME NEW k \in 1..l.len
        PROVE  Fits(l.arr[k], end)
    <3>1. k <= L /\ \A m \in 1..L : ~(L < m)
      BY <1>1, <1>5, SMT
    <3> QED
      BY <1>4, <1>7, <3>1 DEF TruncateSound, L
  <2>2. ASSUME NEW b \in Int, NEW k \in 1..l.len, Lies(l.arr[k], b)
        PROVE  b < end
    <3>1. l.arr[k] \in Ranges(B)
      BY <1>1, <1>5, SMT
    <3>2. l.arr[k].start \in Int /\ l.arr[k].end \in Int
      BY <3>1 DEF Ranges
    <3> QED
      BY <1>1, <2>1, <2>2, <3>2, SMT DEF Lies, Fits
  <2>3. \A b : b \in Covered(r) <=>
               b \in Int /\ \E k \in 1..l.len : Lies(l.arr[k], b)
    BY <1>6, InCovered
  <2>4. \A b \in Covered(rs) : b \in Int
    BY InCovered
  <2>5. \A b \in Int : b < end =>
          (b \in Covered(rs) <=> \E k \in 1..l.len : Lies(l.arr[k], b))
    BY <1>4, <1>7 DEF TruncateSound
  <2> QED
    BY <2>2, <2>3, <2>4, <2>5
<1> QED
  BY <1>5, <1>6, <1>7 DEF l, r, L

-----------------------------------------------------------------------------
(* The queries, on a sorted list.                                          *)

Sorted(rs) ==
    \A a, b \in 1..Len(rs) : a <= b => rs[a].start <= rs[b].start

(* A byte before the k-th range of a sorted list, and beyond the ranges    *)
(* before that one, is in none.                                            *)
LEMMA NotCovered ==
    ASSUME NEW rs \in Seq(Ranges(Int)), Sorted(rs), NEW k \in 1..Len(rs) + 1,
           NEW b \in Int, \A j \in 1..Len(rs) : j < k => rs[j].end <= b,
           k \in 1..Len(rs) => b < rs[k].start
    PROVE  b \notin Covered(rs)
<1>1. ASSUME NEW j \in 1..Len(rs)
      PROVE  ~Lies(rs[j], b)
  <2>1. rs[j] \in Ranges(Int)
    OBVIOUS
  <2>2. rs[j].start \in Int /\ rs[j].end \in Int
    BY <2>1 DEF Ranges
  <2>3. CASE j < k
    BY <2>2, <2>3, SMT DEF Lies
  <2>4. CASE ~(j < k)
    <3>1. k \in 1..Len(rs) /\ k <= j
      BY <2>4, SMT
    <3>2. rs[k] \in Ranges(Int)
      BY <3>1
    <3>3. rs[k].start \in Int /\ rs[k].start <= rs[j].start
      BY <3>1, <3>2 DEF Sorted, Ranges
    <3> QED
      BY <2>2, <3>1, <3>3, SMT DEF Lies
  <2> QED
    BY <2>3, <2>4
<1> QED
  BY <1>1, InCovered

(* The scan of isReady is the iteration of isReadyStep.                    *)
ReadyScan == [start : Int, done : BOOLEAN, ready : BOOLEAN]

LEMMA ReadyStepTyped ==
    ASSUME NEW st \in ReadyScan, NEW v \in Ranges(Int), NEW end
    PROVE  isReadyStep(st, v, end) \in ReadyScan
BY DEF ReadyScan, Ranges, isReadyStep

LEMMA ReadyLoop ==
    ASSUME NEW rs \in Seq(Ranges(Int)), NEW start \in Int, NEW end
    PROVE  LET g == isReadyLoop(rs, start, end)
               L == Len(rs) IN
           /\ g \in [0..L -> ReadyScan]
           /\ g[0] = [start |-> start, done |-> FALSE, ready |-> FALSE]
           /\ \A k \in 1..L : g[k] = isReadyStep(g[k - 1], rs[k], end)
<1> DEFINE L == Len(rs)
           z == [start |-> start, done |-> FALSE, ready |-> FALSE]
           step == [k \in 1..L |->
                      [st \in ReadyScan |-> isReadyStep(st, rs[k], end)]]
           P(g) == g = [k \in 0..Len(rs) |->
                          IF k = 0
                          THEN [start |-> start, done |-> FALSE,
                                ready |-> FALSE]
                          ELSE isReadyStep(g[k - 1], rs[k], end)]
<1>1. L \in Nat /\ \A k \in 1..L : rs[k] \in Ranges(Int)
  OBVIOUS
<1>2. z \in ReadyScan
  BY DEF ReadyScan
<1>3. step \in [1..L -> [ReadyScan -> ReadyScan]]
  BY <1>1, ReadyStepTyped
<1>4. PICK g \in [0..L -> ReadyScan] : Iterates(g, L, z, step)
  <2> HIDE DEF L, z, step
  <2> QED
    BY <1>1, <1>2, <1>3, LoopExists
<1>5. P(g)
  <2>1. ASSUME NEW k \in 0..L, k # 0
        PROVE  step[k][g[k - 1]] = isReadyStep(g[k - 1], rs[k], end)
    <3>1. k \in 1..L /\ k - 1 \in 0..L
      BY <1>1, <2>1, SMT
    <3> QED
      BY <1>4, <3>1
  <2> QED
    BY <1>4, <2>1 DEF Iterates
<1>6. P(isReadyLoop(rs, start, end))
  <2>1. isReadyLoop(rs, start, end) = CHOOSE h : P(h)
    BY DEF isReadyLoop
  <2> HIDE DEF P
  <2> QED
    BY <1>5, <2>1
<1> DEFINE t == isReadyLoop(rs, start, end)
<1>7. /\ t[0] = z
      /\ \A k \in 1..L : t[k] = isReadyStep(t[k - 1], rs[k], end)
      /\ t = [k \in 0..L |-> t[k]]
  <2> HIDE DEF t
  <2>1. P(t)
    BY <1>6 DEF t
  <2>2. 0 \in 0..L /\ \A k \in 1..L : k \in 0..L /\ k # 0
    BY <1>1, SMT
  <2> QED
    BY <2>1, <2>2
<1> HIDE DEF t, L, P, step, z
<1>8. \A k \in 0..L : t[k] \in ReadyScan
  <2> DEFINE T == [k \in 0..L |-> ReadyScan]
  <2>1. \A k \in 0..L : T[k] = ReadyScan
    OBVIOUS
  <2>2. 0 \in 0..L /\ \A k \in 1..L : k \in 0..L /\ k - 1 \in 0..L
    BY <1>1, SMT
  <2> HIDE DEF T
  <2>3. t[0] \in T[0]
    BY <1>2, <1>7, <2>1, <2>2
  <2>4. ASSUME NEW k \in 1..L, t[k - 1] \in T[k - 1]
        PROVE  t[k] \in T[k]
    <3>1. t[k - 1] \in ReadyScan
      BY <2>1, <2>2, <2>4
    <3>2. isReadyStep(t[k - 1], rs[k], end) \in ReadyScan
      BY <1>1, <3>1, ReadyStepTyped
    <3>3. t[k] = isReadyStep(t[k - 1], rs[k], end)
      BY <1>7
    <3> QED
      BY <2>1, <2>2, <3>2, <3>3
  <2>5. \A k \in 0..L : t[k] \in T[k]
    BY <1>1, <2>3, <2>4, LoopInvariant
  <2> QED
    BY <2>1, <2>5
<1> QED
  BY <1>7, <1>8 DEF t, L, z

(* What the scan knows after k ranges.                                     *)
ReadySound(st, rs, start, end, k) ==
    /\ start <= st.start /\ (st.ready => st.done)
    /\ \A b \in Int : start <= b /\ b < st.start => b \in Covered(rs)
    /\ ~st.done =>
          st.start < end /\ \A j \in 1..Len(rs) : j <= k =>
                                rs[j].end <= st.start
    /\ st.ready => \A b \in Int : start <= b /\ b < end => b \in Covered(rs)
    /\ st.done /\ ~st.ready => st.start < end /\ st.start \notin Covered(rs)

LEMMA ReadyStepSound ==
    ASSUME NEW rs \in Seq(Ranges(Int)), Sorted(rs), NEW k \in 1..Len(rs),
           NEW start \in Int, NEW end \in Int, NEW st \in ReadyScan,
           ReadySound(st, rs, start, end, k - 1)
    PROVE  ReadySound(isReadyStep(st, rs[k], end), rs, start, end, k)
<1> DEFINE v == rs[k]
           m == isReadyStep(st, v, end)
<1>1. /\ Len(rs) \in Nat /\ v \in Ranges(Int)
      /\ \A j \in 1..Len(rs) : rs[j] \in Ranges(Int)
  OBVIOUS
<1>2. /\ v.start \in Int /\ v.end \in Int /\ st.start \in Int
      /\ st.done \in BOOLEAN /\ st.ready \in BOOLEAN
      /\ \A j \in 1..Len(rs) : rs[j].end \in Int
  BY <1>1 DEF Ranges, ReadyScan
<1>3. \A b \in Int : Lies(v, b) => b \in Covered(rs)
  BY <1>1, InCovered
<1>4. \A j \in 1..Len(rs) : j <= k => j = k \/ j <= k - 1
  BY SMT
<1>5. CASE st.done
  BY <1>5 DEF isReadyStep, ReadySound
<1>6. CASE ~st.done /\ v.start > st.start
  <2>1. m = [st EXCEPT !.done = TRUE]
    BY <1>6 DEF isReadyStep
  <2>2. m.start = st.start /\ m.done = TRUE /\ m.ready = st.ready
    BY <2>1 DEF ReadyScan
  <2>3. st.start < end /\ ~st.ready
    BY <1>6 DEF ReadySound
  <2>4. st.start \notin Covered(rs)
    <3>1. \A j \in 1..Len(rs) : j < k => rs[j].end <= st.start
      <4>1. \A j \in 1..Len(rs) : j < k => j <= k - 1
        BY SMT
      <4> QED
        BY <1>6, <4>1 DEF ReadySound
    <3>2. k \in 1..Len(rs) + 1 /\ st.start < v.start
      BY <1>2, <1>6, SMT
    <3> QED
      BY <1>2, <3>1, <3>2, NotCovered
  <2> HIDE DEF m
  <2> QED
    BY <2>2, <2>3, <2>4 DEF ReadySound, m
<1>7. CASE ~st.done /\ ~(v.start > st.start) /\ v.end <= st.start
  <2>1. m = st
    BY <1>7 DEF isReadyStep
  <2> QED
    BY <1>4, <1>7, <2>1 DEF ReadySound
<1>8. CASE /\ ~st.done /\ ~(v.start > st.start) /\ ~(v.end <= st.start)
           /\ v.end < end
  <2>1. m = [st EXCEPT !.start = v.end]
    BY <1>8 DEF isReadyStep, FallsShort
  <2>2. m.start = v.end /\ m.done = st.done /\ m.ready = st.ready
    BY <2>1 DEF ReadyScan
  <2>3. start <= v.end /\ st.start < v.end
    BY <1>2, <1>8, SMT DEF ReadySound
  <2>4. ASSUME NEW b \in Int, start <= b, b < v.end
        PROVE  b \in Covered(rs)
    <3>1. b < st.start \/ Lies(v, b)
      BY <1>2, <1>8, <2>4, SMT DEF Lies
    <3> QED
      BY <1>3, <2>4, <3>1 DEF ReadySound
  <2>5. ASSUME NEW j \in 1..Len(rs), j <= k
        PROVE  rs[j].end <= v.end
    <3>1. CASE j = k
      BY <1>2, <3>1, SMT
    <3>2. CASE j <= k - 1
      <4>1. rs[j].end <= st.start
        BY <1>8, <3>2 DEF ReadySound
      <4> QED
        BY <1>2, <2>3, <4>1, SMT
    <3> QED
      BY <1>4, <2>5, <3>1, <3>2
  <2> HIDE DEF m
  <2> QED
    BY <1>8, <2>2, <2>3, <2>4, <2>5 DEF ReadySound, m
<1>9. CASE /\ ~st.done /\ ~(v.start > st.start) /\ ~(v.end <= st.start)
           /\ ~(v.end < end)
  <2>1. m = [st EXCEPT !.done = TRUE, !.ready = TRUE]
    BY <1>9 DEF isReadyStep, FallsShort
  <2>2. m.start = st.start /\ m.done = TRUE /\ m.ready = TRUE
    BY <2>1 DEF ReadyScan
  <2>3. ASSUME NEW b \in Int, start <= b, b < end
        PROVE  b \in Covered(rs)
    <3>1. b < st.start \/ Lies(v, b)
      BY <1>2, <1>9, <2>3, SMT DEF Lies
    <3> QED
      BY <1>3, <2>3, <3>1 DEF ReadySound
  <2> HIDE DEF m
  <2> QED
    BY <2>2, <2>3 DEF ReadySound, m
<1> QED
  BY <1>5, <1>6, <1>7, <1>8, <1>9

(* isReady, on a sorted list, is whether every byte asked for is in it.    *)
LEMMA ReadyExact ==
    ASSUME NEW rs \in Seq(Ranges(Int)), Sorted(rs),
           NEW start \in Int, NEW end \in Int, start < end
    PROVE  isReady(rs, start, end)
             <=> start..(end - 1) \subseteq Covered(rs)
<1> DEFINE L == Len(rs)
           g == isReadyLoop(rs, start, end)
<1>1. /\ L \in Nat /\ 0 \in 0..L /\ L \in 0..L
      /\ \A k \in 1..L : k \in 0..L /\ k - 1 \in 0..L
  BY SMT
<1>2. /\ g \in [0..L -> ReadyScan]
      /\ g[0] = [start |-> start, done |-> FALSE, ready |-> FALSE]
      /\ \A k \in 1..L : g[k] = isReadyStep(g[k - 1], rs[k], end)
  BY ReadyLoop
<1>3. isReady(rs, start, end) = g[L].ready
  BY DEF isReady
<1> HIDE DEF g
<1>4. ReadySound(g[L], rs, start, end, L)
  <2> DEFINE T == [k \in 0..L |->
                     {m \in ReadyScan : ReadySound(m, rs, start, end, k)}]
  <2>1. g[0] \in T[0]
    <3>1. /\ g[0].start = start /\ g[0].done = FALSE /\ g[0].ready = FALSE
          /\ g[0] \in ReadyScan
      <4>1. g[0] \in ReadyScan
        BY <1>1, <1>2
      <4> QED
        BY <1>2, <4>1
    <3>2. /\ \A j \in 1..L : ~(j <= 0)
          /\ \A b \in Int : ~(start <= b /\ b < start)
          /\ start <= start
      BY SMT
    <3>3. ReadySound(g[0], rs, start, end, 0)
      BY <3>1, <3>2 DEF ReadySound
    <3> QED
      BY <1>1, <3>1, <3>3
  <2>2. ASSUME NEW k \in 1..L, g[k - 1] \in T[k - 1]
        PROVE  g[k] \in T[k]
    <3>1. /\ g[k - 1] \in ReadyScan /\ g[k] \in ReadyScan
          /\ ReadySound(g[k - 1], rs, start, end, k - 1)
      BY <1>1, <1>2, <2>2
    <3>2. ReadySound(g[k], rs, start, end, k)
      BY <1>2, <3>1, ReadyStepSound
    <3> QED
      BY <1>1, <3>1, <3>2
  <2> HIDE DEF T
  <2>3. \A k \in 0..L : g[k] \in T[k]
    BY <1>1, <2>1, <2>2, LoopInvariant
  <2> QED
    BY <1>1, <2>3 DEF T
<1> DEFINE st == g[L]
<1>5. st.start \in Int /\ st.done \in BOOLEAN /\ st.ready \in BOOLEAN
  BY <1>1, <1>2 DEF ReadyScan
<1> HIDE DEF st
<1>6. CASE st.ready
  <2>1. \A b \in start..(end - 1) : b \in Int /\ start <= b /\ b < end
    BY SMT
  <2> QED
    BY <1>3, <1>4, <1>6, <2>1 DEF ReadySound, st
<1>7. CASE ~st.ready
  <2>1. /\ start <= st.start
        /\ ~st.done =>
              st.start < end /\ \A j \in 1..L : j <= L =>
                                    rs[j].end <= st.start
        /\ st.done => st.start < end /\ st.start \notin Covered(rs)
    BY <1>4, <1>7 DEF ReadySound, st
  <2>2. st.start \notin Covered(rs)
    <3>1. CASE st.done
      BY <2>1, <3>1
    <3>2. CASE ~st.done
      <4>1. /\ L + 1 \in 1..L + 1 /\ L + 1 \notin 1..L
            /\ \A j \in 1..L : j <= L
        BY <1>1, SMT
      <4> QED
        BY <1>5, <2>1, <3>2, <4>1, NotCovered
    <3> QED
      BY <3>1, <3>2
  <2>3. st.start \in start..(end - 1)
    BY <1>5, <2>1, SMT
  <2> QED
    BY <1>3, <1>7, <2>2, <2>3 DEF st
<1> QED
  BY <1>6, <1>7

(* The scan of bytesReady is the iteration of bytesReadyStep.              *)
BytesScan == [ptr : Int, done : BOOLEAN]

LEMMA BytesStepTyped ==
    ASSUME NEW st \in BytesScan, NEW v \in Ranges(Int)
    PROVE  bytesReadyStep(st, v) \in BytesScan
BY DEF BytesScan, Ranges, bytesReadyStep, Extend

LEMMA BytesLoop ==
    ASSUME NEW rs \in Seq(Ranges(Int)), NEW start \in Int
    PROVE  LET g == bytesReadyLoop(rs, start)
               L == Len(rs) IN
           /\ g \in [0..L -> BytesScan]
           /\ g[0] = [ptr |-> start, done |-> FALSE]
           /\ \A k \in 1..L : g[k] = bytesReadyStep(g[k - 1], rs[k])
<1> DEFINE L == Len(rs)
           z == [ptr |-> start, done |-> FALSE]
           step == [k \in 1..L |->
                      [st \in BytesScan |-> bytesReadyStep(st, rs[k])]]
           P(g) == g = [k \in 0..Len(rs) |->
                          IF k = 0 THEN [ptr |-> start, done |-> FALSE]
                          ELSE bytesReadyStep(g[k - 1], rs[k])]
<1>1. L \in Nat /\ \A k \in 1..L : rs[k] \in Ranges(Int)
  OBVIOUS
<1>2. z \in BytesScan
  BY DEF BytesScan
<1>3. step \in [1..L -> [BytesScan -> BytesScan]]
  BY <1>1, BytesStepTyped
<1>4. PICK g \in [0..L -> BytesScan] : Iterates(g, L, z, step)
  <2> HIDE DEF L, z, step
  <2> QED
    BY <1>1, <1>2, <1>3, LoopExists
<1>5. P(g)
  <2>1. ASSUME NEW k \in 0..L, k # 0
        PROVE  step[k][g[k - 1]] = bytesReadyStep(g[k - 1], rs[k])
    <3>1. k \in 1..L /\ k - 1 \in 0..L
      BY <1>1, <2>1, SMT
    <3> QED
      BY <1>4, <3>1
  <2> QED
    BY <1>4, <2>1 DEF Iterates
<1>6. P(bytesReadyLoop(rs, start))
  <2>1. bytesReadyLoop(rs, start) = CHOOSE h : P(h)
    BY DEF bytesReadyLoop
  <2> HIDE DEF P
  <2> QED
    BY <1>5, <2>1
<1> DEFINE t == bytesReadyLoop(rs, start)
<1>7. /\ t[0] = z
      /\ \A k \in 1..L : t[k] = bytesReadyStep(t[k - 1], rs[k])
      /\ t = [k \in 0..L |-> t[k]]
  <2> HIDE DEF t
  <2>1. P(t)
    BY <1>6 DEF t
  <2>2. 0 \in 0..L /\ \A k \in 1..L : k \in 0..L /\ k # 0
    BY <1>1, SMT
  <2> QED
    BY <2>1, <2>2
<1> HIDE DEF t, L, P, step, z
<1>8. \A k \in 0..L : t[k] \in BytesScan
  <2> DEFINE T == [k \in 0..L |-> BytesScan]
  <2>1. \A k \in 0..L : T[k] = BytesScan
    OBVIOUS
  <2>2. 0 \in 0..L /\ \A k \in 1..L : k \in 0..L /\ k - 1 \in 0..L
    BY <1>1, SMT
  <2> HIDE DEF T
  <2>3. t[0] \in T[0]
    BY <1>2, <1>7, <2>1, <2>2
  <2>4. ASSUME NEW k \in 1..L, t[k - 1] \in T[k - 1]
        PROVE  t[k] \in T[k]
    <3>1. t[k - 1] \in BytesScan
      BY <2>1, <2>2, <2>4
    <3>2. bytesReadyStep(t[k - 1], rs[k]) \in BytesScan
      BY <1>1, <3>1, BytesStepTyped
    <3>3. t[k] = bytesReadyStep(t[k - 1], rs[k])
      BY <1>7
    <3> QED
      BY <2>1, <2>2, <3>2, <3>3
  <2>5. \A k \in 0..L : t[k] \in T[k]
    BY <1>1, <2>3, <2>4, LoopInvariant
  <2> QED
    BY <2>1, <2>5
<1> QED
  BY <1>7, <1>8 DEF t, L, z

(* What the scan knows after k ranges.                                     *)
BytesSound(st, rs, start, k) ==
    /\ start <= st.ptr
    /\ \A b \in Int : start <= b /\ b < st.ptr => b \in Covered(rs)
    /\ ~st.done => \A j \in 1..Len(rs) : j <= k => rs[j].end <= st.ptr
    /\ st.done => st.ptr \notin Covered(rs)

LEMMA BytesStepSound ==
    ASSUME NEW rs \in Seq(Ranges(Int)), Sorted(rs), NEW k \in 1..Len(rs),
           NEW start \in Int, NEW st \in BytesScan,
           BytesSound(st, rs, start, k - 1)
    PROVE  BytesSound(bytesReadyStep(st, rs[k]), rs, start, k)
<1> DEFINE v == rs[k]
           m == bytesReadyStep(st, v)
<1>1. /\ Len(rs) \in Nat /\ v \in Ranges(Int)
      /\ \A j \in 1..Len(rs) : rs[j] \in Ranges(Int)
  OBVIOUS
<1>2. /\ v.start \in Int /\ v.end \in Int /\ st.ptr \in Int
      /\ st.done \in BOOLEAN
      /\ \A j \in 1..Len(rs) : rs[j].end \in Int
  BY <1>1 DEF Ranges, BytesScan
<1>3. \A b \in Int : Lies(v, b) => b \in Covered(rs)
  BY <1>1, InCovered
<1>4. \A j \in 1..Len(rs) : j <= k => j = k \/ j <= k - 1
  BY SMT
<1>5. CASE st.done \/ v.start > st.ptr
  <2>1. m = [st EXCEPT !.done = TRUE]
    BY <1>5 DEF bytesReadyStep
  <2>2. m.ptr = st.ptr /\ m.done = TRUE
    BY <2>1 DEF BytesScan
  <2>3. ASSUME ~st.done, v.start > st.ptr
        PROVE  st.ptr \notin Covered(rs)
    <3>1. \A j \in 1..Len(rs) : j < k => rs[j].end <= st.ptr
      <4>1. \A j \in 1..Len(rs) : j < k => j <= k - 1
        BY SMT
      <4> QED
        BY <2>3, <4>1 DEF BytesSound
    <3>2. k \in 1..Len(rs) + 1 /\ st.ptr < v.start
      BY <1>2, <2>3, SMT
    <3> QED
      BY <1>2, <3>1, <3>2, NotCovered
  <2> HIDE DEF m
  <2> QED
    BY <1>5, <2>2, <2>3 DEF BytesSound, m
<1>6. CASE ~(st.done \/ v.start > st.ptr)
  <2>1. m = [st EXCEPT !.ptr = Extend(v, st.ptr)]
    BY <1>6 DEF bytesReadyStep
  <2>2. m.ptr = Extend(v, st.ptr) /\ m.done = st.done
    BY <2>1 DEF BytesScan
  <2> HIDE DEF m
  <2>3. /\ m.ptr \in Int /\ st.ptr <= m.ptr /\ v.end <= m.ptr
        /\ m.ptr = st.ptr \/ m.ptr = v.end
    BY <1>2, <2>2, SMT DEF Extend
  <2>4. start <= m.ptr
    BY <1>2, <2>3, SMT DEF BytesSound
  <2>5. ASSUME NEW b \in Int, start <= b, b < m.ptr
        PROVE  b \in Covered(rs)
    <3>1. b < st.ptr \/ Lies(v, b)
      BY <1>2, <1>6, <2>3, <2>5, SMT DEF Lies
    <3> QED
      BY <1>3, <2>5, <3>1 DEF BytesSound
  <2>6. ASSUME NEW j \in 1..Len(rs), j <= k
        PROVE  rs[j].end <= m.ptr
    <3>1. CASE j = k
      BY <2>3, <3>1
    <3>2. CASE j <= k - 1
      <4>1. rs[j].end <= st.ptr
        BY <1>6, <3>2 DEF BytesSound
      <4> QED
        BY <1>2, <2>3, <4>1, SMT
    <3> QED
      BY <1>4, <2>6, <3>1, <3>2
  <2> QED
    BY <1>6, <2>2, <2>4, <2>5, <2>6 DEF BytesSound, m
<1> QED
  BY <1>5, <1>6

(* bytesReady, on a sorted list, is the length of the run from start.      *)
LEMMA BytesExact ==
    ASSUME NEW rs \in Seq(Ranges(Int)), Sorted(rs), NEW start \in Int
    PROVE  LET n == bytesReady(rs, start) IN
           /\ n \in Nat
           /\ start..(start + n - 1) \subseteq Covered(rs)
           /\ start + n \notin Covered(rs)
<1> DEFINE L == Len(rs)
           g == bytesReadyLoop(rs, start)
<1>1. /\ L \in Nat /\ 0 \in 0..L /\ L \in 0..L
      /\ \A k \in 1..L : k \in 0..L /\ k - 1 \in 0..L
  BY SMT
<1>2. /\ g \in [0..L -> BytesScan]
      /\ g[0] = [ptr |-> start, done |-> FALSE]
      /\ \A k \in 1..L : g[k] = bytesReadyStep(g[k - 1], rs[k])
  BY BytesLoop
<1>3. bytesReady(rs, start) = g[L].ptr - start
  BY DEF bytesReady
<1> HIDE DEF g
<1>4. BytesSound(g[L], rs, start, L)
  <2> DEFINE T == [k \in 0..L |->
                     {m \in BytesScan : BytesSound(m, rs, start, k)}]
  <2>1. g[0] \in T[0]
    <3>1. /\ g[0].ptr = start /\ g[0].done = FALSE
          /\ g[0] \in BytesScan
      <4>1. g[0] \in BytesScan
        BY <1>1, <1>2
      <4> QED
        BY <1>2, <4>1
    <3>2. /\ \A j \in 1..L : ~(j <= 0)
          /\ \A b \in Int : ~(start <= b /\ b < start)
          /\ start <= start
      BY SMT
    <3>3. BytesSound(g[0], rs, start, 0)
      BY <3>1, <3>2 DEF BytesSound
    <3> QED
      BY <1>1, <3>1, <3>3
  <2>2. ASSUME NEW k \in 1..L, g[k - 1] \in T[k - 1]
        PROVE  g[k] \in T[k]
    <3>1. /\ g[k - 1] \in BytesScan /\ g[k] \in BytesScan
          /\ BytesSound(g[k - 1], rs, start, k - 1)
      BY <1>1, <1>2, <2>2
    <3>2. BytesSound(g[k], rs, start, k)
      BY <1>2, <3>1, BytesStepSound
    <3> QED
      BY <1>1, <3>1, <3>2
  <2> HIDE DEF T
  <2>3. \A k \in 0..L : g[k] \in T[k]
    BY <1>1, <2>1, <2>2, LoopInvariant
  <2> QED
    BY <1>1, <2>3 DEF T
<1> DEFINE st == g[L]
<1>5. st.ptr \in Int /\ st.done \in BOOLEAN
  BY <1>1, <1>2 DEF BytesScan
<1> HIDE DEF st
<1>6. /\ start <= st.ptr
      /\ \A b \in Int : start <= b /\ b < st.ptr => b \in Covered(rs)
      /\ ~st.done => \A j \in 1..L : j <= L => rs[j].end <= st.ptr
      /\ st.done => st.ptr \notin Covered(rs)
  BY <1>4 DEF BytesSound, st
<1>7. st.ptr \notin Covered(rs)
  <2>1. CASE st.done
    BY <1>6, <2>1
  <2>2. CASE ~st.done
    <3>1. /\ L + 1 \in 1..L + 1 /\ L + 1 \notin 1..L
          /\ \A j \in 1..L : j <= L
      BY <1>1, SMT
    <3> QED
      BY <1>5, <1>6, <2>2, <3>1, NotCovered
  <2> QED
    BY <2>1, <2>2
<1> DEFINE n == bytesReady(rs, start)
<1>8. n = st.ptr - start
  BY <1>3 DEF st
<1> HIDE DEF n
<1>9. /\ n \in Nat /\ start + n = st.ptr
      /\ \A b \in start..(start + n - 1) :
             b \in Int /\ start <= b /\ b < st.ptr
  BY <1>5, <1>6, <1>8, SMT
<1> QED
  BY <1>6, <1>7, <1>9 DEF n

-----------------------------------------------------------------------------
(* The insertion sort.                                                     *)

(* The first i ranges are in order, but for the j-th, which is on its way  *)
(* forward and has passed those behind it.                                 *)
Inserting(rs, i, j) ==
    \A a, b \in 1..Len(rs) :
        a < b /\ b <= i /\ b # j => rs[a].start <= rs[b].start

(* A swap changes the order of two ranges and nothing else.                *)
LEMMA SwapFields ==
    ASSUME NEW B, NEW rs \in Seq(Ranges(B)), NEW j \in 2..Len(rs)
    PROVE  LET s == Swapped(rs, j) IN
           /\ s \in Seq(Ranges(B)) /\ Len(s) = Len(rs)
           /\ s[j] = rs[j - 1] /\ s[j - 1] = rs[j]
           /\ \A a \in 1..Len(rs) : a # j /\ a # j - 1 => s[a] = rs[a]
<1> DEFINE s == Swapped(rs, j)
<1>1. /\ j \in 1..Len(rs) /\ j - 1 \in 1..Len(rs) /\ j # j - 1
      /\ DOMAIN rs = 1..Len(rs) /\ Len(rs) \in Nat
  BY SMT
<1>2. s = [a \in 1..Len(rs) |-> IF a = j - 1 THEN rs[j]
                                ELSE IF a = j THEN rs[j - 1] ELSE rs[a]]
  BY <1>1 DEF Swapped
<1>3. \A a \in 1..Len(rs) : rs[a] \in Ranges(B)
  OBVIOUS
<1> HIDE DEF s
<1>4. /\ s \in [1..Len(rs) -> Ranges(B)]
      /\ s[j] = rs[j - 1] /\ s[j - 1] = rs[j]
      /\ \A a \in 1..Len(rs) : a # j /\ a # j - 1 => s[a] = rs[a]
  BY <1>1, <1>2, <1>3
<1>5. s \in Seq(Ranges(B)) /\ Len(s) = Len(rs)
  BY <1>1, <1>4
<1> QED
  BY <1>4, <1>5 DEF s

LEMMA SwapCovers ==
    ASSUME NEW B \in SUBSET Int, NEW rs \in Seq(Ranges(B)),
           NEW j \in 2..Len(rs)
    PROVE  Covered(Swapped(rs, j)) = Covered(rs)
<1> DEFINE s == Swapped(rs, j)
<1>1. /\ s \in Seq(Ranges(B)) /\ Len(s) = Len(rs)
      /\ s[j] = rs[j - 1] /\ s[j - 1] = rs[j]
      /\ \A a \in 1..Len(rs) : a # j /\ a # j - 1 => s[a] = rs[a]
  BY SwapFields
<1>2. j \in 1..Len(rs) /\ j - 1 \in 1..Len(rs)
  BY SMT
<1> HIDE DEF s
<1>3. \A b : (\E k \in 1..Len(rs) : Lies(s[k], b))
                <=> \E k \in 1..Len(rs) : Lies(rs[k], b)
  BY <1>1, <1>2, Zenon
<1>4. \A b : b \in Covered(s) <=> b \in Covered(rs)
  BY <1>1, <1>3, InCovered
<1> QED
  BY <1>4 DEF s

LEMMA SwapInserts ==
    ASSUME NEW rs \in Seq(Ranges(Int)), NEW i \in Nat, NEW j \in 2..Len(rs),
           j <= i, Inserting(rs, i, j), Before(rs[j], rs[j - 1])
    PROVE  Inserting(Swapped(rs, j), i, j - 1)
<1> DEFINE s == Swapped(rs, j)
<1>1. /\ Len(s) = Len(rs) /\ s[j] = rs[j - 1] /\ s[j - 1] = rs[j]
      /\ \A a \in 1..Len(rs) : a # j /\ a # j - 1 => s[a] = rs[a]
  BY SwapFields
<1>2. \A a \in 1..Len(rs) : rs[a].start \in Int
  <2>1. \A a \in 1..Len(rs) : rs[a] \in Ranges(Int)
    OBVIOUS
  <2> QED
    BY <2>1 DEF Ranges
<1>3. j \in 1..Len(rs) /\ j - 1 \in 1..Len(rs) /\ rs[j].start < rs[j - 1].start
  BY SMT DEF Before
<1> HIDE DEF s
<1>4. ASSUME NEW a \in 1..Len(rs), NEW b \in 1..Len(rs),
             a < b, b <= i, b # j - 1
      PROVE  s[a].start <= s[b].start
  <2>1. CASE b = j
    <3>1. CASE a = j - 1
      BY <1>1, <1>2, <1>3, <2>1, <3>1, SMT
    <3>2. CASE a # j - 1
      <4>1. a # j /\ a < j - 1 /\ j - 1 <= i /\ j - 1 # j
        BY <1>4, <2>1, <3>2, SMT
      <4>2. rs[a].start <= rs[j - 1].start
        BY <1>3, <4>1 DEF Inserting
      <4> QED
        BY <1>1, <2>1, <3>2, <4>1, <4>2
    <3> QED
      BY <3>1, <3>2
  <2>2. CASE b # j
    <3>1. s[b] = rs[b]
      BY <1>1, <1>4, <2>2
    <3>2. CASE a = j - 1
      <4>1. j < b
        BY <1>4, <2>2, <3>2, SMT
      <4>2. rs[j].start <= rs[b].start
        BY <1>3, <1>4, <2>2, <4>1 DEF Inserting
      <4> QED
        BY <1>1, <3>1, <3>2, <4>2
    <3>3. CASE a = j
      <4>1. j - 1 < b
        BY <1>4, <3>3, SMT
      <4>2. rs[j - 1].start <= rs[b].start
        BY <1>3, <1>4, <2>2, <4>1 DEF Inserting
      <4> QED
        BY <1>1, <3>1, <3>3, <4>2
    <3>4. CASE a # j - 1 /\ a # j
      <4>1. rs[a].start <= rs[b].start
        BY <1>4, <2>2 DEF Inserting
      <4> QED
        BY <1>1, <3>1, <3>4, <4>1
    <3> QED
      BY <3>2, <3>3, <3>4
  <2> QED
    BY <2>1, <2>2
<1> QED
  BY <1>1, <1>4 DEF Inserting, s

(* The j-th range has arrived: the next one is inserted.                   *)
LEMMA Inserted ==
    ASSUME NEW rs \in Seq(Ranges(Int)), NEW i \in 1..Len(rs), NEW j \in Nat,
           1 <= j, j <= i, Inserting(rs, i, j),
           j = 1 \/ ~Before(rs[j], rs[j - 1])
    PROVE  Inserting(rs, i + 1, i + 1)
<1>1. \A a \in 1..Len(rs) : rs[a].start \in Int
  <2>1. \A a \in 1..Len(rs) : rs[a] \in Ranges(Int)
    OBVIOUS
  <2> QED
    BY <2>1 DEF Ranges
<1>2. ASSUME NEW a \in 1..Len(rs), NEW b \in 1..Len(rs),
             a < b, b <= i + 1, b # i + 1
      PROVE  rs[a].start <= rs[b].start
  <2>1. b <= i
    BY <1>2, SMT
  <2>2. CASE b # j
    BY <1>2, <2>1, <2>2 DEF Inserting
  <2>3. CASE b = j
    <3>1. /\ j # 1 /\ j - 1 \in 1..Len(rs) /\ j \in 1..Len(rs) /\ j - 1 <= i
          /\ j - 1 # j /\ (a = j - 1 \/ a < j - 1)
      BY <1>2, <2>1, <2>3, SMT
    <3>2. rs[j - 1].start <= rs[j].start
      BY <1>1, <3>1, SMT DEF Before
    <3>3. rs[a].start <= rs[j - 1].start
      <4>1. CASE a = j - 1
        BY <1>1, <4>1, SMT
      <4>2. CASE a < j - 1
        BY <1>2, <3>1, <4>2 DEF Inserting
      <4> QED
        BY <3>1, <4>1, <4>2
    <3> QED
      BY <1>1, <2>3, <3>1, <3>2, <3>3, SMT
  <2> QED
    BY <2>2, <2>3
<1> QED
  BY <1>2 DEF Inserting

LEMMA AllInserted ==
    ASSUME NEW rs \in Seq(Ranges(Int)), NEW i \in Nat, Len(rs) < i,
           Inserting(rs, i, i)
    PROVE  Sorted(rs)
<1>1. ASSUME NEW a \in 1..Len(rs), NEW b \in 1..Len(rs), a <= b
      PROVE  rs[a].start <= rs[b].start
  <2>1. rs[a] \in Ranges(Int)
    OBVIOUS
  <2>2. rs[a].start \in Int
    BY <2>1 DEF Ranges
  <2>3. CASE a = b
    BY <2>2, <2>3, SMT
  <2>4. CASE a # b
    <3>1. a < b /\ b <= i /\ b # i
      BY <1>1, <2>4, SMT
    <3> QED
      BY <3>1 DEF Inserting
  <2> QED
    BY <2>3, <2>4
<1> QED
  BY <1>1 DEF Sorted

(* A sorted list asks for no swap.                                         *)
LEMMA NoSwap ==
    ASSUME NEW rs \in Seq(Ranges(Int)), Sorted(rs), NEW j \in 2..Len(rs)
    PROVE  ~Before(rs[j], rs[j - 1])
<1>1. j \in 1..Len(rs) /\ j - 1 \in 1..Len(rs) /\ j - 1 <= j
  BY SMT
<1>2. rs[j] \in Ranges(Int) /\ rs[j - 1] \in Ranges(Int)
  BY <1>1
<1>3. rs[j].start \in Int /\ rs[j - 1].start \in Int
  BY <1>2 DEF Ranges
<1>4. rs[j - 1].start <= rs[j].start
  BY <1>1 DEF Sorted
<1> QED
  BY <1>3, <1>4, SMT DEF Before

-----------------------------------------------------------------------------
(* The inductive invariant.                                                *)

(* What a reader may count on as long as nobody has raced: how far it has  *)
(* sorted the list, and that the list is sorted while it scans it.         *)
ReaderSorts(at, rs) ==
    /\ at.pc = "sort" =>
          /\ 2 <= at.i /\ 1 <= at.j /\ at.j <= at.i
          /\ Len(rs) < at.i => at.j = at.i
          /\ Inserting(rs, at.i, at.j)
    /\ at.pc = "scan" => Sorted(rs)

(* One that has written is alone; and where one has left since the last    *)
(* change, the list is sorted and nobody has written.                      *)
Orderly ==
    /\ \A r \in Readers : ReaderSorts(readers[r], ranges)
    /\ \A q \in moved : Within(readers) = {q}
    /\ settled => Sorted(ranges) /\ moved = {}

LoadInd == TypeOK /\ RaceOnlyAtFirst /\ (~raced => Orderly)

LEMMA RangesWithin ==
    ASSUME NEW rs \in Seq(Ranges(Bytes))
    PROVE  rs \in Seq(Ranges(Int)) /\ Bytes \in SUBSET Int
<1>1. Bytes \in SUBSET Int
  BY LoadConstants
<1>2. \A k \in 1..Len(rs) : rs[k] \in Ranges(Bytes)
  OBVIOUS
<1>3. \A k \in 1..Len(rs) : rs[k] \in Ranges(Int)
  BY <1>1, <1>2 DEF Ranges
<1> QED
  BY <1>1, <1>3, SMT

(* The type invariant, in the words of the lemmas.                         *)
LEMMA Typed ==
    ASSUME TypeOK
    PROVE  /\ ranges \in Seq(Ranges(Bytes)) /\ ranges \in Seq(Ranges(Int))
           /\ Bytes \in SUBSET Int
           /\ Len(ranges) \in Nat /\ Len(ranges) <= MaxRanges
           /\ panicked \in BOOLEAN /\ raced \in BOOLEAN
           /\ settled \in BOOLEAN /\ moved \subseteq Within(readers)
<1>1. ranges \in Seq(Ranges(Bytes))
  BY DEF TypeOK, Ranges
<1> QED
  BY <1>1, RangesWithin DEF TypeOK

LEMMA LoadIndInit == Init => LoadInd
<1> SUFFICES ASSUME Init
             PROVE  LoadInd
  OBVIOUS
<1>1. \A r \in Readers : readers[r] = Outside
  BY DEF Init
<1>2. TypeOK
  <2>1. Outside \in [pc : {"out", "sort", "scan"},
                     i : 0..(MaxRanges + 1), j : 0..(MaxRanges + 1)]
    BY LoadConstants, SMT DEF Outside
  <2>2. /\ ranges \in Seq([start : Bytes, end : Bytes])
        /\ Len(ranges) <= MaxRanges
    BY LoadConstants, SMT DEF Init
  <2> QED
    BY <2>1, <2>2 DEF Init, TypeOK
<1>3. Orderly
  BY <1>1 DEF Init, Orderly, ReaderSorts, Outside
<1> QED
  BY <1>2, <1>3 DEF Init, LoadInd, RaceOnlyAtFirst

(* What addRange leaves.                                                   *)
LEMMA AddFields ==
    ASSUME NEW B \in SUBSET Int, NEW rs \in Seq(Ranges(B)),
           NEW start \in B, NEW end \in B
    PROVE  /\ addRange(rs, start, end) \in Seq(Ranges(B))
           /\ Len(addRange(rs, start, end)) = Len(rs) + 1
           /\ Covered(addRange(rs, start, end))
                = Covered(rs) \cup start..(end - 1)
<1> DEFINE v == Interval(start, end)
           s == Append(rs, v)
<1>1. v \in Ranges(B) /\ v.start = start /\ v.end = end
  BY DEF Interval, Ranges
<1> HIDE DEF v
<1>2. /\ s \in Seq(Ranges(B)) /\ Len(s) = Len(rs) + 1
      /\ s[Len(rs) + 1] = v
      /\ \A k \in 1..Len(rs) : s[k] = rs[k]
  BY <1>1, SMT
<1>3. /\ \A k : k \in 1..Len(s) <=> k \in 1..Len(rs) \/ k = Len(rs) + 1
      /\ start \in Int /\ end \in Int
  BY <1>2, SMT
<1> HIDE DEF s
<1>4. ASSUME NEW b
      PROVE  b \in Covered(s) <=> b \in Covered(rs) \/ b \in start..(end - 1)
  <2>1. b \in start..(end - 1) <=> b \in Int /\ Lies(v, b)
    BY <1>1, <1>3, SMT DEF Lies
  <2>2. b \in Covered(s) <=>
            b \in Int /\ \E k \in 1..Len(s) : Lies(s[k], b)
    BY <1>2, InCovered
  <2>3. b \in Covered(rs) <=>
            b \in Int /\ \E k \in 1..Len(rs) : Lies(rs[k], b)
    BY InCovered
  <2>4. (\E k \in 1..Len(s) : Lies(s[k], b)) <=>
            Lies(v, b) \/ \E k \in 1..Len(rs) : Lies(rs[k], b)
    BY <1>2, <1>3, Zenon
  <2> QED
    BY <2>1, <2>2, <2>3, <2>4
<1> QED
  BY <1>2, <1>4 DEF s, v, addRange

(* A change of the list under the write lock: nobody is within, and nobody *)
(* has left since.                                                         *)
LEMMA LockedStep ==
    ASSUME LoadInd, Lock, ranges' \in Seq(Ranges(Bytes)),
           Len(ranges') <= MaxRanges, panicked' \in BOOLEAN
    PROVE  LoadInd'
<1>1. /\ TypeOK /\ ~raced /\ Orderly /\ settled' = FALSE
      /\ readers' = readers /\ moved' = moved /\ raced' = raced
      /\ \A r \in Readers : readers[r] = Outside
  BY DEF LoadInd, Lock, NoReader, readVars
<1>2. moved = {} /\ Within(readers) = {} /\ Within(readers') = {}
  BY <1>1 DEF TypeOK, Within
<1>3. TypeOK'
  BY <1>1, <1>2 DEF TypeOK, Ranges
<1>4. Orderly'
  BY <1>1, <1>2 DEF Orderly, ReaderSorts, Outside
<1> QED
  BY <1>1, <1>3, <1>4 DEF LoadInd, RaceOnlyAtFirst

LEMMA AddStep ==
    ASSUME LoadInd, NEW start \in Bytes, NEW end \in Bytes,
           AddRange(start, end)
    PROVE  /\ LoadInd'
           /\ Covered(ranges') = Covered(ranges) \cup start..(end - 1)
<1>1. /\ ranges \in Seq(Ranges(Bytes)) /\ Bytes \in SUBSET Int
      /\ Len(ranges) \in Nat /\ panicked \in BOOLEAN
  BY Typed DEF LoadInd
<1>2. /\ Lock /\ Len(ranges) < MaxRanges /\ panicked' = panicked
      /\ ranges' = addRange(ranges, start, end)
  BY DEF AddRange
<1>3. /\ ranges' \in Seq(Ranges(Bytes)) /\ Len(ranges') = Len(ranges) + 1
      /\ Covered(ranges') = Covered(ranges) \cup start..(end - 1)
  <2>1. LET rs == addRange(ranges, start, end) IN
        /\ rs \in Seq(Ranges(Bytes)) /\ Len(rs) = Len(ranges) + 1
        /\ Covered(rs) = Covered(ranges) \cup start..(end - 1)
    BY ONLY <1>1, start \in Bytes, end \in Bytes, AddFields
  <2> QED
    BY ONLY <1>2, <2>1
<1>4. Len(ranges') <= MaxRanges
  BY <1>1, <1>2, <1>3, LoadConstants, SMT
<1> QED
  BY <1>1, <1>2, <1>3, <1>4, LockedStep

LEMMA TruncateStep ==
    ASSUME LoadInd, NEW end \in Bytes, Truncate(end)
    PROVE  /\ LoadInd'
           /\ \/ panicked'
              \/ Covered(ranges') = {b \in Covered(ranges) : b < end}
<1> DEFINE l == truncate(ranges, end)
<1>1. /\ ranges \in Seq(Ranges(Bytes)) /\ Bytes \in SUBSET Int
      /\ Len(ranges) \in Nat /\ Len(ranges) <= MaxRanges
  BY Typed DEF LoadInd
<1>2. Lock /\ ranges' = SubSeq(l.arr, 1, l.len) /\ panicked' = l.panic
  BY DEF Truncate
<1>3. /\ ranges' \in Seq(Ranges(Bytes)) /\ Len(ranges') <= Len(ranges)
      /\ panicked' \in BOOLEAN
      /\ ~panicked' =>
            Covered(ranges') = {b \in Covered(ranges) : b < end}
  <2> HIDE DEF l
  <2>1. LET r == SubSeq(l.arr, 1, l.len) IN
        /\ r \in Seq(Ranges(Bytes)) /\ Len(r) <= Len(ranges)
        /\ l.panic \in BOOLEAN
        /\ ~l.panic => Covered(r) = {b \in Covered(ranges) : b < end}
    BY <1>1, TruncateCuts DEF l
  <2> QED
    BY <1>2, <2>1
<1>4. Len(ranges') <= MaxRanges
  <2>1. Len(ranges') \in Nat
    BY <1>3
  <2> QED
    BY <1>1, <1>3, <2>1, LoadConstants, SMT
<1> QED
  BY <1>2, <1>3, <1>4, LockedStep

(* Where a reader may stand.                                               *)
Places == [pc : {"out", "sort", "scan"},
           i : 0..(MaxRanges + 1), j : 0..(MaxRanges + 1)]

(* A step of a reader that writes at most while it sorts a list that is    *)
(* not sorted, and that leaves only a sorted list.                         *)
LEMMA ReaderStep ==
    ASSUME LoadInd, NEW r \in Readers, NEW at \in Places, NEW rs,
           NEW w \in BOOLEAN, Reader(r, at, rs, w),
           rs \in Seq(Ranges(Bytes)), Len(rs) = Len(ranges),
           ReaderSorts(at, rs), ~w => rs = ranges,
           w => at # Outside /\ ~settled,
           \/ settled' = settled
           \/ /\ settled' = TRUE /\ ~w /\ Sorted(rs)
              /\ at = Outside /\ readers[r] # Outside
    PROVE  LoadInd'
<1>1. /\ ~raced /\ panicked' = panicked /\ ranges' = rs
      /\ readers' = [readers EXCEPT ![r] = at]
      /\ moved' = IF w THEN moved \cup {r} ELSE moved \cap Within(readers')
      /\ raced' = \E q \in moved' : Within(readers') # {q}
  BY DEF Reader
<1>2. TypeOK /\ Orderly
  BY <1>1 DEF LoadInd
<1>3. /\ readers' \in [Readers -> Places] /\ readers'[r] = at
      /\ \A s \in Readers \ {r} : readers'[s] = readers[s]
  BY <1>1, <1>2 DEF TypeOK, Places
<1>4. moved \subseteq Within(readers) /\ Within(readers) \subseteq Readers
  BY <1>2 DEF TypeOK, Within
<1>5. moved' \subseteq Within(readers')
  BY <1>1, <1>3, <1>4, Zenon DEF Within
<1>6. TypeOK'
  <2>1. raced' \in BOOLEAN /\ settled' \in BOOLEAN
    BY <1>1, <1>2 DEF TypeOK
  <2>2. /\ ranges' \in Seq([start : Bytes, end : Bytes])
        /\ Len(ranges') <= MaxRanges
    BY <1>1, <1>2 DEF TypeOK, Ranges
  <2> QED
    BY <1>1, <1>2, <1>3, <1>5, <2>1, <2>2 DEF TypeOK, Places
<1>7. settled' => moved' = {} /\ Sorted(rs)
  <2>1. CASE settled' = settled
    BY <1>1, <1>2, <2>1 DEF Orderly
  <2>2. CASE ~w /\ Sorted(rs) /\ at = Outside /\ readers[r] # Outside
    <3>1. r \in Within(readers) /\ r \notin Within(readers')
      BY <1>3, <2>2 DEF Within
    <3>2. \A q \in moved : q = r
      BY <1>2, <3>1 DEF Orderly
    <3> QED
      BY <1>1, <2>2, <3>1, <3>2
  <2> QED
    BY <2>1, <2>2
<1>8. RaceOnlyAtFirst'
  BY <1>1, <1>7 DEF RaceOnlyAtFirst
<1>9. ASSUME ~raced'
      PROVE  Orderly'
  <2>1. \A q \in moved' : Within(readers') = {q}
    BY <1>1, <1>9
  <2>2. ASSUME NEW s \in Readers
        PROVE  ReaderSorts(readers'[s], rs)
    <3>1. CASE s = r
      BY <1>3, <3>1
    <3>2. CASE s # r /\ ~w
      BY <1>2, <1>3, <3>2 DEF Orderly
    <3>3. CASE s # r /\ w
      <4>1. s \notin Within(readers')
        BY <1>1, <2>1, <3>3
      <4>2. readers'[s] = Outside
        BY <4>1 DEF Within
      <4> QED
        BY <4>2 DEF ReaderSorts, Outside
    <3> QED
      BY <3>1, <3>2, <3>3
  <2> QED
    BY <1>1, <1>7, <2>1, <2>2 DEF Orderly
<1> QED
  BY <1>6, <1>8, <1>9 DEF LoadInd

LEMMA RLockStep ==
    ASSUME LoadInd, NEW r \in Readers, RLock(r)
    PROVE  LoadInd' /\ Covered(ranges') = Covered(ranges)
<1> DEFINE at == [pc |-> "sort", i |-> 2, j |-> 2]
<1>1. /\ ranges \in Seq(Ranges(Bytes)) /\ Len(ranges) \in Nat
  BY Typed DEF LoadInd
<1>2. Reader(r, at, ranges, FALSE) /\ settled' = settled
  BY DEF RLock
<1>3. at \in Places
  BY LoadConstants, SMT DEF Places
<1>4. ReaderSorts(at, ranges)
  <2>1. \A a, b \in 1..Len(ranges) : ~(a < b /\ b <= 2 /\ b # 2)
    BY SMT
  <2>2. Inserting(ranges, 2, 2)
    BY <2>1 DEF Inserting
  <2> QED
    BY <2>2, SMT DEF ReaderSorts
<1>5. LoadInd'
  <2> HIDE DEF at
  <2> QED
    BY <1>1, <1>2, <1>3, <1>4, ReaderStep
<1> QED
  BY <1>2, <1>5 DEF Reader

LEMMA SortStep ==
    ASSUME LoadInd, NEW r \in Readers, Sort(r)
    PROVE  LoadInd' /\ Covered(ranges') = Covered(ranges)
<1> DEFINE i == readers[r].i
           j == readers[r].j
           swap == j > 1 /\ Before(ranges[j], ranges[j - 1])
<1>1. /\ ranges \in Seq(Ranges(Bytes)) /\ ranges \in Seq(Ranges(Int))
      /\ Bytes \in SUBSET Int
      /\ Len(ranges) \in Nat /\ Len(ranges) <= MaxRanges /\ MaxRanges \in Nat
  BY Typed, LoadConstants DEF LoadInd
<1>2. /\ readers[r].pc = "sort" /\ i <= Len(ranges) /\ settled' = settled
      /\ \/ swap /\ Reader(r, [readers[r] EXCEPT !.j = j - 1],
                            Swapped(ranges, j), TRUE)
         \/ ~swap /\ Reader(r, [readers[r] EXCEPT !.i = i + 1, !.j = i + 1],
                             ranges, FALSE)
  BY DEF Sort
<1>3. Orderly /\ readers[r] \in Places
  BY <1>2 DEF LoadInd, Reader, TypeOK, Places
<1>4. /\ i \in Nat /\ j \in Nat /\ i <= MaxRanges + 1
      /\ 2 <= i /\ 1 <= j /\ j <= i /\ Inserting(ranges, i, j)
  BY <1>1, <1>2, <1>3, SMT DEF Orderly, ReaderSorts, Places
<1>5. CASE swap /\ Reader(r, [readers[r] EXCEPT !.j = j - 1],
                         Swapped(ranges, j), TRUE)
  <2> DEFINE at == [readers[r] EXCEPT !.j = j - 1]
             rs == Swapped(ranges, j)
  <2>1. j \in 2..Len(ranges)
    BY <1>1, <1>2, <1>4, <1>5, SMT
  <2>2. /\ rs \in Seq(Ranges(Bytes)) /\ Len(rs) = Len(ranges)
        /\ Covered(rs) = Covered(ranges)
        /\ Inserting(rs, i, j - 1)
    <3> HIDE DEF i, j
    <3>1. rs \in Seq(Ranges(Bytes)) /\ Len(rs) = Len(ranges)
      BY <1>1, <2>1, SwapFields
    <3>2. Covered(rs) = Covered(ranges)
      BY <1>1, <2>1, SwapCovers
    <3>3. Before(ranges[j], ranges[j - 1])
      BY <1>5
    <3>4. Inserting(rs, i, j - 1)
      BY <1>1, <1>4, <2>1, <3>3, SwapInserts
    <3> QED
      BY <3>1, <3>2, <3>4
  <2>3. at \in Places /\ at.pc = "sort" /\ at.i = i /\ at.j = j - 1
    <3>1. j - 1 \in 0..(MaxRanges + 1)
      BY <1>1, <1>4, <2>1, SMT
    <3> QED
      BY <1>2, <1>3, <3>1 DEF Places
  <2>4. at # Outside /\ ~settled
    <3>1. at # Outside
      BY <2>3 DEF Outside
    <3>2. settled => FALSE
      BY <1>1, <1>3, <1>5, <2>1, NoSwap DEF Orderly
    <3> QED
      BY <3>1, <3>2
  <2> HIDE DEF at, rs
  <2>5. ReaderSorts(at, rs)
    BY <1>1, <1>2, <1>4, <2>1, <2>2, <2>3, SMT DEF ReaderSorts
  <2>6. Reader(r, at, rs, TRUE)
    BY <1>5 DEF at, rs
  <2>7. LoadInd'
    BY <1>2, <2>2, <2>3, <2>4, <2>5, <2>6, ReaderStep
  <2> QED
    BY <2>2, <2>6, <2>7 DEF Reader
<1>6. CASE ~swap /\ Reader(r, [readers[r] EXCEPT !.i = i + 1, !.j = i + 1],
                          ranges, FALSE)
  <2> DEFINE at == [readers[r] EXCEPT !.i = i + 1, !.j = i + 1]
  <2>1. at \in Places /\ at.pc = "sort" /\ at.i = i + 1 /\ at.j = i + 1
    <3>1. i + 1 \in 0..(MaxRanges + 1)
      BY <1>1, <1>2, <1>4, SMT
    <3> QED
      BY <1>2, <1>3, <3>1 DEF Places
  <2>2. Inserting(ranges, i + 1, i + 1)
    <3>1. i \in 1..Len(ranges)
      BY <1>1, <1>2, <1>4, SMT
    <3>2. j = 1 \/ ~Before(ranges[j], ranges[j - 1])
      BY <1>4, <1>6, SMT
    <3> HIDE DEF i, j
    <3> QED
      BY <1>1, <1>4, <3>1, <3>2, Inserted
  <2> HIDE DEF at
  <2>3. ReaderSorts(at, ranges)
    BY <1>4, <2>1, <2>2, SMT DEF ReaderSorts
  <2>4. Reader(r, at, ranges, FALSE)
    BY <1>6 DEF at
  <2>5. LoadInd'
    BY <1>1, <1>2, <2>1, <2>3, <2>4, ReaderStep
  <2> QED
    BY <2>4, <2>5 DEF Reader
<1> QED
  BY <1>2, <1>5, <1>6

LEMMA ScanStep ==
    ASSUME LoadInd, NEW r \in Readers, Scan(r)
    PROVE  LoadInd' /\ Covered(ranges') = Covered(ranges)
<1> DEFINE at == [pc |-> "scan", i |-> 0, j |-> 0]
<1>1. /\ ranges \in Seq(Ranges(Bytes)) /\ ranges \in Seq(Ranges(Int))
      /\ Len(ranges) \in Nat
  BY Typed DEF LoadInd
<1>2. /\ readers[r].pc = "sort" /\ readers[r].i > Len(ranges)
      /\ Reader(r, at, ranges, FALSE) /\ settled' = settled
  BY DEF Scan
<1>3. Orderly /\ readers[r] \in Places
  BY <1>2 DEF LoadInd, Reader, TypeOK, Places
<1>4. at \in Places
  BY LoadConstants, SMT DEF Places
<1>5. Sorted(ranges)
  <2>1. readers[r].i \in Nat /\ Len(ranges) < readers[r].i
    BY <1>1, <1>2, <1>3, LoadConstants, SMT DEF Places
  <2>2. Inserting(ranges, readers[r].i, readers[r].i)
    BY <1>2, <1>3, <2>1 DEF Orderly, ReaderSorts
  <2> QED
    BY <1>1, <2>1, <2>2, AllInserted
<1>6. ReaderSorts(at, ranges)
  BY <1>5 DEF ReaderSorts
<1>7. LoadInd'
  <2> HIDE DEF at
  <2> QED
    BY <1>1, <1>2, <1>4, <1>6, ReaderStep
<1> QED
  BY <1>2, <1>7 DEF Reader

LEMMA RUnlockStep ==
    ASSUME LoadInd, NEW r \in Readers, RUnlock(r)
    PROVE  LoadInd' /\ Covered(ranges') = Covered(ranges)
<1>1. /\ ranges \in Seq(Ranges(Bytes)) /\ Len(ranges) \in Nat
  BY Typed DEF LoadInd
<1>2. /\ readers[r].pc = "scan" /\ settled' = TRUE
      /\ Reader(r, Outside, ranges, FALSE)
  BY DEF RUnlock
<1>3. Orderly /\ readers[r] # Outside
  BY <1>2 DEF LoadInd, Reader, Outside
<1>4. Outside \in Places
  BY LoadConstants, SMT DEF Places, Outside
<1>5. Sorted(ranges)
  BY <1>2, <1>3 DEF Orderly, ReaderSorts
<1>6. ReaderSorts(Outside, ranges)
  BY DEF ReaderSorts, Outside
<1>7. LoadInd'
  BY <1>1, <1>2, <1>3, <1>4, <1>5, <1>6, ReaderStep
<1> QED
  BY <1>2, <1>7 DEF Reader

LEMMA QueryStep ==
    ASSUME LoadInd, Query
    PROVE  LoadInd' /\ Covered(ranges') = Covered(ranges)
BY RLockStep, SortStep, ScanStep, RUnlockStep DEF Query

LEMMA LoadIndNext == LoadInd /\ [Next]_vars => LoadInd'
<1> SUFFICES ASSUME LoadInd, [Next]_vars
             PROVE  LoadInd'
  OBVIOUS
<1>1. CASE Next
  BY <1>1, AddStep, TruncateStep, QueryStep DEF Next
<1>2. CASE UNCHANGED vars
  BY <1>2 DEF vars, LoadInd, TypeOK, RaceOnlyAtFirst, Orderly, ReaderSorts,
              Within, Sorted, Inserting
<1> QED
  BY <1>1, <1>2

(* The inductive invariant of the list.                                    *)
THEOREM LoadInductive == Spec => []LoadInd
BY LoadIndInit, LoadIndNext, PTL DEF Spec

(* Only the first readers after a change of the list can disturb each      *)
(* other: isReady and bytesReady write nothing to a list that one of them  *)
(* has left behind.                                                        *)
THEOREM LoadRaceOnlyAtFirst == Spec => []RaceOnlyAtFirst
<1>1. LoadInd => RaceOnlyAtFirst
  BY DEF LoadInd
<1> QED
  BY <1>1, LoadInductive, PTL

(* Both queries are exact on every list that a reader scans: isReady       *)
(* whether every byte is there, bytesReady how many are in a row.          *)
THEOREM LoadSafety == Spec => []LoadInv
<1>1. LoadInd => LoadInv
  <2> SUFFICES ASSUME LoadInd
               PROVE  LoadInv
    OBVIOUS
  <2>1. TypeOK /\ ranges \in Seq(Ranges(Int)) /\ Bytes \in SUBSET Int
    BY Typed DEF LoadInd
  <2>2. Scanned => Sorted(ranges)
    BY DEF LoadInd, Scanned, Orderly, ReaderSorts
  <2>3. IsReadyExact
    <3>1. ASSUME Scanned, NEW start \in Bytes, NEW end \in Bytes, start < end
          PROVE  isReady(ranges, start, end)
                   <=> start..(end - 1) \subseteq Covered(ranges)
      BY <2>1, <2>2, <3>1, ReadyExact
    <3> QED
      BY <3>1 DEF IsReadyExact
  <2>4. BytesReadyExact
    <3>1. ASSUME Scanned, NEW start \in Bytes
          PROVE  LET n == bytesReady(ranges, start) IN
                 /\ start..(start + n - 1) \subseteq Covered(ranges)
                 /\ start + n \notin Covered(ranges)
      BY <2>1, <2>2, <3>1, BytesExact
    <3> QED
      BY <3>1 DEF BytesReadyExact
  <2> QED
    BY <2>1, <2>3, <2>4 DEF LoadInv
<1> QED
  BY <1>1, LoadInductive, PTL

(* Every step of the list is the step of LoadSpec with the same arguments, *)
(* or none: addRange adds its bytes, a truncate that returns cuts, and the *)
(* sorting of a query changes nothing.                                     *)
THEOREM LoadImplementsSpec == Spec => ImplementsLoadSpec
<1>1. Init => Abstract!Init
  BY DEF Init, Abstract!Init, Covered
<1>2. ASSUME LoadInd, NEW start \in Bytes, NEW end \in Bytes,
             AddRange(start, end)
      PROVE  start <= end /\ Abstract!Add(start, end)
  BY <1>2, AddStep DEF AddRange, Abstract!Add
<1>3. ASSUME LoadInd, NEW end \in Bytes, Truncate(end)
      PROVE  panicked' \/ Abstract!Trim(end)
  BY <1>3, TruncateStep DEF Abstract!Trim
<1>4. ASSUME LoadInd, Query
      PROVE  Covered(ranges') = Covered(ranges)
  BY <1>4, QueryStep
<1>5. LoadInd /\ [Next]_vars =>
          [panicked' \/ Abstract!Next]_(Covered(ranges))
  <2> SUFFICES ASSUME LoadInd, [Next]_vars
               PROVE  [panicked' \/ Abstract!Next]_(Covered(ranges))
    OBVIOUS
  <2>1. ASSUME NEW start \in Bytes, NEW end \in Bytes, AddRange(start, end)
        PROVE  Abstract!Next
    BY <1>2, <2>1 DEF Abstract!Next
  <2>2. ASSUME NEW end \in Bytes, Truncate(end)
        PROVE  panicked' \/ Abstract!Next
    BY <1>3, <2>2 DEF Abstract!Next
  <2>3. CASE UNCHANGED vars
    BY <2>3 DEF vars, Covered
  <2> QED
    BY <1>4, <2>1, <2>2, <2>3 DEF Next
<1>6. LoadInd /\ [Next]_vars =>
          [/\ \A start, end \in Bytes :
                AddRange(start, end) => Abstract!Add(start, end)
           /\ \A end \in Bytes :
                Truncate(end) => panicked' \/ Abstract!Trim(end)
           /\ Query => UNCHANGED Covered(ranges)]_vars
  BY <1>2, <1>3, <1>4
<1> QED
  BY <1>1, <1>5, <1>6, LoadInductive, PTL DEF Spec, ImplementsLoadSpec
=============================================================================
