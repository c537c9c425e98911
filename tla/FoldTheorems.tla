----------------------------- MODULE FoldTheorems -----------------------------
(***************************************************************************)
(* What the proofs need of sequences, folds and filters: an induction on   *)
(* numbers by the least counterexample, the steps that a fold takes, and   *)
(* what a filter keeps.                                                    *)
(***************************************************************************)
EXTENDS Integers, Sequences, FiniteSets, Filters, FiniteSetTheorems,
        SequenceTheorems, WellFoundedInduction, TLAPS

-----------------------------------------------------------------------------
(* Least counterexamples: an induction on sizes *)

\* A set of natural numbers has a least element.
LEMMA LeastOfNat ==
    ASSUME NEW S \in SUBSET Nat, S # {}
    PROVE  \E x \in S : \A y \in S : x <= y
<1> DEFINE R == {p \in Nat \X Nat : p[1] < p[2]}
<1>1. IsWellFoundedOn(R, Nat)
  BY NatLessThanWellFounded, Zenon DEF OpToRel
<1> HIDE DEF R
<1>2. PICK x \in S : \A y \in S : ~(<<y, x>> \in R)
  BY <1>1, WFMin
<1>3. \A m, n \in Nat : <<m, n>> \in R <=> m < n
  BY DEF R
<1>4. ASSUME NEW y \in S PROVE x <= y
  <2>1. x \in Nat /\ y \in Nat /\ ~(<<y, x>> \in R)
    BY <1>2
  <2>2. ~(y < x)
    BY <1>3, <2>1
  <2> QED
    BY <2>1, <2>2
<1> QED
  BY <1>4

\* What holds at 0 and passes from each number to the next holds up to n.
LEMMA UpTo ==
    ASSUME NEW n \in Nat, NEW S, 0 \in S, \A i \in 1..n : i - 1 \in S => i \in S
    PROVE  \A i \in 0..n : i \in S
<1> DEFINE Bad == {i \in 0..n : i \notin S}
<1> SUFFICES ASSUME Bad # {} PROVE FALSE
  OBVIOUS
<1>1. Bad \in SUBSET Nat
  OBVIOUS
<1>2. PICK i \in Bad : \A j \in Bad : i <= j
  BY <1>1, LeastOfNat
<1>3. i \in 1..n /\ i \notin S
  BY <1>2
<1>4. i - 1 \in 0..n /\ i - 1 < i
  BY <1>3
<1>5. i - 1 \notin Bad
  <2> HIDE DEF Bad
  <2> QED BY <1>2, <1>3, <1>4
<1> QED
  BY <1>3, <1>4, <1>5

\* Positions have a last one.
LEMMA LastPosition ==
    ASSUME NEW n \in Nat, NEW t \in SUBSET (1..n), t # {}
    PROVE  Max(t) \in t
<1> DEFINE S == {n - x : x \in t}
<1>1. S \in SUBSET Nat /\ S # {}
  <2>1. \A x \in t : n - x \in Nat
    OBVIOUS
  <2> QED BY <2>1
<1>2. PICK m \in S : \A y \in S : m <= y
  BY <1>1, LeastOfNat
<1>3. PICK x \in t : m = n - x
  BY <1>2
<1>4. ASSUME NEW y \in t PROVE x >= y
  <2>1. m <= n - y
    BY <1>2
  <2> HIDE DEF S
  <2> QED BY <1>3, <2>1
<1> QED
  BY <1>4 DEF Max

\* The numbers up to i, without the greatest, are those up to i - 1.
LEMMA MaxOfPrefix ==
    ASSUME NEW i \in Nat \ {0}
    PROVE  Max(1..i) = i /\ (1..i) \ {Max(1..i)} = 1..(i - 1)
<1>1. Max(1..i) = i
  <2>1. i \in 1..i /\ \A y \in 1..i : i >= y
    OBVIOUS
  <2>2. Max(1..i) \in 1..i /\ \A y \in 1..i : Max(1..i) >= y
    BY <2>1 DEF Max
  <2> QED BY <2>1, <2>2
<1> QED BY <1>1

-----------------------------------------------------------------------------
(* Folds over sequences, taking one position after the other as FoldLeft does *)

\* g folds F over the sets of positions up to n.
FoldsUp(g, F, base, n) ==
    g = [t \in SUBSET (1..n) |-> IF t = {} THEN base ELSE F[<<Max(t), g[t \ {Max(t)}]>>]]

\* A fold over the sets of at most k positions gives one over those of one
\* more, so there is one over all.
LEMMA FoldsExist ==
    ASSUME NEW F, NEW base, NEW n \in Nat
    PROVE  \E g : FoldsUp(g, F, base, n)
<1> DEFINE S == 1..n
           Upto(k) == {s \in SUBSET S : Cardinality(s) <= k}
           Rec(g, k) == g = [s \in Upto(k) |-> IF s = {} THEN base
                                                ELSE F[<<Max(s), g[s \ {Max(s)}]>>]]
           Good == {k \in Nat : \E g : Rec(g, k)}
<1>0. IsFiniteSet(S) /\ Cardinality(S) = n
  BY FS_Interval
<1>1. ASSUME NEW s \in SUBSET S
      PROVE  IsFiniteSet(s) /\ Cardinality(s) \in Nat /\ Cardinality(s) <= n
  BY <1>0, FS_Subset, FS_CardinalityType
<1>2. 0 \in Good
  <2>1. Upto(0) = {{}}
    <3>1. ASSUME NEW s \in SUBSET S, Cardinality(s) <= 0 PROVE s = {}
      BY <1>1, <3>1, FS_EmptySet
    <3>2. Cardinality({}) <= 0
      BY FS_EmptySet
    <3> QED BY <3>1, <3>2
  <2> DEFINE g == [s \in {{}} |-> base]
  <2>2. Rec(g, 0)
    BY <2>1
  <2> QED BY <2>2
<1>3. ASSUME NEW k \in 1..n, k - 1 \in Good PROVE k \in Good
  <2>1. PICK g : Rec(g, k - 1)
    BY <1>3
  <2> DEFINE h == [s \in Upto(k) |-> IF s = {} THEN base ELSE F[<<Max(s), g[s \ {Max(s)}]>>]]
  <2>2. ASSUME NEW s \in Upto(k), s # {} PROVE h[s \ {Max(s)}] = g[s \ {Max(s)}]
    <3> DEFINE t == s \ {Max(s)}
    <3>1. t \in Upto(k - 1) /\ t \in Upto(k)
      <4>1. Max(s) \in s /\ IsFiniteSet(s) /\ Cardinality(s) \in Nat /\ Cardinality(s) <= k
        BY <1>1, <2>2, LastPosition
      <4>2. t \in SUBSET S /\ Cardinality(t) = Cardinality(s) - 1
        BY <4>1, FS_RemoveElement
      <4> QED BY <4>1, <4>2
    <3> HIDE DEF t, Upto
    <3>2. g[t] = IF t = {} THEN base ELSE F[<<Max(t), g[t \ {Max(t)}]>>]
      BY <2>1, <3>1
    <3>3. h[t] = IF t = {} THEN base ELSE F[<<Max(t), g[t \ {Max(t)}]>>]
      BY <3>1
    <3>4. h[t] = g[t]
      BY <3>2, <3>3
    <3> QED BY <3>4 DEF t
  <2>3. Rec(h, k)
    <3> HIDE DEF Upto
    <3>1. ASSUME NEW s \in Upto(k)
          PROVE  (IF s = {} THEN base ELSE F[<<Max(s), g[s \ {Max(s)}]>>])
                   = (IF s = {} THEN base ELSE F[<<Max(s), h[s \ {Max(s)}]>>])
      <4> HIDE DEF h
      <4> QED BY <2>2
    <3>2. h = [s \in Upto(k) |-> IF s = {} THEN base ELSE F[<<Max(s), g[s \ {Max(s)}]>>]]
      OBVIOUS
    <3> HIDE DEF h
    <3> QED BY <3>1, <3>2
  <2> HIDE DEF h, Rec
  <2> QED BY <2>3
<1>4. n \in Good
  <2> HIDE DEF Good
  <2> QED BY <1>2, <1>3, UpTo
<1>5. PICK g : Rec(g, n)
  BY <1>4
<1>6. Upto(n) = SUBSET S
  BY <1>1
<1> QED
  BY <1>5, <1>6 DEF FoldsUp

\* A fold stays where its steps stay.
LEMMA FoldsWithin ==
    ASSUME NEW A, NEW F, NEW base \in A, NEW n \in Nat, NEW g, FoldsUp(g, F, base, n),
           \A i \in 1..n, a \in A : F[<<i, a>>] \in A
    PROVE  \A t \in SUBSET (1..n) : g[t] \in A
<1> DEFINE Bad == {Cardinality(t) : t \in {u \in SUBSET (1..n) : g[u] \notin A}}
<1> SUFFICES ASSUME Bad # {} PROVE FALSE
  OBVIOUS
<1>0. IsFiniteSet(1..n)
  <2>1. 1 \in Int /\ n \in Int
    OBVIOUS
  <2> QED BY <2>1, FS_Interval
<1>1. Bad \in SUBSET Nat
  BY <1>0, FS_Subset, FS_CardinalityType
<1>2. PICK m \in Bad : \A k \in Bad : m <= k
  BY <1>1, LeastOfNat
<1>3. PICK t \in SUBSET (1..n) : g[t] \notin A /\ Cardinality(t) = m
  BY <1>2
<1> HIDE DEF Bad
<1>9. g[t] = IF t = {} THEN base ELSE F[<<Max(t), g[t \ {Max(t)}]>>]
  BY DEF FoldsUp
<1>4. t # {}
  BY <1>3, <1>9
<1>5. Max(t) \in t
  BY <1>4, LastPosition
<1> DEFINE u == t \ {Max(t)}
<1>6. u \in SUBSET (1..n) /\ Cardinality(u) = m - 1 /\ m \in Nat
  <2>1. IsFiniteSet(t)
    BY <1>0, FS_Subset
  <2>2. Cardinality(u) = Cardinality(t) - 1
    BY <1>5, <2>1, FS_RemoveElement
  <2>3. u \in SUBSET (1..n)
    OBVIOUS
  <2> HIDE DEF u
  <2> QED BY <1>1, <1>3, <2>2, <2>3
<1>7. g[u] \in A
  <2> SUFFICES ASSUME g[u] \notin A PROVE FALSE
    OBVIOUS
  <2>1. Cardinality(u) \in Bad
    BY <1>6 DEF Bad
  <2> HIDE DEF u
  <2> QED BY <1>1, <1>2, <1>6, <2>1
<1>8. g[t] = F[<<Max(t), g[u]>>]
  BY <1>4, <1>9
<1> QED
  BY <1>3, <1>5, <1>7, <1>8

-----------------------------------------------------------------------------
(* Filters *)

\* A sequence is the function of its elements.
LEMMA ByElements ==
    ASSUME NEW A, NEW s \in Seq(A)
    PROVE  s = [k \in 1..Len(s) |-> s[k]]
BY LenProperties

\* Prefixes of a sequence: each has one element more.
LEMMA PrefixesGrow ==
    ASSUME NEW A, NEW s \in Seq(A)
    PROVE  /\ SubSeq(s, 1, 0) = <<>> /\ SubSeq(s, 1, Len(s)) = s
           /\ \A i \in 0..Len(s) : SubSeq(s, 1, i) \in Seq(A) /\ Len(SubSeq(s, 1, i)) = i
           /\ \A i \in 1..Len(s) : SubSeq(s, 1, i) = Append(SubSeq(s, 1, i - 1), s[i])
<1>0. Len(s) \in Nat /\ \A i \in 1..Len(s) : s[i] \in A
  BY LenProperties
<1>1. ASSUME NEW i \in 0..Len(s)
      PROVE  SubSeq(s, 1, i) = [k \in 1..i |-> s[k]] /\ SubSeq(s, 1, i) \in Seq(A) /\ Len(SubSeq(s, 1, i)) = i
  <2>1. i \in Nat /\ 1 \in Int /\ i \in Int /\ i - 1 + 1 = i /\ \A k \in 1..i : s[k] \in A /\ 1 + k - 1 = k
    BY <1>0
  <2>2. /\ SubSeq(s, 1, i) \in Seq(A) /\ Len(SubSeq(s, 1, i)) = IF 1 <= i THEN i - 1 + 1 ELSE 0
        /\ \A k \in 1..(i - 1 + 1) : SubSeq(s, 1, i)[k] = s[1 + k - 1]
    BY <2>1, SubSeqProperties
  <2>3. Len(SubSeq(s, 1, i)) = i
    BY <2>1, <2>2
  <2>4. \A k \in 1..i : SubSeq(s, 1, i)[k] = s[k]
    BY <2>1, <2>2
  <2>5. SubSeq(s, 1, i) = [k \in 1..i |-> SubSeq(s, 1, i)[k]]
    BY <2>2, <2>3, ByElements
  <2> QED BY <2>2, <2>3, <2>4, <2>5
<1>2. SubSeq(s, 1, 0) = <<>>
  <2>1. 0 \in 0..Len(s)
    BY <1>0
  <2> QED BY <1>1, <2>1
<1>3. SubSeq(s, 1, Len(s)) = s
  <2>1. Len(s) \in 0..Len(s) /\ s = [k \in 1..Len(s) |-> s[k]]
    BY <1>0, ByElements
  <2> QED BY <1>1, <2>1
<1>4. ASSUME NEW i \in 1..Len(s) PROVE SubSeq(s, 1, i) = Append(SubSeq(s, 1, i - 1), s[i])
  <2> DEFINE x == SubSeq(s, 1, i - 1)
  <2>1. i \in 0..Len(s) /\ i - 1 \in 0..Len(s) /\ i \in Nat
    BY <1>0
  <2>2. x \in Seq(A) /\ Len(x) = i - 1 /\ x = [k \in 1..(i - 1) |-> s[k]]
    BY <1>1, <2>1
  <2>3. s[i] \in A
    BY <1>0
  <2> HIDE DEF x
  <2>4. Append(x, s[i]) \in Seq(A) /\ Len(Append(x, s[i])) = i
        /\ \A k \in 1..i : Append(x, s[i])[k] = IF k <= i - 1 THEN x[k] ELSE s[i]
    BY <2>1, <2>2, <2>3
  <2>5. \A k \in 1..i : Append(x, s[i])[k] = s[k]
    BY <2>1, <2>2, <2>4
  <2>6. Append(x, s[i]) = [k \in 1..i |-> Append(x, s[i])[k]]
    BY <2>4, ByElements
  <2>7. SubSeq(s, 1, i) = [k \in 1..i |-> s[k]]
    BY <1>1, <2>1
  <2> QED BY <2>5, <2>6, <2>7 DEF x
<1> QED
  BY <1>1, <1>2, <1>3, <1>4

KeepOne(kept, W, e) == IF e \in W THEN Append(kept, e) ELSE kept

\* h gives what is kept of the first elements of s, up to each position.
KeepsOneByOne(h, s, W, A) ==
    /\ h[0] = <<>> /\ h[Len(s)] = Kept(s, W)
    /\ \A i \in 1..Len(s) : h[i] = KeepOne(h[i - 1], W, s[i])
    /\ \A i \in 0..Len(s) : h[i] \in Seq(A)

\* The fold of Kept, one element after the other.
LEMMA KeptByElement ==
    ASSUME NEW A, NEW s \in Seq(A), NEW W
    PROVE  \E h : KeepsOneByOne(h, s, W, A)
<1> DEFINE n == Len(s)
           B == Seq(A)
           F == [p \in (1..n) \X B |-> KeepOne(p[2], W, s[p[1]])]
           Iter(g) == g = [t \in SUBSET (1..n) |->
                             IF t = {} THEN <<>> ELSE KeepOne(g[t \ {Max(t)}], W, s[Max(t)])]
<1>0. n \in Nat /\ DOMAIN s = 1..n /\ \A i \in 1..n : s[i] \in A
  BY LenProperties
<1>1. Kept(s, W) = (CHOOSE g : Iter(g))[1..n]
  BY <1>0 DEF Kept, FoldLeft, MapThenFoldSet, KeepOne
<1>2. \A i \in 1..n, a \in B : F[<<i, a>>] = KeepOne(a, W, s[i]) /\ KeepOne(a, W, s[i]) \in B
  BY <1>0 DEF KeepOne
<1>3. PICK g : FoldsUp(g, F, <<>>, n)
  BY <1>0, FoldsExist
<1>4. \A t \in SUBSET (1..n) : g[t] \in B
  <2>1. <<>> \in B
    OBVIOUS
  <2> HIDE DEF F, B
  <2>2. \A i \in 1..n, a \in B : F[<<i, a>>] \in B
    BY <1>2
  <2> HIDE DEF n
  <2> QED BY <1>0, <1>3, <2>1, <2>2, FoldsWithin
<1>5. Iter(g)
  <2>1. ASSUME NEW t \in SUBSET (1..n), t # {}
        PROVE  F[<<Max(t), g[t \ {Max(t)}]>>] = KeepOne(g[t \ {Max(t)}], W, s[Max(t)])
    <3>1. Max(t) \in 1..n
      BY <1>0, <2>1, LastPosition
    <3>2. g[t \ {Max(t)}] \in B
      BY <1>4
    <3> HIDE DEF F, B, n
    <3> QED BY <1>2, <3>1, <3>2
  <2> HIDE DEF F, B, n
  <2> QED BY <1>3, <2>1 DEF FoldsUp
<1>6. PICK f : Iter(f) /\ Kept(s, W) = f[1..n]
  <2> HIDE DEF Iter
  <2> QED BY <1>1, <1>5
<1> DEFINE h == [i \in 0..n |-> f[1..i]]
<1> HIDE DEF n, F
<1>7. h[0] = <<>> /\ h[n] = Kept(s, W)
  <2>1. 1..0 = {} /\ f[{}] = <<>>
    BY <1>6
  <2>2. f[1..0] = <<>>
    BY <2>1
  <2>3. 0 \in 0..n /\ n \in 0..n
    BY <1>0
  <2> QED BY <1>6, <2>2, <2>3
<1>8. ASSUME NEW i \in 1..n PROVE h[i] = KeepOne(h[i - 1], W, s[i])
  <2>1. Max(1..i) = i /\ (1..i) \ {Max(1..i)} = 1..(i - 1) /\ 1..i # {} /\ 1..i \in SUBSET (1..n)
    BY <1>0, MaxOfPrefix
  <2>2. f[1..i] = KeepOne(f[1..(i - 1)], W, s[i])
    BY <1>6, <2>1
  <2> QED BY <1>0, <2>2
<1>9. \A i \in 0..n : h[i] \in B
  <2> DEFINE T == {i \in 0..n : h[i] \in B}
  <2>0. <<>> \in B /\ 0 \in 0..n
    BY <1>0
  <2> HIDE DEF h, B
  <2>1. 0 \in T
    BY <1>7, <2>0
  <2>2. ASSUME NEW i \in 1..n, i - 1 \in T PROVE i \in T
    <3>1. i \in 0..n /\ h[i - 1] \in B
      BY <1>0, <2>2
    <3>2. h[i] \in B
      BY <1>2, <1>8, <3>1
    <3> QED BY <3>1, <3>2
  <2> HIDE DEF T
  <2>3. \A i \in 0..n : i \in T
    BY <1>0, <2>1, <2>2, UpTo
  <2> QED BY <2>3 DEF T
<1> HIDE DEF h
<1> QED
  BY <1>7, <1>8, <1>9 DEF n, KeepsOneByOne

\* An element more is kept or not.
LEMMA KeptAppend ==
    ASSUME NEW A, NEW s \in Seq(A), NEW e \in A, NEW W
    PROVE  /\ Kept(<<>>, W) = <<>> /\ Kept(s, W) \in Seq(A)
           /\ Kept(Append(s, e), W) = KeepOne(Kept(s, W), W, e)
<1> DEFINE n == Len(s)
           t == Append(s, e)
<1>1. n \in Nat /\ t \in Seq(A) /\ Len(t) = n + 1 /\ t[n + 1] = e /\ \A i \in 1..n : t[i] = s[i]
  BY LenProperties
<1>11. PICK h : KeepsOneByOne(h, s, W, A)
  BY KeptByElement
<1>2. /\ h[0] = <<>> /\ h[Len(s)] = Kept(s, W)
      /\ \A i \in 1..Len(s) : h[i] = KeepOne(h[i - 1], W, s[i])
      /\ \A i \in 0..Len(s) : h[i] \in Seq(A)
  BY <1>11 DEF KeepsOneByOne
<1>12. PICK g : KeepsOneByOne(g, t, W, A)
  <2> HIDE DEF t
  <2> QED BY <1>1, KeptByElement
<1>3. /\ g[0] = <<>> /\ g[n + 1] = Kept(t, W)
      /\ \A i \in 1..(n + 1) : g[i] = KeepOne(g[i - 1], W, t[i])
  <2> HIDE DEF t, n
  <2> QED BY <1>1, <1>12 DEF KeepsOneByOne
<1>4. Kept(<<>>, W) = <<>>
  <2>1. <<>> \in Seq(A) /\ Len(<<>>) = 0
    OBVIOUS
  <2>2. PICK f : KeepsOneByOne(f, <<>>, W, A)
    BY <2>1, KeptByElement
  <2> QED BY <2>1, <2>2 DEF KeepsOneByOne
<1> DEFINE T == {i \in 0..n : g[i] = h[i]}
<1> HIDE DEF n, t
<1>5. 0 \in T
  BY <1>1, <1>2, <1>3
<1>6. ASSUME NEW i \in 1..n, i - 1 \in T PROVE i \in T
  <2>1. i \in 1..(n + 1) /\ i \in 0..n /\ g[i - 1] = h[i - 1] /\ t[i] = s[i]
    BY <1>1, <1>6
  <2>2. g[i] = KeepOne(g[i - 1], W, t[i]) /\ h[i] = KeepOne(h[i - 1], W, s[i])
    BY <1>2, <1>3, <2>1 DEF n
  <2> QED BY <2>1, <2>2
<1> HIDE DEF T
<1>7. \A i \in 0..n : i \in T
  BY <1>1, <1>5, <1>6, UpTo
<1>10. h[n] = Kept(s, W) /\ h[n] \in Seq(A)
  <2>1. n \in 0..n
    BY <1>1
  <2> QED BY <1>2, <2>1 DEF n
<1>8. g[n] = h[n] /\ n + 1 \in 1..(n + 1) /\ (n + 1) - 1 = n /\ n \in 0..n
  <2>1. n \in 0..n
    BY <1>1
  <2>2. g[n] = h[n]
    BY <1>7, <2>1 DEF T
  <2> QED BY <1>1, <2>1, <2>2
<1>9. g[n + 1] = KeepOne(g[(n + 1) - 1], W, t[n + 1])
  BY <1>3, <1>8
<1> QED
  BY <1>1, <1>3, <1>4, <1>8, <1>9, <1>10 DEF t

\* Of no elements none are kept.
LEMMA KeptNothing ==
    ASSUME NEW W
    PROVE  Kept(<<>>, W) = <<>>
<1>1. \A A : <<>> \in Seq(A)
  OBVIOUS
<1> QED
  BY <1>1, KeptAppend

\* An element more in a sequence.
LEMMA RangeGrows ==
    ASSUME NEW A, NEW s \in Seq(A), NEW e \in A
    PROVE  Range(<<>>) = {} /\ Range(Append(s, e)) = Range(s) \union {e}
<1>1. /\ Len(s) \in Nat /\ DOMAIN s = 1..Len(s)
      /\ DOMAIN Append(s, e) = 1..(Len(s) + 1)
      /\ \A i \in 1..(Len(s) + 1) : Append(s, e)[i] = IF i <= Len(s) THEN s[i] ELSE e
  BY LenProperties
<1>2. DOMAIN <<>> = {}
  OBVIOUS
<1>3. Range(<<>>) = {}
  BY <1>2 DEF Range
<1>4. Range(Append(s, e)) \subseteq Range(s) \union {e}
  BY <1>1 DEF Range
<1>5. ASSUME NEW x \in Range(s) PROVE x \in Range(Append(s, e))
  <2>1. PICK i \in 1..Len(s) : x = s[i]
    BY <1>1 DEF Range
  <2>2. i \in 1..(Len(s) + 1) /\ Append(s, e)[i] = x
    BY <1>1, <2>1
  <2> QED BY <1>1, <2>2 DEF Range
<1>6. e \in Range(Append(s, e))
  <2>1. Len(s) + 1 \in 1..(Len(s) + 1) /\ Append(s, e)[Len(s) + 1] = e
    BY <1>1
  <2> QED BY <1>1, <2>1 DEF Range
<1> QED
  BY <1>3, <1>4, <1>5, <1>6

\* Concatenation with an element more.
LEMMA ConcatAppends ==
    ASSUME NEW A, NEW s \in Seq(A), NEW t \in Seq(A), NEW e \in A
    PROVE  s \o Append(t, e) = Append(s \o t, e)
<1>1. Append(t, e) \in Seq(A) /\ s \o t \in Seq(A)
  OBVIOUS
<1>2. s \o Append(t, e) \in Seq(A) /\ Append(s \o t, e) \in Seq(A)
  BY <1>1
<1>3. Len(s) \in Nat /\ Len(t) \in Nat
  BY LenProperties
<1>4. Len(s \o Append(t, e)) = Len(s) + Len(t) + 1 /\ Len(Append(s \o t, e)) = Len(s) + Len(t) + 1
  BY <1>1, <1>3
<1>5. ASSUME NEW i \in 1..(Len(s) + Len(t) + 1) PROVE (s \o Append(t, e))[i] = Append(s \o t, e)[i]
  BY <1>1, <1>3
<1> QED
  BY <1>2, <1>4, <1>5, SeqEqual

\* A sequence with no elements.
LEMMA RangeEmpty ==
    ASSUME NEW A, NEW s \in Seq(A), Range(s) = {}
    PROVE  s = <<>>
<1>1. Len(s) \in Nat /\ DOMAIN s = 1..Len(s)
  BY LenProperties
<1>2. 1 \notin 1..Len(s)
  BY <1>1 DEF Range
<1>3. Len(s) = 0
  BY <1>1, <1>2
<1> QED
  BY <1>3, EmptySeq

\* The two parts of a concatenation.
LEMMA ConcatParts ==
    ASSUME NEW A, NEW s \in Seq(A), NEW t \in Seq(A)
    PROVE  /\ Len(s) \in 0..Len(s \o t)
           /\ SubSeq(s \o t, 1, Len(s)) = s
           /\ SubSeq(s \o t, Len(s) + 1, Len(s \o t)) = t
<1> DEFINE u == s \o t
           m == Len(s)
           n == Len(t)
<1>1. /\ m \in Nat /\ n \in Nat /\ u \in Seq(A) /\ Len(u) = m + n
      /\ \A i \in 1..(m + n) : u[i] = IF i <= m THEN s[i] ELSE t[i - m]
  BY ConcatProperties, LenProperties
<1>2. \A i \in 1..(m + n) : u[i] \in A
  BY <1>1, LenProperties
<1> HIDE DEF u, m, n
<1>3. SubSeq(u, 1, m) = s
  <2>1. 1 \in Int /\ m \in Int /\ \A i \in 1..m : u[i] \in A
    BY <1>1, <1>2
  <2>2. SubSeq(u, 1, m) \in Seq(A) /\ Len(SubSeq(u, 1, m)) = (IF 1 <= m THEN m - 1 + 1 ELSE 0)
        /\ \A i \in 1..(m - 1 + 1) : SubSeq(u, 1, m)[i] = u[1 + i - 1]
    BY <2>1, SubSeqProperties
  <2>3. Len(SubSeq(u, 1, m)) = m /\ \A i \in 1..m : SubSeq(u, 1, m)[i] = s[i]
    BY <1>1, <2>2
  <2> QED BY <2>2, <2>3, SeqEqual DEF m
<1>4. SubSeq(u, m + 1, m + n) = t
  <2>1. m + 1 \in Int /\ m + n \in Int /\ \A i \in (m + 1)..(m + n) : u[i] \in A
    BY <1>1, <1>2
  <2>2. /\ SubSeq(u, m + 1, m + n) \in Seq(A)
        /\ Len(SubSeq(u, m + 1, m + n)) = (IF m + 1 <= m + n THEN (m + n) - (m + 1) + 1 ELSE 0)
        /\ \A i \in 1..((m + n) - (m + 1) + 1) : SubSeq(u, m + 1, m + n)[i] = u[(m + 1) + i - 1]
    BY <2>1, SubSeqProperties
  <2>4. (m + n) - (m + 1) + 1 = n /\ (m + 1 <= m + n <=> 1 <= n)
    BY <1>1
  <2>5. Len(SubSeq(u, m + 1, m + n)) = n
    BY <1>1, <2>2, <2>4
  <2>3. ASSUME NEW i \in 1..n PROVE SubSeq(u, m + 1, m + n)[i] = t[i]
    <3>1. SubSeq(u, m + 1, m + n)[i] = u[(m + 1) + i - 1]
      BY <2>2, <2>4
    <3>2. (m + 1) + i - 1 = m + i /\ m + i \in 1..(m + n) /\ ~(m + i <= m) /\ (m + i) - m = i
      BY <1>1
    <3>3. u[m + i] = t[(m + i) - m]
      BY <1>1, <3>2
    <3> QED BY <3>1, <3>2, <3>3
  <2> QED BY <2>2, <2>3, <2>5, SeqEqual DEF n
<1>5. m \in 0..(m + n)
  BY <1>1
<1> QED
  BY <1>1, <1>3, <1>4, <1>5 DEF u, m, n

\* What holds of the empty sequence and passes to every sequence with one
\* element more holds of all sequences.
LEMMA ByAppending ==
    ASSUME NEW A, NEW S, <<>> \in S,
           \A s \in Seq(A), e \in A : s \in S => Append(s, e) \in S
    PROVE  \A s \in Seq(A) : s \in S
<1> SUFFICES ASSUME NEW s \in Seq(A) PROVE s \in S
  OBVIOUS
<1> DEFINE T == {i \in 0..Len(s) : SubSeq(s, 1, i) \in S}
<1>1. Len(s) \in Nat /\ \A i \in 1..Len(s) : s[i] \in A
  BY LenProperties
<1>2. 0 \in T
  <2>1. SubSeq(s, 1, 0) = <<>>
    BY PrefixesGrow
  <2>2. 0 \in 0..Len(s)
    BY <1>1
  <2>3. SubSeq(s, 1, 0) \in S
    BY <2>1
  <2> QED BY <2>2, <2>3
<1>3. ASSUME NEW i \in 1..Len(s), i - 1 \in T PROVE i \in T
  <2> DEFINE x == SubSeq(s, 1, i - 1)
  <2>1. x \in Seq(A) /\ SubSeq(s, 1, i) = Append(x, s[i])
    <3>1. i - 1 \in 0..Len(s)
      BY <1>1
    <3> QED BY <3>1, PrefixesGrow
  <2>2. x \in S /\ i \in 0..Len(s)
    BY <1>1, <1>3
  <2> HIDE DEF x
  <2>3. Append(x, s[i]) \in S
    BY <1>1, <2>1, <2>2
  <2> QED BY <2>1, <2>2, <2>3
<1> HIDE DEF T
<1>4. \A i \in 0..Len(s) : i \in T
  BY <1>1, <1>2, <1>3, UpTo
<1>5. Len(s) \in T
  BY <1>1, <1>4
<1> QED
  BY <1>5, PrefixesGrow DEF T

\* What is kept are the elements that are wanted.
LEMMA KeptMembers ==
    ASSUME NEW A, NEW s \in Seq(A), NEW W
    PROVE  Kept(s, W) \in Seq(A) /\ Range(Kept(s, W)) = Range(s) \intersect W
<1> DEFINE S == {t \in Seq(A) : Kept(t, W) \in Seq(A) /\ Range(Kept(t, W)) = Range(t) \intersect W}
<1>1. <<>> \in S
  <2>1. Kept(<<>>, W) = <<>> /\ <<>> \in Seq(A)
    BY KeptNothing
  <2>2. Range(<<>>) = {}
    BY RangeGrows
  <2> QED BY <2>1, <2>2
<1>2. ASSUME NEW t \in Seq(A), NEW e \in A, t \in S PROVE Append(t, e) \in S
  <2>1. Kept(Append(t, e), W) = KeepOne(Kept(t, W), W, e) /\ Append(t, e) \in Seq(A)
    BY KeptAppend
  <2>2. Kept(t, W) \in Seq(A) /\ Range(Kept(t, W)) = Range(t) \intersect W
    BY <1>2
  <2>3. Range(Append(t, e)) = Range(t) \union {e}
        /\ Range(Append(Kept(t, W), e)) = Range(Kept(t, W)) \union {e}
    BY <2>2, RangeGrows
  <2>4. CASE e \in W
    <3>1. Kept(Append(t, e), W) = Append(Kept(t, W), e)
      BY <2>1, <2>4 DEF KeepOne
    <3>2. Range(Kept(Append(t, e), W)) = Range(Append(t, e)) \intersect W
      BY <2>2, <2>3, <2>4, <3>1
    <3>3. Append(Kept(t, W), e) \in Seq(A)
      BY <2>2
    <3> QED BY <2>1, <3>1, <3>2, <3>3
  <2>5. CASE e \notin W
    <3>1. Kept(Append(t, e), W) = Kept(t, W)
      BY <2>1, <2>5 DEF KeepOne
    <3> QED BY <2>1, <2>2, <2>3, <2>5, <3>1
  <2> QED BY <2>4, <2>5
<1> HIDE DEF S
<1>3. s \in S
  BY <1>1, <1>2, ByAppending
<1> QED
  BY <1>3 DEF S

\* The elements of s stand in the order R, a set of pairs.
Ordered(s, R) == \A i, j \in 1..Len(s) : i < j => <<s[i], s[j]>> \in R

\* An order with one element more: all others are before it.
LEMMA OrderGrows ==
    ASSUME NEW A, NEW s \in Seq(A), NEW e \in A, NEW R
    PROVE  Ordered(Append(s, e), R) <=> Ordered(s, R) /\ \A x \in Range(s) : <<x, e>> \in R
<1> DEFINE t == Append(s, e)
           n == Len(s)
<1>1. /\ n \in Nat /\ DOMAIN s = 1..n /\ Len(t) = n + 1
      /\ \A i \in 1..n : t[i] = s[i] /\ i \in 1..(n + 1)
      /\ t[n + 1] = e /\ n + 1 \in 1..(n + 1)
  BY LenProperties
<1> HIDE DEF t, n
<1>2. ASSUME Ordered(t, R) PROVE Ordered(s, R) /\ \A x \in Range(s) : <<x, e>> \in R
  <2>1. \A i, j \in 1..(n + 1) : i < j => <<t[i], t[j]>> \in R
    BY <1>1, <1>2 DEF Ordered
  <2>2. \A i, j \in 1..n : i < j => <<s[i], s[j]>> \in R
    BY <1>1, <2>1
  <2>3. \A i \in 1..n : <<s[i], e>> \in R
    <3>1. \A i \in 1..n : i < n + 1
      BY <1>1
    <3> QED BY <1>1, <2>1, <3>1
  <2> QED BY <1>1, <2>2, <2>3 DEF Ordered, Range, n
<1>3. ASSUME Ordered(s, R), \A x \in Range(s) : <<x, e>> \in R PROVE Ordered(t, R)
  <2>1. \A i, j \in 1..n : i < j => <<s[i], s[j]>> \in R
    BY <1>3 DEF Ordered, n
  <2>2. \A i \in 1..n : <<s[i], e>> \in R
    BY <1>1, <1>3 DEF Range
  <2>3. ASSUME NEW i \in 1..(n + 1), NEW j \in 1..(n + 1), i < j PROVE <<t[i], t[j]>> \in R
    <3>1. i \in 1..n /\ (j \in 1..n \/ j = n + 1)
      BY <1>1, <2>3
    <3>2. CASE j \in 1..n
      BY <1>1, <2>1, <2>3, <3>1, <3>2
    <3>3. CASE j = n + 1
      BY <1>1, <2>2, <3>1, <3>3
    <3> QED BY <3>1, <3>2, <3>3
  <2> QED BY <1>1, <2>3 DEF Ordered
<1> QED
  BY <1>2, <1>3 DEF t

\* What is kept stays in its order.
LEMMA KeptOrdered ==
    ASSUME NEW A, NEW s \in Seq(A), NEW W, NEW R, Ordered(s, R)
    PROVE  Ordered(Kept(s, W), R)
<1> DEFINE S == {t \in Seq(A) : Ordered(t, R) => Ordered(Kept(t, W), R)}
<1>1. <<>> \in S
  <2>1. Kept(<<>>, W) = <<>> /\ <<>> \in Seq(A)
    BY KeptNothing
  <2> QED BY <2>1
<1>2. ASSUME NEW t \in Seq(A), NEW e \in A, t \in S PROVE Append(t, e) \in S
  <2> DEFINE k == Kept(t, W)
  <2>0. Append(t, e) \in Seq(A)
    OBVIOUS
  <2> SUFFICES ASSUME Ordered(Append(t, e), R) PROVE Ordered(Kept(Append(t, e), W), R)
    BY <2>0
  <2>1. Ordered(t, R) /\ \A x \in Range(t) : <<x, e>> \in R
    BY OrderGrows
  <2>2. k \in Seq(A) /\ Ordered(k, R) /\ Range(k) \subseteq Range(t)
    BY <1>2, <2>1, KeptMembers
  <2>3. Kept(Append(t, e), W) = KeepOne(k, W, e)
    BY KeptAppend
  <2> HIDE DEF k
  <2>4. CASE e \in W
    <3>1. Ordered(Append(k, e), R)
      BY <2>1, <2>2, OrderGrows
    <3> QED BY <2>3, <2>4, <3>1 DEF KeepOne
  <2>5. CASE e \notin W
    BY <2>2, <2>3, <2>5 DEF KeepOne
  <2> QED BY <2>4, <2>5
<1> HIDE DEF S
<1>3. s \in S
  BY <1>1, <1>2, ByAppending
<1> QED
  BY <1>3 DEF S

\* A filter of two sequences, one after the other.
LEMMA KeptConcat ==
    ASSUME NEW A, NEW s \in Seq(A), NEW t \in Seq(A), NEW W
    PROVE  Kept(s \o t, W) = Kept(s, W) \o Kept(t, W)
<1> DEFINE S == {u \in Seq(A) : Kept(s \o u, W) = Kept(s, W) \o Kept(u, W)}
           k == Kept(s, W)
<1>0. k \in Seq(A)
  BY KeptMembers
<1> HIDE DEF k
<1>1. <<>> \in S
  <2>1. Kept(<<>>, W) = <<>> /\ <<>> \in Seq(A)
    BY KeptNothing
  <2>2. s \o <<>> = s /\ k \o <<>> = k
    BY <1>0, ConcatEmptySeq
  <2> QED BY <2>1, <2>2 DEF k
<1>2. ASSUME NEW u \in Seq(A), NEW e \in A, u \in S PROVE Append(u, e) \in S
  <2> DEFINE v == Kept(u, W)
             w == s \o u
  <2>1. w \in Seq(A) /\ v \in Seq(A) /\ Append(u, e) \in Seq(A)
    BY ConcatProperties, KeptMembers
  <2>2. Kept(w, W) = k \o v
    BY <1>2 DEF k
  <2>3. Kept(Append(u, e), W) = KeepOne(v, W, e)
    BY KeptAppend
  <2>4. s \o Append(u, e) = Append(w, e)
    BY ConcatAppends
  <2> HIDE DEF v, w
  <2>5. Kept(Append(w, e), W) = KeepOne(k \o v, W, e)
    <3>1. Kept(Append(w, e), W) = KeepOne(Kept(w, W), W, e)
      BY <2>1, KeptAppend
    <3> QED BY <2>2, <3>1
  <2>6. KeepOne(k \o v, W, e) = k \o KeepOne(v, W, e)
    <3>1. k \o Append(v, e) = Append(k \o v, e)
      BY <1>0, <2>1, ConcatAppends
    <3> QED BY <3>1 DEF KeepOne
  <2>7. Kept(s \o Append(u, e), W) = k \o Kept(Append(u, e), W)
    BY <2>3, <2>4, <2>5, <2>6
  <2> QED BY <2>1, <2>7 DEF k
<1> HIDE DEF S
<1>3. t \in S
  BY <1>1, <1>2, ByAppending
<1> QED
  BY <1>3 DEF S, k

\* A filter of what is kept already.
LEMMA KeptTwice ==
    ASSUME NEW A, NEW s \in Seq(A), NEW V, NEW W
    PROVE  Kept(Kept(s, V), W) = Kept(s, V \intersect W)
<1> DEFINE X == V \intersect W
           S == {t \in Seq(A) : Kept(Kept(t, V), W) = Kept(t, X)}
<1>1. <<>> \in S
  <2>1. Kept(<<>>, V) = <<>> /\ Kept(<<>>, W) = <<>> /\ Kept(<<>>, X) = <<>> /\ <<>> \in Seq(A)
    BY KeptNothing
  <2> QED BY <2>1
<1>2. ASSUME NEW t \in Seq(A), NEW e \in A, t \in S PROVE Append(t, e) \in S
  <2> DEFINE k == Kept(t, V)
  <2>1. k \in Seq(A) /\ Append(t, e) \in Seq(A)
    BY KeptMembers
  <2>2. Kept(k, W) = Kept(t, X)
    BY <1>2
  <2>3. Kept(Append(t, e), V) = KeepOne(k, V, e) /\ Kept(Append(t, e), X) = KeepOne(Kept(t, X), X, e)
    <3> HIDE DEF X
    <3> QED BY KeptAppend
  <2> HIDE DEF k
  <2>4. Kept(Append(k, e), W) = KeepOne(Kept(k, W), W, e)
    BY <2>1, KeptAppend
  <2>5. CASE e \in V
    <3>1. Kept(Kept(Append(t, e), V), W) = KeepOne(Kept(t, X), W, e)
      BY <2>2, <2>3, <2>4, <2>5 DEF KeepOne
    <3>2. e \in X <=> e \in W
      BY <2>5
    <3> HIDE DEF X
    <3>3. Kept(Kept(Append(t, e), V), W) = Kept(Append(t, e), X)
      BY <2>3, <3>1, <3>2 DEF KeepOne
    <3> QED BY <2>1, <3>3
  <2>6. CASE e \notin V
    <3>1. e \notin X
      BY <2>6
    <3> HIDE DEF X
    <3>2. Kept(Kept(Append(t, e), V), W) = Kept(Append(t, e), X)
      BY <2>2, <2>3, <2>6, <3>1 DEF KeepOne
    <3> QED BY <2>1, <3>2
  <2> QED BY <2>5, <2>6
<1> HIDE DEF S
<1>3. s \in S
  BY <1>1, <1>2, ByAppending
<1> QED
  BY <1>3 DEF S

-----------------------------------------------------------------------------
(* Sequences put together *)

\* f puts the first sequences of seqs together, up to each.
Flattens(f, seqs) ==
    f = [i \in 1..Len(seqs) |-> IF i = 1 THEN seqs[i] ELSE f[i - 1] \o seqs[i]]

\* What is put together is there, and is a sequence.
LEMMA FlattensExist ==
    ASSUME NEW A, NEW seqs \in Seq(Seq(A))
    PROVE  \E f : Flattens(f, seqs) /\ \A i \in 1..Len(seqs) : f[i] \in Seq(A)
<1> DEFINE n == Len(seqs)
           B == Seq(A)
           Rec(f, k) == \A i \in 1..k : f[i] \in B /\ f[i] = IF i = 1 THEN seqs[i] ELSE f[i - 1] \o seqs[i]
           Good == {k \in Nat : \E f : Rec(f, k)}
<1>1. n \in Nat /\ \A i \in 1..n : seqs[i] \in B
  BY LenProperties
<1>2. \A x, y \in B : x \o y \in B
  BY ConcatProperties
<1> HIDE DEF B, n
<1>3. 0 \in Good
  <2>1. 1..0 = {}
    OBVIOUS
  <2>2. Rec(<<>>, 0)
    BY <2>1
  <2> HIDE DEF Rec
  <2> QED BY <2>2
<1>4. ASSUME NEW k \in 1..n, k - 1 \in Good PROVE k \in Good
  <2>1. PICK f : Rec(f, k - 1)
    BY <1>4
  <2> DEFINE g == [i \in 1..k |-> IF i < k THEN f[i] ELSE IF k = 1 THEN seqs[k] ELSE f[k - 1] \o seqs[k]]
  <2>2. ASSUME NEW i \in 1..k
        PROVE  g[i] \in B /\ g[i] = IF i = 1 THEN seqs[i] ELSE g[i - 1] \o seqs[i]
    <3>0. k \in Nat /\ i \in 1..n /\ (i # 1 => i - 1 \in 1..(k - 1) /\ i - 1 < k /\ i - 1 \in 1..k)
      BY <1>1, <1>4
    <3>1. CASE i < k
      <4>1. i \in 1..(k - 1)
        BY <3>0, <3>1
      <4>2. g[i] = f[i] /\ (i # 1 => g[i - 1] = f[i - 1])
        BY <3>0, <3>1
      <4>3. f[i] \in B /\ f[i] = IF i = 1 THEN seqs[i] ELSE f[i - 1] \o seqs[i]
        BY <2>1, <4>1
      <4> HIDE DEF g
      <4> QED BY <4>2, <4>3
    <3>2. CASE i = k
      <4>1. g[k] = IF k = 1 THEN seqs[k] ELSE f[k - 1] \o seqs[k]
        BY <3>0, <3>2
      <4>2. k # 1 => g[k - 1] = f[k - 1] /\ f[k - 1] \in B
        BY <2>1, <3>0, <3>2
      <4>3. seqs[k] \in B
        BY <1>1
      <4> HIDE DEF g
      <4> QED BY <1>2, <3>2, <4>1, <4>2, <4>3
    <3> QED BY <3>0, <3>1, <3>2
  <2> HIDE DEF g
  <2>3. Rec(g, k) /\ k \in Nat
    BY <1>1, <2>2
  <2> HIDE DEF Rec
  <2> QED BY <2>3
<1>5. n \in Good
  <2> HIDE DEF Good
  <2>1. \A i \in 0..n : i \in Good
    BY <1>1, <1>3, <1>4, UpTo
  <2>2. n \in 0..n
    BY <1>1
  <2> QED BY <2>1, <2>2
<1>6. PICK f : Rec(f, n)
  BY <1>5
<1> DEFINE g == [i \in 1..n |-> f[i]]
<1>7. \A i \in 1..n : g[i] \in B /\ g[i] = IF i = 1 THEN seqs[i] ELSE g[i - 1] \o seqs[i]
  <2>1. \A i \in 1..n : i # 1 => i - 1 \in 1..n
    BY <1>1
  <2> QED BY <1>6, <2>1
<1>8. g = [i \in 1..n |-> g[i]]
  OBVIOUS
<1> HIDE DEF g
<1>9. g = [i \in 1..n |-> IF i = 1 THEN seqs[i] ELSE g[i - 1] \o seqs[i]]
  BY <1>7, <1>8
<1> QED
  BY <1>7, <1>9 DEF Flattens, n, B

\* One sequence more.
LEMMA FlattenAppend ==
    ASSUME NEW A, NEW seqs \in Seq(Seq(A)), NEW x \in Seq(A)
    PROVE  /\ FlattenSeq(<<>>) = <<>> /\ FlattenSeq(seqs) \in Seq(A)
           /\ FlattenSeq(Append(seqs, x)) = FlattenSeq(seqs) \o x
<1> DEFINE n == Len(seqs)
           t == Append(seqs, x)
<1>0. /\ n \in Nat /\ t \in Seq(Seq(A)) /\ Len(t) = n + 1 /\ t[n + 1] = x
      /\ \A i \in 1..n : t[i] = seqs[i] /\ i \in 1..(n + 1)
  BY LenProperties
<1>1. FlattenSeq(<<>>) = <<>>
  BY DEF FlattenSeq
<1>2. ASSUME NEW s \in Seq(Seq(A)), Len(s) # 0
      PROVE  \E f : Flattens(f, s) /\ FlattenSeq(s) = f[Len(s)]
  <2>1. FlattenSeq(s) = (CHOOSE f : Flattens(f, s))[Len(s)]
    BY <1>2 DEF FlattenSeq, Flattens
  <2>2. \E f : Flattens(f, s)
    BY FlattensExist
  <2> QED BY <2>1, <2>2
<1> HIDE DEF t
<1>3. PICK g : Flattens(g, t) /\ FlattenSeq(t) = g[n + 1]
  <2>1. Len(t) # 0
    BY <1>0
  <2> QED BY <1>0, <1>2, <2>1
<1>4. g[n + 1] = IF n + 1 = 1 THEN x ELSE g[n] \o x
  <2>1. n + 1 \in 1..Len(t) /\ (n + 1) - 1 = n
    BY <1>0
  <2> QED BY <1>0, <1>3, <2>1 DEF Flattens
<1>5. CASE n = 0
  <2>1. seqs = <<>>
    BY <1>5, EmptySeq
  <2>2. <<>> \o x = x
    BY ConcatEmptySeq
  <2>3. <<>> \in Seq(A) /\ n + 1 = 1
    BY <1>5
  <2> QED BY <1>1, <1>3, <1>4, <2>1, <2>2, <2>3 DEF t
<1>6. CASE n # 0
  <2>1. PICK f : Flattens(f, seqs) /\ FlattenSeq(seqs) = f[n]
    BY <1>2, <1>6
  <2>2. PICK e : Flattens(e, seqs) /\ \A i \in 1..n : e[i] \in Seq(A)
    BY FlattensExist
  <2> DEFINE T == {i \in 0..n : i # 0 => f[i] = g[i] /\ f[i] = e[i]}
  <2>3. 0 \in T
    BY <1>0
  <2>4. ASSUME NEW i \in 1..n, i - 1 \in T PROVE i \in T
    <3>1. i \in 1..Len(t) /\ i \in 0..n /\ t[i] = seqs[i]
      BY <1>0
    <3>2. g[i] = IF i = 1 THEN seqs[i] ELSE g[i - 1] \o seqs[i]
      BY <1>3, <3>1 DEF Flattens
    <3>3. f[i] = IF i = 1 THEN seqs[i] ELSE f[i - 1] \o seqs[i]
      BY <2>1 DEF Flattens
    <3>4. e[i] = IF i = 1 THEN seqs[i] ELSE e[i - 1] \o seqs[i]
      BY <2>2 DEF Flattens
    <3>5. i # 1 => f[i - 1] = g[i - 1] /\ f[i - 1] = e[i - 1]
      BY <1>0, <2>4
    <3>6. f[i] = g[i] /\ f[i] = e[i]
      BY <3>2, <3>3, <3>4, <3>5
    <3> QED BY <3>1, <3>6
  <2> HIDE DEF T, n
  <2>5. \A i \in 0..n : i \in T
    BY <1>0, <2>3, <2>4, UpTo
  <2>6. n \in T /\ n \in 1..n
    BY <1>0, <1>6, <2>5
  <2>7. f[n] = g[n] /\ f[n] \in Seq(A)
    BY <1>6, <2>2, <2>6 DEF T
  <2>8. n + 1 # 1
    BY <1>0, <1>6
  <2> QED BY <1>1, <1>3, <1>4, <2>1, <2>7, <2>8 DEF t
<1> QED
  BY <1>5, <1>6

-----------------------------------------------------------------------------
(* Places of elements in several sequences *)

\* Each of S stands in one place of the sequences f, and nothing else does.
Placed(f, S) ==
    /\ \A r \in DOMAIN f : \A k \in DOMAIN f[r] : f[r][k] \in S
    /\ \A p \in S : \E r \in DOMAIN f : \E k \in DOMAIN f[r] : f[r][k] = p
    /\ \A r, t \in DOMAIN f : \A k \in DOMAIN f[r] : \A l \in DOMAIN f[t] :
           f[r][k] = f[t][l] => r = t /\ k = l

\* The places of p, counted.
PlacesOf(f, p) == UNION {{<<r, k>> : k \in {j \in DOMAIN f[r] : f[r][j] = p}} : r \in DOMAIN f}

LEMMA PlacesCounted ==
    ASSUME NEW f, NEW S, Placed(f, S), NEW p
    PROVE  Cardinality(PlacesOf(f, p)) = IF p \in S THEN 1 ELSE 0
<1>1. \A q \in PlacesOf(f, p) : \E r \in DOMAIN f : \E k \in DOMAIN f[r] : q = <<r, k>> /\ f[r][k] = p
  BY DEF PlacesOf
<1>2. \A r \in DOMAIN f : \A k \in DOMAIN f[r] : f[r][k] = p => <<r, k>> \in PlacesOf(f, p)
  BY DEF PlacesOf
<1>3. CASE p \in S
  <2>1. PICK r \in DOMAIN f : \E k \in DOMAIN f[r] : f[r][k] = p
    BY <1>3 DEF Placed
  <2>2. PICK k \in DOMAIN f[r] : f[r][k] = p
    BY <2>1
  <2>3. PlacesOf(f, p) = {<<r, k>>}
    BY <1>1, <1>2, <2>2 DEF Placed
  <2> QED BY <1>3, <2>3, FS_Singleton
<1>4. CASE p \notin S
  <2>1. PlacesOf(f, p) = {}
    BY <1>1, <1>4 DEF Placed
  <2> QED BY <1>4, <2>1, FS_EmptySet
<1> QED
  BY <1>3, <1>4

\* One empty sequence more.
LEMMA PlacedEmpty ==
    ASSUME NEW f, NEW S, Placed(f, S), NEW r, r \notin DOMAIN f, NEW g,
           DOMAIN g = (DOMAIN f) \union {r}, g[r] = <<>>, \A t \in DOMAIN f : g[t] = f[t]
    PROVE  Placed(g, S)
<1>1. DOMAIN g[r] = {}
  OBVIOUS
<1> QED
  BY <1>1 DEF Placed

\* One of the sequences gets new elements at its end.
LEMMA PlacedMany ==
    ASSUME NEW f, NEW S, Placed(f, S), NEW r \in DOMAIN f, NEW A, f[r] \in Seq(A),
           NEW u \in Seq(A), Range(u) \intersect S = {},
           \A i, j \in 1..Len(u) : u[i] = u[j] => i = j,
           NEW g, DOMAIN g = DOMAIN f, g[r] = f[r] \o u,
           \A t \in DOMAIN f : t # r => g[t] = f[t]
    PROVE  Placed(g, S \union Range(u))
<1> DEFINE n == Len(f[r])
           m == Len(u)
<1>1. /\ n \in Nat /\ m \in Nat /\ DOMAIN f[r] = 1..n /\ DOMAIN u = 1..m
      /\ DOMAIN g[r] = 1..(n + m) /\ \A k \in 1..(n + m) : g[r][k] = IF k <= n THEN f[r][k] ELSE u[k - n]
  BY LenProperties, ConcatProperties
<1> HIDE DEF n, m
<1>2. \A k \in 1..n : k \in 1..(n + m) /\ g[r][k] = f[r][k]
  BY <1>1
<1>3. ASSUME NEW j \in 1..m PROVE n + j \in 1..(n + m) /\ g[r][n + j] = u[j]
  <2>1. n + j \in 1..(n + m) /\ ~(n + j <= n) /\ (n + j) - n = j
    BY <1>1
  <2> QED BY <1>1, <2>1
<1>4. \A k \in 1..(n + m) : k \in 1..n \/ (k - n \in 1..m /\ k = n + (k - n) /\ g[r][k] = u[k - n])
  BY <1>1
<1>5. \A j \in 1..m : u[j] \in Range(u) /\ u[j] \notin S
  BY <1>1 DEF Range
<1>6. ASSUME NEW t \in DOMAIN g, NEW k \in DOMAIN g[t]
      PROVE  \/ k \in DOMAIN f[t] /\ g[t][k] = f[t][k]
             \/ t = r /\ k - n \in 1..m /\ k = n + (k - n) /\ g[t][k] = u[k - n]
  <2>1. CASE t = r
    BY <1>1, <1>2, <1>4, <2>1
  <2>2. CASE t # r
    BY <2>2
  <2> QED BY <2>1, <2>2
<1>7. \A t \in DOMAIN g : \A k \in DOMAIN g[t] : g[t][k] \in S \union Range(u)
  BY <1>5, <1>6 DEF Placed
<1>8. ASSUME NEW p \in S \union Range(u) PROVE \E t \in DOMAIN g : \E k \in DOMAIN g[t] : g[t][k] = p
  <2>1. CASE p \in S
    <3>1. PICK t \in DOMAIN f : \E k \in DOMAIN f[t] : f[t][k] = p
      BY <2>1 DEF Placed
    <3>2. PICK k \in DOMAIN f[t] : f[t][k] = p
      BY <3>1
    <3>3. k \in DOMAIN g[t] /\ g[t][k] = p
      BY <1>1, <1>2, <3>2
    <3> QED BY <3>3
  <2>2. CASE p \in Range(u)
    <3>1. PICK j \in 1..m : p = u[j]
      BY <1>1, <2>2 DEF Range
    <3>2. n + j \in DOMAIN g[r] /\ g[r][n + j] = p
      BY <1>1, <1>3, <3>1
    <3>3. r \in DOMAIN g
      OBVIOUS
    <3> QED BY <3>2, <3>3
  <2> QED BY <2>1, <2>2
<1>9. ASSUME NEW t \in DOMAIN g, NEW v \in DOMAIN g, NEW k \in DOMAIN g[t], NEW l \in DOMAIN g[v],
             g[t][k] = g[v][l]
      PROVE  t = v /\ k = l
  <2>1. CASE k \in DOMAIN f[t] /\ g[t][k] = f[t][k] /\ l \in DOMAIN f[v] /\ g[v][l] = f[v][l]
    <3>1. f[t][k] = f[v][l] /\ t \in DOMAIN f /\ v \in DOMAIN f
      BY <1>9, <2>1
    <3> QED BY <2>1, <3>1 DEF Placed
  <2>2. CASE /\ t = r /\ k - n \in 1..m /\ k = n + (k - n) /\ g[t][k] = u[k - n]
             /\ v = r /\ l - n \in 1..m /\ l = n + (l - n) /\ g[v][l] = u[l - n]
    <3>1. k - n = l - n
      BY <1>9, <2>2 DEF m
    <3> QED BY <2>2, <3>1
  <2>3. CASE k \in DOMAIN f[t] /\ g[t][k] = f[t][k] /\ l - n \in 1..m /\ g[v][l] = u[l - n]
    <3>1. f[t][k] \in S
      BY <2>3 DEF Placed
    <3> QED BY <1>5, <1>9, <2>3, <3>1
  <2>4. CASE k - n \in 1..m /\ g[t][k] = u[k - n] /\ l \in DOMAIN f[v] /\ g[v][l] = f[v][l]
    <3>1. f[v][l] \in S
      BY <2>4 DEF Placed
    <3> QED BY <1>5, <1>9, <2>4, <3>1
  <2> QED BY <1>6, <2>1, <2>2, <2>3, <2>4
<1> QED
  BY <1>7, <1>8, <1>9 DEF Placed

\* One of the sequences gets one element.
LEMMA PlacedOne ==
    ASSUME NEW f, NEW S, Placed(f, S), NEW r \in DOMAIN f, NEW A, f[r] \in Seq(A),
           NEW p \in A, p \notin S,
           NEW g, DOMAIN g = DOMAIN f, g[r] = Append(f[r], p),
           \A t \in DOMAIN f : t # r => g[t] = f[t]
    PROVE  Placed(g, S \union {p})
<1> DEFINE u == <<p>>
<1>1. u \in Seq(A) /\ Len(u) = 1 /\ DOMAIN u = {1} /\ u[1] = p
  OBVIOUS
<1>2. g[r] = f[r] \o u
  OBVIOUS
<1> HIDE DEF u
<1>3. Range(u) = {p}
  BY <1>1 DEF Range
<1>4. \A i, j \in 1..Len(u) : u[i] = u[j] => i = j
  BY <1>1
<1>5. Range(u) \intersect S = {}
  BY <1>3
<1>6. Placed(g, S \union Range(u))
  BY <1>1, <1>2, <1>4, <1>5, PlacedMany
<1> QED
  BY <1>3, <1>6

\* Each of the sequences keeps what is wanted.
LEMMA PlacedKept ==
    ASSUME NEW f, NEW S, Placed(f, S), NEW A, \A r \in DOMAIN f : f[r] \in Seq(A), NEW W,
           NEW g, DOMAIN g = DOMAIN f, \A r \in DOMAIN f : g[r] = Kept(f[r], W)
    PROVE  Placed(g, S \intersect W)
<1> DEFINE R == {q \in A \X A : q[1] # q[2]}
<1>1. ASSUME NEW r \in DOMAIN f
      PROVE  /\ {g[r][k] : k \in DOMAIN g[r]} = {f[r][k] : k \in DOMAIN f[r]} \intersect W
             /\ \A k, l \in DOMAIN g[r] : g[r][k] = g[r][l] => k = l
  <2>1. g[r] \in Seq(A) /\ Range(g[r]) = Range(f[r]) \intersect W
    BY KeptMembers
  <2>2. /\ Len(f[r]) \in Nat /\ DOMAIN f[r] = 1..Len(f[r]) /\ \A k \in 1..Len(f[r]) : f[r][k] \in A
        /\ Len(g[r]) \in Nat /\ DOMAIN g[r] = 1..Len(g[r])
    BY <2>1, LenProperties
  <2>3. \A i, j \in 1..Len(f[r]) : i < j => i # j /\ f[r][i] # f[r][j]
    BY <2>2 DEF Placed
  <2>4. Ordered(f[r], R)
    BY <2>2, <2>3 DEF Ordered
  <2> HIDE DEF R
  <2>5. Ordered(g[r], R)
    BY <2>4, KeptOrdered
  <2>6. \A k, l \in DOMAIN g[r] : k < l => g[r][k] # g[r][l]
    BY <2>2, <2>5 DEF Ordered, R
  <2>7. \A k, l \in DOMAIN g[r] : k < l \/ l < k \/ k = l
    BY <2>2
  <2>8. \A k, l \in DOMAIN g[r] : g[r][k] = g[r][l] => k = l
    BY <2>6, <2>7
  <2> QED BY <2>1, <2>8 DEF Range
<1> HIDE DEF R
<1>2. \A r \in DOMAIN f : \A k \in DOMAIN g[r] : g[r][k] \in W /\ \E l \in DOMAIN f[r] : f[r][l] = g[r][k]
  BY <1>1
<1>3. \A r \in DOMAIN g : \A k \in DOMAIN g[r] : g[r][k] \in S \intersect W
  BY <1>2 DEF Placed
<1>4. ASSUME NEW p \in S \intersect W PROVE \E r \in DOMAIN g : \E k \in DOMAIN g[r] : g[r][k] = p
  <2>1. PICK r \in DOMAIN f : \E k \in DOMAIN f[r] : f[r][k] = p
    BY DEF Placed
  <2>2. p \in {f[r][k] : k \in DOMAIN f[r]}
    BY <2>1
  <2> QED BY <1>1, <2>2
<1>5. ASSUME NEW r \in DOMAIN g, NEW t \in DOMAIN g, NEW k \in DOMAIN g[r], NEW l \in DOMAIN g[t],
             g[r][k] = g[t][l]
      PROVE  r = t /\ k = l
  <2>1. r = t
    BY <1>2, <1>5 DEF Placed
  <2> QED BY <1>1, <1>5, <2>1
<1> QED
  BY <1>3, <1>4, <1>5 DEF Placed

==============================================================================
