----------------------------- MODULE FoldProofs ------------------------------
(***************************************************************************)
(* Numbers and folds.  The library's induction theorems take an operator   *)
(* as a parameter; here the least member of a set of numbers stands in for *)
(* induction, and with it the recursive function by which the community    *)
(* modules define their folds is shown to exist.  What a fold computes     *)
(* follows from that, one fold at a time.                                  *)
(***************************************************************************)
EXTENDS Integers, SequencesExt, SequenceTheorems, WellFoundedInduction, TLAPS

(* A non-empty set of numbers has a least one.                             *)
LEMMA LeastNatural ==
  ASSUME NEW T \in SUBSET Nat, T # {}
  PROVE  \E i \in T : \A j \in T : i <= j
<1>1. PICK i \in T : \A j \in T : ~(<<j, i>> \in OpToRel(<, Nat))
  BY NatLessThanWellFounded, WFMin
<1>2. \A j \in T : ~(j < i)
  BY <1>1 DEF OpToRel
<1> QED
  BY <1>2

(* What holds of 0, and of k + 1 if of k, holds up to n.                   *)
LEMMA Upwards ==
  ASSUME NEW n \in Nat, NEW T \in SUBSET (0..n), 0 \in T,
         \A k \in 0..(n-1) : k \in T => k + 1 \in T
  PROVE  T = 0..n
<1> SUFFICES ASSUME NEW m \in 0..n, m \notin T PROVE FALSE
  OBVIOUS
<1> DEFINE U == {k \in 0..n : k \notin T}
<1>1. PICK i \in U : \A j \in U : i <= j
  <2>1. U \in SUBSET Nat /\ U # {}
    OBVIOUS
  <2> HIDE DEF U
  <2> QED
    BY <2>1, LeastNatural
<1>2. i # 0 /\ i - 1 \in 0..(n-1) /\ i - 1 \notin U
  BY <1>1
<1> QED
  BY <1>1, <1>2

(* Min and Max choose members.                                             *)
LEMMA MinIsMember ==
  ASSUME NEW s \in SUBSET Nat, s # {}
  PROVE  Min(s) \in s /\ \A y \in s : Min(s) <= y
  BY LeastNatural DEF Min

LEMMA MaxIsMember ==
  ASSUME NEW n \in Nat, NEW s \in SUBSET (1..n), s # {}
  PROVE  Max(s) \in s /\ \A y \in s : Max(s) >= y
<1> DEFINE U == {k \in Nat : \A y \in s : y <= k}
<1>1. PICK m \in U : \A j \in U : m <= j
  <2>1. U \in SUBSET Nat /\ n \in U
    OBVIOUS
  <2> HIDE DEF U
  <2> QED
    BY <2>1, LeastNatural
<1>2. m \in s
  <2> SUFFICES ASSUME m \notin s PROVE FALSE
    OBVIOUS
  <2>1. m \in Nat /\ \A y \in s : y \in 1..n /\ y <= m /\ y # m
    BY <1>1
  <2>2. m - 1 \in Nat
    <3>1. PICK y \in s : TRUE
      OBVIOUS
    <3> QED
      BY <2>1, <3>1
  <2>3. \A y \in s : y <= m - 1
    BY <2>1
  <2>4. m - 1 \in U
    BY <2>2, <2>3
  <2> QED
    BY ONLY <1>1, <2>1, <2>4
<1>3. \E x \in s : \A y \in s : x >= y
  BY <1>1, <1>2
<1> QED
  BY <1>3 DEF Max

(* What holds of the empty sequence, and of a longer one if of it, holds   *)
(* of all of them.                                                         *)
LEMMA SeqInduction ==
  ASSUME NEW S, NEW T \in SUBSET Seq(S), <<>> \in T,
         \A s \in T, e \in S : Append(s, e) \in T
  PROVE  T = Seq(S)
<1> SUFFICES ASSUME NEW q \in Seq(S) PROVE q \in T
  OBVIOUS
<1> DEFINE U == {k \in 0..Len(q) : \A s \in Seq(S) : Len(s) = k => s \in T}
<1>1. Len(q) \in Nat
  BY LenProperties
<1>2. 0 \in U
  BY <1>1, EmptySeq
<1>3. ASSUME NEW k \in 0..(Len(q) - 1), k \in U PROVE k + 1 \in U
  <2>1. ASSUME NEW s \in Seq(S), Len(s) = k + 1 PROVE s \in T
    <3>1. s # <<>>
      BY <2>1, EmptySeq
    <3>2. PICK r \in Seq(S), e \in S : s = Append(r, e)
      BY <3>1, SequenceEmptyOrAppend
    <3>3. Len(r) = k
      BY <2>1, <3>2, AppendProperties, LenProperties
    <3> QED
      BY <1>3, <3>2, <3>3
  <2> QED
    BY <1>1, <2>1
<1>4. U = 0..Len(q)
  <2>1. U \in SUBSET (0..Len(q))
    OBVIOUS
  <2> HIDE DEF U
  <2> QED
    BY <1>1, <1>2, <1>3, <2>1, Upwards
<1>5. Len(q) \in U
  <2> HIDE DEF U
  <2> QED
    BY <1>1, <1>4
<1> QED
  BY <1>5

-----------------------------------------------------------------------------
(* The function of MapThenFoldSet, as FoldLeft uses it: it takes the       *)
(* greatest element of a set last.                                         *)
Iterates(f, n, base, G) ==
  f = [s \in SUBSET (1..n) |->
         IF s = {} THEN base ELSE G[<<f[s \ {Max(s)}], Max(s)>>]]

(* There is one, whatever each element does.                               *)
LEMMA FoldExists ==
  ASSUME NEW n \in Nat, NEW R, NEW base \in R, NEW G \in [R \X (1..n) -> R]
  PROVE  \E f \in [SUBSET (1..n) -> R] : Iterates(f, n, base, G)
<1> DEFINE T == {k \in 0..n : \E f \in [SUBSET (1..k) -> R] : Iterates(f, k, base, G)}
<1>1. 0 \in T
  <2> DEFINE f == [s \in SUBSET (1..0) |-> base]
  <2>1. f \in [SUBSET (1..0) -> R] /\ Iterates(f, 0, base, G)
    BY DEF Iterates
  <2> QED
    BY <2>1
<1>2. ASSUME NEW k \in 0..(n-1), k \in T PROVE k + 1 \in T
  <2> DEFINE m == k + 1
  <2>1. m \in 1..n
    OBVIOUS
  <2>2. PICK f \in [SUBSET (1..k) -> R] : Iterates(f, k, base, G)
    BY <1>2
  <2> DEFINE g == [s \in SUBSET (1..m) |->
                     IF m \in s THEN G[<<f[s \ {m}], m>>] ELSE f[s]]
  <2>3. \A s \in SUBSET (1..m) : s \ {m} \in SUBSET (1..k)
    OBVIOUS
  <2>4. g \in [SUBSET (1..m) -> R]
    <3>1. ASSUME NEW s \in SUBSET (1..m), m \in s PROVE g[s] \in R
      <4>1. g[s] = G[<<f[s \ {m}], m>>]
        BY <3>1
      <4>2. f[s \ {m}] \in R
        BY <2>3
      <4> QED
        BY <2>1, <4>1, <4>2
    <3>2. ASSUME NEW s \in SUBSET (1..m), m \notin s PROVE g[s] \in R
      <4>1. s \in SUBSET (1..k)
        BY <3>2
      <4> QED
        BY <3>2, <4>1
    <3> QED
      BY <3>1, <3>2
  <2>5. ASSUME NEW s \in SUBSET (1..m)
        PROVE  g[s] = IF s = {} THEN base ELSE G[<<g[s \ {Max(s)}], Max(s)>>]
    <3>1. CASE m \in s
      <4>1. Max(s) = m
        <5>1. s # {} /\ m \in Nat
          BY <3>1
        <5>2. Max(s) \in s /\ \A y \in s : Max(s) >= y
          BY <5>1, MaxIsMember
        <5>3. Max(s) \in 1..m /\ Max(s) >= m
          BY <3>1, <5>2
        <5> QED
          BY <5>1, <5>3, <2>1
      <4>2. g[s \ {m}] = f[s \ {m}]
        BY <2>3
      <4> QED
        BY <3>1, <4>1, <4>2
    <3>2. CASE m \notin s
      <4>1. s \in SUBSET (1..k) /\ g[s] = f[s]
        BY <3>2
      <4>2. CASE s = {}
        BY <2>2, <4>1, <4>2 DEF Iterates
      <4>3. CASE s # {}
        <5>1. s \ {Max(s)} \in SUBSET (1..k) /\ m \notin s \ {Max(s)}
          BY <3>2, <4>1
        <5>2. g[s \ {Max(s)}] = f[s \ {Max(s)}]
          BY <5>1
        <5>3. f[s] = G[<<f[s \ {Max(s)}], Max(s)>>]
          BY <2>2, <4>1, <4>3 DEF Iterates
        <5> QED
          BY <4>1, <4>3, <5>2, <5>3
      <4> QED
        BY <4>2, <4>3
    <3> QED
      BY <3>1, <3>2
  <2>6. Iterates(g, m, base, G)
    <3> HIDE DEF g, m
    <3>1. g = [s \in SUBSET (1..m) |-> g[s]]
      BY <2>4
    <3> QED
      BY <2>5, <3>1, Zenon DEF Iterates
  <2> HIDE DEF g
  <2> QED
    BY <2>1, <2>4, <2>6
<1>3. T = 0..n
  <2> HIDE DEF T
  <2>1. T \in SUBSET (0..n)
    BY DEF T
  <2> QED
    BY <1>1, <1>2, <2>1, Upwards
<1>4. n \in T
  <2> HIDE DEF T
  <2> QED
    BY <1>3
<1> QED
  BY <1>4

(* The subsets that matter.                                                *)
LEMMA PrefixFold ==
  ASSUME NEW n \in Nat, NEW k \in 1..n
  PROVE  Max(1..k) = k /\ (1..k) \ {k} = 1..(k-1) /\ 1..k # {} /\ 1..k \in SUBSET (1..n)
<1>1. k \in Nat /\ 1..k \in SUBSET (1..k) /\ 1..k # {} /\ k \in 1..k
  OBVIOUS
<1>2. Max(1..k) \in 1..k /\ \A y \in 1..k : Max(1..k) >= y
  BY <1>1, MaxIsMember
<1>3. Max(1..k) >= k
  BY <1>1, <1>2
<1> QED
  BY <1>2, <1>3

(* So a function that takes one element more at each prefix goes through   *)
(* the results of the fold.                                                *)
Follows(h, n, R, base, G) ==
  /\ h[{}] = base
  /\ \A k \in 1..n : h[1..(k-1)] \in R => h[1..k] = G[<<h[1..(k-1)], k>>]

Reaches(h, n, R, base, G) ==
  \E r \in [0..n -> R] :
    /\ r[0] = base
    /\ \A k \in 1..n : r[k] = G[<<r[k-1], k>>]
    /\ r[n] = h[1..n]

LEMMA FoldPrefixes ==
  ASSUME NEW n \in Nat, NEW R, NEW base \in R, NEW G \in [R \X (1..n) -> R], NEW h,
         Follows(h, n, R, base, G)
  PROVE  Reaches(h, n, R, base, G)
<1> DEFINE r == [k \in 0..n |-> h[1..k]]
           T == {k \in 0..n : r[k] \in R}
<1>1. r[0] = base
  <2>1. 1..0 = {}
    OBVIOUS
  <2> QED
    BY <2>1 DEF Follows
<1>2. ASSUME NEW k \in 0..(n-1), k \in T PROVE k + 1 \in T
  <2>1. k + 1 \in 1..n /\ (k + 1) - 1 = k /\ h[1..k] \in R
    BY <1>2
  <2>2. h[1..(k+1)] = G[<<h[1..k], k + 1>>]
    BY <2>1 DEF Follows
  <2>3. h[1..(k+1)] \in R
    BY <2>1, <2>2
  <2> QED
    BY <2>1, <2>3
<1>3. T = 0..n
  <2>1. T \in SUBSET (0..n) /\ 0 \in T
    BY <1>1
  <2> HIDE DEF T
  <2> QED
    BY <1>2, <2>1, Upwards
<1>4. r \in [0..n -> R]
  BY <1>3
<1>5. ASSUME NEW k \in 1..n PROVE r[k] = G[<<r[k-1], k>>]
  <2>1. k \in 0..n /\ k - 1 \in 0..n
    OBVIOUS
  <2>2. h[1..(k-1)] \in R /\ r[k] = h[1..k] /\ r[k-1] = h[1..(k-1)]
    BY <1>3, <2>1
  <2> QED
    BY <2>2 DEF Follows
<1>6. r[n] = h[1..n]
  OBVIOUS
<1> HIDE DEF r
<1> QED
  BY <1>1, <1>4, <1>5, <1>6 DEF Reaches

=============================================================================
