----------------------------- MODULE TextProofs -----------------------------
(***************************************************************************)
(* Proofs about Texts: what is split into lines and joined, cut out and    *)
(* trimmed, for any text.                                                  *)
(***************************************************************************)
EXTENDS Texts, FoldProofs

-----------------------------------------------------------------------------
(* What the folds of Texts do with one element.                            *)
Tokens == Words \cup Blank

JoinStep(t, l) == t \o <<"nl">> \o l

LineStep(ls, x) ==
  IF x = "nl" THEN Append(ls, <<>>) ELSE [ls EXCEPT ![Len(ls)] = Append(@, x)]

(* Each fold goes through texts of its kind.                               *)
LEMMA JoinedFold ==
  ASSUME NEW ls \in Seq(Text), ls # <<>>
  PROVE  \E r \in [0..Len(Tail(ls)) -> Text] :
           /\ r[0] = Head(ls)
           /\ \A k \in 1..Len(Tail(ls)) : r[k] = JoinStep(r[k-1], Tail(ls)[k])
           /\ Joined(ls) = r[Len(Tail(ls))]
<1> DEFINE n == Len(Tail(ls))
           R == Text
           G == [x \in R \X (1..n) |-> JoinStep(x[1], Tail(ls)[x[2]])]
           Good(g) == g = [s \in SUBSET (1..n) |->
                             IF s = {} THEN Head(ls) ELSE JoinStep(g[s \ {Max(s)}], Tail(ls)[Max(s)])]
           h == CHOOSE g : Good(g)
<1>1. n \in Nat /\ DOMAIN Tail(ls) = 1..n /\ Tail(ls) \in Seq(Text)
  BY HeadTailProperties, LenProperties
<1>2. Joined(ls) = h[1..n]
  BY <1>1 DEF Joined, FoldLeft, MapThenFoldSet, JoinStep
<1>3. Head(ls) \in R /\ G \in [R \X (1..n) -> R]
  <2>1. Head(ls) \in Text
    BY HeadTailProperties
  <2>2. ASSUME NEW t \in Text, NEW i \in 1..n PROVE JoinStep(t, Tail(ls)[i]) \in Text
    <3>1. Tail(ls)[i] \in Text /\ <<"nl">> \in Text
      BY <1>1, ElementOfSeq DEF Text, Blank
    <3> QED
      BY <3>1 DEF Text, JoinStep
  <2> QED
    BY <2>1, <2>2
<1>4. \E g : Good(g)
  <2>1. PICK f \in [SUBSET (1..n) -> R] : Iterates(f, n, Head(ls), G)
    <3> HIDE DEF G, n, R
    <3> QED
      BY <1>1, <1>3, FoldExists
  <2>2. ASSUME NEW s \in SUBSET (1..n), s # {}
        PROVE  G[<<f[s \ {Max(s)}], Max(s)>>] = JoinStep(f[s \ {Max(s)}], Tail(ls)[Max(s)])
    <3>1. Max(s) \in 1..n /\ f[s \ {Max(s)}] \in R
      BY <1>1, <2>2, MaxIsMember
    <3> QED
      BY <3>1
  <2>3. f = [s \in SUBSET (1..n) |-> IF s = {} THEN Head(ls) ELSE G[<<f[s \ {Max(s)}], Max(s)>>]]
    BY <2>1 DEF Iterates
  <2> HIDE DEF G, n, R
  <2>4. Good(f)
    BY <2>2, <2>3
  <2> HIDE DEF Good
  <2> QED
    BY <2>4
<1>5. Good(h)
  <2> HIDE DEF Good
  <2> QED
    BY <1>4
<1> HIDE DEF h
<1>6. h[{}] = Head(ls)
  BY <1>5
<1>7. ASSUME NEW k \in 1..n, h[1..(k-1)] \in R PROVE h[1..k] = G[<<h[1..(k-1)], k>>]
  <2>1. Max(1..k) = k /\ (1..k) \ {k} = 1..(k-1) /\ 1..k # {} /\ 1..k \in SUBSET (1..n)
    BY <1>1, PrefixFold
  <2>2. h[1..k] = JoinStep(h[1..(k-1)], Tail(ls)[k])
    BY <1>5, <2>1
  <2> QED
    BY <1>7, <2>2
<1>8. \E r \in [0..n -> R] :
        r[0] = Head(ls) /\ (\A k \in 1..n : r[k] = G[<<r[k-1], k>>]) /\ r[n] = h[1..n]
  <2> DEFINE b == Head(ls)
  <2>1. b \in R /\ h[{}] = b
    BY <1>3, <1>6
  <2> HIDE DEF G, n, R, b
  <2>2. Follows(h, n, R, b, G)
    BY <1>7, <2>1 DEF Follows
  <2>3. Reaches(h, n, R, b, G)
    BY <1>1, <1>3, <2>1, <2>2, FoldPrefixes
  <2> QED
    BY <2>3 DEF b, Reaches
<1>9. PICK r \in [0..n -> R] :
        r[0] = Head(ls) /\ (\A k \in 1..n : r[k] = G[<<r[k-1], k>>]) /\ r[n] = h[1..n]
  BY <1>8
<1>10. ASSUME NEW k \in 1..n PROVE r[k] = JoinStep(r[k-1], Tail(ls)[k])
  <2>1. k - 1 \in 0..n
    BY <1>1
  <2> QED
    BY <1>9, <2>1
<1> QED
  BY <1>2, <1>9, <1>10

LEMMA LinesFold ==
  ASSUME NEW t \in Text
  PROVE  \E r \in [0..Len(t) -> (Seq(Text) \ {<<>>})] :
           /\ r[0] = << <<>> >>
           /\ \A k \in 1..Len(t) : r[k] = LineStep(r[k-1], t[k])
           /\ Lines(t) = r[Len(t)]
<1> DEFINE n == Len(t)
           R == (Seq(Text) \ {<<>>})
           G == [x \in R \X (1..n) |-> LineStep(x[1], t[x[2]])]
           Good(g) == g = [s \in SUBSET (1..n) |->
                             IF s = {} THEN << <<>> >> ELSE LineStep(g[s \ {Max(s)}], t[Max(s)])]
           h == CHOOSE g : Good(g)
<1>1. n \in Nat /\ DOMAIN t = 1..n
  OBVIOUS
<1>2. Lines(t) = h[1..n]
  BY <1>1 DEF Lines, FoldLeft, MapThenFoldSet, LineStep
<1>3. << <<>> >> \in R /\ G \in [R \X (1..n) -> R]
  <2>1. << <<>> >> \in R
    BY EmptySeq DEF Text
  <2>2. ASSUME NEW ls \in R, NEW i \in 1..n PROVE LineStep(ls, t[i]) \in R
    <3>1. t[i] \in Tokens /\ Len(ls) \in 1..Len(ls)
      BY <1>1, EmptySeq, ElementOfSeq DEF Text, Tokens
    <3>2. ls[Len(ls)] \in Text /\ <<>> \in Text
      BY <3>1, EmptySeq DEF Text
    <3>3. Append(ls[Len(ls)], t[i]) \in Text
      BY <3>1, <3>2, AppendProperties DEF Text, Tokens
    <3>4. /\ [ls EXCEPT ![Len(ls)] = Append(@, t[i])] \in Seq(Text)
          /\ Len([ls EXCEPT ![Len(ls)] = Append(@, t[i])]) = Len(ls)
      BY <3>1, <3>3, ExceptSeq
    <3>5. Append(ls, <<>>) \in Seq(Text) /\ Append(ls, <<>>) # <<>>
      BY <3>2, AppendProperties
    <3>6. [ls EXCEPT ![Len(ls)] = Append(@, t[i])] # <<>>
      BY <3>1, <3>4, EmptySeq
    <3> QED
      BY <3>4, <3>5, <3>6 DEF LineStep
  <2> QED
    BY <2>1, <2>2
<1>4. \E g : Good(g)
  <2>1. PICK f \in [SUBSET (1..n) -> R] : Iterates(f, n, << <<>> >>, G)
    <3> HIDE DEF G, n, R
    <3> QED
      BY <1>1, <1>3, FoldExists
  <2>2. ASSUME NEW s \in SUBSET (1..n), s # {}
        PROVE  G[<<f[s \ {Max(s)}], Max(s)>>] = LineStep(f[s \ {Max(s)}], t[Max(s)])
    <3>1. Max(s) \in 1..n /\ f[s \ {Max(s)}] \in R
      BY <1>1, <2>2, MaxIsMember
    <3> QED
      BY <3>1
  <2>3. f = [s \in SUBSET (1..n) |-> IF s = {} THEN << <<>> >> ELSE G[<<f[s \ {Max(s)}], Max(s)>>]]
    BY <2>1 DEF Iterates
  <2> HIDE DEF G, n, R
  <2>4. Good(f)
    BY <2>2, <2>3
  <2> HIDE DEF Good
  <2> QED
    BY <2>4
<1>5. Good(h)
  <2> HIDE DEF Good
  <2> QED
    BY <1>4
<1> HIDE DEF h
<1>6. h[{}] = << <<>> >>
  BY <1>5
<1>7. ASSUME NEW k \in 1..n, h[1..(k-1)] \in R PROVE h[1..k] = G[<<h[1..(k-1)], k>>]
  <2>1. Max(1..k) = k /\ (1..k) \ {k} = 1..(k-1) /\ 1..k # {} /\ 1..k \in SUBSET (1..n)
    BY <1>1, PrefixFold
  <2>2. h[1..k] = LineStep(h[1..(k-1)], t[k])
    BY <1>5, <2>1
  <2> QED
    BY <1>7, <2>2
<1>8. \E r \in [0..n -> R] :
        r[0] = << <<>> >> /\ (\A k \in 1..n : r[k] = G[<<r[k-1], k>>]) /\ r[n] = h[1..n]
  <2> DEFINE b == << <<>> >>
  <2>1. b \in R /\ h[{}] = b
    BY <1>3, <1>6
  <2> HIDE DEF G, n, R, b
  <2>2. Follows(h, n, R, b, G)
    BY <1>7, <2>1 DEF Follows
  <2>3. Reaches(h, n, R, b, G)
    BY <1>1, <1>3, <2>1, <2>2, FoldPrefixes
  <2> QED
    BY <2>3 DEF b, Reaches
<1>9. PICK r \in [0..n -> R] :
        r[0] = << <<>> >> /\ (\A k \in 1..n : r[k] = G[<<r[k-1], k>>]) /\ r[n] = h[1..n]
  BY <1>8
<1>10. ASSUME NEW k \in 1..n PROVE r[k] = LineStep(r[k-1], t[k])
  <2>1. k - 1 \in 0..n
    BY <1>1
  <2> QED
    BY <1>9, <2>1
<1> QED
  BY <1>2, <1>9, <1>10

(* What is cut out of a text is one.                                       *)
LEMMA SubText ==
  ASSUME NEW t \in Text, NEW i \in Nat \ {0}, NEW j \in Int, j <= Len(t)
  PROVE  SubSeq(t, i, j) \in Text
<1>1. \A k \in i..j : t[k] \in Tokens
  BY ElementOfSeq DEF Text, Tokens
<1>2. SubSeq(t, i, j) \in Seq(Tokens)
  BY <1>1, SubSeqProperties
<1> QED
  BY <1>2 DEF Text, Tokens

LEMMA TrimType == ASSUME NEW t \in Text PROVE TrimSpace(t) \in Text
<1> DEFINE kept == {i \in 1..Len(t) : t[i] \notin Blank}
<1>1. Len(t) \in Nat /\ kept \in SUBSET (1..Len(t)) /\ kept \in SUBSET Nat
  BY DEF Text
<1>2. CASE kept = {}
  BY <1>2, EmptySeq DEF TrimSpace, Text
<1>3. CASE kept # {}
  <2>1. TrimSpace(t) = SubSeq(t, Min(kept), Max(kept))
    BY <1>3 DEF TrimSpace
  <2> HIDE DEF kept
  <2>2. Min(kept) \in kept /\ Max(kept) \in kept
    BY <1>1, <1>3, MinIsMember, MaxIsMember
  <2>3. Min(kept) \in 1..Len(t) /\ Max(kept) \in 1..Len(t)
    BY <1>1, <2>2
  <2>4. Min(kept) \in Nat \ {0} /\ Max(kept) \in Int /\ Max(kept) <= Len(t)
    BY ONLY <1>1, <2>3
  <2> QED
    BY <2>1, <2>4, SubText
<1> QED
  BY <1>2, <1>3

LEMMA JoinedType == ASSUME NEW ls \in Seq(Text), ls # <<>> PROVE Joined(ls) \in Text
<1>1. Len(Tail(ls)) \in 0..Len(Tail(ls))
  BY HeadTailProperties, LenProperties
<1> QED
  BY <1>1, JoinedFold

LEMMA TextAppend ==
  ASSUME NEW t \in Text, NEW x \in Tokens
  PROVE  Append(t, x) \in Text /\ Append(t, x) = t \o <<x>> /\ <<x>> \in Text
  BY AppendProperties, AppendIsConcat DEF Text, Tokens

LEMMA TextConcat ==
  /\ <<>> \in Text /\ <<"nl">> \in Text
  /\ \A a, b \in Text : a \o b \in Text
  /\ \A a \in Text : a \o <<>> = a /\ <<>> \o a = a
  /\ \A a, b, c \in Text : (a \o b) \o c = a \o (b \o c)
  BY EmptySeq, ConcatProperties, ConcatEmptySeq, ConcatAssociative DEF Text, Blank

LEMMA TextInduction ==
  ASSUME NEW T \in SUBSET Text, <<>> \in T, \A s \in T, x \in Tokens : Append(s, x) \in T
  PROVE  T = Text
  BY SeqInduction DEF Text, Tokens

LEMMA AppendStep ==
  ASSUME NEW a \in Text, NEW b \in Text, NEW x \in Tokens
  PROVE  a \o Append(b, x) = Append(a \o b, x)
<1>1. Append(b, x) = b \o <<x>> /\ <<x>> \in Text
  BY TextAppend
<1>2. a \o b \in Text /\ (a \o b) \o <<x>> = a \o (b \o <<x>>)
  BY <1>1, TextConcat
<1>3. Append(a \o b, x) = (a \o b) \o <<x>>
  BY <1>2, TextAppend
<1> QED
  BY <1>1, <1>2, <1>3

(* A prefix and what comes next.                                           *)
LEMMA PrefixStep ==
  ASSUME NEW t \in Text, NEW k \in 0..(Len(t) - 1)
  PROVE  /\ SubSeq(t, 1, k) \in Text /\ t[k + 1] \in Tokens
         /\ SubSeq(t, 1, k + 1) = Append(SubSeq(t, 1, k), t[k + 1])
<1>1. Len(t) \in Nat /\ k + 1 \in 1..Len(t) /\ 1 \in 1..Len(t) /\ k + 1 \in 1..Len(t)
  BY LenProperties DEF Text
<1>2. t[k + 1] \in Tokens
  BY <1>1, ElementOfSeq DEF Text, Tokens
<1>3. SubSeq(t, 1, k) \in Text
  BY <1>1, SubText
<1>4. SubSeq(t, 1, k + 1) = SubSeq(t, 1, k) \o <<t[k + 1]>>
  <2>1. k + 1 \in 1..Len(t) /\ (k + 1) - 1 = k
    BY <1>1
  <2> QED
    BY <1>1, <2>1, SubSeqRecursiveSecond DEF Text
<1> QED
  BY <1>2, <1>3, <1>4, TextAppend

LEMMA NonEmpty ==
  ASSUME NEW t \in Text, t # <<>>
  PROVE  Front(t) \in Text /\ Last(t) \in Tokens /\ t = Append(Front(t), Last(t))
<1>1. Len(t) \in Nat \ {0} /\ SubSeq(t, 1, Len(t)) = t
  BY EmptySeq, SubSeqFull DEF Text
<1>2. Len(t) - 1 \in 0..(Len(t) - 1) /\ (Len(t) - 1) + 1 = Len(t)
  BY <1>1
<1> QED
  BY <1>1, <1>2, PrefixStep DEF Front, Last

(* A text in three parts, any of which may be empty.                       *)
LEMMA ThreeParts ==
  ASSUME NEW t \in Text, NEW i \in 1..(Len(t) + 1), NEW j \in (i-1)..Len(t)
  PROVE  /\ SubSeq(t, 1, i - 1) \in Text /\ SubSeq(t, i, j) \in Text
         /\ SubSeq(t, j + 1, Len(t)) \in Text
         /\ t = (SubSeq(t, 1, i - 1) \o SubSeq(t, i, j)) \o SubSeq(t, j + 1, Len(t))
<1>1. Len(t) \in Nat /\ t \in Seq(Tokens)
  BY LenProperties DEF Text, Tokens
<1>2. SubSeq(t, 1, i - 1) \o SubSeq(t, i, j) = SubSeq(t, 1, j)
  <2>1. /\ 1 \in 1..(Len(t) + 1) /\ i - 1 \in (1-1)..Len(t) /\ j \in (i - 1)..Len(t)
        /\ (i - 1) + 1 = i
    BY <1>1
  <2> QED
    BY <1>1, <2>1, ConcatAdjacentSubSeq
<1>3. SubSeq(t, 1, j) \o SubSeq(t, j + 1, Len(t)) = SubSeq(t, 1, Len(t))
  <2>1. 1 \in 1..(Len(t) + 1) /\ j \in (1-1)..Len(t) /\ Len(t) \in j..Len(t)
    BY <1>1
  <2> QED
    BY <1>1, <2>1, ConcatAdjacentSubSeq
<1>4. SubSeq(t, 1, Len(t)) = t
  BY <1>1, SubSeqFull
<1>5. /\ SubSeq(t, 1, i - 1) \in Text /\ SubSeq(t, i, j) \in Text
      /\ SubSeq(t, j + 1, Len(t)) \in Text
  <2>1. /\ 1 \in Nat \ {0} /\ i \in Nat \ {0} /\ j + 1 \in Nat \ {0}
        /\ i - 1 \in Int /\ j \in Int /\ Len(t) \in Int
        /\ i - 1 <= Len(t) /\ j <= Len(t) /\ Len(t) <= Len(t)
    BY <1>1
  <2> QED
    BY <2>1, SubText
<1> QED
  BY <1>2, <1>3, <1>4, <1>5

(* A sequence in three parts.                                              *)
Parted(base, a, m, b, i, j) ==
  /\ i \in 0..Len(base) /\ j \in i..Len(base)
  /\ SubSeq(base, 1, i) = a /\ SubSeq(base, i + 1, j) = m
  /\ SubSeq(base, j + 1, Len(base)) = b

LEMMA Parts ==
  ASSUME NEW S, NEW a \in Seq(S), NEW m \in Seq(S), NEW b \in Seq(S)
  PROVE  (a \o m) \o b \in Seq(S) /\ Parted((a \o m) \o b, a, m, b, Len(a), Len(a) + Len(m))
<1> DEFINE base == (a \o m) \o b
           i == Len(a)
           j == Len(a) + Len(m)
<1>1. /\ i \in Nat /\ Len(m) \in Nat /\ Len(b) \in Nat /\ base \in Seq(S)
      /\ a \o m \in Seq(S) /\ Len(a \o m) = j /\ Len(base) = j + Len(b)
      /\ \A k \in 1..(i + Len(m)) : (a \o m)[k] = IF k <= i THEN a[k] ELSE m[k - i]
      /\ \A k \in 1..(j + Len(b)) : base[k] = IF k <= j THEN (a \o m)[k] ELSE b[k - j]
  <2>1. Len(a) \in Nat /\ Len(m) \in Nat /\ Len(b) \in Nat
    BY LenProperties
  <2>2. /\ a \o m \in Seq(S) /\ Len(a \o m) = Len(a) + Len(m)
        /\ \A k \in 1..(Len(a) + Len(m)) : (a \o m)[k] = IF k <= Len(a) THEN a[k] ELSE m[k - Len(a)]
    BY ConcatProperties
  <2>3. /\ base \in Seq(S) /\ Len(base) = Len(a \o m) + Len(b)
        /\ \A k \in 1..(Len(a \o m) + Len(b)) : base[k] = IF k <= Len(a \o m) THEN (a \o m)[k] ELSE b[k - Len(a \o m)]
    BY <2>2, ConcatProperties
  <2> QED
    BY <2>1, <2>2, <2>3
<1> HIDE DEF base
<1>2. \A x, y \in Seq(S) : Len(x) = Len(y) /\ (\A k \in 1..Len(x) : x[k] = y[k]) => x = y
  BY SeqEqual
<1>3. ASSUME NEW x \in Nat \ {0}, NEW y \in Int, y <= Len(base)
      PROVE  /\ SubSeq(base, x, y) \in Seq(S)
             /\ Len(SubSeq(base, x, y)) = IF x <= y THEN y - x + 1 ELSE 0
             /\ \A k \in 1..(y - x + 1) : SubSeq(base, x, y)[k] = base[x + k - 1]
  <2>1. SubSeq(base, x, y) \in Seq(S)
    <3>1. \A k \in x..y : base[k] \in S
      <4>1. Len(base) \in Nat /\ \A k \in x..y : k \in 1..Len(base)
        BY <1>1, <1>3
      <4> QED
        BY <1>1, <4>1, ElementOfSeq
    <3> QED
      BY <3>1, SubSeqProperties
  <2>2. Len(base) \in Nat /\ \A k \in x..y : k \in 1..Len(base)
    BY <1>1, <1>3
  <2>3. \A k \in x..y : base[k] \in S
    BY <1>1, <2>2, ElementOfSeq
  <2>4. /\ Len(SubSeq(base, x, y)) = IF x <= y THEN y - x + 1 ELSE 0
        /\ \A k \in 1..(y - x + 1) : SubSeq(base, x, y)[k] = base[x + k - 1]
    BY <2>3, SubSeqProperties
  <2> QED
    BY <2>1, <2>4
<1>4. SubSeq(base, 1, i) = a
  <2>1. /\ SubSeq(base, 1, i) \in Seq(S) /\ Len(SubSeq(base, 1, i)) = i
        /\ \A k \in 1..(i - 1 + 1) : SubSeq(base, 1, i)[k] = base[1 + k - 1]
    <3>1. 1 \in Nat \ {0} /\ i \in Int /\ i <= Len(base) /\ (1 <= i \/ i = 0)
      BY <1>1
    <3>2. (IF 1 <= i THEN i - 1 + 1 ELSE 0) = i
      BY <3>1
    <3> QED
      BY <1>3, <3>1, <3>2
  <2>2. \A k \in 1..i : SubSeq(base, 1, i)[k] = a[k]
    <3>1. ASSUME NEW k \in 1..i PROVE SubSeq(base, 1, i)[k] = a[k]
      <4>1. /\ k \in 1..(i - 1 + 1) /\ k \in 1..(i + Len(m)) /\ k \in 1..(j + Len(b))
            /\ 1 + k - 1 = k /\ k <= i /\ k <= j
        BY <1>1
      <4> HIDE DEF i, j
      <4> QED
        BY <1>1, <2>1, <4>1
    <3> QED
      BY <3>1
  <2> QED
    BY <1>2, <2>1, <2>2
<1>5. SubSeq(base, i + 1, j) = m
  <2>1. /\ SubSeq(base, i + 1, j) \in Seq(S) /\ Len(SubSeq(base, i + 1, j)) = Len(m)
        /\ \A k \in 1..Len(m) : SubSeq(base, i + 1, j)[k] = base[i + k]
    <3>1. i + 1 \in Nat \ {0} /\ j \in Int /\ j <= Len(base) /\ j - (i + 1) + 1 = Len(m)
      BY <1>1
    <3>2. (IF i + 1 <= j THEN j - (i + 1) + 1 ELSE 0) = Len(m)
      BY <1>1
    <3>3. /\ SubSeq(base, i + 1, j) \in Seq(S)
          /\ Len(SubSeq(base, i + 1, j)) = IF i + 1 <= j THEN j - (i + 1) + 1 ELSE 0
          /\ \A k \in 1..(j - (i + 1) + 1) : SubSeq(base, i + 1, j)[k] = base[(i + 1) + k - 1]
      <4> HIDE DEF i, j
      <4> QED
        BY <1>3, <3>1
    <3>4. \A k \in 1..Len(m) : (i + 1) + k - 1 = i + k
      BY <1>1
    <3> HIDE DEF i, j
    <3> QED
      BY <3>1, <3>2, <3>3, <3>4
  <2>2. ASSUME NEW k \in 1..Len(m) PROVE base[i + k] = m[k]
    <3>1. /\ i + k \in 1..(i + Len(m)) /\ i + k \in 1..(j + Len(b))
          /\ ~(i + k <= i) /\ i + k <= j /\ (i + k) - i = k
      BY <1>1
    <3> HIDE DEF i, j
    <3> QED
      BY <1>1, <3>1
  <2> QED
    BY <1>2, <2>1, <2>2
<1>6. SubSeq(base, j + 1, Len(base)) = b
  <2>1. /\ SubSeq(base, j + 1, Len(base)) \in Seq(S) /\ Len(SubSeq(base, j + 1, Len(base))) = Len(b)
        /\ \A k \in 1..Len(b) : SubSeq(base, j + 1, Len(base))[k] = base[j + k]
    <3>1. /\ j + 1 \in Nat \ {0} /\ Len(base) \in Int /\ Len(base) <= Len(base)
          /\ Len(base) - (j + 1) + 1 = Len(b)
      BY <1>1
    <3>2. (IF j + 1 <= Len(base) THEN Len(base) - (j + 1) + 1 ELSE 0) = Len(b)
      BY <1>1
    <3>3. /\ SubSeq(base, j + 1, Len(base)) \in Seq(S)
          /\ Len(SubSeq(base, j + 1, Len(base))) =
               IF j + 1 <= Len(base) THEN Len(base) - (j + 1) + 1 ELSE 0
          /\ \A k \in 1..(Len(base) - (j + 1) + 1) :
               SubSeq(base, j + 1, Len(base))[k] = base[(j + 1) + k - 1]
      <4> HIDE DEF i, j
      <4> QED
        BY <1>3, <3>1
    <3>4. \A k \in 1..Len(b) : (j + 1) + k - 1 = j + k
      BY <1>1
    <3> HIDE DEF i, j
    <3> QED
      BY <3>1, <3>2, <3>3, <3>4
  <2>2. ASSUME NEW k \in 1..Len(b) PROVE base[j + k] = b[k]
    <3>1. j + k \in 1..(j + Len(b)) /\ ~(j + k <= j) /\ (j + k) - j = k
      BY <1>1
    <3> HIDE DEF i, j
    <3> QED
      BY <1>1, <3>1
  <2> QED
    BY <1>2, <2>1, <2>2
<1>7. i \in 0..Len(base) /\ j \in i..Len(base)
  BY <1>1
<1> QED
  BY <1>1, <1>4, <1>5, <1>6, <1>7 DEF Parted, base, i, j

-----------------------------------------------------------------------------
(* strings.Join, line by line.                                             *)
LEMMA JoinOne == ASSUME NEW l \in Text PROVE Joined(<<l>>) = l
<1>1. <<l>> \in Seq(Text) /\ <<l>> # <<>> /\ Head(<<l>>) = l /\ Tail(<<l>>) = <<>> /\ Len(<<>>) = 0
  BY EmptySeq
<1> QED
  BY <1>1, JoinedFold

LEMMA JoinAppend ==
  ASSUME NEW ls \in Seq(Text), ls # <<>>, NEW l \in Text
  PROVE  Joined(Append(ls, l)) = JoinStep(Joined(ls), l)
<1> DEFINE ms == Append(ls, l)
           t == Tail(ls)
           u == Tail(ms)
           n == Len(t)
<1>1. /\ ms \in Seq(Text) /\ ms # <<>> /\ Head(ms) = Head(ls) /\ u = Append(t, l)
      /\ t \in Seq(Text)
  BY AppendProperties, HeadTailAppend, HeadTailProperties
<1>2. n \in Nat /\ Len(u) = n + 1 /\ u[n + 1] = l /\ \A k \in 1..n : u[k] = t[k]
  <2> HIDE DEF u, t
  <2> QED
    BY <1>1, AppendProperties, LenProperties
<1>3. PICK r \in [0..n -> Text] :
        r[0] = Head(ls) /\ (\A k \in 1..n : r[k] = JoinStep(r[k-1], t[k])) /\ Joined(ls) = r[n]
  BY JoinedFold
<1>4. PICK q \in [0..Len(u) -> Text] :
        /\ q[0] = Head(ms) /\ \A k \in 1..Len(u) : q[k] = JoinStep(q[k-1], u[k])
        /\ Joined(ms) = q[Len(u)]
  <2>1. ms \in Seq(Text) /\ ms # <<>>
    BY <1>1
  <2> HIDE DEF ms
  <2> QED
    BY <2>1, JoinedFold DEF u
<1> HIDE DEF ms, t, u, n
<1> DEFINE T == {k \in 0..n : q[k] = r[k]}
<1>5. T = 0..n
  <2>1. 0 \in T /\ T \in SUBSET (0..n)
    BY <1>1, <1>2, <1>3, <1>4
  <2>2. ASSUME NEW k \in 0..(n - 1), k \in T PROVE k + 1 \in T
    <3>1. k + 1 \in 1..n /\ k + 1 \in 1..(n + 1) /\ (k + 1) - 1 = k /\ k + 1 \in 0..n
      BY <1>2
    <3>2. q[k + 1] = JoinStep(q[k], u[k + 1]) /\ r[k + 1] = JoinStep(r[k], t[k + 1])
      BY <1>2, <1>3, <1>4, <3>1
    <3> QED
      BY <1>2, <2>2, <3>1, <3>2
  <2> HIDE DEF T
  <2> QED
    BY <1>2, <2>1, <2>2, Upwards
<1>6. n \in T /\ n + 1 \in 1..(n + 1) /\ (n + 1) - 1 = n
  BY <1>2, <1>5
<1>7. Joined(ms) = JoinStep(q[n], l)
  BY <1>2, <1>4, <1>6
<1> QED
  BY <1>3, <1>6, <1>7 DEF ms

LEMMA JoinAssociates ==
  ASSUME NEW a \in Text, NEW b \in Text, NEW c \in Text
  PROVE  JoinStep(a, JoinStep(b, c)) = JoinStep(JoinStep(a, b), c)
<1>1. <<"nl">> \in Text /\ a \o <<"nl">> \in Text /\ b \o <<"nl">> \in Text
  BY TextConcat
<1> DEFINE an == a \o <<"nl">>
           bn == b \o <<"nl">>
<1>2. JoinStep(a, JoinStep(b, c)) = an \o (bn \o c)
  BY DEF JoinStep
<1>3. JoinStep(JoinStep(a, b), c) = ((an \o b) \o <<"nl">>) \o c
  BY DEF JoinStep
<1>4. an \in Text /\ bn \in Text
  BY <1>1
<1> HIDE DEF an
<1>5. (an \o b) \o <<"nl">> = an \o bn
  BY <1>1, <1>4, TextConcat
<1> HIDE DEF bn
<1>6. (an \o bn) \o c = an \o (bn \o c)
  BY <1>4, TextConcat
<1> QED
  BY <1>2, <1>3, <1>5, <1>6

LEMMA JoinConcat ==
  ASSUME NEW a \in Seq(Text), a # <<>>, NEW b \in Seq(Text), b # <<>>
  PROVE  Joined(a \o b) = JoinStep(Joined(a), Joined(b))
<1> DEFINE T == {s \in Seq(Text) : s # <<>> => Joined(a \o s) = JoinStep(Joined(a), Joined(s))}
<1>1. <<>> \in T
  BY EmptySeq
<1>2. ASSUME NEW s \in T, NEW l \in Text PROVE Append(s, l) \in T
  <2>1. /\ s \in Seq(Text) /\ Append(s, l) \in Seq(Text) /\ <<l>> \in Seq(Text)
        /\ a \o s \in Seq(Text) /\ Append(s, l) = s \o <<l>>
    BY AppendProperties, AppendIsConcat, ConcatProperties
  <2>2. a \o Append(s, l) = Append(a \o s, l)
    BY <2>1, AppendIsConcat, ConcatAssociative
  <2>3. Joined(a) \in Text
    BY JoinedType
  <2>4. CASE s = <<>>
    <3>1. a \o s = a /\ Append(s, l) = <<l>>
      BY <2>1, <2>4, ConcatEmptySeq
    <3>2. Joined(Append(a, l)) = JoinStep(Joined(a), l)
      BY JoinAppend
    <3> QED
      BY <2>1, <2>2, <3>1, <3>2, JoinOne
  <2>5. CASE s # <<>>
    <3>1. a \o s # <<>>
      BY <2>1, ConcatEqualIffEmpty
    <3>2. Joined(Append(a \o s, l)) = JoinStep(Joined(a \o s), l)
      BY <2>1, <3>1, JoinAppend
    <3>3. Joined(Append(s, l)) = JoinStep(Joined(s), l)
      BY <2>1, <2>5, JoinAppend
    <3>4. Joined(a \o s) = JoinStep(Joined(a), Joined(s)) /\ Joined(s) \in Text
      BY <1>2, <2>1, <2>5, JoinedType
    <3>5. Joined(a \o Append(s, l)) = JoinStep(JoinStep(Joined(a), Joined(s)), l)
      BY <2>2, <3>2, <3>4
    <3>6. Joined(a \o Append(s, l)) = JoinStep(Joined(a), Joined(Append(s, l)))
      BY <2>3, <3>3, <3>4, <3>5, JoinAssociates
    <3> QED
      BY <2>1, <3>6
  <2> QED
    BY <2>4, <2>5
<1>3. T = Seq(Text)
  <2>1. T \in SUBSET Seq(Text)
    OBVIOUS
  <2> HIDE DEF T
  <2> QED
    BY <1>1, <1>2, <2>1, SeqInduction
<1> QED
  BY <1>3

LEMMA LineStepLast ==
  ASSUME NEW f \in Seq(Text), NEW l \in Text, NEW x \in Tokens, x # "nl"
  PROVE  LineStep(Append(f, l), x) = Append(f, Append(l, x))
<1> DEFINE ls == Append(f, l)
           m == [ls EXCEPT ![Len(ls)] = Append(l, x)]
           u == Append(f, Append(l, x))
<1>1. Append(l, x) \in Text
  BY TextAppend
<1>2. /\ Len(f) \in Nat /\ ls \in Seq(Text) /\ Len(ls) = Len(f) + 1 /\ ls[Len(ls)] = l
      /\ \A k \in 1..Len(f) : ls[k] = f[k]
  BY AppendProperties, LenProperties
<1>3. /\ u \in Seq(Text) /\ Len(u) = Len(f) + 1 /\ u[Len(f) + 1] = Append(l, x)
      /\ \A k \in 1..Len(f) : u[k] = f[k]
  BY <1>1, AppendProperties
<1>4. LineStep(ls, x) = m
  BY <1>2 DEF LineStep
<1> HIDE DEF ls, u
<1>5. /\ m \in Seq(Text) /\ Len(m) = Len(ls)
      /\ \A k \in 1..Len(ls) : m[k] = IF k = Len(ls) THEN Append(l, x) ELSE ls[k]
  BY <1>1, <1>2, ExceptSeq
<1> HIDE DEF m
<1>6. ASSUME NEW k \in 1..Len(m) PROVE m[k] = u[k]
  <2>1. k = Len(f) + 1 \/ k \in 1..Len(f)
    BY <1>2, <1>5
  <2>2. CASE k = Len(f) + 1
    BY <1>2, <1>3, <1>5, <2>2
  <2>3. CASE k \in 1..Len(f)
    <3>1. k \in 1..Len(ls) /\ k # Len(ls)
      BY <1>2, <2>3
    <3> QED
      BY <1>2, <1>3, <1>5, <2>3, <3>1
  <2> QED
    BY <2>1, <2>2, <2>3
<1>7. m = u
  BY <1>2, <1>3, <1>5, <1>6, SeqEqual
<1> QED
  BY <1>4, <1>7 DEF ls, u

(* strings.Split and strings.Join undo each other.                         *)
LEMMA LineStepJoined ==
  ASSUME NEW ls \in Seq(Text), ls # <<>>, NEW x \in Tokens
  PROVE  Joined(LineStep(ls, x)) = Append(Joined(ls), x)
<1>1. Joined(ls) \in Text /\ <<>> \in Text
  BY JoinedType, TextConcat
<1>2. CASE x = "nl"
  <2>1. Joined(Append(ls, <<>>)) = JoinStep(Joined(ls), <<>>)
    BY <1>1, JoinAppend
  <2>2. JoinStep(Joined(ls), <<>>) = Append(Joined(ls), x)
    <3>1. Joined(ls) \o <<"nl">> \in Text
      BY <1>1, TextConcat
    <3> QED
      BY <1>1, <1>2, <3>1, TextConcat, TextAppend DEF JoinStep
  <2> QED
    BY <1>2, <2>1, <2>2 DEF LineStep
<1>3. CASE x # "nl"
  <2>1. PICK f \in Seq(Text), l \in Text : ls = Append(f, l)
    BY SequenceEmptyOrAppend
  <2>2. Append(l, x) \in Text
    BY TextAppend
  <2>3. LineStep(ls, x) = Append(f, Append(l, x))
    BY <1>3, <2>1, LineStepLast
  <2>4. CASE f = <<>>
    <3>1. ls = <<l>> /\ LineStep(ls, x) = <<Append(l, x)>>
      BY <2>1, <2>3, <2>4
    <3> QED
      BY <2>2, <3>1, JoinOne
  <2>5. CASE f # <<>>
    <3>1. Joined(ls) = JoinStep(Joined(f), l)
      BY <2>1, <2>5, JoinAppend
    <3>2. Joined(LineStep(ls, x)) = JoinStep(Joined(f), Append(l, x))
      BY <2>2, <2>3, <2>5, JoinAppend
    <3>3. Joined(f) \o <<"nl">> \in Text
      BY <2>5, JoinedType, TextConcat
    <3> QED
      BY <3>1, <3>2, <3>3, AppendStep DEF JoinStep
  <2> QED
    BY <2>4, <2>5
<1> QED
  BY <1>2, <1>3

LEMMA JoinedLines == ASSUME NEW t \in Text PROVE Joined(Lines(t)) = t
<1>1. PICK r \in [0..Len(t) -> (Seq(Text) \ {<<>>})] :
        r[0] = << <<>> >> /\ (\A k \in 1..Len(t) : r[k] = LineStep(r[k-1], t[k])) /\ Lines(t) = r[Len(t)]
  BY LinesFold
<1> DEFINE n == Len(t)
           T == {k \in 0..n : Joined(r[k]) = SubSeq(t, 1, k)}
<1>2. n \in Nat /\ SubSeq(t, 1, 0) = <<>> /\ SubSeq(t, 1, n) = t
  BY LenProperties, SubSeqEmpty, SubSeqFull DEF Text
<1> HIDE DEF n
<1>3. 0 \in T
  <2>1. Joined(r[0]) = <<>>
    BY <1>1, JoinOne, TextConcat
  <2>2. Joined(r[0]) = SubSeq(t, 1, 0)
    BY <1>2, <2>1
  <2> QED
    BY <1>2, <2>2
<1>4. ASSUME NEW k \in 0..(n - 1), k \in T PROVE k + 1 \in T
  <2>1. k + 1 \in 1..n /\ (k + 1) - 1 = k /\ k \in 0..n /\ k + 1 \in 0..n
    BY <1>2
  <2>2. t[k + 1] \in Tokens /\ SubSeq(t, 1, k + 1) = Append(SubSeq(t, 1, k), t[k + 1])
    BY PrefixStep DEF n
  <2>3. r[k + 1] = LineStep(r[k], t[k + 1]) /\ r[k] \in Seq(Text) /\ r[k] # <<>>
    BY <1>1, <2>1 DEF n
  <2>4. Joined(r[k]) = SubSeq(t, 1, k)
    BY <1>4
  <2>5. Joined(r[k + 1]) = SubSeq(t, 1, k + 1)
    BY <2>2, <2>3, <2>4, LineStepJoined
  <2> QED
    BY <2>1, <2>5
<1>5. T = 0..n
  <2>1. T \in SUBSET (0..n)
    OBVIOUS
  <2> HIDE DEF T
  <2> QED
    BY <1>2, <1>3, <1>4, <2>1, Upwards
<1>6. n \in T
  <2> HIDE DEF T
  <2> QED
    BY <1>2, <1>5
<1> QED
  BY <1>1, <1>2, <1>6 DEF n

(* Lines in the midst of others.                                           *)
Before(u) == IF u = <<>> THEN <<>> ELSE Joined(u) \o <<"nl">>

After(v) == IF v = <<>> THEN <<>> ELSE <<"nl">> \o Joined(v)

LEMMA JoinMidst ==
  ASSUME NEW u \in Seq(Text), NEW x \in Seq(Text) \ {<<>>}, NEW v \in Seq(Text)
  PROVE  /\ Before(u) \in Text /\ After(v) \in Text
         /\ Joined(u \o x \o v) = (Before(u) \o Joined(x)) \o After(v)
<1>1. Before(u) \in Text /\ After(v) \in Text /\ Joined(x) \in Text
  BY JoinedType, TextConcat DEF Before, After
<1> DEFINE w == u \o x
<1>2. w \in Seq(Text) /\ w # <<>>
  BY ConcatProperties, ConcatEqualIffEmpty
<1>3. Joined(w) = Before(u) \o Joined(x)
  <2>1. CASE u = <<>>
    <3>1. w = x
      BY <2>1, ConcatEmptySeq
    <3> QED
      BY <1>1, <2>1, <3>1, TextConcat DEF Before
  <2>2. CASE u # <<>>
    BY <2>2, JoinConcat DEF Before, JoinStep
  <2> QED
    BY <2>1, <2>2
<1> HIDE DEF w
<1>4. Joined(w \o v) = Joined(w) \o After(v)
  <2>1. Joined(w) \in Text
    BY <1>2, JoinedType
  <2>2. CASE v = <<>>
    <3>1. w \o v = w
      BY <1>2, <2>2, ConcatEmptySeq
    <3> QED
      BY <2>1, <2>2, <3>1, TextConcat DEF After
  <2>3. CASE v # <<>>
    <3>1. Joined(w \o v) = (Joined(w) \o <<"nl">>) \o Joined(v) /\ Joined(v) \in Text
      BY <1>2, <2>3, JoinConcat, JoinedType DEF JoinStep
    <3> QED
      BY <2>1, <2>3, <3>1, TextConcat DEF After
  <2> QED
    BY <2>2, <2>3
<1> QED
  BY <1>1, <1>3, <1>4 DEF w

-----------------------------------------------------------------------------
(* A line is a text without a newline.  Texts are split into lines, and    *)
(* lines that were joined are found again.                                 *)
Line == Seq(Tokens \ {"nl"})

LEMMA LineIsText == Line \subseteq Text /\ <<>> \in Line
<1>1. ASSUME NEW l \in Line PROVE l \in Text
  BY SeqMonotonic DEF Line, Text, Tokens
<1>2. <<>> \in Line
  BY EmptySeq DEF Line
<1> QED
  BY <1>1, <1>2

LEMMA LinesAppend ==
  /\ Lines(<<>>) = << <<>> >>
  /\ \A t \in Text : Lines(t) \in Seq(Text) \ {<<>>}
  /\ \A t \in Text, x \in Tokens : Lines(Append(t, x)) = LineStep(Lines(t), x)
<1>1. Lines(<<>>) = << <<>> >>
  <2>1. <<>> \in Text /\ Len(<<>>) = 0
    BY EmptySeq DEF Text
  <2> QED
    BY <2>1, LinesFold
<1>2. ASSUME NEW t \in Text PROVE Lines(t) \in Seq(Text) \ {<<>>}
  <2>1. Len(t) \in 0..Len(t)
    BY LenProperties DEF Text
  <2> QED
    BY <2>1, LinesFold
<1>3. ASSUME NEW t \in Text, NEW x \in Tokens
      PROVE  Lines(Append(t, x)) = LineStep(Lines(t), x)
  <2> DEFINE u == Append(t, x)
             n == Len(t)
             R == Seq(Text) \ {<<>>}
  <2>1. /\ u \in Text /\ n \in Nat /\ Len(u) = n + 1 /\ u[n + 1] = x
        /\ \A k \in 1..n : u[k] = t[k]
    BY AppendProperties, LenProperties DEF Text, Tokens
  <2>2. PICK r \in [0..n -> R] :
          /\ r[0] = << <<>> >> /\ (\A k \in 1..n : r[k] = LineStep(r[k-1], t[k]))
          /\ Lines(t) = r[n]
    BY LinesFold
  <2> HIDE DEF u, n
  <2>3. PICK q \in [0..(n + 1) -> R] :
          /\ q[0] = << <<>> >> /\ \A k \in 1..(n + 1) : q[k] = LineStep(q[k-1], u[k])
          /\ Lines(u) = q[n + 1]
    BY <2>1, LinesFold
  <2> HIDE DEF R
  <2> DEFINE T == {k \in 0..n : q[k] = r[k]}
  <2>4. T = 0..n
    <3>1. 0 \in T /\ T \in SUBSET (0..n)
      BY <2>1, <2>2, <2>3
    <3>2. ASSUME NEW k \in 0..(n - 1), k \in T PROVE k + 1 \in T
      <4>1. k + 1 \in 1..n /\ k + 1 \in 1..(n + 1) /\ (k + 1) - 1 = k /\ k + 1 \in 0..n
        BY <2>1
      <4>2. q[k + 1] = LineStep(q[k], u[k + 1]) /\ r[k + 1] = LineStep(r[k], t[k + 1])
        BY <2>2, <2>3, <4>1
      <4> QED
        BY <2>1, <3>2, <4>1, <4>2
    <3> HIDE DEF T
    <3> QED
      BY <2>1, <3>1, <3>2, Upwards
  <2>5. n \in T /\ n + 1 \in 1..(n + 1) /\ (n + 1) - 1 = n
    BY <2>1, <2>4
  <2>6. Lines(u) = LineStep(q[n], x)
    BY <2>1, <2>3, <2>5
  <2> QED
    BY <2>2, <2>5, <2>6 DEF u
<1> QED
  BY <1>1, <1>2, <1>3

LEMMA LinesAreLines == ASSUME NEW t \in Text PROVE Lines(t) \in Seq(Line) \ {<<>>}
<1> DEFINE R == Seq(Line) \ {<<>>}
           T == {s \in Text : Lines(s) \in R}
<1>1. <<>> \in T
  <2>1. <<>> \in Line /\ <<>> \in Text
    BY LineIsText
  <2>2. << <<>> >> \in Seq(Line) /\ << <<>> >> # <<>>
    BY <2>1
  <2> QED
    BY <2>1, <2>2, LinesAppend
<1>2. ASSUME NEW s \in T, NEW x \in Tokens PROVE Append(s, x) \in T
  <2>1. s \in Text /\ Lines(s) \in R /\ Append(s, x) \in Text
    BY TextAppend
  <2>2. Lines(Append(s, x)) = LineStep(Lines(s), x)
    BY <2>1, LinesAppend
  <2>3. CASE x = "nl"
    <3>1. LineStep(Lines(s), x) = Append(Lines(s), <<>>)
      BY <2>3 DEF LineStep
    <3>2. Append(Lines(s), <<>>) \in R
      BY <2>1, LineIsText, AppendProperties
    <3> QED
      BY <2>1, <2>2, <3>1, <3>2
  <2>4. CASE x # "nl"
    <3>1. PICK f \in Seq(Line), l \in Line : Lines(s) = Append(f, l)
      BY <2>1, SequenceEmptyOrAppend
    <3>2. f \in Seq(Text) /\ l \in Text
      BY LineIsText, SeqMonotonic
    <3>3. LineStep(Lines(s), x) = Append(f, Append(l, x))
      BY <2>4, <3>1, <3>2, LineStepLast
    <3>4. Append(l, x) \in Line
      BY <2>4, AppendProperties DEF Line
    <3> DEFINE e == Append(l, x)
    <3>5. Append(f, e) \in Seq(Line) /\ Append(f, e) # <<>>
      <4> HIDE DEF e
      <4> QED
        BY <3>1, <3>4, AppendProperties DEF e
    <3> QED
      BY <2>1, <2>2, <3>3, <3>5
  <2> QED
    BY <2>3, <2>4
<1>3. T = Text
  <2>1. T \in SUBSET Text
    OBVIOUS
  <2> HIDE DEF T
  <2> QED
    BY <1>1, <1>2, <2>1, TextInduction
<1> QED
  BY <1>3

(* What comes before the next newline belongs to the last line.            *)
LEMMA LinesGrow ==
  ASSUME NEW t \in Text, NEW f \in Seq(Text), NEW l \in Text, Lines(t) = Append(f, l),
         NEW m \in Line
  PROVE  Lines(t \o m) = Append(f, l \o m)
<1> DEFINE T == {s \in Line : Lines(t \o s) = Append(f, l \o s)}
<1>1. <<>> \in T
  BY LineIsText, TextConcat
<1>2. ASSUME NEW s \in T, NEW x \in Tokens \ {"nl"} PROVE Append(s, x) \in T
  <2>1. s \in Line /\ s \in Text /\ t \o s \in Text /\ l \o s \in Text
    BY LineIsText, TextConcat
  <2>2. Append(s, x) \in Line
    BY <2>1, AppendProperties DEF Line
  <2>3. t \o Append(s, x) = Append(t \o s, x) /\ l \o Append(s, x) = Append(l \o s, x)
    BY <2>1, AppendStep
  <2>4. Lines(Append(t \o s, x)) = LineStep(Append(f, l \o s), x)
    BY <2>1, <1>2, LinesAppend
  <2>5. LineStep(Append(f, l \o s), x) = Append(f, Append(l \o s, x))
    BY <2>1, LineStepLast
  <2> QED
    BY <2>2, <2>3, <2>4, <2>5
<1>3. T = Line
  <2>1. T \in SUBSET Line
    OBVIOUS
  <2> HIDE DEF T
  <2> QED
    BY <1>1, <1>2, <2>1, SeqInduction DEF Line
<1> QED
  BY <1>3

LEMMA LinesJoined == ASSUME NEW ls \in Seq(Line), ls # <<>> PROVE Lines(Joined(ls)) = ls
<1> DEFINE T == {s \in Seq(Line) : s # <<>> => Lines(Joined(s)) = s}
<1>1. <<>> \in T
  BY EmptySeq
<1>2. ASSUME NEW s \in T, NEW l \in Line PROVE Append(s, l) \in T
  <2>1. s \in Seq(Line) /\ s \in Seq(Text) /\ l \in Text /\ <<>> \in Text /\ "nl" \in Tokens
    BY LineIsText, SeqMonotonic DEF Tokens, Blank
  <2>2. Append(s, l) \in Seq(Line)
    BY <2>1, AppendProperties
  <2>3. CASE s = <<>>
    <3>1. Append(s, l) = <<l>>
      BY <2>3
    <3>2. Lines(<<>>) = Append(<<>>, <<>>) /\ <<>> \in Seq(Text)
      BY LinesAppend, EmptySeq
    <3>3. Lines(<<>> \o l) = Append(<<>>, <<>> \o l)
      BY <2>1, <3>2, LinesGrow
    <3>4. Lines(l) = <<l>>
      BY <2>1, <3>3, TextConcat
    <3> QED
      BY <2>1, <2>2, <3>1, <3>4, JoinOne
  <2>4. CASE s # <<>>
    <3> DEFINE j == Joined(s)
    <3>1. j \in Text /\ Lines(j) = s
      BY <1>2, <2>1, <2>4, JoinedType
    <3>2. Joined(Append(s, l)) = (j \o <<"nl">>) \o l
      BY <2>1, <2>4, JoinAppend DEF JoinStep
    <3> HIDE DEF j
    <3>3. j \o <<"nl">> = Append(j, "nl") /\ j \o <<"nl">> \in Text
      BY <2>1, <3>1, TextAppend
    <3>4. Lines(j \o <<"nl">>) = Append(s, <<>>)
      BY <2>1, <3>1, <3>3, LinesAppend DEF LineStep
    <3>5. Lines((j \o <<"nl">>) \o l) = Append(s, <<>> \o l)
      BY <2>1, <3>3, <3>4, LinesGrow
    <3> QED
      BY <2>1, <2>2, <3>2, <3>5, TextConcat
  <2> QED
    BY <2>3, <2>4
<1>3. T = Seq(Line)
  <2>1. T \in SUBSET Seq(Line)
    OBVIOUS
  <2> HIDE DEF T
  <2> QED
    BY <1>1, <1>2, <2>1, SeqInduction
<1> QED
  BY <1>3

(* Joining adds nothing but newlines.                                      *)
LEMMA JoinedWithin ==
  ASSUME NEW W \in SUBSET Tokens, "nl" \in W, NEW ls \in Seq(Seq(W)), ls # <<>>
  PROVE  Joined(ls) \in Seq(W)
<1> DEFINE V == Seq(W)
           T == {s \in Seq(V) : s # <<>> => Joined(s) \in V}
<1>1. V \subseteq Text
  <2>1. ASSUME NEW s \in V PROVE s \in Text
    BY SeqMonotonic DEF Text, Tokens
  <2> QED
    BY <2>1
<1>2. <<"nl">> \in V /\ \A a, b \in V : a \o b \in V
  BY ConcatProperties
<1>3. <<>> \in T
  BY EmptySeq
<1> HIDE DEF V
<1>4. ASSUME NEW s \in T, NEW l \in V PROVE Append(s, l) \in T
  <2>1. s \in Seq(V) /\ s \in Seq(Text) /\ l \in Text
    BY <1>1, SeqMonotonic
  <2>2. Append(s, l) \in Seq(V)
    BY <2>1, AppendProperties
  <2>3. CASE s = <<>>
    <3>1. Append(s, l) = <<l>>
      BY <2>3
    <3> QED
      BY <2>1, <2>2, <3>1, JoinOne
  <2>4. CASE s # <<>>
    <3>1. Joined(Append(s, l)) = (Joined(s) \o <<"nl">>) \o l /\ Joined(s) \in V
      BY <1>4, <2>1, <2>4, JoinAppend DEF JoinStep
    <3> QED
      BY <1>2, <2>2, <3>1
  <2> QED
    BY <2>3, <2>4
<1>5. T = Seq(V)
  <2>1. T \in SUBSET Seq(V)
    OBVIOUS
  <2> HIDE DEF T
  <2> QED
    BY <1>3, <1>4, <2>1, SeqInduction
<1> QED
  BY <1>5 DEF V

-----------------------------------------------------------------------------
(* strings.TrimSpace: what it keeps, and that there is nothing else.       *)
Spanned(s, i, j) ==
  /\ i \in 1..Len(s) /\ j \in i..Len(s)
  /\ s[i] \notin Blank /\ s[j] \notin Blank
  /\ \A k \in 1..(i - 1) : s[k] \in Blank
  /\ \A k \in (j + 1)..Len(s) : s[k] \in Blank

AllBlank(s) == \A k \in 1..Len(s) : s[k] \in Blank

LEMMA TrimAll == ASSUME NEW s, AllBlank(s) PROVE TrimSpace(s) = <<>>
  BY DEF AllBlank, TrimSpace

LEMMA TrimSpan ==
  ASSUME NEW s, Len(s) \in Nat, NEW i, NEW j, Spanned(s, i, j)
  PROVE  TrimSpace(s) = SubSeq(s, i, j)
<1> DEFINE kept == {k \in 1..Len(s) : s[k] \notin Blank}
<1>1. /\ i \in kept /\ j \in kept /\ kept \in SUBSET (1..Len(s)) /\ kept \in SUBSET Nat
      /\ i \in Nat /\ j \in Nat
  BY DEF Spanned
<1>2. ASSUME NEW k \in kept PROVE i <= k /\ k <= j
  BY DEF Spanned
<1>3. TrimSpace(s) = SubSeq(s, Min(kept), Max(kept))
  BY <1>1 DEF TrimSpace
<1> HIDE DEF kept
<1>4. Min(kept) \in kept /\ Max(kept) \in kept /\ Min(kept) <= i /\ Max(kept) >= j
  BY <1>1, MinIsMember, MaxIsMember
<1>5. Min(kept) \in Nat /\ Max(kept) \in Nat /\ i <= Min(kept) /\ Max(kept) <= j
  BY <1>1, <1>2, <1>4
<1>6. Min(kept) = i /\ Max(kept) = j
  BY ONLY <1>1, <1>4, <1>5
<1> QED
  BY <1>3, <1>6

LEMMA SpanExists ==
  ASSUME NEW s, Len(s) \in Nat, ~AllBlank(s)
  PROVE  \E i \in 1..Len(s) : \E j \in i..Len(s) : Spanned(s, i, j)
<1> DEFINE kept == {k \in 1..Len(s) : s[k] \notin Blank}
           i == Min(kept)
           j == Max(kept)
<1>1. kept # {} /\ kept \in SUBSET (1..Len(s)) /\ kept \in SUBSET Nat
  BY DEF AllBlank
<1>2. i \in kept /\ j \in kept /\ (\A k \in kept : i <= k) /\ (\A k \in kept : j >= k)
  <2> HIDE DEF kept
  <2> QED
    BY <1>1, MinIsMember, MaxIsMember
<1>3. /\ i \in 1..Len(s) /\ j \in 1..Len(s) /\ i <= j /\ s[i] \notin Blank /\ s[j] \notin Blank
      /\ \A k \in 1..Len(s) : s[k] \notin Blank => i <= k /\ j >= k
  BY <1>2
<1> HIDE DEF i, j, kept
<1>4. j \in i..Len(s)
  BY <1>3
<1>5. \A k \in 1..(i - 1) : k \in 1..Len(s) /\ ~(i <= k)
  BY <1>3
<1>6. \A k \in (j + 1)..Len(s) : k \in 1..Len(s) /\ ~(j >= k)
  BY <1>3
<1>7. Spanned(s, i, j)
  BY <1>3, <1>4, <1>5, <1>6 DEF Spanned
<1> QED
  BY <1>3, <1>4, <1>7

LEMMA TrimFront ==
  ASSUME NEW t \in Text, NEW b \in Blank
  PROVE  TrimSpace(<<b>> \o t) = TrimSpace(t)
<1> DEFINE n == Len(t)
           u == <<b>> \o t
<1>1. t \in Seq(Tokens) /\ <<b>> \in Seq(Tokens) /\ Len(<<b>>) = 1 /\ <<b>>[1] = b /\ n \in Nat
  BY LenProperties DEF Text, Tokens
<1>2. /\ Len(u) = n + 1
      /\ \A k \in 1..(n + 1) : u[k] = IF k <= 1 THEN <<b>>[k] ELSE t[k - 1]
  BY <1>1, ConcatProperties
<1>3. u[1] = b /\ \A k \in 2..(n + 1) : u[k] = t[k - 1]
  BY <1>1, <1>2
<1>4. CASE AllBlank(t)
  <2>1. ASSUME NEW k \in 1..Len(u) PROVE u[k] \in Blank
    <3>1. k = 1 \/ (k \in 2..(n + 1) /\ k - 1 \in 1..n)
      BY <1>1, <1>2
    <3> HIDE DEF u
    <3> QED
      BY <1>3, <1>4, <3>1 DEF AllBlank
  <2> HIDE DEF u
  <2>2. TrimSpace(u) = <<>>
    BY <2>1, TrimAll DEF AllBlank
  <2> QED
    BY <1>4, <2>2, TrimAll DEF u
<1>5. CASE ~AllBlank(t)
  <2>1. PICK i \in 1..n : \E j \in i..n : Spanned(t, i, j)
    BY <1>1, <1>5, SpanExists
  <2>2. PICK j \in i..n : Spanned(t, i, j)
    BY <2>1
  <2>3. SubSeq(u, i + 1, j + 1) = SubSeq(t, i, j)
    <3>1. i + 1 \in 2..(1 + n) /\ j + 1 \in 2..(1 + n) /\ (i + 1) - 1 = i /\ (j + 1) - 1 = j
      BY <1>1
    <3> QED
      BY <1>1, <3>1, SubSeqOfConcat2
  <2> HIDE DEF u, n
  <2>4. i + 1 \in 1..Len(u) /\ j + 1 \in (i + 1)..Len(u)
    BY <1>1, <1>2
  <2>5. u[i + 1] = t[i] /\ u[j + 1] = t[j]
    <3>1. i + 1 \in 2..(n + 1) /\ j + 1 \in 2..(n + 1) /\ (i + 1) - 1 = i /\ (j + 1) - 1 = j
      BY <1>1
    <3> QED
      BY <1>3, <3>1
  <2>6. ASSUME NEW k \in 1..((i + 1) - 1) PROVE u[k] \in Blank
    <3>1. k = 1 \/ (k \in 2..(n + 1) /\ k - 1 \in 1..(i - 1))
      BY <1>1
    <3> QED
      BY <1>3, <2>2, <3>1 DEF Spanned
  <2>7. ASSUME NEW k \in ((j + 1) + 1)..Len(u) PROVE u[k] \in Blank
    <3>1. k \in 2..(n + 1) /\ k - 1 \in (j + 1)..n
      BY <1>1, <1>2
    <3> QED
      BY <1>3, <2>2, <3>1 DEF Spanned, n
  <2>8. Spanned(u, i + 1, j + 1)
    BY <2>2, <2>4, <2>5, <2>6, <2>7 DEF Spanned
  <2>9. TrimSpace(u) = SubSeq(u, i + 1, j + 1) /\ TrimSpace(t) = SubSeq(t, i, j)
    <3>1. Len(u) \in Nat /\ Len(t) \in Nat
      BY <1>1, <1>2 DEF n
    <3> QED
      BY <2>2, <2>8, <3>1, TrimSpan
  <2> QED
    BY <2>3, <2>9 DEF u
<1> QED
  BY <1>4, <1>5

LEMMA TrimTwice == ASSUME NEW t \in Text PROVE TrimSpace(TrimSpace(t)) = TrimSpace(t)
<1> DEFINE n == Len(t)
<1>1. n \in Nat
  BY LenProperties DEF Text
<1>2. CASE AllBlank(t)
  <2>1. TrimSpace(t) = <<>> /\ AllBlank(<<>>)
    BY <1>2, TrimAll DEF AllBlank
  <2> QED
    BY <2>1, TrimAll
<1>3. CASE ~AllBlank(t)
  <2>1. PICK i \in 1..n : \E j \in i..n : Spanned(t, i, j)
    BY <1>1, <1>3, SpanExists
  <2>2. PICK j \in i..n : Spanned(t, i, j)
    BY <2>1
  <2> DEFINE m == SubSeq(t, i, j)
             l == j - i + 1
  <2>3. i \in Int /\ j \in Int /\ i <= j /\ \A k \in i..j : k \in 1..n
    BY <1>1
  <2>4. m \in Text /\ Len(m) = l /\ \A k \in 1..l : m[k] = t[i + k - 1]
    <3>1. \A k \in i..j : t[k] \in Words \cup Blank
      BY <2>3, ElementOfSeq DEF Text
    <3> QED
      BY <2>3, <3>1, SubSeqProperties DEF Text
  <2>5. TrimSpace(t) = m
    BY <1>1, <2>2, TrimSpan
  <2>6. l \in Nat \ {0} /\ i + 1 - 1 = i /\ i + l - 1 = j
    BY <2>3
  <2> HIDE DEF m, n, l
  <2>7. m[1] = t[i] /\ m[l] = t[j]
    <3>1. 1 \in 1..l /\ l \in 1..l
      BY <2>6
    <3> QED
      BY <2>4, <2>6, <3>1
  <2>8. 1 \in 1..Len(m) /\ l \in 1..Len(m) /\ 1..(1 - 1) = {} /\ (l + 1)..Len(m) = {}
    BY <2>4, <2>6
  <2>9. Spanned(m, 1, l)
    BY <2>2, <2>7, <2>8 DEF Spanned
  <2>10. TrimSpace(m) = SubSeq(m, 1, Len(m))
    BY <2>4, <2>6, <2>9, TrimSpan
  <2> QED
    BY <2>4, <2>5, <2>10, SubSeqFull DEF Text
<1> QED
  BY <1>2, <1>3

(* Being the end of a sequence, position by position.                      *)
EndOf(s, t) ==
  /\ Len(s) \in 0..Len(t)
  /\ \A k \in 1..Len(s) : s[k] = t[Len(t) - Len(s) + k]

LEMMA EndIsSuffix ==
  ASSUME NEW S, NEW s \in Seq(S), NEW t \in Seq(S), EndOf(s, t)
  PROVE  IsSuffix(s, t)
<1> DEFINE m == Len(s)
           n == Len(t)
           r == Reverse(s)
           q == Reverse(t)
<1>1. m \in Nat /\ n \in Nat /\ m <= n
  BY LenProperties DEF EndOf
<1>2. ASSUME NEW z \in Seq(S)
      PROVE  /\ Reverse(z) \in Seq(S) /\ Len(Reverse(z)) = Len(z)
             /\ \A k \in 1..Len(z) : Reverse(z)[k] = z[Len(z) - k + 1]
  <2>1. Len(z) \in Nat /\ \A k \in 1..Len(z) : Len(z) - k + 1 \in 1..Len(z)
    BY LenProperties
  <2>2. \A k \in 1..Len(z) : z[Len(z) - k + 1] \in S
    BY <2>1, ElementOfSeq
  <2> DEFINE v == [k \in 1..Len(z) |-> z[Len(z) - k + 1]]
  <2>3. Reverse(z) = v
    BY DEF Reverse
  <2>4. v \in Seq(S) /\ Len(v) = Len(z)
    BY <2>1, <2>2
  <2> QED
    BY <2>3, <2>4
<1>3. /\ r \in Seq(S) /\ q \in Seq(S) /\ Len(r) = m /\ Len(q) = n
      /\ \A k \in 1..m : r[k] = s[m - k + 1]
      /\ \A k \in 1..n : q[k] = t[n - k + 1]
  BY <1>2
<1>4. \A k \in 1..m : s[k] = t[n - m + k]
  BY DEF EndOf
<1> HIDE DEF r, q, m, n
<1>5. ASSUME NEW k \in 1..m PROVE r[k] = q[k]
  <2>1. k \in 1..n /\ m - k + 1 \in 1..m /\ n - m + (m - k + 1) = n - k + 1
    BY <1>1
  <2>2. s[m - k + 1] = t[n - m + (m - k + 1)]
    BY <1>4, <2>1
  <2> QED
    BY <1>3, <2>1, <2>2
<1>6. SubSeq(r, 1, m) = SubSeq(q, 1, m)
  <2> DEFINE x == SubSeq(r, 1, m)
             y == SubSeq(q, 1, m)
  <2>1. \A k \in 1..m : k \in 1..n /\ r[k] \in S /\ q[k] \in S
    <3>1. \A k \in 1..m : k \in 1..n
      BY <1>1
    <3> QED
      BY <1>3, <3>1, ElementOfSeq
  <2>2. (IF 1 <= m THEN m - 1 + 1 ELSE 0) = m /\ 1..(m - 1 + 1) = 1..m /\ 1 \in Int /\ m \in Int
    BY <1>1
  <2>3. x \in Seq(S) /\ Len(x) = m /\ \A k \in 1..m : x[k] = r[1 + k - 1]
    BY <2>1, <2>2, SubSeqProperties
  <2>4. y \in Seq(S) /\ Len(y) = m /\ \A k \in 1..m : y[k] = q[1 + k - 1]
    BY <2>1, <2>2, SubSeqProperties
  <2>5. \A k \in 1..m : 1 + k - 1 = k
    BY <1>1
  <2> HIDE DEF x, y
  <2>6. \A k \in 1..m : x[k] = y[k]
    BY <1>5, <2>3, <2>4, <2>5
  <2>7. x = y
    BY <2>3, <2>4, <2>6, SeqEqual
  <2> QED
    BY <2>7 DEF x, y
<1> QED
  BY <1>1, <1>3, <1>6 DEF IsSuffix, IsPrefix, r, q, m, n

(* What ends a text, trimmed, ends the trimmed text.                       *)
LEMMA TrimEnds ==
  ASSUME NEW t \in Text, NEW h \in 0..Len(t)
  PROVE  /\ SubSeq(t, h + 1, Len(t)) \in Text
         /\ EndOf(TrimSpace(SubSeq(t, h + 1, Len(t))), TrimSpace(t))
<1> DEFINE n == Len(t)
           s == SubSeq(t, h + 1, n)
<1>1. n \in Nat /\ h \in Nat /\ h + 1 \in Int /\ h <= n
  BY LenProperties DEF Text
<1>2. \A k \in (h + 1)..n : t[k] \in Words \cup Blank
  <2>1. \A k \in (h + 1)..n : k \in 1..n
    BY <1>1
  <2> QED
    BY <2>1, ElementOfSeq DEF Text
<1>3. s \in Text /\ Len(s) = n - h /\ \A k \in 1..(n - h) : s[k] = t[h + k]
  <2>1. /\ s \in Text /\ Len(s) = IF h + 1 <= n THEN n - (h + 1) + 1 ELSE 0
        /\ \A k \in 1..(n - (h + 1) + 1) : s[k] = t[h + 1 + k - 1]
    BY <1>1, <1>2, SubSeqProperties DEF Text
  <2>2. (IF h + 1 <= n THEN n - (h + 1) + 1 ELSE 0) = n - h /\ n - (h + 1) + 1 = n - h
    BY <1>1
  <2>3. \A k \in 1..(n - h) : h + 1 + k - 1 = h + k
    BY <1>1
  <2> HIDE DEF s
  <2> QED
    BY <2>1, <2>2, <2>3
<1> HIDE DEF s
<1>4. TrimSpace(t) \in Text /\ Len(TrimSpace(t)) \in Nat
  BY TrimType, LenProperties DEF Text
<1>5. CASE AllBlank(s)
  <2>1. TrimSpace(s) = <<>> /\ Len(<<>>) = 0
    BY <1>5, TrimAll
  <2> QED
    BY <1>3, <1>4, <2>1 DEF EndOf, s
<1>6. CASE ~AllBlank(s)
  <2>1. Len(s) \in Nat
    BY <1>1, <1>3
  <2>2. PICK i \in 1..Len(s) : \E j \in i..Len(s) : Spanned(s, i, j)
    BY <1>6, <2>1, SpanExists
  <2>3. PICK j \in i..Len(s) : Spanned(s, i, j)
    BY <2>2
  <2>4. i \in Nat /\ j \in Nat /\ 1 <= i /\ i <= j /\ j <= n - h
    BY <1>1, <1>3
  <2>5. t[h + i] \notin Blank /\ t[h + j] \notin Blank
    <3>1. i \in 1..(n - h) /\ j \in 1..(n - h)
      BY <1>1, <2>4
    <3> QED
      BY <1>3, <2>3, <3>1 DEF Spanned
  <2>6. ~AllBlank(t)
    <3>1. h + i \in 1..n
      BY <1>1, <2>4
    <3> QED
      BY <2>5, <3>1 DEF AllBlank
  <2>7. PICK u \in 1..n : \E v \in u..n : Spanned(t, u, v)
    BY <1>1, <2>6, SpanExists
  <2>8. PICK v \in u..n : Spanned(t, u, v)
    BY <2>7
  <2>9. u \in Nat /\ v \in Nat /\ 1 <= u /\ u <= v /\ v <= n
    BY <1>1
  <2>10. u <= h + i
    <3>1. SUFFICES ASSUME ~(u <= h + i) PROVE FALSE
      OBVIOUS
    <3>2. h + i \in 1..(u - 1)
      BY <1>1, <2>4, <2>9, <3>1
    <3> QED
      BY <2>5, <2>8, <3>2 DEF Spanned
  <2>11. v = h + j
    <3>1. SUFFICES ASSUME v # h + j PROVE FALSE
      OBVIOUS
    <3>2. h + j \in (v + 1)..n \/ v - h \in (j + 1)..(n - h)
      BY <1>1, <2>4, <2>9, <3>1
    <3>3. CASE h + j \in (v + 1)..n
      BY <2>5, <2>8, <3>3 DEF Spanned
    <3>4. CASE v - h \in (j + 1)..(n - h)
      <4>1. v - h \in 1..(n - h) /\ h + (v - h) = v
        BY <1>1, <2>4, <2>9, <3>4
      <4>2. s[v - h] = t[v] /\ s[v - h] \in Blank
        BY <1>3, <2>3, <3>4, <4>1 DEF Spanned
      <4> QED
        BY <2>8, <4>2 DEF Spanned
    <3> QED
      BY <3>2, <3>3, <3>4
  <2> DEFINE x == SubSeq(s, i, j)
             y == SubSeq(t, u, v)
  <2>12. Len(x) = j - i + 1 /\ \A k \in 1..(j - i + 1) : x[k] = s[i + k - 1]
    <3>1. \A k \in i..j : s[k] \in Words \cup Blank
      <4>1. \A k \in i..j : k \in 1..Len(s)
        BY <1>1, <1>3, <2>4
      <4> QED
        BY <1>3, <4>1, ElementOfSeq DEF Text
    <3> QED
      BY <2>4, <3>1, SubSeqProperties
  <2>13. Len(y) = v - u + 1 /\ \A k \in 1..(v - u + 1) : y[k] = t[u + k - 1]
    <3>1. \A k \in u..v : t[k] \in Words \cup Blank
      <4>1. \A k \in u..v : k \in 1..n
        BY <1>1, <2>9
      <4> QED
        BY <4>1, ElementOfSeq DEF Text
    <3> QED
      BY <2>9, <3>1, SubSeqProperties
  <2>14. TrimSpace(s) = x /\ TrimSpace(t) = y
    BY <1>1, <2>1, <2>3, <2>8, TrimSpan
  <2> HIDE DEF x, y, n
  <2>15. Len(x) \in 0..Len(y)
    BY <1>1, <2>4, <2>9, <2>10, <2>11, <2>12, <2>13
  <2>16. ASSUME NEW k \in 1..Len(x) PROVE x[k] = y[Len(y) - Len(x) + k]
    <3>1. k \in 1..(j - i + 1) /\ i + k - 1 \in 1..(n - h)
      BY <1>1, <2>4, <2>12
    <3>2. x[k] = t[h + (i + k - 1)]
      BY <1>3, <2>12, <3>1
    <3> DEFINE z == Len(y) - Len(x) + k
    <3>3. z \in 1..(v - u + 1) /\ u + z - 1 = h + (i + k - 1)
      BY <1>1, <2>4, <2>9, <2>10, <2>11, <2>12, <2>13, <3>1
    <3> HIDE DEF z
    <3>4. x[k] = y[z]
      BY <2>13, <3>2, <3>3
    <3> QED
      BY <3>4 DEF z
  <2> QED
    BY <1>3, <2>14, <2>15, <2>16 DEF EndOf, s, n
<1> QED
  BY <1>5, <1>6

=============================================================================
