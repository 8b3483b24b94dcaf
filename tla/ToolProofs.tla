----------------------------- MODULE ToolProofs ------------------------------
(***************************************************************************)
(* Proofs about the tools a model can call: FileTools, for any workspace,  *)
(* any inputs and any texts; RingBuffer, for every buffer size, alphabet   *)
(* and write; BashTool, for every command and length; BackgroundTasks, for *)
(* any finite number of tasks and any number of concurrent calls of Kill   *)
(* and task_logs; and about the Reminder of the tools' failures, for any   *)
(* number of runs and any threshold.                                       *)
(***************************************************************************)
EXTENDS FileTools, RingBuffer, BashTool, BackgroundTasks, Reminder,
        TextProofs, FiniteSetTheorems

-----------------------------------------------------------------------------
(* Texts.  What the folds of FuzzyReplace do with one element.             *)
NormalStep(t, x) ==
  IF x = "nl" /\ t # <<>> /\ Last(t) = "cr" THEN Append(Front(t), x) ELSE Append(t, x)

SquashStep(t, x) == IF x \in Blank THEN t ELSE Append(t, x)

LEMMA NormalFold ==
  ASSUME NEW t \in Text
  PROVE  \E r \in [0..Len(t) -> Text] :
           /\ r[0] = <<>>
           /\ \A k \in 1..Len(t) : r[k] = NormalStep(r[k-1], t[k])
           /\ Normalized(t) = r[Len(t)]
<1> DEFINE n == Len(t)
           R == Text
           G == [x \in R \X (1..n) |-> NormalStep(x[1], t[x[2]])]
           Good(g) == g = [s \in SUBSET (1..n) |->
                             IF s = {} THEN <<>> ELSE NormalStep(g[s \ {Max(s)}], t[Max(s)])]
           h == CHOOSE g : Good(g)
<1>1. n \in Nat /\ DOMAIN t = 1..n
  OBVIOUS
<1>2. Normalized(t) = h[1..n]
  BY <1>1 DEF Normalized, FoldLeft, MapThenFoldSet, NormalStep
<1>3. <<>> \in R /\ G \in [R \X (1..n) -> R]
  <2>1. <<>> \in R
    BY EmptySeq DEF Text
  <2>2. ASSUME NEW u \in R, NEW i \in 1..n PROVE NormalStep(u, t[i]) \in R
    <3>1. t[i] \in Tokens
      BY <1>1, ElementOfSeq DEF Text, Tokens
    <3>2. Append(u, t[i]) \in Text
      BY <3>1, AppendProperties DEF Text, Tokens
    <3>3. Front(u) \in Text
      BY ElementOfSeq, LenProperties, SubSeqProperties DEF Front, Text
    <3>4. Append(Front(u), t[i]) \in Text
      BY <3>1, <3>3, AppendProperties DEF Text, Tokens
    <3> QED
      BY <3>2, <3>4 DEF NormalStep
  <2> QED
    BY <2>1, <2>2
<1>4. \E g : Good(g)
  <2>1. PICK f \in [SUBSET (1..n) -> R] : Iterates(f, n, <<>>, G)
    <3> HIDE DEF G, n, R
    <3> QED
      BY <1>1, <1>3, FoldExists
  <2>2. ASSUME NEW s \in SUBSET (1..n), s # {}
        PROVE  G[<<f[s \ {Max(s)}], Max(s)>>] = NormalStep(f[s \ {Max(s)}], t[Max(s)])
    <3>1. Max(s) \in 1..n /\ f[s \ {Max(s)}] \in R
      BY <1>1, <2>2, MaxIsMember
    <3> QED
      BY <3>1
  <2>3. f = [s \in SUBSET (1..n) |-> IF s = {} THEN <<>> ELSE G[<<f[s \ {Max(s)}], Max(s)>>]]
    BY <2>1 DEF Iterates
  <2> HIDE DEF G, n, R
  <2>4. Good(f)
    BY <2>2, <2>3
  <2> HIDE DEF Good
  <2> QED
    BY <2>4
<1>5. Good(h)
  <2> HIDE DEF Good
  <2> QED
    BY <1>4
<1> HIDE DEF h
<1>6. h[{}] = <<>>
  BY <1>5
<1>7. ASSUME NEW k \in 1..n, h[1..(k-1)] \in R PROVE h[1..k] = G[<<h[1..(k-1)], k>>]
  <2>1. Max(1..k) = k /\ (1..k) \ {k} = 1..(k-1) /\ 1..k # {} /\ 1..k \in SUBSET (1..n)
    BY <1>1, PrefixFold
  <2>2. h[1..k] = NormalStep(h[1..(k-1)], t[k])
    BY <1>5, <2>1
  <2> QED
    BY <1>7, <2>2
<1>8. \E r \in [0..n -> R] :
        r[0] = <<>> /\ (\A k \in 1..n : r[k] = G[<<r[k-1], k>>]) /\ r[n] = h[1..n]
  <2> DEFINE b == <<>>
  <2>1. b \in R /\ h[{}] = b
    BY <1>3, <1>6
  <2> HIDE DEF G, n, R, b
  <2>2. Follows(h, n, R, b, G)
    BY <1>7, <2>1 DEF Follows
  <2>3. Reaches(h, n, R, b, G)
    BY <1>1, <1>3, <2>1, <2>2, FoldPrefixes
  <2> QED
    BY <2>3 DEF b, Reaches
<1>9. PICK r \in [0..n -> R] :
        r[0] = <<>> /\ (\A k \in 1..n : r[k] = G[<<r[k-1], k>>]) /\ r[n] = h[1..n]
  BY <1>8
<1>10. ASSUME NEW k \in 1..n PROVE r[k] = NormalStep(r[k-1], t[k])
  <2>1. k - 1 \in 0..n
    BY <1>1
  <2> QED
    BY <1>9, <2>1
<1> QED
  BY <1>2, <1>9, <1>10

LEMMA SquashFold ==
  ASSUME NEW t \in Text
  PROVE  \E r \in [0..Len(t) -> Text] :
           /\ r[0] = <<>>
           /\ \A k \in 1..Len(t) : r[k] = SquashStep(r[k-1], t[k])
           /\ Squashed(t) = r[Len(t)]
<1> DEFINE n == Len(t)
           R == Text
           G == [x \in R \X (1..n) |-> SquashStep(x[1], t[x[2]])]
           Good(g) == g = [s \in SUBSET (1..n) |->
                             IF s = {} THEN <<>> ELSE SquashStep(g[s \ {Max(s)}], t[Max(s)])]
           h == CHOOSE g : Good(g)
<1>1. n \in Nat /\ DOMAIN t = 1..n
  OBVIOUS
<1>2. Squashed(t) = h[1..n]
  BY <1>1 DEF Squashed, FoldLeft, MapThenFoldSet, SquashStep
<1>3. <<>> \in R /\ G \in [R \X (1..n) -> R]
  <2>1. <<>> \in R
    BY EmptySeq DEF Text
  <2>2. ASSUME NEW u \in R, NEW i \in 1..n PROVE SquashStep(u, t[i]) \in R
    <3>1. t[i] \in Tokens
      BY <1>1, ElementOfSeq DEF Text, Tokens
    <3>2. Append(u, t[i]) \in Text
      BY <3>1, AppendProperties DEF Text, Tokens
    <3> QED
      BY <3>2 DEF SquashStep
  <2> QED
    BY <2>1, <2>2
<1>4. \E g : Good(g)
  <2>1. PICK f \in [SUBSET (1..n) -> R] : Iterates(f, n, <<>>, G)
    <3> HIDE DEF G, n, R
    <3> QED
      BY <1>1, <1>3, FoldExists
  <2>2. ASSUME NEW s \in SUBSET (1..n), s # {}
        PROVE  G[<<f[s \ {Max(s)}], Max(s)>>] = SquashStep(f[s \ {Max(s)}], t[Max(s)])
    <3>1. Max(s) \in 1..n /\ f[s \ {Max(s)}] \in R
      BY <1>1, <2>2, MaxIsMember
    <3> QED
      BY <3>1
  <2>3. f = [s \in SUBSET (1..n) |-> IF s = {} THEN <<>> ELSE G[<<f[s \ {Max(s)}], Max(s)>>]]
    BY <2>1 DEF Iterates
  <2> HIDE DEF G, n, R
  <2>4. Good(f)
    BY <2>2, <2>3
  <2> HIDE DEF Good
  <2> QED
    BY <2>4
<1>5. Good(h)
  <2> HIDE DEF Good
  <2> QED
    BY <1>4
<1> HIDE DEF h
<1>6. h[{}] = <<>>
  BY <1>5
<1>7. ASSUME NEW k \in 1..n, h[1..(k-1)] \in R PROVE h[1..k] = G[<<h[1..(k-1)], k>>]
  <2>1. Max(1..k) = k /\ (1..k) \ {k} = 1..(k-1) /\ 1..k # {} /\ 1..k \in SUBSET (1..n)
    BY <1>1, PrefixFold
  <2>2. h[1..k] = SquashStep(h[1..(k-1)], t[k])
    BY <1>5, <2>1
  <2> QED
    BY <1>7, <2>2
<1>8. \E r \in [0..n -> R] :
        r[0] = <<>> /\ (\A k \in 1..n : r[k] = G[<<r[k-1], k>>]) /\ r[n] = h[1..n]
  <2> DEFINE b == <<>>
  <2>1. b \in R /\ h[{}] = b
    BY <1>3, <1>6
  <2> HIDE DEF G, n, R, b
  <2>2. Follows(h, n, R, b, G)
    BY <1>7, <2>1 DEF Follows
  <2>3. Reaches(h, n, R, b, G)
    BY <1>1, <1>3, <2>1, <2>2, FoldPrefixes
  <2> QED
    BY <2>3 DEF b, Reaches
<1>9. PICK r \in [0..n -> R] :
        r[0] = <<>> /\ (\A k \in 1..n : r[k] = G[<<r[k-1], k>>]) /\ r[n] = h[1..n]
  BY <1>8
<1>10. ASSUME NEW k \in 1..n PROVE r[k] = SquashStep(r[k-1], t[k])
  <2>1. k - 1 \in 0..n
    BY <1>1
  <2> QED
    BY <1>9, <2>1
<1> QED
  BY <1>2, <1>9, <1>10

LEMMA FoldTypes ==
  ASSUME NEW t \in Text
  PROVE  Lines(t) \in Seq(Text) \ {<<>>} /\ Normalized(t) \in Text /\ Squashed(t) \in Text
<1>1. Len(t) \in 0..Len(t)
  BY DEF Text
<1> QED
  BY <1>1, LinesFold, NormalFold, SquashFold

(* ReplaceFirstSubSeq replaces one occurrence, and nothing else.           *)
ReplacedAt(i, r, s, t) == SubSeq(t, 1, i - 1) \o r \o SubSeq(t, i + Len(s), Len(t))

LEMMA ReplaceFirst ==
  ASSUME NEW r \in Text, NEW s \in Text, NEW t \in Text, s \in SubSeqs(t)
  PROVE  \E i \in 1..(Len(t) - Len(s) + 1) :
           OccursAt(s, t, i) /\ ReplaceFirstSubSeq(r, s, t) = ReplacedAt(i, r, s, t)
<1> DEFINE Ends(i) == s \in SubSeqs(SubSeq(t, 1, i))
           T == {i \in 0..Len(t) : Ends(i)}
           First(i) == i \in 0..Len(t) /\ Ends(i) /\ \A j \in 0..(i-1) : ~Ends(j)
           last == CHOOSE i \in 0..Len(t) : Ends(i) /\ \A j \in 0..(i-1) : ~Ends(j)
<1>1. Len(t) \in Nat /\ Len(s) \in Nat /\ SubSeq(t, 1, Len(t)) = t
  BY LenProperties, SubSeqFull DEF Text
<1>2. \E i : First(i)
  <2>1. Len(t) \in T
    <3>1. Ends(Len(t))
      BY <1>1, Zenon
    <3>2. Len(t) \in 0..Len(t)
      BY <1>1
    <3> HIDE DEF Ends
    <3> QED
      BY <3>1, <3>2
  <2>2. T \in SUBSET Nat /\ T # {}
    BY <1>1, <2>1
  <2>3. PICK i \in T : \A j \in T : i <= j
    <3> HIDE DEF T
    <3> QED
      BY <2>2, LeastNatural
  <2>4. \A j \in 0..(i-1) : j \in 0..Len(t) /\ j < i
    BY <1>1, <2>3
  <2>5. \A j \in 0..(i-1) : ~Ends(j)
    <3> HIDE DEF Ends
    <3> QED
      BY <2>3, <2>4
  <2>6. First(i)
    <3> HIDE DEF Ends
    <3> QED
      BY <2>3, <2>5
  <2> QED
    BY <2>6
<1>3. First(last)
  <2> HIDE DEF Ends
  <2> QED
    BY <1>2
<1>4. IndexFirstSubSeq(s, t) = last - (Len(s) - 1)
  BY DEF IndexFirstSubSeq
<1> HIDE DEF last
<1>5. last \in 0..Len(t) /\ s \in SubSeqs(SubSeq(t, 1, last))
  BY <1>3
<1> DEFINE u == SubSeq(t, 1, last)
<1>6. u \in Text /\ Len(u) = last
  <2>1. \A k \in 1..last : t[k] \in Tokens
    BY <1>5, ElementOfSeq DEF Text, Tokens
  <2> QED
    BY <1>5, <2>1, SubSeqProperties DEF Text, Tokens
<1>7. PICK a \in 0..last, b \in 0..last : s = SubSeq(u, a + 1, b)
  <2> HIDE DEF u
  <2>1. SubSeqs(u) = {SubSeq(u, x + 1, y) : x, y \in 0..last}
    BY <1>6 DEF SubSeqs
  <2> QED
    BY <1>5, <2>1 DEF u
<1>8. CASE a + 1 <= b
  <2>1. a \in Nat /\ b \in Nat /\ last \in Nat /\ last <= Len(t) /\ b <= last /\ a < b
    BY <1>1, <1>5, <1>7, <1>8
  <2>2. s = SubSeq(t, a + 1, b) /\ Len(s) = b - a
    <3>1. SubSeq(SubSeq(t, 1, last), a + 1, b) = SubSeq(t, a + 1, b)
      <4>1. /\ 1 \in 1..Len(t) /\ last \in 1..Len(t)
            /\ a + 1 \in 1..(last - 1 + 1) /\ b \in 1..(last - 1 + 1)
        BY <1>1, <2>1
      <4>2. SubSeq(SubSeq(t, 1, last), a + 1, b) = SubSeq(t, 1 + (a + 1) - 1, 1 + b - 1)
        BY <4>1, SubSeqOfSubSeq DEF Text
      <4> QED
        BY <2>1, <4>2
    <3>2. \A k \in (a+1)..b : t[k] \in Tokens
      BY <2>1, ElementOfSeq DEF Text, Tokens
    <3>3. Len(SubSeq(t, a + 1, b)) = b - a
      BY <1>8, <2>1, <3>2, SubSeqProperties
    <3> QED
      BY <1>7, <3>1, <3>3
  <2>3. b = last
    <3> SUFFICES ASSUME b < last PROVE FALSE
      BY <2>1
    <3> DEFINE v == SubSeq(t, 1, b)
    <3>1. Len(v) = b
      <4>1. \A k \in 1..b : t[k] \in Tokens
        BY <1>1, <2>1, ElementOfSeq DEF Text, Tokens
      <4> QED
        BY <2>1, <4>1, SubSeqProperties
    <3>2. SubSeq(v, a + 1, b) = SubSeq(t, a + 1, b)
      <4>1. /\ 1 \in 1..Len(t) /\ b \in 1..Len(t)
            /\ a + 1 \in 1..(b - 1 + 1) /\ b \in 1..(b - 1 + 1)
        BY <1>1, <2>1
      <4>2. SubSeq(SubSeq(t, 1, b), a + 1, b) = SubSeq(t, 1 + (a + 1) - 1, 1 + b - 1)
        BY <4>1, SubSeqOfSubSeq DEF Text
      <4> QED
        BY <2>1, <4>2
    <3>3. s \in SubSeqs(v)
      <4> HIDE DEF v
      <4>1. a \in 0..Len(v) /\ b \in 0..Len(v)
        BY <2>1, <3>1
      <4> QED
        BY <2>2, <3>2, <4>1 DEF SubSeqs
    <3>4. b \in 0..(last - 1)
      BY <2>1
    <3> QED
      BY <1>3, <3>3, <3>4
  <2>4. /\ last - (Len(s) - 1) = a + 1 /\ (a + 1) + Len(s) - 1 = last
        /\ a + 1 \in 1..(Len(t) - Len(s) + 1)
    BY <1>1, <2>1, <2>2, <2>3
  <2>5. OccursAt(s, t, a + 1)
    BY <1>1, <2>1, <2>2, <2>3, <2>4 DEF OccursAt
  <2>6. ReplaceFirstSubSeq(r, s, t) = ReplacedAt(a + 1, r, s, t)
    BY <1>4, <2>4 DEF ReplaceFirstSubSeq, ReplaceSubSeqAt, ReplacedAt
  <2> QED
    BY <2>4, <2>5, <2>6
<1>9. CASE ~(a + 1 <= b)
  <2>1. s = <<>> /\ Len(s) = 0
    <3>1. SubSeq(u, a + 1, b) = <<>>
      <4>1. a + 1 \in Int /\ b \in Int /\ b < a + 1
        BY <1>1, <1>5, <1>7, <1>9
      <4> QED
        BY <4>1, SubSeqEmpty
    <3> QED
      BY <1>7, <3>1, EmptySeq
  <2>2. SubSeq(t, 1, 0) = <<>>
    BY SubSeqEmpty
  <2>3. last = 0
    <3>1. SubSeq(<<>>, 0 + 1, 0) = <<>> /\ Len(<<>>) = 0
      BY SubSeqEmpty, EmptySeq
    <3>2. <<>> \in SubSeqs(<<>>)
      BY <3>1 DEF SubSeqs
    <3>3. s \in SubSeqs(SubSeq(t, 1, 0))
      BY <2>1, <2>2, <3>2
    <3>4. last \in Nat /\ (last # 0 => 0 \in 0..(last - 1))
      BY <1>1, <1>5
    <3> QED
      BY <1>3, <3>3, <3>4
  <2>4. last - (Len(s) - 1) = 1 /\ 1 \in 1..(Len(t) - Len(s) + 1)
    <3>1. Len(t) \in Nat /\ Len(s) = 0 /\ last = 0
      BY <1>1, <2>1, <2>3
    <3> HIDE DEF Ends, u
    <3> QED
      BY ONLY <3>1
  <2>5. OccursAt(s, t, 1)
    <3>1. 1 + Len(s) - 1 = 0
      BY <2>1
    <3> QED
      BY <1>1, <2>1, <2>2, <3>1 DEF OccursAt
  <2>6. ReplaceFirstSubSeq(r, s, t) = ReplacedAt(1, r, s, t)
    BY <1>4, <2>4 DEF ReplaceFirstSubSeq, ReplaceSubSeqAt, ReplacedAt
  <2> QED
    BY <2>4, <2>5, <2>6
<1> QED
  <2>1. a + 1 <= b \/ ~(a + 1 <= b)
    OBVIOUS
  <2> QED
    BY <1>8, <1>9, <2>1

-----------------------------------------------------------------------------
(* What strings.Count goes through, from the right.                        *)
Counted(f, s, t) ==
  \A i \in 1..(Len(s) + 1) :
    f[i] = IF i + Len(t) - 1 > Len(s) THEN 0
           ELSE IF OccursAt(t, s, i) THEN 1 + f[i + Len(t)]
           ELSE f[i + 1]

LEMMA CountFold ==
  ASSUME NEW s \in Text, NEW t \in Text, t # <<>>
  PROVE  \E f \in [1..(Len(s) + 1) -> Nat] : Counted(f, s, t) /\ Count(s, t) = f[1]
<1> DEFINE L == Len(s)
           m == Len(t)
           Rule(f, i) == IF i + m - 1 > L THEN 0
                         ELSE IF OccursAt(t, s, i) THEN 1 + f[i + m] ELSE f[i + 1]
           Good(f) == f = [i \in 1..(L + 1) |-> Rule(f, i)]
           h == CHOOSE f : Good(f)
           From(k) == (L + 1 - k)..(L + 1)
           T == {k \in 0..L : \E f \in [From(k) -> Nat] : \A i \in From(k) : f[i] = Rule(f, i)}
<1>1. L \in Nat /\ m \in Nat \ {0}
  BY EmptySeq, LenProperties DEF Text
<1>2. Count(s, t) = h[1]
  BY DEF Count
<1> HIDE DEF L, m
<1>3. 0 \in T
  <2> DEFINE f == [i \in From(0) |-> 0]
  <2>1. f \in [From(0) -> Nat] /\ \A i \in From(0) : f[i] = Rule(f, i)
    BY <1>1
  <2> HIDE DEF f, From, Rule
  <2>2. 0 \in 0..L
    BY <1>1
  <2> QED
    BY <2>1, <2>2
<1>4. ASSUME NEW k \in 0..(L - 1), k \in T PROVE k + 1 \in T
  <2>1. PICK f \in [From(k) -> Nat] : \A i \in From(k) : f[i] = Rule(f, i)
    BY <1>4
  <2> DEFINE j == L + 1 - (k + 1)
             g == [i \in From(k + 1) |-> IF i = j THEN Rule(f, j) ELSE f[i]]
  <2>2. /\ j \in Nat /\ j # 0 /\ j \notin From(k) /\ From(k + 1) = From(k) \cup {j}
        /\ \A i \in From(k + 1) : i + m - 1 <= L => i + m \in From(k) /\ i + 1 \in From(k)
    BY <1>1
  <2>3. g \in [From(k + 1) -> Nat]
    <3>1. Rule(f, j) \in Nat
      <4>1. CASE j + m - 1 > L
        BY <4>1
      <4>2. CASE j + m - 1 <= L
        <5>1. f[j + m] \in Nat /\ f[j + 1] \in Nat
          BY <2>2, <4>2
        <5>2. ~(j + m - 1 > L)
          BY <1>1, <2>2, <4>2
        <5> QED
          BY <5>1, <5>2
      <4> QED
        BY <1>1, <2>2, <4>1, <4>2
    <3> HIDE DEF From, Rule, j
    <3> QED
      BY <2>2, <3>1
  <2>4. ASSUME NEW i \in From(k + 1) PROVE g[i] = Rule(g, i)
    <3>1. Rule(g, i) = Rule(f, i)
      <4>1. CASE i + m - 1 > L
        BY <4>1
      <4>2. CASE i + m - 1 <= L
        <5>1. i + m \in From(k) /\ i + 1 \in From(k)
          BY <2>2, <4>2
        <5>2. g[i + m] = f[i + m] /\ g[i + 1] = f[i + 1]
          <6> HIDE DEF From, Rule, j
          <6> QED
            BY <2>2, <5>1
        <5> HIDE DEF g
        <5> QED
          BY <5>2
      <4> QED
        BY <1>1, <4>1, <4>2
    <3> HIDE DEF From, Rule, j
    <3>2. CASE i = j
      BY <3>1, <3>2
    <3>3. CASE i \in From(k)
      BY <2>1, <2>2, <3>1, <3>3
    <3> QED
      BY <2>2, <3>2, <3>3
  <2>5. k + 1 \in 0..L
    BY <1>1
  <2> HIDE DEF g, From, Rule
  <2> QED
    BY <2>3, <2>4, <2>5
<1>5. \E f : Good(f)
  <2>1. T = 0..L
    <3> HIDE DEF T
    <3>1. T \in SUBSET (0..L)
      BY DEF T
    <3> QED
      BY <1>1, <1>3, <1>4, <3>1, Upwards
  <2>2. From(L) = 1..(L + 1) /\ L \in 0..L
    BY <1>1
  <2>3. PICK f \in [1..(L + 1) -> Nat] : \A i \in 1..(L + 1) : f[i] = Rule(f, i)
    <3> HIDE DEF From, Rule
    <3> QED
      BY <2>1, <2>2
  <2>4. Good(f)
    <3> HIDE DEF Rule
    <3> QED
      BY <2>3
  <2> HIDE DEF Good
  <2> QED
    BY <2>4
<1>6. Good(h)
  <2> HIDE DEF Good
  <2> QED
    BY <1>5
<1> HIDE DEF h
<1>7. \A i \in 1..(L + 1) : h[i] = Rule(h, i)
  <2> HIDE DEF Rule
  <2> QED
    BY <1>6
<1>8. \A i \in 1..(L + 1) : h[i] \in Nat
  <2> DEFINE U == {k \in 0..L : \A i \in From(k) : h[i] \in Nat}
  <2>1. 0 \in U
    <3>1. \A i \in From(0) : i \in 1..(L + 1) /\ i + m - 1 > L
      BY <1>1
    <3> QED
      BY <1>1, <1>7, <3>1
  <2>2. ASSUME NEW k \in 0..(L - 1), k \in U PROVE k + 1 \in U
    <3>1. ASSUME NEW i \in From(k + 1) PROVE h[i] \in Nat
      <4>1. i \in 1..(L + 1) /\ (i + m - 1 <= L => i + m \in From(k) /\ i + 1 \in From(k))
        BY <1>1
      <4>2. i + m - 1 <= L => h[i + m] \in Nat /\ h[i + 1] \in Nat
        BY <2>2, <4>1
      <4>3. i + m - 1 <= L \/ i + m - 1 > L
        BY <1>1
      <4> QED
        BY <1>7, <4>1, <4>2, <4>3
    <3> QED
      BY <1>1, <3>1
  <2>3. U = 0..L
    <3> HIDE DEF U
    <3>1. U \in SUBSET (0..L)
      BY DEF U
    <3> QED
      BY <1>1, <2>1, <2>2, <3>1, Upwards
  <2>4. L \in U /\ From(L) = 1..(L + 1)
    <3>1. L \in 0..L /\ From(L) = 1..(L + 1)
      BY <1>1
    <3> QED
      BY <2>3, <3>1
  <2> QED
    BY <2>4
<1>9. h \in [1..(L + 1) -> Nat]
  <2>1. h = [i \in 1..(L + 1) |-> h[i]]
    <3> HIDE DEF Rule
    <3> QED
      BY <1>6
  <2> QED
    BY <1>8, <2>1
<1>10. Counted(h, s, t)
  BY <1>7 DEF Counted, L, m
<1> QED
  BY <1>2, <1>9, <1>10 DEF L

(* Count finds an occurrence if there is one, only if there is one, and    *)
(* more than one if two of them do not overlap.                            *)
LEMMA CountFinds ==
  ASSUME NEW s \in Text, NEW t \in Text, t # <<>>
  PROVE  /\ Count(s, t) \in Nat
         /\ Count(s, t) # 0 <=> \E i \in 1..Len(s) : OccursAt(t, s, i)
         /\ \A i, j \in 1..Len(s) :
              OccursAt(t, s, i) /\ OccursAt(t, s, j) /\ i + Len(t) <= j => Count(s, t) > 1
<1> DEFINE L == Len(s)
           m == Len(t)
           From(k) == (L + 1 - k)..(L + 1)
<1>1. L \in Nat /\ m \in Nat \ {0}
  BY EmptySeq, LenProperties DEF Text
<1>2. PICK f \in [1..(L + 1) -> Nat] : Counted(f, s, t) /\ Count(s, t) = f[1]
  BY CountFold
<1> DEFINE Tells(i) ==
             /\ f[i] # 0 => \E j \in i..L : OccursAt(t, s, j)
             /\ \A j \in i..L : OccursAt(t, s, j) => f[i] # 0
             /\ \A j, k \in i..L :
                  OccursAt(t, s, j) /\ OccursAt(t, s, k) /\ j + m <= k => f[i] > 1
           T == {k \in 0..L : \A i \in From(k) : Tells(i)}
<1>3. \A i \in 1..(L + 1) :
        f[i] = IF i + m - 1 > L THEN 0
               ELSE IF OccursAt(t, s, i) THEN 1 + f[i + m] ELSE f[i + 1]
  BY <1>2 DEF Counted
<1>4. \A j : OccursAt(t, s, j) => j + m - 1 <= L
  BY DEF OccursAt
<1> HIDE DEF L, m
<1>5. 0 \in T
  <2>1. \A i \in From(0) : i \in 1..(L + 1) /\ i + m - 1 > L /\ i..L = {}
    BY <1>1
  <2>2. \A i \in From(0) : f[i] = 0
    BY <1>3, <2>1
  <2> QED
    BY <1>1, <2>1, <2>2
<1>6. ASSUME NEW k \in 0..(L - 1), k \in T PROVE k + 1 \in T
  <2>1. ASSUME NEW i \in From(k + 1) PROVE Tells(i)
    <3>1. i \in 1..(L + 1) /\ (i + m - 1 <= L => i + m \in From(k) /\ i + 1 \in From(k))
      BY <1>1
    <3>2. CASE i + m - 1 > L
      <4>1. f[i] = 0
        BY <1>3, <3>1, <3>2
      <4>2. \A j \in i..L : ~OccursAt(t, s, j)
        BY <1>1, <1>4, <3>1, <3>2
      <4> QED
        BY <4>1, <4>2
    <3>3. CASE i + m - 1 <= L /\ OccursAt(t, s, i)
      <4>1. f[i] = 1 + f[i + m] /\ i \in i..L
        BY <1>1, <1>3, <3>1, <3>3
      <4>2. Tells(i + m) /\ f[i + m] \in Nat
        <5>1. i + m \in From(k) /\ i + m \in 1..(L + 1)
          BY <1>1, <3>1, <3>3
        <5> HIDE DEF Tells
        <5> QED
          BY <1>2, <1>6, <5>1
      <4>3. f[i] # 0 /\ \E j \in i..L : OccursAt(t, s, j)
        BY <3>3, <4>1, <4>2
      <4>4. ASSUME NEW j \in i..L, NEW l \in i..L,
                   OccursAt(t, s, j), OccursAt(t, s, l), j + m <= l
            PROVE  f[i] > 1
        <5>1. l \in (i + m)..L
          BY <1>1, <3>1, <4>4
        <5>2. f[i + m] # 0
          BY <4>2, <4>4, <5>1
        <5> QED
          BY <4>1, <4>2, <5>2
      <4> QED
        BY <4>3, <4>4
    <3>4. CASE i + m - 1 <= L /\ ~OccursAt(t, s, i)
      <4>1. f[i] = f[i + 1] /\ i + 1 \in From(k)
        BY <1>1, <1>3, <3>1, <3>4
      <4>2. Tells(i + 1)
        <5> HIDE DEF Tells
        <5> QED
          BY <1>6, <4>1
      <4>3. \A j \in i..L : OccursAt(t, s, j) => j \in (i + 1)..L
        BY <1>1, <3>1, <3>4
      <4>4. \A j \in (i + 1)..L : j \in i..L
        BY <1>1, <3>1
      <4> QED
        BY <4>1, <4>2, <4>3, <4>4
    <3> QED
      BY <1>1, <3>1, <3>2, <3>3, <3>4
  <2> HIDE DEF Tells
  <2> QED
    BY <1>1, <2>1
<1>7. Tells(1)
  <2>1. T = 0..L
    <3> HIDE DEF T
    <3>1. T \in SUBSET (0..L)
      BY DEF T
    <3> QED
      BY <1>1, <1>5, <1>6, <3>1, Upwards
  <2>2. L \in 0..L /\ 1 \in From(L)
    BY <1>1
  <2> HIDE DEF Tells
  <2> QED
    BY <2>1, <2>2
<1>8. f[1] \in Nat
  BY <1>1, <1>2
<1> QED
  BY <1>2, <1>7, <1>8 DEF L, m

(* So an old_text in two places is counted, also the empty one.            *)
LEMMA CountAmbiguous ==
  ASSUME NEW s \in Text, NEW t \in Text, Ambiguous(s, t)
  PROVE  Count(s, t) > 1
<1>1. CASE t # <<>>
  BY <1>1, CountFinds DEF Ambiguous
<1>2. CASE t = <<>>
  <2>1. Len(s) \in Nat /\ Len(s) # 0
    BY LenProperties DEF Ambiguous, Text
  <2>2. Count(s, t) = Len(s) + 1
    BY <1>2 DEF Count
  <2> QED
    BY <2>1, <2>2
<1> QED
  BY <1>1, <1>2

-----------------------------------------------------------------------------
(* The lines with those of a match replaced.                               *)
Spliced(lines, i, n, new) ==
  SubSeq(lines, 1, i - 1) \o <<new>> \o SubSeq(lines, i + n, Len(lines))

Refusals == {TooMany, NoSuchSnippet, NotFound, Similar}

LEMMA WindowsFound ==
  ASSUME NEW lines \in Seq(Text), NEW old \in Seq(Text), Windows(lines, old) # {}
  PROVE  /\ Min(Windows(lines, old)) \in Windows(lines, old)
         /\ Windows(lines, old) \subseteq 1..(Len(lines) - Len(old) + 1)
<1>1. Windows(lines, old) \subseteq 1..(Len(lines) - Len(old) + 1)
  BY DEF Windows
<1>2. Windows(lines, old) \in SUBSET Nat
  BY <1>1
<1> QED
  BY <1>1, <1>2, MinIsMember

(* Level 4 refuses, or splices the new text in at a match.                 *)
LEMMA LineByLine ==
  ASSUME NEW content, NEW oldText, NEW newText
  PROVE  \/ LineByLineReplace(content, oldText, newText) \in {Error(e) : e \in Refusals}
         \/ LET lines == Lines(content)
                old   == Lines(TrimSpace(oldText))
            IN  /\ Windows(lines, old) # {}
                /\ LineByLineReplace(content, oldText, newText) =
                     Success(Joined(Spliced(lines, Min(Windows(lines, old)), Len(old), newText)))
  BY DEF LineByLineReplace, Refusals, Spliced

LEMMA SplicedType ==
  ASSUME NEW lines \in Seq(Text), NEW old \in Seq(Text), NEW new \in Text,
         NEW i \in Windows(lines, old)
  PROVE  Spliced(lines, i, Len(old), new) \in Seq(Text) \ {<<>>}
<1>1. Len(lines) \in Nat /\ Len(old) \in Nat /\ i \in 1..(Len(lines) - Len(old) + 1)
  BY LenProperties DEF Windows
<1> DEFINE u == SubSeq(lines, 1, i - 1)
           v == SubSeq(lines, i + Len(old), Len(lines))
<1>2. u \in Seq(Text) /\ v \in Seq(Text)
  <2>1. \A k \in 1..(i - 1) : lines[k] \in Text
    BY <1>1, ElementOfSeq
  <2>2. \A k \in (i + Len(old))..Len(lines) : lines[k] \in Text
    BY <1>1, ElementOfSeq
  <2> QED
    BY <1>1, <2>1, <2>2, SubSeqProperties
<1>3. <<new>> \in Seq(Text) /\ Len(<<new>>) = 1
  OBVIOUS
<1> HIDE DEF u, v
<1>4. u \o <<new>> \in Seq(Text) /\ Len(u \o <<new>>) = Len(u) + 1 /\ Len(u) \in Nat
  BY <1>2, <1>3, ConcatProperties, LenProperties
<1>5. (u \o <<new>>) \o v \in Seq(Text) /\ Len((u \o <<new>>) \o v) = Len(u) + 1 + Len(v) /\ Len(v) \in Nat
  BY <1>2, <1>4, ConcatProperties, LenProperties
<1>6. (u \o <<new>>) \o v # <<>>
  <2>1. Len((u \o <<new>>) \o v) # 0
    BY <1>4, <1>5
  <2> QED
    BY <2>1, EmptySeq
<1> QED
  BY <1>5, <1>6 DEF Spliced, u, v

(* fuzzyReplace refuses, or replaces one literal occurrence of old_text,   *)
(* or of what levels 2 and 3 make of it, or goes by lines.                 *)
LEMMA FourLevels ==
  ASSUME NEW c, NEW o, NEW new
  PROVE  \/ Replaced(c, o, new) \in {Error(e) : e \in Refusals}
         \/ \E base \in {c, Normalized(c)}, old \in {o, Normalized(o), TrimSpace(Normalized(o))} :
              /\ Count(base, old) = 1
              /\ Replaced(c, o, new) = Success(ReplaceFirstSubSeq(new, old, base))
         \/ LET lines == Lines(Normalized(c))
                old   == Lines(TrimSpace(Normalized(o)))
            IN  /\ Windows(lines, old) # {}
                /\ Replaced(c, o, new) =
                     Success(Joined(Spliced(lines, Min(Windows(lines, old)), Len(old), new)))
<1> DEFINE n == Normalized(c)
           m == Normalized(o)
<1>1. CASE Count(c, o) = 1
  BY <1>1 DEF Replaced
<1>2. CASE Count(c, o) # 1 /\ Count(c, o) > 1
  BY <1>2 DEF Replaced, Refusals
<1>3. CASE Count(c, o) # 1 /\ ~(Count(c, o) > 1) /\ Count(n, m) = 1
  BY <1>3 DEF Replaced
<1>4. CASE Count(c, o) # 1 /\ ~(Count(c, o) > 1) /\ Count(n, m) # 1 /\ TrimSpace(m) # <<>> /\ Count(n, TrimSpace(m)) = 1
  BY <1>4 DEF Replaced
<1>5. CASE Count(c, o) # 1 /\ ~(Count(c, o) > 1) /\ Count(n, m) # 1 /\ ~(TrimSpace(m) # <<>> /\ Count(n, TrimSpace(m)) = 1)
  <2>1. Replaced(c, o, new) = LineByLineReplace(n, m, new)
    BY <1>5 DEF Replaced
  <2> QED
    BY <2>1, LineByLine
<1> QED
  BY <1>1, <1>2, <1>3, <1>4, <1>5

LEMMA ReplaceType ==
  ASSUME NEW r \in Text, NEW s \in Text, NEW t \in Text
  PROVE  ReplaceFirstSubSeq(r, s, t) \in Text
<1>1. CASE s \in SubSeqs(t)
  <2>1. PICK i \in 1..(Len(t) - Len(s) + 1) : ReplaceFirstSubSeq(r, s, t) = ReplacedAt(i, r, s, t)
    BY <1>1, ReplaceFirst
  <2>2. Len(t) \in Nat /\ Len(s) \in Nat
    BY LenProperties DEF Text
  <2>3. SubSeq(t, 1, i - 1) \in Text
    BY <2>2, SubText
  <2>4. SubSeq(t, i + Len(s), Len(t)) \in Text
    <3>1. i + Len(s) \in Nat \ {0} /\ Len(t) <= Len(t) /\ Len(t) \in Int
      BY <2>2
    <3> QED
      BY <3>1, SubText
  <2> QED
    BY <2>1, <2>3, <2>4 DEF ReplacedAt, Text
<1>2. CASE s \notin SubSeqs(t)
  BY <1>2 DEF ReplaceFirstSubSeq
<1> QED
  BY <1>1, <1>2

LEMMA ReplacedType ==
  ASSUME NEW c \in Text, NEW o \in Text, NEW new \in Text
  PROVE  /\ Replaced(c, o, new).ok \in BOOLEAN
         /\ Replaced(c, o, new).ok => Replaced(c, o, new).text \in Text
         /\ Replaced(c, o, new).ok => Replaced(c, o, new) = Success(Replaced(c, o, new).text)
         /\ ~Replaced(c, o, new).ok => Replaced(c, o, new).text \in Refusals
<1>1. /\ Normalized(c) \in Text /\ Normalized(o) \in Text /\ TrimSpace(Normalized(o)) \in Text
  BY FoldTypes, TrimType
<1>2. ASSUME NEW base \in {c, Normalized(c)}, NEW old \in {o, Normalized(o), TrimSpace(Normalized(o))}
      PROVE  ReplaceFirstSubSeq(new, old, base) \in Text
  <2>1. base \in Text /\ old \in Text
    BY <1>1, <1>2
  <2> QED
    BY <2>1, ReplaceType
<1> DEFINE lines == Lines(Normalized(c))
           old == Lines(TrimSpace(Normalized(o)))
           i == Min(Windows(lines, old))
<1>3. ASSUME Windows(lines, old) # {} PROVE Joined(Spliced(lines, i, Len(old), new)) \in Text
  <2>1. lines \in Seq(Text) /\ old \in Seq(Text)
    BY <1>1, FoldTypes
  <2> HIDE DEF lines, old
  <2>2. i \in Windows(lines, old)
    BY <1>3, <2>1, WindowsFound
  <2> HIDE DEF i
  <2>3. Spliced(lines, i, Len(old), new) \in Seq(Text) \ {<<>>}
    BY <2>1, <2>2, SplicedType
  <2> QED
    BY <2>3, JoinedType
<1>4. \/ \E e \in Refusals : Replaced(c, o, new) = Error(e)
      \/ \E t \in Text : Replaced(c, o, new) = Success(t)
  BY <1>2, <1>3, FourLevels
<1>5. ASSUME NEW e \in Refusals, Replaced(c, o, new) = Error(e)
      PROVE  ~Replaced(c, o, new).ok /\ Replaced(c, o, new).ok \in BOOLEAN
               /\ Replaced(c, o, new).text \in Refusals
  BY <1>5 DEF Error
<1>6. ASSUME NEW t \in Text, Replaced(c, o, new) = Success(t)
      PROVE  Replaced(c, o, new).ok /\ Replaced(c, o, new).ok \in BOOLEAN
               /\ Replaced(c, o, new).text \in Text
               /\ Replaced(c, o, new) = Success(Replaced(c, o, new).text)
  BY <1>6 DEF Success
<1> QED
  BY <1>4, <1>5, <1>6

-----------------------------------------------------------------------------
(* Two functions that begin alike and go on alike end alike.               *)
LEMMA SquashAppend ==
  /\ Squashed(<<>>) = <<>>
  /\ \A t \in Text, x \in Tokens : Squashed(Append(t, x)) = SquashStep(Squashed(t), x)
<1>1. Squashed(<<>>) = <<>>
  <2>1. <<>> \in Text /\ Len(<<>>) = 0
    BY EmptySeq DEF Text
  <2> QED
    BY <2>1, SquashFold
<1>2. ASSUME NEW t \in Text, NEW x \in Tokens
      PROVE  Squashed(Append(t, x)) = SquashStep(Squashed(t), x)
  <2> DEFINE u == Append(t, x)
             n == Len(t)
  <2>1. /\ u \in Text /\ n \in Nat /\ Len(u) = n + 1 /\ u[n + 1] = x
        /\ \A k \in 1..n : u[k] = t[k]
    BY AppendProperties, LenProperties DEF Text, Tokens
  <2> HIDE DEF u, n
  <2>2. PICK r \in [0..n -> Text] :
          r[0] = <<>> /\ (\A k \in 1..n : r[k] = SquashStep(r[k-1], t[k])) /\ Squashed(t) = r[n]
    BY SquashFold DEF n
  <2>3. PICK q \in [0..(n + 1) -> Text] :
          /\ q[0] = <<>> /\ \A k \in 1..(n + 1) : q[k] = SquashStep(q[k-1], u[k])
          /\ Squashed(u) = q[n + 1]
    BY <2>1, SquashFold
  <2> DEFINE T == {k \in 0..n : q[k] = r[k]}
  <2>4. T = 0..n
    <3>1. 0 \in T /\ T \in SUBSET (0..n)
      BY <2>1, <2>2, <2>3
    <3>2. ASSUME NEW k \in 0..(n - 1), k \in T PROVE k + 1 \in T
      <4>1. k + 1 \in 1..n /\ k + 1 \in 1..(n + 1) /\ (k + 1) - 1 = k /\ k + 1 \in 0..n
        BY <2>1
      <4>2. q[k + 1] = SquashStep(q[k], u[k + 1]) /\ r[k + 1] = SquashStep(r[k], t[k + 1])
        BY <2>2, <2>3, <4>1
      <4> QED
        BY <2>1, <3>2, <4>1, <4>2
    <3> HIDE DEF T
    <3> QED
      BY <2>1, <3>1, <3>2, Upwards
  <2>5. n \in T /\ n + 1 \in 1..(n + 1) /\ (n + 1) - 1 = n
    BY <2>1, <2>4
  <2>6. Squashed(u) = SquashStep(q[n], x)
    BY <2>1, <2>3, <2>5
  <2> QED
    BY <2>2, <2>5, <2>6 DEF u
<1> QED
  BY <1>1, <1>2

(* White space apart, texts are put together as they are.                  *)
LEMMA SquashConcat ==
  ASSUME NEW a \in Text, NEW b \in Text
  PROVE  Squashed(a \o b) = Squashed(a) \o Squashed(b)
<1> DEFINE T == {s \in Text : Squashed(a \o s) = Squashed(a) \o Squashed(s)}
<1>1. <<>> \in T
  BY SquashAppend, TextConcat, FoldTypes
<1>2. ASSUME NEW s \in T, NEW x \in Tokens PROVE Append(s, x) \in T
  <2>1. s \in Text /\ a \o s \in Text /\ Squashed(a) \in Text /\ Squashed(s) \in Text
          /\ Append(s, x) \in Text
    BY TextConcat, TextAppend, FoldTypes
  <2>2. Squashed(a \o Append(s, x)) = SquashStep(Squashed(a) \o Squashed(s), x)
    BY <2>1, AppendStep, SquashAppend
  <2>3. Squashed(Append(s, x)) = SquashStep(Squashed(s), x)
    BY <2>1, SquashAppend
  <2>4. SquashStep(Squashed(a) \o Squashed(s), x) = Squashed(a) \o SquashStep(Squashed(s), x)
    BY <2>1, AppendStep DEF SquashStep
  <2> QED
    BY <2>1, <2>2, <2>3, <2>4
<1>3. T = Text
  <2>1. T \in SUBSET Text
    OBVIOUS
  <2> HIDE DEF T
  <2> QED
    BY <1>1, <1>2, <2>1, TextInduction
<1> QED
  BY <1>3

LEMMA SquashNormal ==
  ASSUME NEW t \in Text
  PROVE  Squashed(Normalized(t)) = Squashed(t)
<1>1. PICK r \in [0..Len(t) -> Text] :
        r[0] = <<>> /\ (\A k \in 1..Len(t) : r[k] = NormalStep(r[k-1], t[k])) /\ Normalized(t) = r[Len(t)]
  BY NormalFold
<1> DEFINE n == Len(t)
           T == {k \in 0..n : Squashed(r[k]) = Squashed(SubSeq(t, 1, k))}
<1>2. n \in Nat /\ SubSeq(t, 1, 0) = <<>> /\ SubSeq(t, 1, n) = t
  BY LenProperties, SubSeqEmpty, SubSeqFull DEF Text
<1> HIDE DEF n
<1>3. 0 \in T
  <2>1. Squashed(r[0]) = Squashed(SubSeq(t, 1, 0))
    BY <1>1, <1>2
  <2> QED
    BY <1>2, <2>1
<1>4. ASSUME NEW k \in 0..(n - 1), k \in T PROVE k + 1 \in T
  <2> DEFINE u == r[k]
             x == t[k + 1]
  <2>1. k + 1 \in 1..n /\ (k + 1) - 1 = k /\ k \in 0..n /\ k + 1 \in 0..n
    BY <1>2
  <2>2. /\ SubSeq(t, 1, k) \in Text /\ x \in Tokens
        /\ SubSeq(t, 1, k + 1) = Append(SubSeq(t, 1, k), x)
    BY PrefixStep DEF n
  <2>3. r[k + 1] = NormalStep(u, x) /\ u \in Text
    BY <1>1, <2>1 DEF n
  <2>4. Squashed(u) = Squashed(SubSeq(t, 1, k))
    BY <1>4
  <2> HIDE DEF u, x
  <2>5. Squashed(NormalStep(u, x)) = SquashStep(Squashed(u), x)
    <3>1. CASE x = "nl" /\ u # <<>> /\ Last(u) = "cr"
      <4>1. Front(u) \in Text /\ u = Append(Front(u), "cr") /\ "cr" \in Tokens
        BY <2>3, <3>1, NonEmpty
      <4>2. Squashed(u) = Squashed(Front(u))
        BY <4>1, SquashAppend DEF SquashStep, Blank
      <4>3. NormalStep(u, x) = Append(Front(u), x)
        BY <3>1 DEF NormalStep
      <4> QED
        BY <2>2, <4>1, <4>2, <4>3, SquashAppend
    <3>2. CASE ~(x = "nl" /\ u # <<>> /\ Last(u) = "cr")
      <4>1. NormalStep(u, x) = Append(u, x)
        BY <3>2 DEF NormalStep
      <4> QED
        BY <2>2, <2>3, <4>1, SquashAppend
    <3> QED
      BY <3>1, <3>2
  <2>6. Squashed(SubSeq(t, 1, k + 1)) = SquashStep(Squashed(SubSeq(t, 1, k)), x)
    BY <2>2, SquashAppend
  <2> QED
    BY <2>1, <2>3, <2>4, <2>5, <2>6
<1>5. T = 0..n
  <2>1. T \in SUBSET (0..n)
    OBVIOUS
  <2> HIDE DEF T
  <2> QED
    BY <1>2, <1>3, <1>4, <2>1, Upwards
<1>6. n \in T
  <2> HIDE DEF T
  <2> QED
    BY <1>2, <1>5
<1> QED
  BY <1>1, <1>2, <1>6 DEF n

LEMMA BlankVanishes ==
  ASSUME NEW t \in Text, \A k \in 1..Len(t) : t[k] \in Blank
  PROVE  Squashed(t) = <<>>
<1> DEFINE n == Len(t)
           T == {k \in 0..n : Squashed(SubSeq(t, 1, k)) = <<>>}
<1>1. n \in Nat /\ SubSeq(t, 1, 0) = <<>> /\ SubSeq(t, 1, n) = t
  BY LenProperties, SubSeqEmpty, SubSeqFull DEF Text
<1> HIDE DEF n
<1>2. 0 \in T
  <2>1. Squashed(SubSeq(t, 1, 0)) = Squashed(<<>>)
    BY <1>1
  <2>2. Squashed(SubSeq(t, 1, 0)) = <<>>
    BY <2>1, SquashAppend
  <2> QED
    BY <1>1, <2>2
<1>3. ASSUME NEW k \in 0..(n - 1), k \in T PROVE k + 1 \in T
  <2>1. k + 1 \in 1..n /\ k + 1 \in 0..n
    BY <1>1
  <2>2. /\ SubSeq(t, 1, k) \in Text /\ t[k + 1] \in Tokens /\ t[k + 1] \in Blank
        /\ SubSeq(t, 1, k + 1) = Append(SubSeq(t, 1, k), t[k + 1])
    BY <2>1, PrefixStep DEF n
  <2>3. Squashed(SubSeq(t, 1, k + 1)) = Squashed(SubSeq(t, 1, k))
    BY <2>2, SquashAppend DEF SquashStep
  <2> QED
    BY <1>3, <2>1, <2>3
<1>4. T = 0..n
  <2>1. T \in SUBSET (0..n)
    OBVIOUS
  <2> HIDE DEF T
  <2> QED
    BY <1>1, <1>2, <1>3, <2>1, Upwards
<1>5. n \in T
  <2> HIDE DEF T
  <2> QED
    BY <1>1, <1>4
<1> QED
  BY <1>1, <1>5

LEMMA SquashTrim ==
  ASSUME NEW t \in Text
  PROVE  Squashed(TrimSpace(t)) = Squashed(t)
<1> DEFINE kept == {i \in 1..Len(t) : t[i] \notin Blank}
           i == Min(kept)
           j == Max(kept)
<1>1. Len(t) \in Nat /\ kept \in SUBSET (1..Len(t)) /\ kept \in SUBSET Nat
  BY DEF Text
<1>2. CASE kept = {}
  <2>1. TrimSpace(t) = <<>> /\ \A k \in 1..Len(t) : t[k] \in Blank
    BY <1>2 DEF TrimSpace
  <2> QED
    BY <2>1, BlankVanishes, SquashAppend
<1>3. CASE kept # {}
  <2>1. TrimSpace(t) = SubSeq(t, i, j)
    BY <1>3 DEF TrimSpace
  <2>2. /\ i \in kept /\ j \in kept /\ (\A k \in kept : i <= k) /\ (\A k \in kept : j >= k)
    <3> HIDE DEF kept
    <3> QED
      BY <1>1, <1>3, MinIsMember, MaxIsMember
  <2>3. /\ i \in 1..Len(t) /\ j \in 1..Len(t) /\ i <= j
        /\ \A k \in 1..(i - 1) : t[k] \in Blank
        /\ \A k \in (j + 1)..Len(t) : t[k] \in Blank
    <3>1. \A k \in 1..Len(t) : t[k] \notin Blank => i <= k /\ j >= k
      BY <2>2
    <3>2. i \in 1..Len(t) /\ j \in 1..Len(t) /\ i <= j
      BY <2>2
    <3> HIDE DEF i, j, kept
    <3> QED
      BY <1>1, <3>1, <3>2
  <2> HIDE DEF i, j, kept
  <2> DEFINE a == SubSeq(t, 1, i - 1)
             m == SubSeq(t, i, j)
             b == SubSeq(t, j + 1, Len(t))
  <2>4. a \in Text /\ m \in Text /\ b \in Text /\ t = (a \o m) \o b
    <3>1. i \in 1..(Len(t) + 1) /\ j \in (i-1)..Len(t)
      BY <1>1, <2>3
    <3> QED
      BY <3>1, ThreeParts
  <2>5. \A k \in 1..Len(a) : a[k] \in Blank
    <3>1. i - 1 \in Int /\ 1 \in Int /\ Len(t) \in Nat /\ \A k \in 1..(i - 1) : t[k] \in Tokens
      BY <1>1, <2>3, ElementOfSeq DEF Text, Tokens
    <3>2. Len(a) = i - 1 /\ \A k \in 1..(i - 1) : a[k] = t[k]
      BY <2>3, <3>1, SubSeqProperties
    <3> QED
      BY <2>3, <3>2
  <2>6. \A k \in 1..Len(b) : b[k] \in Blank
    <3>1. j + 1 \in Int /\ Len(t) \in Int /\ \A k \in (j + 1)..Len(t) : t[k] \in Tokens
      BY <1>1, <2>3, ElementOfSeq DEF Text, Tokens
    <3>2. Len(b) = Len(t) - j /\ \A k \in 1..(Len(t) - (j + 1) + 1) : b[k] = t[(j + 1) + k - 1]
      BY <2>3, <3>1, SubSeqProperties
    <3>3. \A k \in 1..(Len(t) - j) : b[k] = t[j + k] /\ j + k \in (j + 1)..Len(t)
      BY <1>1, <2>3, <3>2
    <3> QED
      BY <2>3, <3>2, <3>3
  <2> HIDE DEF a, m, b
  <2>7. Squashed(a) = <<>> /\ Squashed(b) = <<>>
    BY <2>4, <2>5, <2>6, BlankVanishes
  <2>8. Squashed((a \o m) \o b) = (<<>> \o Squashed(m)) \o <<>>
    <3>1. a \o m \in Text
      BY <2>4, TextConcat
    <3>2. Squashed((a \o m) \o b) = Squashed(a \o m) \o Squashed(b)
      BY <2>4, <3>1, SquashConcat
    <3>3. Squashed(a \o m) = Squashed(a) \o Squashed(m)
      BY <2>4, SquashConcat
    <3> QED
      BY <2>7, <3>2, <3>3
  <2>9. Squashed(t) = Squashed(m)
    BY <2>4, <2>8, FoldTypes, TextConcat
  <2> QED
    BY <2>1, <2>9 DEF m
<1> QED
  BY <1>2, <1>3

-----------------------------------------------------------------------------
(* Lines that are the same up to white space join to texts that are.       *)
LEMMA JoinAlike ==
  ASSUME NEW u \in Seq(Text), u # <<>>, NEW v \in Seq(Text), Len(u) = Len(v),
         \A k \in 1..Len(u) : Squashed(u[k]) = Squashed(v[k])
  PROVE  Squashed(Joined(u)) = Squashed(Joined(v))
<1> DEFINE n == Len(u)
           p(k) == SubSeq(u, 1, k)
           q(k) == SubSeq(v, 1, k)
           T == {k \in 0..n : k = 0 \/ Squashed(Joined(p(k))) = Squashed(Joined(q(k)))}
<1>1. n \in Nat \ {0} /\ p(n) = u /\ q(n) = v /\ p(0) = <<>> /\ q(0) = <<>>
  BY EmptySeq, SubSeqFull, SubSeqEmpty
<1>2. ASSUME NEW k \in 0..(n - 1)
      PROVE  /\ p(k) \in Seq(Text) /\ p(k + 1) = Append(p(k), u[k + 1]) /\ u[k + 1] \in Text
             /\ q(k) \in Seq(Text) /\ q(k + 1) = Append(q(k), v[k + 1]) /\ v[k + 1] \in Text
             /\ Len(p(k)) = k /\ Len(q(k)) = k
  <2>1. /\ 1 \in 1..n /\ k + 1 \in 1..n /\ (k + 1) - 1 = k /\ n = Len(v) /\ 1 \in Int /\ k \in Int
        /\ \A j \in 1..k : j \in 1..n
    BY <1>1
  <2>2. \A j \in 1..n : u[j] \in Text /\ v[j] \in Text
    BY <2>1, ElementOfSeq
  <2>3. p(k) \in Seq(Text) /\ q(k) \in Seq(Text) /\ Len(p(k)) = k /\ Len(q(k)) = k
    <3>1. \A j \in 1..k : u[j] \in Text /\ v[j] \in Text
      BY <2>1, <2>2
    <3> QED
      BY <2>1, <3>1, SubSeqProperties
  <2>4. p(k + 1) = p(k) \o <<u[k + 1]>>
    <3>1. k + 1 \in 1..Len(u)
      BY <2>1
    <3> QED
      BY <2>1, <3>1, SubSeqRecursiveSecond
  <2>5. q(k + 1) = q(k) \o <<v[k + 1]>>
    <3>1. k + 1 \in 1..Len(v) /\ 1 \in 1..Len(v)
      BY <2>1
    <3> QED
      BY <2>1, <3>1, SubSeqRecursiveSecond
  <2> QED
    BY <2>1, <2>2, <2>3, <2>4, <2>5, AppendIsConcat
<1> HIDE DEF n, p, q
<1>3. ASSUME NEW k \in 0..(n - 1), k \in T PROVE k + 1 \in T
  <2>1. k + 1 \in 0..n /\ k + 1 \in 1..n
    BY <1>1
  <2>2. Squashed(u[k + 1]) = Squashed(v[k + 1])
    BY <2>1 DEF n
  <2>3. CASE k = 0
    <3>1. p(k) = <<>> /\ q(k) = <<>>
      BY <1>1, <2>3
    <3>2. p(k + 1) = <<u[k + 1]>> /\ q(k + 1) = <<v[k + 1]>> /\ u[k + 1] \in Text /\ v[k + 1] \in Text
      <4>1. /\ p(k + 1) = Append(p(k), u[k + 1]) /\ u[k + 1] \in Text
            /\ q(k + 1) = Append(q(k), v[k + 1]) /\ v[k + 1] \in Text
        BY <1>2
      <4>2. \A l \in Text : Append(<<>>, l) = <<l>>
        OBVIOUS
      <4> QED
        BY <3>1, <4>1, <4>2
    <3>3. Squashed(Joined(p(k + 1))) = Squashed(Joined(q(k + 1)))
      BY <2>2, <3>2, JoinOne
    <3> QED
      BY <2>1, <3>3
  <2>4. CASE k # 0
    <3>1. /\ p(k) \in Seq(Text) /\ p(k + 1) = Append(p(k), u[k + 1]) /\ u[k + 1] \in Text
          /\ q(k) \in Seq(Text) /\ q(k + 1) = Append(q(k), v[k + 1]) /\ v[k + 1] \in Text
          /\ p(k) # <<>> /\ q(k) # <<>>
      BY <1>2, <2>4, EmptySeq
    <3>2. Joined(p(k)) \in Text /\ Joined(q(k)) \in Text
      BY <3>1, JoinedType
    <3>3. /\ Joined(p(k + 1)) = JoinStep(Joined(p(k)), u[k + 1])
          /\ Joined(q(k + 1)) = JoinStep(Joined(q(k)), v[k + 1])
      BY <3>1, JoinAppend
    <3>4. \A a, b \in Text : Squashed(JoinStep(a, b)) = (Squashed(a) \o Squashed(<<"nl">>)) \o Squashed(b)
      <4>1. ASSUME NEW a \in Text, NEW b \in Text
            PROVE  Squashed(JoinStep(a, b)) = (Squashed(a) \o Squashed(<<"nl">>)) \o Squashed(b)
        <5>1. <<"nl">> \in Text /\ a \o <<"nl">> \in Text
          BY TextConcat
        <5>2. Squashed((a \o <<"nl">>) \o b) = Squashed(a \o <<"nl">>) \o Squashed(b)
          BY <5>1, SquashConcat
        <5>3. Squashed(a \o <<"nl">>) = Squashed(a) \o Squashed(<<"nl">>)
          BY <5>1, SquashConcat
        <5> QED
          BY <5>2, <5>3 DEF JoinStep
      <4> QED
        BY <4>1
    <3>5. Squashed(Joined(p(k))) = Squashed(Joined(q(k)))
      BY <1>3, <2>4
    <3>6. Squashed(Joined(p(k + 1))) = Squashed(Joined(q(k + 1)))
      <4>1. Squashed(Joined(p(k + 1))) =
              (Squashed(Joined(p(k))) \o Squashed(<<"nl">>)) \o Squashed(u[k + 1])
        BY <3>1, <3>2, <3>3, <3>4
      <4>2. Squashed(Joined(q(k + 1))) =
              (Squashed(Joined(q(k))) \o Squashed(<<"nl">>)) \o Squashed(v[k + 1])
        BY <3>1, <3>2, <3>3, <3>4
      <4> QED
        BY <2>2, <3>5, <4>1, <4>2
    <3> QED
      BY <2>1, <3>6
  <2> QED
    BY <2>3, <2>4
<1>4. T = 0..n
  <2>1. T \in SUBSET (0..n) /\ 0 \in T
    BY <1>1
  <2> HIDE DEF T
  <2> QED
    BY <1>1, <1>3, <2>1, Upwards
<1>5. n \in T
  <2> HIDE DEF T
  <2> QED
    BY <1>1, <1>4
<1> QED
  BY <1>1, <1>5

(* The region, when a text is given in three parts.                        *)
LEMMA RegionOf ==
  ASSUME NEW c \in Text, NEW o \in Text, NEW new \in Text,
         NEW a \in Text, NEW m \in Text, NEW b \in Text,
         (a \o m) \o b \in {c, Normalized(c)}, Squashed(m) = Squashed(o)
  PROVE  OneRegionReplaced(c, o, new, (a \o new) \o b)
<1> DEFINE base == (a \o m) \o b
           i == Len(a)
           j == Len(a) + Len(m)
<1>1. Parted(base, a, m, b, i, j)
  <2>1. a \in Seq(Tokens) /\ m \in Seq(Tokens) /\ b \in Seq(Tokens)
    BY DEF Text, Tokens
  <2> QED
    BY <2>1, Parts
<1>2. base \in {c, Normalized(c)}
  OBVIOUS
<1> HIDE DEF base, i, j
<1> QED
  BY <1>1, <1>2 DEF OneRegionReplaced, Parted

(* Levels 1 to 3.                                                          *)
LEMMA FirstIsLocal ==
  ASSUME NEW c \in Text, NEW o \in Text, NEW new \in Text,
         NEW base \in {c, Normalized(c)}, NEW old \in Text, Squashed(old) = Squashed(o),
         Count(base, old) = 1
  PROVE  OneRegionReplaced(c, o, new, ReplaceFirstSubSeq(new, old, base))
<1>1. base \in Text
  BY FoldTypes
<1>2. Len(base) \in Nat /\ Len(old) \in Nat
  BY <1>1, LenProperties DEF Text
<1>3. old \in SubSeqs(base)
  <2>1. CASE old = <<>>
    <3>1. SubSeq(base, 1 + 0, 0) = <<>> /\ 0 \in 0..Len(base)
      BY <1>2, SubSeqEmpty
    <3> QED
      BY <2>1, <3>1 DEF SubSeqs
  <2>2. CASE old # <<>>
    <3>1. PICK i \in 1..Len(base) : OccursAt(old, base, i)
      BY <1>1, <2>2, CountFinds
    <3>2. old = SubSeq(base, (i - 1) + 1, i + Len(old) - 1)
      <4>1. (i - 1) + 1 = i
        BY <1>2
      <4> QED
        BY <3>1, <4>1 DEF OccursAt
    <3>3. i - 1 \in 0..Len(base) /\ i + Len(old) - 1 \in 0..Len(base)
      BY <1>2, <3>1 DEF OccursAt
    <3> QED
      <4>1. \A x, y \in 0..Len(base) : SubSeq(base, x + 1, y) \in SubSeqs(base)
        BY DEF SubSeqs
      <4> QED
        BY <3>2, <3>3, <4>1
  <2> QED
    BY <2>1, <2>2
<1>4. PICK i \in 1..(Len(base) - Len(old) + 1) :
        OccursAt(old, base, i) /\ ReplaceFirstSubSeq(new, old, base) = ReplacedAt(i, new, old, base)
  BY <1>1, <1>3, ReplaceFirst
<1> DEFINE j == i + Len(old) - 1
           a == SubSeq(base, 1, i - 1)
           m == SubSeq(base, i, j)
           b == SubSeq(base, j + 1, Len(base))
<1>5. i \in 1..(Len(base) + 1) /\ j \in (i - 1)..Len(base) /\ j + 1 = i + Len(old)
  BY <1>2
<1>6. m = old
  BY <1>4 DEF OccursAt
<1>7. ReplaceFirstSubSeq(new, old, base) = (a \o new) \o b
  BY <1>4, <1>5 DEF ReplacedAt
<1> HIDE DEF j
<1>8. a \in Text /\ m \in Text /\ b \in Text /\ base = (a \o m) \o b
  BY <1>1, <1>5, ThreeParts
<1> HIDE DEF a, m, b
<1> QED
  <2>1. (a \o m) \o b \in {c, Normalized(c)} /\ Squashed(m) = Squashed(o)
    BY <1>6, <1>8
  <2>2. OneRegionReplaced(c, o, new, (a \o new) \o b)
    BY <1>8, <2>1, RegionOf
  <2> QED
    BY <1>7, <2>2

(* Level 4.                                                                *)
LEMMA LinesAreLocal ==
  ASSUME NEW c \in Text, NEW o \in Text, NEW new \in Text,
         NEW lines, lines = Lines(Normalized(c)),
         NEW old, old = Lines(TrimSpace(Normalized(o))),
         NEW i \in Windows(lines, old)
  PROVE  OneRegionReplaced(c, o, new, Joined(Spliced(lines, i, Len(old), new)))
<1>1. Normalized(c) \in Text /\ Normalized(o) \in Text /\ TrimSpace(Normalized(o)) \in Text
  BY FoldTypes, TrimType
<1>2. lines \in Seq(Text) \ {<<>>} /\ old \in Seq(Text) \ {<<>>}
  BY <1>1, FoldTypes
<1>3. Len(lines) \in Nat /\ Len(old) \in Nat \ {0} /\ i \in 1..(Len(lines) - Len(old) + 1)
  BY <1>2, LenProperties, EmptySeq DEF Windows
<1> DEFINE j == i + Len(old) - 1
           u == SubSeq(lines, 1, i - 1)
           w == SubSeq(lines, i, j)
           v == SubSeq(lines, j + 1, Len(lines))
<1>4. i \in 1..Len(lines) /\ j \in i..Len(lines) /\ j + 1 = i + Len(old)
  BY <1>3
<1>5. \A k \in 1..Len(lines) : lines[k] \in Text
  BY <1>2, ElementOfSeq
<1> HIDE DEF j
<1>6. /\ u \in Seq(Text) /\ w \in Seq(Text) /\ v \in Seq(Text) /\ Len(w) = Len(old)
      /\ \A k \in 1..Len(old) : w[k] = lines[i + k - 1]
  <2>1. /\ 1 \in Int /\ i - 1 \in Int /\ i \in Int /\ j \in Int /\ j + 1 \in Int /\ Len(lines) \in Int
        /\ \A k \in 1..(i - 1) : k \in 1..Len(lines)
        /\ \A k \in i..j : k \in 1..Len(lines)
        /\ \A k \in (j + 1)..Len(lines) : k \in 1..Len(lines)
        /\ i <= j /\ j - i + 1 = Len(old)
    BY <1>3, <1>4
  <2>2. u \in Seq(Text)
    BY <1>5, <2>1, SubSeqProperties
  <2>3. /\ w \in Seq(Text) /\ Len(w) = Len(old)
        /\ \A k \in 1..(j - i + 1) : w[k] = lines[i + k - 1]
    BY <1>5, <2>1, SubSeqProperties
  <2>4. v \in Seq(Text)
    BY <1>5, <2>1, SubSeqProperties
  <2> QED
    BY <2>1, <2>2, <2>3, <2>4
<1>7. lines = (u \o w) \o v
  <2>1. /\ 1 \in 1..(Len(lines) + 1) /\ i - 1 \in (1-1)..Len(lines) /\ j \in (i - 1)..Len(lines)
        /\ j \in (1-1)..Len(lines) /\ Len(lines) \in j..Len(lines) /\ (i - 1) + 1 = i
    BY <1>3, <1>4
  <2>2. u \o w = SubSeq(lines, 1, j)
    BY <1>2, <2>1, ConcatAdjacentSubSeq
  <2>3. SubSeq(lines, 1, j) \o v = SubSeq(lines, 1, Len(lines))
    BY <1>2, <2>1, ConcatAdjacentSubSeq
  <2>4. SubSeq(lines, 1, Len(lines)) = lines
    BY <1>2, SubSeqFull
  <2> QED
    BY <2>2, <2>3, <2>4
<1>8. Spliced(lines, i, Len(old), new) = (u \o <<new>>) \o v
  BY <1>4 DEF Spliced
<1>9. \A k \in 1..Len(w) : Squashed(w[k]) = Squashed(old[k])
  <2>1. ASSUME NEW k \in 1..Len(w) PROVE Squashed(w[k]) = Squashed(old[k])
    <3>1. k \in 1..Len(old) /\ i + k - 1 \in 1..Len(lines) /\ w[k] = lines[i + k - 1]
      BY <1>3, <1>6
    <3>2. TrimSpace(lines[i + k - 1]) = TrimSpace(old[k])
      BY <3>1 DEF Windows
    <3>3. lines[i + k - 1] \in Text /\ old[k] \in Text
      BY <1>2, <1>5, <3>1, ElementOfSeq
    <3>4. Squashed(lines[i + k - 1]) = Squashed(old[k])
      BY <3>2, <3>3, SquashTrim
    <3> QED
      BY <3>1, <3>4
  <2> QED
    BY <2>1
<1> HIDE DEF u, w, v
<1>10. w # <<>> /\ <<new>> \in Seq(Text) \ {<<>>}
  <2>1. Len(w) # 0
    BY <1>3, <1>6
  <2>2. w # <<>>
    BY <2>1, EmptySeq
  <2> QED
    BY <2>2
<1>11. Squashed(Joined(w)) = Squashed(o)
  <2>1. Squashed(Joined(w)) = Squashed(Joined(old))
    BY <1>2, <1>6, <1>9, <1>10, JoinAlike
  <2>2. Joined(old) = TrimSpace(Normalized(o))
    BY <1>1, JoinedLines
  <2> QED
    BY <1>1, <2>1, <2>2, SquashTrim, SquashNormal
<1>12. Normalized(c) = (Before(u) \o Joined(w)) \o After(v)
  <2>1. Joined(lines) = Normalized(c)
    BY <1>1, JoinedLines
  <2>2. Joined((u \o w) \o v) = (Before(u) \o Joined(w)) \o After(v)
    BY <1>6, <1>10, JoinMidst
  <2> QED
    BY <1>7, <2>1, <2>2
<1>13. Joined(Spliced(lines, i, Len(old), new)) = (Before(u) \o new) \o After(v)
  <2>1. Joined((u \o <<new>>) \o v) = (Before(u) \o Joined(<<new>>)) \o After(v)
    BY <1>6, <1>10, JoinMidst
  <2> QED
    BY <1>8, <2>1, JoinOne
<1>14. Before(u) \in Text /\ After(v) \in Text /\ Joined(w) \in Text
  BY <1>6, <1>10, JoinMidst, JoinedType
<1> QED
  BY <1>11, <1>12, <1>13, <1>14, RegionOf

(* fuzzyReplace succeeds only with one region replaced.                    *)
LEMMA ReplacedLocal ==
  ASSUME NEW c \in Text, NEW o \in Text, NEW new \in Text, Replaced(c, o, new).ok
  PROVE  OneRegionReplaced(c, o, new, Replaced(c, o, new).text)
<1>1. Normalized(o) \in Text /\ TrimSpace(Normalized(o)) \in Text
  BY FoldTypes, TrimType
<1>2. \A e : ~Error(e).ok
  BY DEF Error
<1>3. \A t : Success(t).text = t
  BY DEF Success
<1>4. ASSUME NEW base \in {c, Normalized(c)}, NEW old \in {o, Normalized(o), TrimSpace(Normalized(o))},
             Count(base, old) = 1,
             Replaced(c, o, new) = Success(ReplaceFirstSubSeq(new, old, base))
      PROVE  OneRegionReplaced(c, o, new, Replaced(c, o, new).text)
  <2>1. old \in Text /\ Squashed(old) = Squashed(o)
    BY <1>1, SquashNormal, SquashTrim
  <2>2. OneRegionReplaced(c, o, new, ReplaceFirstSubSeq(new, old, base))
    BY <1>4, <2>1, FirstIsLocal
  <2> QED
    BY <1>3, <1>4, <2>2
<1> DEFINE lines == Lines(Normalized(c))
           old == Lines(TrimSpace(Normalized(o)))
<1>5. ASSUME Windows(lines, old) # {},
             Replaced(c, o, new) = Success(Joined(Spliced(lines, Min(Windows(lines, old)), Len(old), new)))
      PROVE  OneRegionReplaced(c, o, new, Replaced(c, o, new).text)
  <2>1. lines \in Seq(Text) /\ old \in Seq(Text)
    BY <1>1, FoldTypes
  <2>2. Min(Windows(lines, old)) \in Windows(lines, old)
    <3> HIDE DEF lines, old
    <3> QED
      BY <1>5, <2>1, WindowsFound
  <2>3. OneRegionReplaced(c, o, new, Joined(Spliced(lines, Min(Windows(lines, old)), Len(old), new)))
    BY <2>2, LinesAreLocal
  <2> QED
    BY <1>3, <1>5, <2>3
<1> QED
  BY <1>2, <1>4, <1>5, FourLevels

-----------------------------------------------------------------------------
(* Paths.  What Clean does with one name.                                  *)
CleanStep(abs, q, x) ==
  IF x # ".." \/ (~abs /\ (q = <<>> \/ Last(q) = "..")) THEN Append(q, x)
  ELSE IF q = <<>> THEN q ELSE Front(q)

(* Where ".." may be in a clean path: nowhere if it is absolute, and else  *)
(* at its beginning alone.                                                 *)
CleanSegs(abs) ==
  {q \in Seq(Name) :
     /\ abs => \A i \in 1..Len(q) : q[i] # ".."
     /\ \A i \in 2..Len(q) : q[i] = ".." => q[i - 1] = ".."}

LEMMA CleanStepType ==
  ASSUME NEW abs \in BOOLEAN, NEW q \in CleanSegs(abs), NEW x \in Name
  PROVE  CleanStep(abs, q, x) \in CleanSegs(abs)
<1>1. q \in Seq(Name) /\ Len(q) \in Nat
  BY LenProperties DEF CleanSegs
<1>2. CASE CleanStep(abs, q, x) = Append(q, x) /\ (x = ".." => ~abs /\ (q = <<>> \/ Last(q) = ".."))
  <2> DEFINE a == Append(q, x)
  <2>1. /\ a \in Seq(Name) /\ Len(a) = Len(q) + 1 /\ a[Len(q) + 1] = x
        /\ \A i \in 1..Len(q) : a[i] = q[i]
    BY <1>1, AppendProperties
  <2> HIDE DEF a
  <2>2. ASSUME abs, NEW i \in 1..Len(a) PROVE a[i] # ".."
    BY <1>1, <1>2, <2>1, <2>2 DEF CleanSegs
  <2>3. ASSUME NEW i \in 2..Len(a), a[i] = ".." PROVE a[i - 1] = ".."
    <3>1. CASE i = Len(q) + 1
      <4>1. q # <<>> /\ x = ".." /\ i - 1 = Len(q) /\ Len(q) \in 1..Len(q)
        BY <1>1, <2>1, <2>3, <3>1, EmptySeq
      <4> QED
        BY <1>2, <2>1, <4>1 DEF Last
    <3>2. CASE i # Len(q) + 1
      <4>1. i \in 2..Len(q) /\ i - 1 \in 1..Len(q) /\ i \in 1..Len(q)
        BY <1>1, <2>1, <3>2
      <4> QED
        BY <2>1, <2>3, <4>1 DEF CleanSegs
    <3> QED
      BY <3>1, <3>2
  <2>4. a \in CleanSegs(abs)
    BY <2>1, <2>2, <2>3 DEF CleanSegs
  <2> QED
    BY <1>2, <2>4 DEF a
<1>3. CASE CleanStep(abs, q, x) = q
  BY <1>3
<1>4. CASE q # <<>> /\ CleanStep(abs, q, x) = Front(q)
  <2> DEFINE f == Front(q)
  <2>1. Len(q) - 1 \in Nat /\ 1 \in Int /\ Len(q) - 1 \in Int /\ \A i \in 1..(Len(q) - 1) : q[i] \in Name
    BY <1>1, <1>4, EmptySeq, ElementOfSeq
  <2>2. /\ f \in Seq(Name) /\ Len(f) = Len(q) - 1
        /\ \A i \in 1..(Len(q) - 1) : f[i] = q[i]
    <3> DEFINE m == Len(q) - 1
    <3>1. m \in Nat /\ \A i \in 1..m : q[i] \in Name
      BY <2>1
    <3> HIDE DEF m
    <3>2. /\ SubSeq(q, 1, m) \in Seq(Name) /\ Len(SubSeq(q, 1, m)) = IF 1 <= m THEN m - 1 + 1 ELSE 0
          /\ \A i \in 1..(m - 1 + 1) : SubSeq(q, 1, m)[i] = q[1 + i - 1]
      BY <3>1, SubSeqProperties
    <3>3. f = SubSeq(q, 1, m)
      BY DEF Front, m
    <3> HIDE DEF f
    <3>4. f \in Seq(Name) /\ Len(f) = m /\ \A i \in 1..m : f[i] = q[i]
      BY <3>1, <3>2, <3>3
    <3> QED
      BY <3>4 DEF m
  <2> HIDE DEF f
  <2>3. f \in CleanSegs(abs)
    BY <1>1, <2>1, <2>2 DEF CleanSegs
  <2> QED
    BY <1>4, <2>3 DEF f
<1> QED
  BY <1>2, <1>3, <1>4 DEF CleanStep

LEMMA CleanFold ==
  ASSUME NEW p \in Path
  PROVE  \E r \in [0..Len(p.segs) -> CleanSegs(p.abs)] :
           /\ r[0] = <<>>
           /\ \A k \in 1..Len(p.segs) : r[k] = CleanStep(p.abs, r[k-1], p.segs[k])
           /\ Clean(p) = [p EXCEPT !.segs = r[Len(p.segs)]]
<1> DEFINE t == p.segs
           n == Len(t)
           R == CleanSegs(p.abs)
           Step(u, x) == CleanStep(p.abs, u, x)
           G == [x \in R \X (1..n) |-> Step(x[1], t[x[2]])]
           Good(g) == g = [s \in SUBSET (1..n) |->
                             IF s = {} THEN <<>> ELSE Step(g[s \ {Max(s)}], t[Max(s)])]
           h == CHOOSE g : Good(g)
<1>1. n \in Nat /\ DOMAIN t = 1..n /\ t \in Seq(Name) /\ p.abs \in BOOLEAN
  BY LenProperties DEF Path
<1>2. Clean(p) = [p EXCEPT !.segs = h[1..n]]
  BY <1>1 DEF Clean, FoldLeft, MapThenFoldSet, CleanStep
<1>3. <<>> \in R /\ G \in [R \X (1..n) -> R]
  <2>1. <<>> \in R
    BY EmptySeq DEF CleanSegs
  <2>2. ASSUME NEW u \in R, NEW i \in 1..n PROVE Step(u, t[i]) \in R
    BY <1>1, ElementOfSeq, CleanStepType
  <2> QED
    BY <2>1, <2>2
<1> HIDE DEF Step
<1>4. \E g : Good(g)
  <2>1. PICK f \in [SUBSET (1..n) -> R] : Iterates(f, n, <<>>, G)
    <3> HIDE DEF G, n, R
    <3> QED
      BY <1>1, <1>3, FoldExists
  <2>2. ASSUME NEW s \in SUBSET (1..n), s # {}
        PROVE  G[<<f[s \ {Max(s)}], Max(s)>>] = Step(f[s \ {Max(s)}], t[Max(s)])
    <3>1. Max(s) \in 1..n /\ f[s \ {Max(s)}] \in R
      BY <1>1, <2>2, MaxIsMember
    <3> QED
      BY <3>1
  <2>3. f = [s \in SUBSET (1..n) |-> IF s = {} THEN <<>> ELSE G[<<f[s \ {Max(s)}], Max(s)>>]]
    BY <2>1 DEF Iterates
  <2> HIDE DEF G, n, R
  <2>4. Good(f)
    BY <2>2, <2>3
  <2> HIDE DEF Good
  <2> QED
    BY <2>4
<1>5. Good(h)
  <2> HIDE DEF Good
  <2> QED
    BY <1>4
<1> HIDE DEF h
<1>6. h[{}] = <<>>
  BY <1>5
<1>7. ASSUME NEW k \in 1..n, h[1..(k-1)] \in R PROVE h[1..k] = G[<<h[1..(k-1)], k>>]
  <2>1. Max(1..k) = k /\ (1..k) \ {k} = 1..(k-1) /\ 1..k # {} /\ 1..k \in SUBSET (1..n)
    BY <1>1, PrefixFold
  <2>2. h[1..k] = Step(h[1..(k-1)], t[k])
    BY <1>5, <2>1
  <2> QED
    BY <1>7, <2>2
<1>8. \E r \in [0..n -> R] :
        r[0] = <<>> /\ (\A k \in 1..n : r[k] = G[<<r[k-1], k>>]) /\ r[n] = h[1..n]
  <2> DEFINE b == <<>>
  <2>1. b \in R /\ h[{}] = b
    BY <1>3, <1>6
  <2> HIDE DEF G, n, R, b
  <2>2. Follows(h, n, R, b, G)
    BY <1>7, <2>1 DEF Follows
  <2>3. Reaches(h, n, R, b, G)
    BY <1>1, <1>3, <2>1, <2>2, FoldPrefixes
  <2> QED
    BY <2>3 DEF b, Reaches
<1>9. PICK r \in [0..n -> R] :
        r[0] = <<>> /\ (\A k \in 1..n : r[k] = G[<<r[k-1], k>>]) /\ r[n] = h[1..n]
  BY <1>8
<1>10. ASSUME NEW k \in 1..n PROVE r[k] = Step(r[k-1], t[k])
  <2>1. k - 1 \in 0..n
    BY <1>1
  <2> QED
    BY <1>9, <2>1
<1> QED
  BY <1>2, <1>9, <1>10 DEF Step

LEMMA CleanType ==
  ASSUME NEW p \in Path
  PROVE  Clean(p) \in Path /\ Clean(p).abs = p.abs /\ Clean(p).segs \in CleanSegs(p.abs)
<1>1. PICK r \in [0..Len(p.segs) -> CleanSegs(p.abs)] : Clean(p) = [p EXCEPT !.segs = r[Len(p.segs)]]
  BY CleanFold
<1>2. Len(p.segs) \in 0..Len(p.segs)
  BY LenProperties DEF Path
<1>3. r[Len(p.segs)] \in CleanSegs(p.abs) /\ r[Len(p.segs)] \in Seq(Name)
  BY <1>2 DEF CleanSegs
<1> QED
  BY <1>1, <1>3 DEF Path

(* A path without ".." is clean.                                           *)
LEMMA CleanPlain ==
  ASSUME NEW p \in Path, \A i \in 1..Len(p.segs) : p.segs[i] # ".."
  PROVE  Clean(p) = p
<1> DEFINE t == p.segs
           n == Len(t)
<1>1. n \in Nat /\ t \in Seq(Name)
  BY LenProperties DEF Path
<1>2. PICK r \in [0..n -> CleanSegs(p.abs)] :
        /\ r[0] = <<>>
        /\ \A k \in 1..n : r[k] = CleanStep(p.abs, r[k-1], t[k])
        /\ Clean(p) = [p EXCEPT !.segs = r[n]]
  BY CleanFold
<1> DEFINE T == {k \in 0..n : r[k] = SubSeq(t, 1, k)}
<1>3. 0 \in T
  <2>1. SubSeq(t, 1, 0) = <<>> /\ 0 \in 0..n
    BY <1>1, SubSeqEmpty
  <2> QED
    BY <1>2, <2>1
<1>4. ASSUME NEW k \in 0..(n-1), k \in T PROVE k + 1 \in T
  <2>1. k + 1 \in 1..n /\ (k + 1) - 1 = k /\ 1 \in 1..n /\ t[k + 1] # ".." /\ t[k + 1] \in Name
    BY <1>1, ElementOfSeq
  <2>2. r[k + 1] = Append(SubSeq(t, 1, k), t[k + 1])
    BY <1>2, <1>4, <2>1 DEF CleanStep
  <2>3. SubSeq(t, 1, k + 1) = SubSeq(t, 1, k) \o <<t[k + 1]>>
    BY <1>1, <2>1, SubSeqRecursiveSecond
  <2>4. SubSeq(t, 1, k) \in Seq(Name)
    <3>1. \A i \in 1..k : t[i] \in Name
      BY <1>1, ElementOfSeq
    <3> QED
      BY <3>1, SubSeqProperties
  <2>5. Append(SubSeq(t, 1, k), t[k + 1]) = SubSeq(t, 1, k) \o <<t[k + 1]>>
    BY <2>1, <2>4, AppendIsConcat
  <2> QED
    <3>1. r[k + 1] = SubSeq(t, 1, k + 1)
      BY <2>2, <2>3, <2>5
    <3>2. k + 1 \in 0..n
      BY <1>1, <2>1
    <3> QED
      BY <3>1, <3>2
<1>5. T = 0..n
  <2>1. T \in SUBSET (0..n)
    OBVIOUS
  <2> HIDE DEF T
  <2> QED
    BY <1>1, <1>3, <1>4, <2>1, Upwards
<1>6. r[n] = t
  <2>1. n \in T
    <3> HIDE DEF T
    <3> QED
      BY <1>1, <1>5
  <2> QED
    BY <1>1, <2>1, SubSeqFull
<1> QED
  BY <1>2, <1>6 DEF Path

(* If a clean path does not begin with "..", there is none in it.          *)
LEMMA CleanBegins ==
  ASSUME NEW abs, NEW q \in CleanSegs(abs), q # <<>> => q[1] # ".."
  PROVE  \A i \in 1..Len(q) : q[i] # ".."
<1> DEFINE T == {i \in Nat : i \in 1..Len(q) /\ q[i] = ".."}
<1> SUFFICES ASSUME T # {} PROVE FALSE
  <2>1. Len(q) \in Nat
    BY LenProperties DEF CleanSegs
  <2> QED
    BY <2>1
<1>1. PICK i \in T : \A j \in T : i <= j
  <2>1. T \in SUBSET Nat
    OBVIOUS
  <2> HIDE DEF T
  <2> QED
    BY <2>1, LeastNatural
<1>2. Len(q) \in Nat /\ q # <<>>
  <2>1. Len(q) \in Nat /\ (q = <<>> => Len(q) = 0)
    BY LenProperties, EmptySeq DEF CleanSegs
  <2> QED
    BY <1>1, <2>1
<1>3. i # 1 /\ i \in 2..Len(q) /\ i - 1 \in 1..Len(q) /\ q[i - 1] = ".."
  BY <1>1, <1>2 DEF CleanSegs
<1>4. i - 1 \in T
  BY <1>3
<1> QED
  BY <1>1, <1>4

LEMMA PrefixElements ==
  ASSUME NEW S, NEW s \in Seq(S), NEW t \in Seq(S)
  PROVE  IsPrefix(s, t) <=> Len(s) <= Len(t) /\ \A i \in 1..Len(s) : s[i] = t[i]
<1>1. Len(s) \in Nat /\ Len(t) \in Nat /\ SubSeq(s, 1, Len(s)) = s
  BY LenProperties, SubSeqFull
<1>2. ASSUME Len(s) <= Len(t)
      PROVE  SubSeq(t, 1, Len(s)) = s <=> \A i \in 1..Len(s) : s[i] = t[i]
  <2> DEFINE u == SubSeq(t, 1, Len(s))
  <2>1. \A i \in 1..Len(s) : t[i] \in S
    BY <1>1, <1>2, ElementOfSeq
  <2>2. /\ u \in Seq(S) /\ Len(u) = Len(s)
        /\ \A i \in 1..Len(s) : u[i] = t[i]
    <3>1. /\ u \in Seq(S) /\ Len(u) = IF 1 <= Len(s) THEN Len(s) - 1 + 1 ELSE 0
          /\ \A i \in 1..(Len(s) - 1 + 1) : u[i] = t[1 + i - 1]
      BY <1>1, <2>1, SubSeqProperties
    <3> QED
      BY <1>1, <3>1
  <2> HIDE DEF u
  <2> QED
    BY <2>2, SeqEqual
<1> QED
  BY <1>1, <1>2 DEF IsPrefix

(* A path beneath a clean one that does not begin with ".." goes nowhere   *)
(* above it.                                                               *)
LEMMA PlaceOfClean ==
  ASSUME FilesAssumption, NEW p \in Path, \A i \in 1..Len(p.segs) : p.segs[i] # ".."
  PROVE  Place(p) = (IF p.abs THEN <<>> ELSE Cwd) \o p.segs
<1>1. /\ Cwd \in Seq(Name) /\ Len(Cwd) \in Nat /\ \A i \in 1..Len(Cwd) : Cwd[i] # ".."
      /\ p.segs \in Seq(Name) /\ Len(p.segs) \in Nat /\ p.abs \in BOOLEAN
  <2>1. Cwd \in Seq(Name \ {".."})
    BY DEF FilesAssumption
  <2> QED
    BY <2>1, ElementOfSeq, SeqMonotonic, LenProperties DEF Path
<1>2. CASE p.abs
  <2>1. Place(p) = p.segs
    BY <1>2, CleanPlain DEF Place
  <2>2. <<>> \o p.segs = p.segs
    BY <1>1, ConcatEmptySeq
  <2> QED
    BY <1>2, <2>1, <2>2
<1>3. CASE ~p.abs
  <2> DEFINE q == Cwd \o p.segs
  <2>1. q \in Seq(Name) /\ \A i \in 1..Len(q) : q[i] # ".."
    <3>1. /\ q \in Seq(Name) /\ Len(q) = Len(Cwd) + Len(p.segs)
          /\ \A i \in 1..(Len(Cwd) + Len(p.segs)) : q[i] = IF i <= Len(Cwd) THEN Cwd[i] ELSE p.segs[i - Len(Cwd)]
      BY <1>1, ConcatProperties
    <3> QED
      BY <1>1, <3>1
  <2>2. Under([abs |-> TRUE, segs |-> Cwd], p) = [abs |-> TRUE, segs |-> q]
    BY DEF Under
  <2> HIDE DEF q
  <2>3. [abs |-> TRUE, segs |-> q] \in Path
    BY <2>1 DEF Path
  <2>4. Clean([abs |-> TRUE, segs |-> q]) = [abs |-> TRUE, segs |-> q]
    BY <2>1, <2>3, CleanPlain
  <2> QED
    <3>1. Place(p) = Clean(Under([abs |-> TRUE, segs |-> Cwd], p)).segs
      BY <1>3 DEF Place
    <3>2. Place(p) = q
      BY <2>2, <2>4, <3>1
    <3> QED
      BY <1>3, <3>2 DEF q
<1> QED
  BY <1>2, <1>3

(* What ResolvePath makes of the workspace and of an input.                *)
LEMMA RootType == Clean(WorkDir) \in Path /\ Clean(WorkDir).segs \in CleanSegs(WorkDir.abs) /\ Clean(WorkDir).abs = WorkDir.abs
  BY FilesAssumption, CleanType DEF FilesAssumption

LEMMA MeantType ==
  ASSUME NEW in \in Inputs
  PROVE  /\ Meant(in) \in Path
         /\ Clean(Meant(in)) \in Path /\ Clean(Meant(in)).segs \in CleanSegs(Clean(Meant(in)).abs)
         /\ Clean(Meant(in)).abs = Meant(in).abs
<1>1. in \in Path
  BY FilesAssumption DEF FilesAssumption
<1>2. Under(Clean(WorkDir), in) \in Path
  BY <1>1, RootType, ConcatProperties DEF Under, Path
<1> QED
  BY <1>1, <1>2, CleanType DEF Meant

(* What is resolved is the workspace or beneath it, unless that goes up.   *)
LEMMA ResolvedInside ==
  ASSUME Descends, NEW in \in Inputs, FullPath(in) # NoPath
  PROVE  IsPrefix(Workspace, FullPath(in))
<1> DEFINE root == Clean(WorkDir)
           full == Clean(Meant(in))
<1>1. /\ root \in Path /\ root.segs \in CleanSegs(root.abs) /\ root.segs \in Seq(Name)
      /\ full \in Path /\ full.segs \in CleanSegs(full.abs) /\ full.segs \in Seq(Name)
      /\ Len(root.segs) \in Nat /\ Len(full.segs) \in Nat
  BY RootType, MeantType, LenProperties DEF CleanSegs
<1>2. \A i \in 1..Len(root.segs) : root.segs[i] # ".."
  BY DEF Descends, ToSet
<1>3. /\ FullPath(in) = Place(full) /\ full.abs = root.abs
      /\ Len(root.segs) <= Len(full.segs) /\ \A i \in 1..Len(root.segs) : root.segs[i] = full.segs[i]
      /\ root.segs = <<>> => full = root
  <2>1. CASE full = root
    BY <1>1, <2>1 DEF FullPath
  <2>2. CASE full # root
    <3>1. FullPath(in) = Place(full) /\ full.abs = root.abs /\ root.segs # <<>> /\ IsPrefix(root.segs, full.segs)
      BY <2>2 DEF FullPath
    <3> QED
      BY <1>1, <3>1, PrefixElements
  <2> QED
    BY <2>1, <2>2
<1>4. \A i \in 1..Len(full.segs) : full.segs[i] # ".."
  <2>1. CASE root.segs = <<>>
    BY <1>2, <1>3, <2>1
  <2>2. CASE root.segs # <<>>
    <3>1. 1 \in 1..Len(root.segs)
      BY <1>1, <2>2, EmptySeq
    <3>2. full.segs[1] # ".."
      BY <1>2, <1>3, <3>1
    <3> HIDE DEF full
    <3> QED
      BY <1>1, <3>2, CleanBegins
  <2> QED
    BY <2>1, <2>2
<1> HIDE DEF root, full
<1> DEFINE c == IF root.abs THEN <<>> ELSE Cwd
<1>5. Place(root) = c \o root.segs /\ Place(full) = c \o full.segs
  BY <1>1, <1>2, <1>3, <1>4, FilesAssumption, PlaceOfClean
<1>6. c \in Seq(Name) /\ Len(c) \in Nat
  <2>1. Cwd \in Seq(Name \ {".."})
    BY FilesAssumption DEF FilesAssumption
  <2> QED
    BY <2>1, SeqMonotonic, EmptySeq, LenProperties
<1> HIDE DEF c
<1>7. IsPrefix(c \o root.segs, c \o full.segs)
  <2> DEFINE a == c \o root.segs
             b == c \o full.segs
  <2>1. /\ a \in Seq(Name) /\ Len(a) = Len(c) + Len(root.segs)
        /\ \A i \in 1..(Len(c) + Len(root.segs)) : a[i] = IF i <= Len(c) THEN c[i] ELSE root.segs[i - Len(c)]
    BY <1>1, <1>6, ConcatProperties
  <2>2. /\ b \in Seq(Name) /\ Len(b) = Len(c) + Len(full.segs)
        /\ \A i \in 1..(Len(c) + Len(full.segs)) : b[i] = IF i <= Len(c) THEN c[i] ELSE full.segs[i - Len(c)]
    BY <1>1, <1>6, ConcatProperties
  <2> HIDE DEF a, b
  <2>3. Len(a) <= Len(b)
    BY <1>1, <1>3, <1>6, <2>1, <2>2
  <2>4. ASSUME NEW i \in 1..Len(a) PROVE a[i] = b[i]
    BY <1>1, <1>3, <1>6, <2>1, <2>2
  <2>5. IsPrefix(a, b)
    BY <2>1, <2>2, <2>3, <2>4, PrefixElements
  <2> QED
    BY <2>5 DEF a, b
<1> QED
  BY <1>3, <1>5, <1>7 DEF Workspace, root

(* And with an absolute workspace other than "/", however it is written,   *)
(* every path of a place in it is resolved to that place.                  *)
THEOREM InsideIsResolved ==
  ASSUME WorkDir.abs, Workspace # <<>>, NEW in \in Inputs, IsPrefix(Workspace, Place(Meant(in)))
  PROVE  FullPath(in) = Place(Meant(in))
<1> DEFINE root == Clean(WorkDir)
           full == Clean(Meant(in))
<1>1. /\ root \in Path /\ root.abs /\ root.segs \in CleanSegs(root.abs) /\ root.segs \in Seq(Name)
      /\ Meant(in) \in Path /\ full \in Path /\ full.segs \in CleanSegs(full.abs) /\ full.abs = Meant(in).abs
  BY RootType, MeantType DEF CleanSegs
<1>2. Meant(in).abs
  BY <1>1 DEF Meant, Under
<1>3. Place(Meant(in)) = full.segs
  BY <1>2 DEF Place
<1>4. \A p \in Path : p.abs /\ p.segs \in CleanSegs(p.abs) => Place(p) = p.segs
  BY CleanPlain DEF Place, CleanSegs
<1> HIDE DEF root, full
<1>5. Place(full) = full.segs /\ Workspace = root.segs
  BY <1>1, <1>2, <1>4 DEF Workspace, root
<1>6. FullPath(in) = Place(full)
  BY <1>1, <1>2, <1>3, <1>5 DEF FullPath, root, full
<1> QED
  BY <1>3, <1>5, <1>6

(* A call at work on a file, or done with it, was given a path inside.     *)
PathInv ==
  \A c \in Calls : Active(c) \/ pc[c] = "ok" => IsPrefix(Workspace, path[c])

OutsideInv ==
  /\ files = [p \in Paths |-> files[p]]
  /\ \A p \in Paths : ~IsPrefix(Workspace, p) => files[p] = initial[p]

Shape ==
  /\ pc = [c \in Calls |-> pc[c]]
  /\ path = [c \in Calls |-> path[c]]

FileInv == Shape /\ PathInv /\ OutsideInv

LEMMA InsideInit == Init => FileInv
  BY DEF Init, FileInv, Shape, PathInv, OutsideInv, Active

(* Only the three steps of os.WriteFile change files, each at the path of  *)
(* the call.                                                               *)
LEMMA ChangeInside ==
  ASSUME FileInv, UNCHANGED <<path, initial>>,
         NEW c \in Calls, NEW s, Active(c), Change(c, path[c], s),
         NEW how, Finish(c, how)
  PROVE  FileInv'
<1>1. IsPrefix(Workspace, path[c])
  BY DEF FileInv, PathInv
<1>2. Shape' /\ PathInv'
  BY <1>1 DEF FileInv, Shape, PathInv, Finish, Active
<1>3. OutsideInv'
  BY <1>1 DEF FileInv, OutsideInv, Change
<1> QED
  BY <1>2, <1>3 DEF FileInv

LEMMA InsideNext == Descends /\ FileInv /\ [Next]_vars => FileInv'
<1> SUFFICES ASSUME Descends, FileInv, [Next]_vars PROVE FileInv'
  OBVIOUS
<1> USE DEF FileInv, Shape, PathInv, OutsideInv, Active, Finish
<1>1. ASSUME NEW c \in Calls, NEW in \in Inputs, NEW toolName, NEW next, NEW s,
             Begin(c, toolName, in, next, s)
      PROVE  FileInv'
  <2>1. FullPath(in) # NoPath => IsPrefix(Workspace, FullPath(in))
    BY ResolvedInside
  <2> QED
    BY <1>1, <2>1 DEF Begin, Fail
<1>2. ASSUME NEW c \in Calls, NEW in \in Inputs,
             \/ BeginRead(c, in)
             \/ \E e \in Edits : BeginEdit(c, in, e)
             \/ \E s \in Writes : BeginWrite(c, in, s)
      PROVE  FileInv'
  BY <1>1, <1>2 DEF BeginRead, BeginEdit, BeginWrite
<1>3. ASSUME NEW c \in Calls,
             \/ \E t \in {"read_file", "edit_file", "write_file"} : ArgumentsFail(c, t)
             \/ ReadFails(c) \/ ReadFile(c) \/ ReadForEdit(c) \/ OpenFails(c)
      PROVE  FileInv'
  BY <1>3 DEF ArgumentsFail, ReadFails, ReadFile, ReadForEdit, OpenFails, Fail
<1>4. ASSUME NEW c \in Calls, Open(c) \/ Write(c) \/ WriteFails(c) PROVE FileInv'
  <2> HIDE DEF FileInv, Finish
  <2>1. Active(c) /\ UNCHANGED <<path, initial>>
    BY <1>4 DEF Open, Write, WriteFails
  <2>2. PICK s, how : Change(c, path[c], s) /\ Finish(c, how)
    BY <1>4 DEF Open, Write, WriteFails, Fail
  <2> QED
    BY <2>1, <2>2, ChangeInside
<1>5. CASE Crash
  BY <1>5 DEF Crash
<1>6. CASE UNCHANGED vars
  BY <1>6 DEF vars
<1> QED
  BY <1>2, <1>3, <1>4, <1>5, <1>6 DEF Next

(* No call, whatever its path, its tool and the steps of other calls and   *)
(* crashes in between, touches a file outside the workspace, wherever that *)
(* is and however -workdir spells it, unless it begins above the directory *)
(* the process runs in.                                                    *)
THEOREM SandboxHolds == Spec => []SandboxKept
<1>1. Init => (Descends => FileInv)
  BY InsideInit
<1>2. (Descends => FileInv) /\ [Next]_vars => (Descends => FileInv)'
  BY InsideNext DEF Descends
<1>3. (Descends => FileInv) => SandboxKept
  BY DEF FileInv, PathInv, OutsideInv, SandboxKept, NeverEscapes
<1> QED
  BY <1>1, <1>2, <1>3, PTL DEF Spec

-----------------------------------------------------------------------------
(* What an edit that could not write says.                                 *)
WriteErrors ==
  {<<"failed_to_write">> \o Denied, <<"failed_to_write", "no space left on device">>}

(* A call at p, of tool t with arguments e, that has seen s and holds o.   *)
(* What an edit is to write, or what its error says, is what fuzzyReplace  *)
(* made of what it has seen.                                               *)
CallOK(p, t, e, s, o) ==
  /\ p \in {"idle", "read"} => s = Absent
  /\ p = "read" => t \in {"read_file", "edit_file"}
  /\ p \in {"open", "write"} => o \in Text /\ t \in {"edit_file", "write_file"}
  /\ t = "edit_file" /\ p \in {"open", "write", "ok"} =>
       s \in Text /\ Replaced(s, e.old, e.new) = Success(o)
  /\ t = "edit_file" /\ p = "error" /\ s # Absent =>
       /\ s \in Text
       /\ \/ /\ ~Replaced(s, e.old, e.new).ok
             /\ o = Observation(t, Replaced(s, e.old, e.new).text)
          \/ /\ Replaced(s, e.old, e.new).ok
             /\ \E err \in WriteErrors : o = Observation(t, err)

CallsInv == \A c \in Calls : CallOK(pc[c], tool[c], edit[c], seen[c], out[c])

(* A file that is open was emptied, and is empty still if no other call    *)
(* has written to it.                                                      *)
OpenInv ==
  \A c \in Calls : pc[c] = "write" =>
    files[path[c]] \in Text /\ (~disturbed[c] => files[path[c]] = <<>>)

FilesInv == TypeOK /\ DOMAIN out = Calls /\ out = [c \in Calls |-> out[c]] /\ CallsInv /\ OpenInv

LEMMA FilesInit == Init => FilesInv
<1> SUFFICES ASSUME Init PROVE FilesInv
  OBVIOUS
<1>1. <<>> \in Text
  BY EmptySeq DEF Text
<1>2. TypeOK
  BY <1>1, FilesAssumption DEF Init, TypeOK, Active
<1>3. \A c \in Calls : pc[c] = "idle" /\ tool[c] = "none" /\ seen[c] = Absent
  BY DEF Init
<1>4. CallsInv
  BY <1>3 DEF CallsInv, CallOK
<1>5. OpenInv
  BY <1>3 DEF OpenInv
<1>6. DOMAIN out = Calls /\ out = [c \in Calls |-> out[c]]
  BY DEF Init
<1> QED
  BY <1>2, <1>4, <1>5, <1>6 DEF FilesInv

(* What a step of one call has to leave.                                   *)
Places == {"idle", "read", "open", "write", "ok", "error", "dead"}

Held(c, p, t, f, e, s, o) ==
  /\ pc' = [pc EXCEPT ![c] = p]
  /\ tool' = [tool EXCEPT ![c] = t]
  /\ path' = [path EXCEPT ![c] = f]
  /\ edit' = [edit EXCEPT ![c] = e]
  /\ seen' = [seen EXCEPT ![c] = s]
  /\ out' = [out EXCEPT ![c] = o]

Leaves(c, p, f) ==
  \/ UNCHANGED <<files, disturbed>> /\ p # "write"
  \/ /\ Active(c) /\ f = path[c]
     /\ \E u \in Text : Change(c, f, u) /\ (p = "write" => u = <<>>)

LEMMA Moved ==
  ASSUME FilesInv, NEW c \in Calls, NEW p \in Places,
         NEW t \in {"none", "read_file", "edit_file", "write_file"},
         NEW f \in Paths \cup {NoPath}, NEW e \in [old : Text, new : Text],
         NEW s \in Text \cup {Absent}, NEW o,
         Held(c, p, t, f, e, s, o), Leaves(c, p, f), CallOK(p, t, e, s, o),
         p \in {"read", "open", "write"} => f \in Paths
  PROVE  FilesInv'
<1>1. /\ pc \in [Calls -> Places]
      /\ tool \in [Calls -> {"none", "read_file", "edit_file", "write_file"}]
      /\ path \in [Calls -> Paths \cup {NoPath}]
      /\ edit \in [Calls -> [old : Text, new : Text]]
      /\ seen \in [Calls -> Text \cup {Absent}]
      /\ disturbed \in [Calls -> BOOLEAN]
      /\ files \in [Paths -> Text \cup {Absent}]
      /\ DOMAIN out = Calls /\ out = [d \in Calls |-> out[d]]
  BY DEF FilesInv, TypeOK, Places
<1>2. \A d \in Calls : Active(d) => path[d] \in Paths
  BY DEF FilesInv, TypeOK
<1>3. \A d \in Calls : pc[d] \in {"open", "write"} => out[d] \in Text
  BY DEF FilesInv, TypeOK
<1>4. /\ pc'[c] = p /\ tool'[c] = t /\ path'[c] = f /\ edit'[c] = e /\ seen'[c] = s /\ out'[c] = o
      /\ \A d \in Calls \ {c} :
           /\ pc'[d] = pc[d] /\ tool'[d] = tool[d] /\ path'[d] = path[d] 
           /\ edit'[d] = edit[d] /\ seen'[d] = seen[d] /\ out'[d] = out[d]
  BY <1>1 DEF Held
<1>5. /\ pc' \in [Calls -> Places]
      /\ tool' \in [Calls -> {"none", "read_file", "edit_file", "write_file"}]
      /\ path' \in [Calls -> Paths \cup {NoPath}]
      /\ edit' \in [Calls -> [old : Text, new : Text]]
      /\ seen' \in [Calls -> Text \cup {Absent}]
  BY <1>1 DEF Held
<1>6. DOMAIN out' = Calls /\ out' = [d \in Calls |-> out'[d]]
  BY <1>1 DEF Held
<1>7. ASSUME NEW u \in Text, Active(c), f = path[c], Change(c, f, u), p = "write" => u = <<>>
      PROVE  /\ files' \in [Paths -> Text \cup {Absent}] /\ disturbed' \in [Calls -> BOOLEAN]
             /\ OpenInv'
  <2>1. files' = [files EXCEPT ![f] = u] /\ f \in Paths
    BY <1>2, <1>7 DEF Change
  <2>2. /\ disturbed' \in [Calls -> BOOLEAN]
        /\ \A d \in Calls : disturbed'[d] = (disturbed[d] \/ (d # c /\ Active(d) /\ path[d] = f))
    BY <1>1, <1>7 DEF Change
  <2>3. files' \in [Paths -> Text \cup {Absent}] /\ files'[f] = u
    BY <1>1, <2>1
  <2>4. ASSUME NEW d \in Calls \ {c}, pc[d] = "write"
        PROVE  files'[path[d]] \in Text /\ (~disturbed'[d] => files'[path[d]] = <<>>)
    <3>1. Active(d) /\ path[d] \in Paths
      BY <1>2, <2>4 DEF Active
    <3>2. CASE path[d] = f
      BY <2>2, <2>3, <3>1, <3>2
    <3>3. CASE path[d] # f
      <4>1. files'[path[d]] = files[path[d]]
        BY <1>1, <2>1, <3>1, <3>3
      <4>2. files[path[d]] \in Text /\ (~disturbed[d] => files[path[d]] = <<>>)
        BY <2>4 DEF FilesInv, OpenInv
      <4> QED
        BY <2>2, <4>1, <4>2
    <3> QED
      BY <3>2, <3>3
  <2>5. OpenInv'
    BY <1>4, <1>7, <2>3, <2>4 DEF OpenInv
  <2> QED
    BY <2>2, <2>3, <2>5
<1>8. ASSUME UNCHANGED <<files, disturbed>>, p # "write"
      PROVE  /\ files' \in [Paths -> Text \cup {Absent}] /\ disturbed' \in [Calls -> BOOLEAN]
             /\ OpenInv'
  <2>1. files' = files /\ disturbed' = disturbed
    BY <1>8
  <2>2. ASSUME NEW d \in Calls, pc'[d] = "write"
        PROVE  files'[path'[d]] \in Text /\ (~disturbed'[d] => files'[path'[d]] = <<>>)
    <3>1. d # c
      BY <1>4, <1>8, <2>2
    <3>2. pc[d] = "write" /\ path'[d] = path[d]
      BY <1>4, <2>2, <3>1
    <3>3. files[path[d]] \in Text /\ (~disturbed[d] => files[path[d]] = <<>>)
      BY <3>2 DEF FilesInv, OpenInv
    <3> QED
      BY <2>1, <3>2, <3>3
  <2> QED
    BY <1>1, <2>1, <2>2 DEF OpenInv
<1>9. /\ files' \in [Paths -> Text \cup {Absent}] /\ disturbed' \in [Calls -> BOOLEAN]
      /\ OpenInv'
  <2>1. CASE UNCHANGED <<files, disturbed>> /\ p # "write"
    BY <1>8, <2>1
  <2>2. CASE ~(UNCHANGED <<files, disturbed>> /\ p # "write")
    <3>1. Active(c) /\ f = path[c] /\ \E u \in Text : Change(c, f, u) /\ (p = "write" => u = <<>>)
      BY <2>2 DEF Leaves
    <3> QED
      BY <1>7, <3>1
  <2> QED
    BY <2>1, <2>2
<1>10. CallsInv'
  BY <1>4 DEF FilesInv, CallsInv
<1>11. (\A d \in Calls : Active(d) => path[d] \in Paths)'
  BY <1>2, <1>4 DEF Active
<1>12. (\A d \in Calls : pc[d] \in {"open", "write"} => out[d] \in Text)'
  BY <1>3, <1>4 DEF CallOK
<1> QED
  BY <1>5, <1>6, <1>9, <1>10, <1>11, <1>12 DEF FilesInv, TypeOK, Places

LEMMA Kept ==
  ASSUME FilesInv, NEW c \in Calls
  PROVE  /\ tool = [tool EXCEPT ![c] = tool[c]] /\ path = [path EXCEPT ![c] = path[c]]
         /\ edit = [edit EXCEPT ![c] = edit[c]] /\ seen = [seen EXCEPT ![c] = seen[c]]
         /\ out = [out EXCEPT ![c] = out[c]]
         /\ tool[c] \in {"none", "read_file", "edit_file", "write_file"}
         /\ path[c] \in Paths \cup {NoPath} /\ edit[c] \in [old : Text, new : Text]
         /\ seen[c] \in Text \cup {Absent}
         /\ CallOK(pc[c], tool[c], edit[c], seen[c], out[c])
  BY DEF FilesInv, TypeOK, CallsInv

LEMMA BeginSafe ==
  ASSUME FilesInv, NEW c \in Calls, NEW in \in Inputs, NEW t, NEW next, NEW s,
         NEW e \in [old : Text, new : Text],
         Begin(c, t, in, next, s), edit' = [edit EXCEPT ![c] = e],
         \/ t = "write_file" /\ next = "open" /\ s \in Text
         \/ t \in {"read_file", "edit_file"} /\ next = "read"
  PROVE  FilesInv'
<1> DEFINE f == FullPath(in)
<1>1. /\ pc[c] = "idle" /\ path' = [path EXCEPT ![c] = f] /\ tool' = [tool EXCEPT ![c] = t]
      /\ f \in Paths \cup {NoPath} /\ UNCHANGED <<files, seen, disturbed>>
  BY PathsAssumption DEF Begin
<1>2. /\ seen[c] = Absent /\ seen' = [seen EXCEPT ![c] = seen[c]]
      /\ seen[c] \in Text \cup {Absent}
  <2>1. seen' = seen
    BY <1>1
  <2>2. CallOK(pc[c], tool[c], edit[c], seen[c], out[c]) /\ seen = [seen EXCEPT ![c] = seen[c]]
          /\ seen[c] \in Text \cup {Absent}
    BY Kept
  <2> QED
    BY <1>1, <2>1, <2>2 DEF CallOK
<1>3. t \in {"none", "read_file", "edit_file", "write_file"}
  OBVIOUS
<1> HIDE DEF f
<1>4. CASE f = NoPath
  <2> DEFINE o == Observation(t, Escapes)
  <2>1. Held(c, "error", t, f, e, seen[c], o)
    BY <1>1, <1>2, <1>4 DEF Begin, Fail, Finish, Held, f
  <2>2. Leaves(c, "error", f)
    BY <1>1 DEF Leaves
  <2>3. CallOK("error", t, e, seen[c], o)
    BY <1>2 DEF CallOK
  <2> HIDE DEF o
  <2>4. "error" \in Places
    BY DEF Places
  <2> QED
    BY <1>1, <1>2, <1>3, <2>1, <2>2, <2>3, <2>4, Moved
<1>5. CASE f # NoPath
  <2>1. Held(c, next, t, f, e, seen[c], s)
    BY <1>1, <1>2, <1>5 DEF Begin, Fail, Finish, Held, f
  <2>2. Leaves(c, next, f)
    BY <1>1 DEF Leaves
  <2>3. CallOK(next, t, e, seen[c], s)
    BY <1>2 DEF CallOK
  <2>4. next \in Places /\ f \in Paths
    BY <1>1, <1>5 DEF Places
  <2> QED
    BY <1>1, <1>2, <1>3, <2>1, <2>2, <2>3, <2>4, Moved
<1> QED
  BY <1>4, <1>5

LEMMA ArgumentsSafe ==
  ASSUME FilesInv, NEW c \in Calls, NEW t \in {"read_file", "edit_file", "write_file"},
         ArgumentsFail(c, t)
  PROVE  FilesInv'
<1> DEFINE o == Observation(t, BadJson)
<1>1. /\ pc[c] = "idle" /\ Held(c, "error", t, path[c], edit[c], seen[c], o)
      /\ path[c] \in Paths \cup {NoPath} /\ edit[c] \in [old : Text, new : Text]
      /\ seen[c] \in Text \cup {Absent}
  BY Kept DEF ArgumentsFail, Fail, Finish, Held
<1>2. CallOK("error", t, edit[c], seen[c], o)
  BY <1>1, Kept DEF CallOK
<1>3. Leaves(c, "error", path[c]) /\ "error" \in Places
  BY DEF ArgumentsFail, Leaves, Places
<1> HIDE DEF o
<1> QED
  BY <1>1, <1>2, <1>3, Moved

(* A step of a call that has begun.                                        *)
Steps(c) ==
  \/ ReadFails(c) \/ ReadFile(c) \/ ReadForEdit(c)
  \/ OpenFails(c) \/ Open(c) \/ Write(c) \/ WriteFails(c)

LEMMA OverlaidType ==
  ASSUME NEW s \in Text, NEW t \in Text
  PROVE  Overlaid(s, t) \in Text /\ Overlaid(<<>>, t) = t
<1>1. Len(t) \in Nat /\ Len(s) \in Nat
  BY LenProperties DEF Text
<1>2. SubSeq(s, Len(t) + 1, Len(s)) \in Text
  <2>1. Len(t) + 1 \in Nat \ {0} /\ Len(s) \in Int /\ Len(s) <= Len(s)
    BY <1>1
  <2> QED
    BY <2>1, SubText
<1>3. SubSeq(<<>>, Len(t) + 1, Len(<<>>)) = <<>>
  <2>1. Len(<<>>) = 0 /\ Len(t) + 1 \in Int /\ 0 \in Int /\ 0 < Len(t) + 1
    BY <1>1, EmptySeq
  <2> QED
    BY <2>1, SubSeqEmpty
<1> QED
  BY <1>2, <1>3, ConcatProperties DEF Overlaid, Text

LEMMA StepsSafe == ASSUME FilesInv, NEW c \in Calls, Steps(c) PROVE FilesInv'
<1> DEFINE t == tool[c]
           f == path[c]
           e == edit[c]
<1>1. /\ tool' = [tool EXCEPT ![c] = t] /\ path' = [path EXCEPT ![c] = f]
      /\ edit' = [edit EXCEPT ![c] = e] /\ Active(c)
  <2>1. UNCHANGED <<tool, path, edit>> /\ Active(c)
    BY DEF Steps, ReadFails, ReadFile, ReadForEdit, OpenFails, Open, Write, WriteFails, Active
  <2> QED
    BY <2>1, Kept
<1>2. /\ t \in {"none", "read_file", "edit_file", "write_file"}
      /\ f \in Paths /\ e \in [old : Text, new : Text] /\ seen[c] \in Text \cup {Absent}
      /\ CallOK(pc[c], t, e, seen[c], out[c])
  <2>1. f \in Paths
    BY <1>1 DEF FilesInv, TypeOK
  <2> QED
    BY <2>1, Kept
<1>3. files[f] \in Text \cup {Absent} /\ (files[f] # Absent => files[f] \in Text)
  BY <1>2 DEF FilesInv, TypeOK
<1>4. seen = [seen EXCEPT ![c] = seen[c]] /\ out = [out EXCEPT ![c] = out[c]]
  BY Kept
<1> HIDE DEF t, f, e
<1>5. ASSUME NEW p \in Places, NEW s \in Text \cup {Absent}, NEW o,
             pc' = [pc EXCEPT ![c] = p], seen' = [seen EXCEPT ![c] = s],
             out' = [out EXCEPT ![c] = o], Leaves(c, p, f), CallOK(p, t, e, s, o)
      PROVE  FilesInv'
  <2>1. Held(c, p, t, f, e, s, o)
    BY <1>1, <1>5 DEF Held
  <2> QED
    BY <1>2, <1>5, <2>1, Moved
<1>6. CASE ReadFails(c)
  <2>1. PICK o : out' = [out EXCEPT ![c] = o]
    BY <1>6 DEF ReadFails, Fail
  <2>2. pc' = [pc EXCEPT ![c] = "error"] /\ pc[c] = "read" /\ UNCHANGED <<files, seen, disturbed>>
    BY <1>6 DEF ReadFails, Fail, Finish
  <2>3. CallOK("error", t, e, seen[c], o)
    BY <1>2, <2>2 DEF CallOK
  <2>4. Leaves(c, "error", f) /\ "error" \in Places /\ seen' = [seen EXCEPT ![c] = seen[c]]
    BY <1>4, <2>2 DEF Leaves, Places
  <2> QED
    BY <1>2, <1>5, <2>1, <2>2, <2>3, <2>4
<1>7. CASE ReadFile(c)
  <2>1. PICK o : out' = [out EXCEPT ![c] = o]
    BY <1>7 DEF ReadFile
  <2>2. /\ pc' = [pc EXCEPT ![c] = "ok"] /\ t = "read_file" /\ files[f] # Absent
        /\ seen' = [seen EXCEPT ![c] = files[f]] /\ UNCHANGED <<files, disturbed>>
    BY <1>7 DEF ReadFile, Finish, t, f
  <2>3. CallOK("ok", t, e, files[f], o)
    BY <2>2 DEF CallOK
  <2>4. Leaves(c, "ok", f) /\ "ok" \in Places
    BY <2>2 DEF Leaves, Places
  <2> QED
    BY <1>3, <1>5, <2>1, <2>2, <2>3, <2>4
<1>8. CASE ReadForEdit(c)
  <2> DEFINE res == Replaced(files[f], e.old, e.new)
  <2>1. /\ t = "edit_file" /\ files[f] # Absent
        /\ seen' = [seen EXCEPT ![c] = files[f]] /\ UNCHANGED <<files, disturbed>>
    BY <1>8 DEF ReadForEdit, t, f
  <2>2. /\ res.ok => res.text \in Text /\ res = Success(res.text)
        /\ res.ok \in BOOLEAN
    <3>1. files[f] \in Text /\ e.old \in Text /\ e.new \in Text
      BY <1>2, <1>3, <2>1
    <3> QED
      BY <3>1, ReplacedType
  <2>3. CASE res.ok
    <3>1. pc' = [pc EXCEPT ![c] = "open"] /\ out' = [out EXCEPT ![c] = res.text]
      BY <1>8, <2>3 DEF ReadForEdit, Finish, e, f
    <3>2. CallOK("open", t, e, files[f], res.text)
      BY <1>3, <2>1, <2>2, <2>3 DEF CallOK
    <3>3. Leaves(c, "open", f) /\ "open" \in Places
      BY <2>1 DEF Leaves, Places
    <3> HIDE DEF res
    <3> QED
      BY <1>3, <1>5, <2>1, <3>1, <3>2, <3>3
  <2>4. CASE ~res.ok
    <3>1. pc' = [pc EXCEPT ![c] = "error"] /\ out' = [out EXCEPT ![c] = Observation(t, res.text)]
      BY <1>8, <2>1, <2>4 DEF ReadForEdit, Fail, Finish, e, f
    <3>2. CallOK("error", t, e, files[f], Observation(t, res.text))
      BY <1>3, <2>1, <2>4 DEF CallOK
    <3>3. Leaves(c, "error", f) /\ "error" \in Places
      BY <2>1 DEF Leaves, Places
    <3> HIDE DEF res
    <3> QED
      BY <1>3, <1>5, <2>1, <3>1, <3>2, <3>3
  <2> QED
    BY <2>3, <2>4
<1>9. ASSUME NEW err \in WriteErrors, pc[c] \in {"open", "write"}
      PROVE  CallOK("error", t, e, seen[c], Observation(t, err))
  <2>1. ASSUME t = "edit_file"
        PROVE  seen[c] \in Text /\ Replaced(seen[c], e.old, e.new).ok
    <3>1. seen[c] \in Text /\ Replaced(seen[c], e.old, e.new) = Success(out[c])
      BY <1>2, <1>9, <2>1 DEF CallOK
    <3> QED
      BY <3>1 DEF Success
  <2> QED
    BY <1>9, <2>1 DEF CallOK
<1>10. CASE OpenFails(c)
  <2> DEFINE o == Observation(t, <<"failed_to_write">> \o Denied)
  <2>1. /\ pc[c] = "open" /\ pc' = [pc EXCEPT ![c] = "error"] /\ out' = [out EXCEPT ![c] = o]
        /\ UNCHANGED <<files, seen, disturbed>>
    BY <1>10 DEF OpenFails, Fail, Finish, t
  <2>2. CallOK("error", t, e, seen[c], o)
    <3>1. <<"failed_to_write">> \o Denied \in WriteErrors
      BY DEF WriteErrors
    <3> QED
      BY <1>9, <2>1, <3>1
  <2>3. Leaves(c, "error", f) /\ "error" \in Places /\ seen' = [seen EXCEPT ![c] = seen[c]]
    BY <1>4, <2>1 DEF Leaves, Places
  <2> HIDE DEF o
  <2> QED
    BY <1>2, <1>5, <2>1, <2>2, <2>3
<1>11. CASE Open(c)
  <2>1. /\ pc[c] = "open" /\ pc' = [pc EXCEPT ![c] = "write"] /\ UNCHANGED <<seen, out>>
        /\ Change(c, f, <<>>)
    BY <1>11 DEF Open, Finish, f
  <2>2. CallOK("write", t, e, seen[c], out[c])
    BY <1>2, <2>1 DEF CallOK
  <2>3. Leaves(c, "write", f) /\ "write" \in Places
    <3>1. <<>> \in Text
      BY EmptySeq DEF Text
    <3> QED
      BY <1>1, <2>1, <3>1 DEF Leaves, Places, f
  <2>4. seen' = [seen EXCEPT ![c] = seen[c]] /\ out' = [out EXCEPT ![c] = out[c]]
    BY <1>4, <2>1
  <2> QED
    BY <1>2, <1>5, <2>1, <2>2, <2>3, <2>4
<1>12. CASE Write(c)
  <2> DEFINE u == Overlaid(files[f], out[c])
  <2>1. /\ pc[c] = "write" /\ pc' = [pc EXCEPT ![c] = "ok"] /\ UNCHANGED <<seen, out>>
        /\ Change(c, f, u)
    BY <1>12 DEF Write, Finish, f
  <2>2. CallOK("ok", t, e, seen[c], out[c])
    BY <1>2, <2>1 DEF CallOK
  <2>3. u \in Text
    <3>1. files[f] \in Text
      BY <2>1 DEF FilesInv, OpenInv, f
    <3>2. out[c] \in Text
      BY <1>2, <2>1 DEF CallOK
    <3> QED
      BY <3>1, <3>2, OverlaidType
  <2> HIDE DEF u
  <2>4. Leaves(c, "ok", f) /\ "ok" \in Places
    BY <1>1, <2>1, <2>3 DEF Leaves, Places, f
  <2>5. seen' = [seen EXCEPT ![c] = seen[c]] /\ out' = [out EXCEPT ![c] = out[c]]
    BY <1>4, <2>1
  <2> QED
    BY <1>2, <1>5, <2>1, <2>2, <2>4, <2>5
<1>13. CASE WriteFails(c)
  <2> DEFINE o == Observation(t, <<"failed_to_write", "no space left on device">>)
  <2>1. /\ pc[c] = "write" /\ pc' = [pc EXCEPT ![c] = "error"] /\ out' = [out EXCEPT ![c] = o]
        /\ UNCHANGED seen
    BY <1>13 DEF WriteFails, Fail, Finish, t
  <2>2. CallOK("error", t, e, seen[c], o)
    <3>1. <<"failed_to_write", "no space left on device">> \in WriteErrors
      BY DEF WriteErrors
    <3> QED
      BY <1>9, <2>1, <3>1
  <2>3. PICK n \in 0..Len(out[c]) :
          n < Len(out[c]) /\ Change(c, f, Overlaid(files[f], SubSeq(out[c], 1, n)))
    BY <1>13 DEF WriteFails, f
  <2>4. Overlaid(files[f], SubSeq(out[c], 1, n)) \in Text
    <3>1. files[f] \in Text
      BY <2>1 DEF FilesInv, OpenInv, f
    <3>2. out[c] \in Text
      BY <1>2, <2>1 DEF CallOK
    <3>3. SubSeq(out[c], 1, n) \in Text
      <4>1. Len(out[c]) \in Nat
        BY <3>2, LenProperties DEF Text
      <4>2. 1 \in Nat \ {0} /\ n \in Int /\ n <= Len(out[c])
        BY <4>1
      <4> QED
        BY <3>2, <4>2, SubText
    <3> QED
      BY <3>1, <3>3, OverlaidType
  <2>5. Leaves(c, "error", f) /\ "error" \in Places
    BY <1>1, <2>3, <2>4 DEF Leaves, Places, f
  <2>6. seen' = [seen EXCEPT ![c] = seen[c]]
    BY <1>4, <2>1
  <2> HIDE DEF o
  <2> QED
    BY <1>2, <1>5, <2>1, <2>2, <2>5, <2>6
<1> QED
  BY <1>6, <1>7, <1>8, <1>10, <1>11, <1>12, <1>13 DEF Steps

LEMMA CrashSafe == FilesInv /\ Crash => FilesInv'
<1> SUFFICES ASSUME FilesInv, Crash PROVE FilesInv'
  OBVIOUS
<1>1. UNCHANGED <<files, tool, path, edit, seen, out, disturbed>>
  BY DEF Crash
<1>2. pc' = [c \in Calls |-> IF pc[c] \in {"ok", "error"} THEN pc[c] ELSE "dead"]
  BY DEF Crash
<1>3. pc \in [Calls -> Places]
  BY DEF FilesInv, TypeOK, Places
<1>4. pc' \in [Calls -> Places] /\ \A c \in Calls : pc'[c] \in {"ok", "error", "dead"} 
  BY <1>2, <1>3 DEF Places
<1>5. \A c \in Calls : pc'[c] = pc[c] \/ pc'[c] = "dead"
  BY <1>2, <1>3
<1>6. CallsInv'
  <2>1. ASSUME NEW c \in Calls PROVE CallOK(pc'[c], tool[c], edit[c], seen[c], out[c])
    <3>1. CASE pc'[c] = pc[c]
      BY <3>1 DEF FilesInv, CallsInv
    <3>2. CASE pc'[c] = "dead"
      BY <3>2 DEF CallOK
    <3> QED
      BY <1>5, <3>1, <3>2
  <2> QED
    BY <1>1, <2>1 DEF CallsInv
<1>7. OpenInv'
  BY <1>4 DEF OpenInv
<1>8. TypeOK'
  BY <1>1, <1>4 DEF FilesInv, TypeOK, Active, Places
<1> QED
  BY <1>1, <1>6, <1>7, <1>8 DEF FilesInv

LEMMA FilesNext == FilesInv /\ [Next]_vars => FilesInv'
<1> SUFFICES ASSUME FilesInv, [Next]_vars PROVE FilesInv'
  OBVIOUS
<1>1. ASSUME NEW c \in Calls, NEW in \in Inputs, BeginRead(c, in) PROVE FilesInv'
  <2>1. Begin(c, "read_file", in, "read", <<>>) /\ edit' = [edit EXCEPT ![c] = edit[c]]
          /\ edit[c] \in [old : Text, new : Text]
    BY <1>1, Kept DEF BeginRead
  <2> QED
    BY <2>1, BeginSafe
<1>2. ASSUME NEW c \in Calls, NEW in \in Inputs, NEW e \in Edits, BeginEdit(c, in, e)
      PROVE  FilesInv'
  <2>1. Begin(c, "edit_file", in, "read", <<>>) /\ edit' = [edit EXCEPT ![c] = e]
          /\ e \in [old : Text, new : Text]
    BY <1>2, FilesAssumption DEF BeginEdit
  <2> QED
    BY <2>1, BeginSafe
<1>3. ASSUME NEW c \in Calls, NEW in \in Inputs, NEW s \in Writes, BeginWrite(c, in, s)
      PROVE  FilesInv'
  <2>1. Begin(c, "write_file", in, "open", s) /\ edit' = [edit EXCEPT ![c] = edit[c]]
          /\ edit[c] \in [old : Text, new : Text] /\ s \in Text
    BY <1>3, Kept, FilesAssumption DEF BeginWrite
  <2> QED
    BY <2>1, BeginSafe
<1>4. CASE UNCHANGED vars
  BY <1>4 DEF vars, FilesInv, TypeOK, CallsInv, OpenInv, Active
<1> QED
  BY <1>1, <1>2, <1>3, <1>4, ArgumentsSafe, StepsSafe, CrashSafe DEF Next, Steps

(* Types, for every workspace, input and text, and a refusal is never      *)
(* written to a file.                                                      *)
THEOREM FileTypesHold == Spec => []TypeOK
<1>1. FilesInv => TypeOK
  BY DEF FilesInv
<1> QED
  BY <1>1, FilesInit, FilesNext, PTL DEF Spec

(* No edit decides for one of two places, at whichever level.              *)
THEOREM AmbiguousHolds == Spec => []AmbiguousRefused
<1>1. FilesInv => AmbiguousRefused
  <2> SUFFICES ASSUME FilesInv, NEW c \in Calls, tool[c] = "edit_file",
                      pc[c] \in {"open", "write", "ok"},
                      Ambiguous(seen[c], edit[c].old)
               PROVE  FALSE
    BY DEF AmbiguousRefused
  <2>1. edit[c].old \in Text
    BY DEF FilesInv, TypeOK
  <2>2. /\ seen[c] \in Text
        /\ Replaced(seen[c], edit[c].old, edit[c].new) = Success(out[c])
    BY DEF FilesInv, CallsInv, CallOK
  <2>3. Count(seen[c], edit[c].old) > 1
    BY <2>1, <2>2, CountAmbiguous
  <2>4. Replaced(seen[c], edit[c].old, edit[c].new) = Error(TooMany)
    BY <2>3 DEF Replaced
  <2>5. ~Error(TooMany).ok /\ Success(out[c]).ok
    BY DEF Error, Success
  <2> QED
    BY <2>2, <2>4, <2>5
<1> QED
  BY <1>1, FilesInit, FilesNext, PTL DEF Spec

(* Whatever a file held, and whoever wrote to it before, a call alone with *)
(* it leaves there what it reports to have written.                        *)
THEOREM SoleWriterHolds == Spec => SoleWriterExact
<1>1. ASSUME FilesInv, [Next]_vars, NEW c \in Calls,
             pc[c] = "write", pc'[c] = "ok", ~disturbed[c]
      PROVE  files'[path[c]] = out[c]
  <2>1. \A d \in Calls : pc[d] \in Places /\ (pc[d] = "write" => path[d] \in Paths)
    BY <1>1 DEF FilesInv, TypeOK, Active, Places
  <2>2. pc \in [Calls -> Places]
    BY <1>1 DEF FilesInv, TypeOK, Places
  <2>3. \A d \in Calls : \A how : Finish(d, how) /\ pc[d] # "write" => pc'[c] = "write"
    BY <1>1, <2>2 DEF Finish
  <2>4. \A d \in Calls : \A how : Finish(d, how) /\ how # "ok" => pc'[c] # "ok"
    BY <1>1, <2>2 DEF Finish
  <2>5. Write(c)
    <3>1. ASSUME NEW d \in Calls, NEW in, NEW t, NEW next, NEW s, Begin(d, t, in, next, s)
          PROVE  FALSE
      <4>1. pc[d] # "write" /\ \E how : Finish(d, how)
        BY <3>1 DEF Begin, Fail
      <4> QED
        BY <1>1, <2>3, <4>1
    <3>2. ~\E d \in Calls, in \in Inputs :
            \/ BeginRead(d, in)
            \/ \E e \in Edits : BeginEdit(d, in, e)
            \/ \E s \in Writes : BeginWrite(d, in, s)
      BY <3>1 DEF BeginRead, BeginEdit, BeginWrite
    <3>8. ASSUME NEW d \in Calls, NEW t, ArgumentsFail(d, t) PROVE FALSE
      <4>1. pc[d] # "write" /\ \E how : Finish(d, how)
        BY <3>8 DEF ArgumentsFail, Fail
      <4> QED
        BY <1>1, <2>3, <4>1
    <3>3. ASSUME NEW d \in Calls, ReadFails(d) \/ ReadFile(d) \/ ReadForEdit(d) \/ OpenFails(d) \/ Open(d)
          PROVE  FALSE
      <4>1. pc[d] # "write" /\ \E how : Finish(d, how)
        BY <3>3 DEF ReadFails, ReadFile, ReadForEdit, OpenFails, Open, Fail
      <4> QED
        BY <1>1, <2>3, <4>1
    <3>4. ASSUME NEW d \in Calls, WriteFails(d) PROVE FALSE
      <4>1. Finish(d, "error")
        BY <3>4 DEF WriteFails, Fail
      <4> QED
        BY <1>1, <2>4, <4>1
    <3>5. ASSUME NEW d \in Calls, Write(d), d # c PROVE FALSE
      <4>1. pc' = [pc EXCEPT ![d] = "ok"]
        BY <3>5 DEF Write, Finish
      <4> QED
        BY <1>1, <2>2, <3>5, <4>1
    <3>6. ~Crash
      BY <1>1 DEF Crash
    <3>7. ~UNCHANGED vars
      BY <1>1 DEF vars
    <3> QED
      BY <1>1, <3>2, <3>3, <3>4, <3>5, <3>6, <3>7, <3>8 DEF Next
  <2>6. files[path[c]] = <<>> /\ out[c] \in Text
    BY <1>1 DEF FilesInv, OpenInv, CallsInv, CallOK
  <2>7. files' = [files EXCEPT ![path[c]] = Overlaid(<<>>, out[c])]
    BY <2>5, <2>6 DEF Write, Change
  <2>8. Overlaid(<<>>, out[c]) = out[c]
    <3>1. <<>> \in Text
      BY EmptySeq DEF Text
    <3> QED
      BY <2>6, <3>1, OverlaidType
  <2>9. files \in [Paths -> Text \cup {Absent}] /\ path[c] \in Paths
    BY <1>1, <2>1 DEF FilesInv, TypeOK
  <2> QED
    BY <2>7, <2>8, <2>9
<1>2. FilesInv /\ [Next]_vars =>
        [\A c \in Calls :
           pc[c] = "write" /\ pc'[c] = "ok" /\ ~disturbed[c]
             => files'[path[c]] = out[c]]_vars
  BY <1>1
<1> QED
  BY <1>2, FilesInit, FilesNext, PTL DEF Spec, SoleWriterExact

(* No edit, at whichever level of the fuzzy replacement and whatever other *)
(* calls do, writes a text that differs from what it read in more than the *)
(* one region that is old_text up to white space.                          *)
THEOREM EditsAreLocal == Spec => []EditIsLocal
<1>1. FilesInv => EditIsLocal
  <2> SUFFICES ASSUME FilesInv, NEW c \in Calls, tool[c] = "edit_file",
                      pc[c] \in {"open", "write", "ok"}
               PROVE  OneRegionReplaced(seen[c], edit[c].old, edit[c].new, out[c])
    BY DEF EditIsLocal
  <2>1. edit[c].old \in Text /\ edit[c].new \in Text
    BY DEF FilesInv, TypeOK
  <2>2. /\ seen[c] \in Text
        /\ Replaced(seen[c], edit[c].old, edit[c].new) = Success(out[c])
    BY DEF FilesInv, CallsInv, CallOK
  <2>3. Success(out[c]).ok /\ Success(out[c]).text = out[c]
    BY DEF Success
  <2>4. OneRegionReplaced(seen[c], edit[c].old, edit[c].new, Replaced(seen[c], edit[c].old, edit[c].new).text)
    BY <2>1, <2>2, <2>3, ReplacedLocal
  <2> QED
    BY <2>2, <2>3, <2>4
<1> QED
  BY <1>1, FilesInit, FilesNext, PTL DEF Spec

-----------------------------------------------------------------------------
(* What has a region that is old_text up to white space mentions it, white *)
(* space left out.                                                         *)
LEMMA RegionMentioned ==
  ASSUME NEW c \in Text, NEW o \in Text, NEW new, NEW t, OneRegionReplaced(c, o, new, t)
  PROVE  Mentions(Append(Squashed(c), "end"), Squashed(o))
<1>0. PICK base \in {c, Normalized(c)} : \E i \in 0..Len(base) : \E j \in i..Len(base) :
        Squashed(SubSeq(base, i + 1, j)) = Squashed(o)
  BY DEF OneRegionReplaced
<1>11. PICK i \in 0..Len(base) : \E j \in i..Len(base) :
        Squashed(SubSeq(base, i + 1, j)) = Squashed(o)
  BY <1>0
<1>1. PICK j \in i..Len(base) : Squashed(SubSeq(base, i + 1, j)) = Squashed(o)
  BY <1>11
<1>2. base \in Text /\ Squashed(base) = Squashed(c) /\ Len(base) \in Nat
  <2>1. base \in Text
    BY FoldTypes
  <2> QED
    BY <2>1, SquashNormal, LenProperties DEF Text
<1> DEFINE x == SubSeq(base, 1, i)
           m == SubSeq(base, i + 1, j)
           y == SubSeq(base, j + 1, Len(base))
<1>3. x \in Text /\ m \in Text /\ y \in Text /\ base = (x \o m) \o y
  <2>1. i + 1 \in 1..(Len(base) + 1) /\ j \in ((i + 1) - 1)..Len(base) /\ (i + 1) - 1 = i
    BY <1>2
  <2> QED
    BY <1>2, <2>1, ThreeParts
<1>4. Squashed(m) = Squashed(o)
  BY <1>1
<1> HIDE DEF x, m, y
<1> DEFINE S == Tokens \cup {"end"}
           A == Squashed(x)
           M == Squashed(m)
           B == Append(Squashed(y), "end")
           s == (A \o M) \o B
<1>5. A \in Seq(S) /\ M \in Seq(S) /\ B \in Seq(S) /\ Squashed(y) \in Seq(S) /\ Len(B) = Len(Squashed(y)) + 1
  <2>1. A \in Text /\ M \in Text /\ Squashed(y) \in Text
    BY <1>3, FoldTypes
  <2>2. A \in Seq(S) /\ M \in Seq(S) /\ Squashed(y) \in Seq(S)
    BY <2>1, SeqMonotonic DEF Text, Tokens
  <2> QED
    BY <2>2, AppendProperties
<1>6. Append(Squashed(c), "end") = s
  <2>1. Squashed(c) = (A \o M) \o Squashed(y)
    <3>1. x \o m \in Text
      BY <1>3, TextConcat
    <3>2. Squashed((x \o m) \o y) = Squashed(x \o m) \o Squashed(y)
      BY <1>3, <3>1, SquashConcat
    <3>3. Squashed(x \o m) = A \o M
      BY <1>3, SquashConcat
    <3> QED
      BY <1>2, <1>3, <3>2, <3>3
  <2> DEFINE E == <<"end">>
             AM == A \o M
             Y == Squashed(y)
  <2>2. E \in Seq(S) /\ AM \in Seq(S) /\ AM \o Y \in Seq(S)
    BY <1>5, ConcatProperties
  <2>3. Append(AM \o Y, "end") = (AM \o Y) \o E /\ B = Y \o E
    BY <1>5, <2>2, AppendIsConcat
  <2>4. (AM \o Y) \o E = AM \o (Y \o E)
    <3>1. Y \in Seq(S)
      BY <1>5
    <3> HIDE DEF E, AM, Y, S
    <3> QED
      BY <2>2, <3>1, ConcatAssociative
  <2> QED
    BY <2>1, <2>3, <2>4
<1>7. Len(A) \in Nat /\ Len(M) \in Nat /\ Len(B) \in Nat \ {0}
  BY <1>5, LenProperties
<1> HIDE DEF A, M, B, S
<1>8. /\ s \in Seq(S) /\ SubSeq(s, Len(A) + 1, Len(A) + Len(M)) = M
  BY <1>5, Parts DEF Parted
<1>9. Len(s) = Len(A) + Len(M) + Len(B)
  <2>1. A \o M \in Seq(S) /\ Len(A \o M) = Len(A) + Len(M)
    BY <1>5, ConcatProperties
  <2>2. Len((A \o M) \o B) = Len(A \o M) + Len(B)
    BY <1>5, <2>1, ConcatProperties
  <2> QED
    BY <2>1, <2>2
<1> HIDE DEF s
<1>10. /\ Len(A) + 1 \in 1..Len(s) /\ (Len(A) + 1) + Len(M) - 1 = Len(A) + Len(M)
       /\ Len(A) + Len(M) <= Len(s)
  BY <1>7, <1>9
<1>13. OccursAt(M, s, Len(A) + 1)
  BY <1>8, <1>10 DEF OccursAt
<1>12. Mentions(s, M)
  BY <1>10, <1>13 DEF Mentions
<1> QED
  BY <1>4, <1>6, <1>12 DEF M

LEMMA OccurrenceMentioned ==
  ASSUME NEW c \in Text, NEW o \in Text, Count(c, o) > 1
  PROVE  Mentions(Append(Squashed(c), "end"), Squashed(o))
<1>1. Len(c) \in Nat /\ Len(o) \in Nat
  BY LenProperties DEF Text
<1>2. \E i \in 1..(Len(c) + 1) : i + Len(o) - 1 <= Len(c) /\ SubSeq(c, i, i + Len(o) - 1) = o
  <2>1. CASE o = <<>>
    <3>1. Len(o) = 0 /\ SubSeq(c, 1, 0) = <<>>
      BY <2>1, EmptySeq, SubSeqEmpty
    <3>2. 1 \in 1..(Len(c) + 1) /\ 1 + Len(o) - 1 = 0 /\ 0 <= Len(c)
      BY <1>1, <3>1
    <3> QED
      BY <2>1, <3>1, <3>2
  <2>2. CASE o # <<>>
    <3>1. PICK i \in 1..Len(c) : OccursAt(o, c, i)
      BY <2>2, CountFinds
    <3>2. i \in 1..(Len(c) + 1)
      BY <1>1
    <3> QED
      BY <3>1, <3>2 DEF OccursAt
  <2> QED
    BY <2>1, <2>2
<1>3. PICK i \in 1..(Len(c) + 1) : i + Len(o) - 1 <= Len(c) /\ SubSeq(c, i, i + Len(o) - 1) = o
  BY <1>2
<1> DEFINE j == i + Len(o) - 1
           a == SubSeq(c, 1, i - 1)
           m == SubSeq(c, i, j)
           b == SubSeq(c, j + 1, Len(c))
<1>4. a \in Text /\ m \in Text /\ b \in Text /\ c = (a \o m) \o b
  <2>1. i \in 1..(Len(c) + 1) /\ j \in (i-1)..Len(c)
    BY <1>1, <1>3
  <2> HIDE DEF j
  <2> QED
    BY <2>1, ThreeParts
<1>5. m = o
  BY <1>3
<1> HIDE DEF a, m, b
<1>6. (a \o m) \o b \in {c, Normalized(c)} /\ Squashed(m) = Squashed(o) /\ <<>> \in Text
  BY <1>4, <1>5, TextConcat
<1>7. OneRegionReplaced(c, o, <<>>, (a \o <<>>) \o b)
  BY <1>4, <1>6, RegionOf
<1> QED
  BY <1>7, RegionMentioned

(* Which refusal means what.                                               *)
LEMMA RefusalsDiffer ==
  /\ TooMany \notin {NotFound, NoSuchSnippet, Similar}
  /\ Similar \notin {NotFound, NoSuchSnippet}
<1>1. Len(TooMany) = 7 /\ Len(NotFound) = 2 /\ Len(NoSuchSnippet) = 1 /\ Len(Similar) = 6
  BY DEF TooMany, NotFound, NoSuchSnippet, Similar
<1> QED
  BY <1>1

LEMMA RefusalMeans ==
  ASSUME NEW c \in Text, NEW o \in Text, NEW new \in Text, ~Replaced(c, o, new).ok
  PROVE  LET err == Replaced(c, o, new).text
         IN  /\ err \in {NotFound, NoSuchSnippet} =>
                  \A i \in 1..Len(c) : ~OccursAt(o, c, i)
             /\ err \in {TooMany, Similar} =>
                  Mentions(Append(Squashed(c), "end"), Squashed(o))
<1> DEFINE n == Normalized(c)
           p == Normalized(o)
           lines == Lines(n)
           old == Lines(TrimSpace(p))
           err == Replaced(c, o, new).text
<1>1. \A e : Error(e).text = e /\ ~Error(e).ok
  BY DEF Error
<1>2. \A t : Success(t).ok
  BY DEF Success
<1>3. CASE Count(c, o) > 1
  <2>1. Count(c, o) # 1
    BY <1>3
  <2>2. Replaced(c, o, new) = Error(TooMany)
    BY <1>3, <2>1 DEF Replaced
  <2> QED
    BY <1>1, <1>3, <2>2, OccurrenceMentioned, RefusalsDiffer
<1>4. CASE ~(Count(c, o) > 1)
  <2>1. Count(c, o) # 1
    BY <1>2 DEF Replaced
  <2>2. Replaced(c, o, new) = LineByLineReplace(n, p, new)
    BY <1>2, <1>4 DEF Replaced
  <2>3. o # <<>>
    <3>1. o = <<>> => Count(c, o) = Len(c) + 1 /\ Len(c) \in Nat
      BY LenProperties DEF Count, Text
    <3> QED
      BY <1>4, <2>1, <3>1
  <2>4. \A i \in 1..Len(c) : ~OccursAt(o, c, i)
    <3>1. Count(c, o) = 0
      BY <1>4, <2>1, <2>3, CountFinds
    <3> QED
      BY <2>3, <3>1, CountFinds
  <2>5. err \in {NoSuchSnippet, NotFound} \/ (err = Similar /\ Windows(lines, old) # {})
    BY <1>1, <1>2, <2>2 DEF LineByLineReplace
  <2>6. ASSUME Windows(lines, old) # {}
        PROVE  Mentions(Append(Squashed(c), "end"), Squashed(o))
    <3>1. PICK i : i \in Windows(lines, old)
      BY <2>6
    <3>2. OneRegionReplaced(c, o, new, Joined(Spliced(lines, i, Len(old), new)))
      BY <3>1, LinesAreLocal
    <3> QED
      BY <3>2, RegionMentioned
  <2> QED
    BY <2>4, <2>5, <2>6, RefusalsDiffer
<1> QED
  BY <1>3, <1>4

(* The errors of edit_file that come after it has read the file, and which *)
(* of them the first of its rules knows.                                   *)
EditErrors == Refusals \cup WriteErrors

Known == {"not found in the file: old_text", "no such snippet"}

Names(err) == {err[k] : k \in 1..Len(err)}

Phrases == {"old_text", "matched", "N", "places", "give more", "of the", "context", "loosely",
            "lines around", "no such snippet", "not found in the file: old_text", "read it first",
            "failed_to_write", "permission_denied", "no space left on device"}

LEMMA Pair ==
  ASSUME NEW a, NEW b
  PROVE  <<a>> \o <<b>> = <<a, b>>
<1> DEFINE S == {a, b}
           u == <<a>> \o <<b>>
           v == <<a, b>>
<1>1. <<a>> \in Seq(S) /\ Len(<<a>>) = 1 /\ <<b>> \in Seq(S) /\ Len(<<b>>) = 1
  OBVIOUS
<1>2. /\ u \in Seq(S) /\ Len(u) = 1 + 1
      /\ \A k \in 1..(1 + 1) : u[k] = IF k <= 1 THEN <<a>>[k] ELSE <<b>>[k - 1]
  <2> HIDE DEF S
  <2> QED
    BY <1>1, ConcatProperties
<1>3. v \in Seq(S) /\ Len(v) = 2 /\ v[1] = a /\ v[2] = b
  OBVIOUS
<1> HIDE DEF u, v, S
<1>4. Len(u) = 2 /\ u[1] = a /\ u[2] = b
  BY <1>2
<1>5. \A k \in 1..Len(u) : u[k] = v[k]
  BY <1>3, <1>4
<1>6. u = v
  BY <1>2, <1>3, <1>4, <1>5, SeqEqual
<1> QED
  BY <1>6 DEF u, v

LEMMA ErrorShapes ==
  ASSUME NEW err \in EditErrors
  PROVE  /\ err \in Seq(Phrases) /\ Len(err) \in Nat \ {0}
         /\ err \in {NotFound, NoSuchSnippet} <=> Names(err) \cap Known # {}
<1>1. err \in {TooMany, NoSuchSnippet, NotFound, Similar,
               <<"failed_to_write", "permission_denied">>,
               <<"failed_to_write", "no space left on device">>}
  <2>1. <<"failed_to_write">> \o Denied = <<"failed_to_write", "permission_denied">>
    BY Pair DEF Denied
  <2> QED
    BY <2>1 DEF EditErrors, Refusals, WriteErrors
<1>2. \A S : err \in Seq(S) => Names(err) \subseteq S
  BY ElementOfSeq DEF Names
<1>3. /\ NotFound[1] = "not found in the file: old_text" /\ Len(NotFound) = 2 /\ NotFound \in Seq(Phrases)
      /\ NoSuchSnippet[1] = "no such snippet" /\ Len(NoSuchSnippet) = 1 /\ NoSuchSnippet \in Seq(Phrases)
  BY DEF NotFound, NoSuchSnippet, Phrases
<1>4. ASSUME NEW S, err \in Seq(S), S \subseteq Phrases, S \cap Known = {}, Len(err) > 0
      PROVE  /\ err \in Seq(Phrases) /\ Len(err) \in Nat \ {0}
             /\ err \notin {NotFound, NoSuchSnippet} /\ Names(err) \cap Known = {}
  <2>1. Names(err) \cap Known = {}
    BY <1>2, <1>4
  <2>2. err \in Seq(Phrases) /\ Len(err) \in Nat
    BY <1>4, SeqMonotonic, LenProperties
  <2>3. err[1] \in Names(err)
    BY <1>4, <2>2 DEF Names
  <2>4. err # NotFound /\ err # NoSuchSnippet
    BY <1>3, <2>1, <2>3 DEF Known
  <2> QED
    BY <1>4, <2>1, <2>2, <2>4
<1>5. CASE err = TooMany
  <2> DEFINE S == {"old_text", "matched", "N", "places", "give more", "of the", "context"}
  <2>1. err \in Seq(S) /\ Len(err) > 0
    <3>1. TooMany \in Seq(S)
      BY DEF TooMany
    <3>2. Len(TooMany) = 7
      BY DEF TooMany
    <3> HIDE DEF S
    <3> QED
      BY <1>5, <3>1, <3>2
  <2>2. S \subseteq Phrases /\ S \cap Known = {}
    BY DEF Phrases, Known
  <2> HIDE DEF S
  <2> QED
    BY <1>4, <2>1, <2>2
<1>6. CASE err = Similar
  <2> DEFINE S == {"loosely", "matched", "N", "places", "give more", "lines around"}
  <2>1. err \in Seq(S) /\ Len(err) > 0
    <3>1. Similar \in Seq(S)
      BY DEF Similar
    <3>2. Len(Similar) = 6
      BY DEF Similar
    <3> HIDE DEF S
    <3> QED
      BY <1>6, <3>1, <3>2
  <2>2. S \subseteq Phrases /\ S \cap Known = {}
    BY DEF Phrases, Known
  <2> HIDE DEF S
  <2> QED
    BY <1>4, <2>1, <2>2
<1>7. CASE err \in {<<"failed_to_write", "permission_denied">>, <<"failed_to_write", "no space left on device">>}
  <2> DEFINE S == {"failed_to_write", "permission_denied", "no space left on device"}
  <2>1. err \in Seq(S) /\ Len(err) > 0
    <3>1. \A x, y \in S : <<x, y>> \in Seq(S) /\ Len(<<x, y>>) = 2
      <4> HIDE DEF S
      <4> QED
        OBVIOUS
    <3>2. "failed_to_write" \in S /\ "permission_denied" \in S /\ "no space left on device" \in S
      OBVIOUS
    <3> HIDE DEF S
    <3>3. Len(err) = 2 /\ err \in Seq(S)
      BY <1>7, <3>1, <3>2
    <3> QED
      BY <3>3
  <2>2. S \subseteq Phrases /\ S \cap Known = {}
    BY DEF Phrases, Known
  <2> HIDE DEF S
  <2> QED
    BY <1>4, <2>1, <2>2
<1>8. CASE err \in {NotFound, NoSuchSnippet}
  <2>1. err[1] \in Known /\ Len(err) \in Nat \ {0} /\ err \in Seq(Phrases)
    <3>1. NotFound[1] \in Known /\ NoSuchSnippet[1] \in Known
      BY <1>3 DEF Known
    <3>2. Len(NotFound) \in Nat \ {0} /\ Len(NoSuchSnippet) \in Nat \ {0}
      <4>1. Len(NotFound) = 2 /\ Len(NoSuchSnippet) = 1
        BY <1>3
      <4> QED
        BY ONLY <4>1
    <3> QED
      BY <1>3, <1>8, <3>1, <3>2
  <2>2. err[1] \in Names(err)
    BY <2>1 DEF Names
  <2> QED
    BY <1>8, <2>1, <2>2
<1> QED
  BY <1>1, <1>5, <1>6, <1>7, <1>8

LEMMA MentionsOne ==
  ASSUME NEW S, NEW s \in Seq(S), NEW x
  PROVE  Mentions(s, <<x>>) <=> \E i \in 1..Len(s) : s[i] = x
<1>1. ASSUME NEW i \in 1..Len(s) PROVE OccursAt(<<x>>, s, i) <=> s[i] = x
  <2>1. Len(s) \in Nat /\ Len(<<x>>) = 1 /\ i + 1 - 1 = i
    BY LenProperties
  <2>2. SubSeq(s, i, i) = <<s[i]>>
    <3>1. i \in Int /\ (\A k \in i..i : s[k] \in S) /\ i - i + 1 = 1
      BY ElementOfSeq
    <3>2. /\ SubSeq(s, i, i) \in Seq(S) /\ Len(SubSeq(s, i, i)) = 1
          /\ SubSeq(s, i, i)[1] = s[i]
      <4>1. /\ SubSeq(s, i, i) \in Seq(S) /\ Len(SubSeq(s, i, i)) = IF i <= i THEN i - i + 1 ELSE 0
            /\ \A k \in 1..(i - i + 1) : SubSeq(s, i, i)[k] = s[i + k - 1]
        BY <3>1, SubSeqProperties
      <4>2. i <= i /\ 1 \in 1..(i - i + 1) /\ i + 1 - 1 = i
        BY <3>1
      <4> QED
        BY <3>1, <4>1, <4>2
    <3> DEFINE q == SubSeq(s, i, i)
    <3> HIDE DEF q
    <3>3. q \in Seq(S) /\ Len(q) = 1 /\ q[1] = s[i]
      BY <3>2 DEF q
    <3>4. q = <<s[i]>>
      BY <3>3
    <3> QED
      BY <3>4 DEF q
  <2>3. <<s[i]>> = <<x>> <=> s[i] = x
    OBVIOUS
  <2> QED
    BY <2>1, <2>2, <2>3 DEF OccursAt
<1> QED
  BY <1>1 DEF Mentions

(* An edit is told to read the file again after these two refusals alone.  *)
LEMMA AdviceGiven ==
  ASSUME NEW err \in EditErrors
  PROVE  Last(Observation("edit_file", err)) = "read_the_file_again" <=> err \in {NotFound, NoSuchSnippet}
<1> DEFINE head == <<"error_executing", "edit_file">>
           raw == head \o err
           S == {"error_executing", "edit_file"} \cup Phrases
           advice == "read_the_file_again"
           hits == {i \in DOMAIN EditRules : \E m \in EditRules[i].marks : Mentions(raw, m)}
<1>1. /\ err \in Seq(Phrases) /\ Len(err) \in Nat \ {0}
      /\ err \in {NotFound, NoSuchSnippet} <=> Names(err) \cap Known # {}
  BY ErrorShapes
<1>11. head \in Seq(S) /\ Len(head) = 2 /\ head[1] \notin Known /\ head[2] \notin Known
  BY DEF Known
<1>12. advice \notin S
  BY DEF Phrases
<1>2. /\ raw \in Seq(S) /\ Len(raw) = 2 + Len(err)
      /\ \A k \in 1..(2 + Len(err)) : raw[k] = IF k <= 2 THEN head[k] ELSE err[k - 2]
  <2>1. err \in Seq(S)
    BY <1>1, SeqMonotonic
  <2> HIDE DEF head, S
  <2>2. /\ raw \in Seq(S) /\ Len(raw) = Len(head) + Len(err)
        /\ \A k \in 1..(Len(head) + Len(err)) : raw[k] = IF k <= Len(head) THEN head[k] ELSE err[k - Len(head)]
    BY <1>11, <2>1, ConcatProperties
  <2> QED
    BY <1>11, <2>2
<1> HIDE DEF head, S
<1>3. Observation("edit_file", err) =
        IF hits = {} THEN raw ELSE Append(raw, EditRules[Min(hits)].hint)
  BY DEF Observation, AnalyzeAndInject, Rules, head
<1>4. /\ DOMAIN EditRules = 1..2
      /\ EditRules[1].hint = advice /\ EditRules[2].hint # advice
      /\ EditRules[1].marks = {<<x>> : x \in Known}
  <2>1. DOMAIN EditRules = 1..2
    BY DEF EditRules
  <2>2. EditRules[1].hint = advice /\ EditRules[2].hint # advice
    BY DEF EditRules
  <2>3. EditRules[1].marks = {<<"not found in the file: old_text">>, NoSuchSnippet}
    BY DEF EditRules
  <2> QED
    BY <2>1, <2>2, <2>3 DEF Known, NoSuchSnippet
<1> HIDE DEF raw, advice
<1>5. 1 \in hits <=> err \in {NotFound, NoSuchSnippet}
  <2>1. ASSUME NEW x \in Known PROVE Mentions(raw, <<x>>) <=> x \in Names(err)
    <3>1. x # head[1] /\ x # head[2] /\ Len(err) \in Nat
      BY <1>1, <1>11
    <3>2. Mentions(raw, <<x>>) <=> \E k \in 1..(2 + Len(err)) : raw[k] = x
      BY <1>2, MentionsOne
    <3>3. ASSUME NEW k \in 1..(2 + Len(err)), raw[k] = x PROVE x \in Names(err)
      <4>1. k # 1 /\ k # 2
        BY <1>2, <3>1, <3>3
      <4>2. k - 2 \in 1..Len(err) /\ ~(k <= 2)
        BY <3>1, <4>1
      <4> QED
        BY <1>2, <3>3, <4>2 DEF Names
    <3>4. ASSUME NEW k \in 1..Len(err), err[k] = x PROVE raw[k + 2] = x
      <4>1. k + 2 \in 1..(2 + Len(err)) /\ ~(k + 2 <= 2) /\ (k + 2) - 2 = k
        BY <3>1
      <4> QED
        BY <1>2, <3>4, <4>1
    <3>5. \A k \in 1..Len(err) : k + 2 \in 1..(2 + Len(err))
      BY <3>1
    <3> QED
      BY <3>2, <3>3, <3>4, <3>5 DEF Names
  <2>2. 1 \in hits <=> \E x \in Known : Mentions(raw, <<x>>)
    <3>1. 1 \in hits <=> \E m \in EditRules[1].marks : Mentions(raw, m)
      BY <1>4
    <3> HIDE DEF hits
    <3> QED
      BY <1>4, <3>1
  <2> HIDE DEF hits
  <2> QED
    BY <1>1, <2>1, <2>2
<1>6. hits \in SUBSET Nat /\ hits \subseteq 1..2
  BY <1>4
<1> HIDE DEF hits
<1>7. CASE 1 \in hits
  <2>1. Min(hits) \in hits /\ \A y \in hits : Min(hits) <= y
    BY <1>6, <1>7, MinIsMember
  <2>2. Min(hits) = 1
    <3>1. Min(hits) \in 1..2 /\ Min(hits) <= 1
      BY <1>6, <1>7, <2>1
    <3> QED
      BY <3>1
  <2>3. Observation("edit_file", err) = Append(raw, advice)
    BY <1>3, <1>4, <1>7, <2>2
  <2>4. Last(Append(raw, advice)) = advice
    <3>1. raw \in Seq(S \cup {advice})
      BY <1>2, SeqMonotonic
    <3> QED
      BY <3>1, AppendProperties DEF Last
  <2> QED
    BY <1>5, <1>7, <2>3, <2>4 DEF advice
<1>8. CASE hits = {}
  <2>1. Last(Observation("edit_file", err)) = raw[Len(raw)]
    BY <1>3, <1>8 DEF Last
  <2>2. raw[Len(raw)] \in S
    <3>1. Len(raw) \in 1..Len(raw)
      BY <1>1, <1>2
    <3> QED
      BY <1>2, <3>1, ElementOfSeq
  <2> QED
    BY <1>5, <1>8, <1>12, <2>1, <2>2 DEF advice
<1>9. CASE hits # {} /\ 1 \notin hits
  <2>1. Min(hits) = 2
    <3>1. Min(hits) \in hits
      BY <1>6, <1>9, MinIsMember
    <3>2. Min(hits) \in 1..2 /\ Min(hits) # 1
      BY <1>6, <1>9, <3>1
    <3> QED
      BY <3>2
  <2> DEFINE h == EditRules[2].hint
  <2>2. Observation("edit_file", err) = Append(raw, h)
    BY <1>3, <1>9, <2>1
  <2> HIDE DEF h
  <2>3. Last(Append(raw, h)) = h
    <3>1. raw \in Seq(S \cup {h})
      BY <1>2, SeqMonotonic
    <3> QED
      BY <3>1, AppendProperties DEF Last
  <2>4. h # advice
    BY <1>4 DEF h
  <2> QED
    BY <1>5, <1>9, <2>2, <2>3, <2>4 DEF advice
<1> QED
  BY <1>7, <1>8, <1>9 DEF advice

EditsAdvised == \A c \in Calls : EditAdviceFits(c)

LEMMA EditAdviceHolds == FilesInv => EditsAdvised
<1> SUFFICES ASSUME FilesInv, NEW c \in Calls,
                    pc[c] = "error", tool[c] = "edit_file", seen[c] # Absent
             PROVE  /\ Last(out[c]) = "read_the_file_again" =>
                         \A i \in 1..Len(seen[c]) : ~OccursAt(edit[c].old, seen[c], i)
                    /\ ~Mentions(Append(Squashed(seen[c]), "end"), Squashed(edit[c].old)) =>
                         Last(out[c]) = "read_the_file_again"
  BY DEF EditsAdvised, EditAdviceFits
<1> DEFINE o == edit[c].old
           new == edit[c].new
           res == Replaced(seen[c], o, new)
<1>1. o \in Text /\ new \in Text
  BY DEF FilesInv, TypeOK
<1>2. /\ seen[c] \in Text
      /\ \/ ~res.ok /\ out[c] = Observation("edit_file", res.text)
         \/ res.ok /\ \E err \in WriteErrors : out[c] = Observation("edit_file", err)
  BY DEF FilesInv, CallsInv, CallOK
<1> HIDE DEF o, new
<1>3. CASE ~res.ok /\ out[c] = Observation("edit_file", res.text)
  <2>1. res.text \in Refusals
    BY <1>1, <1>2, <1>3, ReplacedType
  <2>2. /\ res.text \in {NotFound, NoSuchSnippet} =>
             \A i \in 1..Len(seen[c]) : ~OccursAt(o, seen[c], i)
        /\ res.text \in {TooMany, Similar} =>
             Mentions(Append(Squashed(seen[c]), "end"), Squashed(o))
    BY <1>1, <1>2, <1>3, RefusalMeans
  <2>3. Last(out[c]) = "read_the_file_again" <=> res.text \in {NotFound, NoSuchSnippet}
    BY <1>3, <2>1, AdviceGiven DEF EditErrors
  <2> QED
    BY <2>1, <2>2, <2>3 DEF Refusals, o
<1>4. CASE res.ok /\ \E err \in WriteErrors : out[c] = Observation("edit_file", err)
  <2>1. PICK err \in WriteErrors : out[c] = Observation("edit_file", err)
    BY <1>4
  <2>2. err \notin {NotFound, NoSuchSnippet}
    <3>1. <<"failed_to_write">> \o Denied = <<"failed_to_write", "permission_denied">>
      BY Pair DEF Denied
    <3>2. err[1] = "failed_to_write"
      <4>1. err = <<"failed_to_write", "permission_denied">> \/ err = <<"failed_to_write", "no space left on device">>
        BY <3>1 DEF WriteErrors
      <4>2. \A x, y : <<x, y>>[1] = x
        OBVIOUS
      <4> QED
        BY <4>1, <4>2, Zenon
    <3>3. NotFound[1] # "failed_to_write" /\ NoSuchSnippet[1] # "failed_to_write"
      BY DEF NotFound, NoSuchSnippet
    <3> QED
      BY <3>2, <3>3
  <2>3. Last(out[c]) # "read_the_file_again"
    BY <2>1, <2>2, AdviceGiven DEF EditErrors
  <2>4. OneRegionReplaced(seen[c], o, new, res.text)
    BY <1>1, <1>2, <1>4, ReplacedLocal
  <2>5. Mentions(Append(Squashed(seen[c]), "end"), Squashed(o))
    BY <1>1, <1>2, <2>4, RegionMentioned
  <2> QED
    BY <2>3, <2>5 DEF o
<1> QED
  BY <1>2, <1>3, <1>4

LEMMA Tuple2 ==
  ASSUME NEW S, NEW x \in S, NEW y \in S
  PROVE  /\ <<x, y>> \in Seq(S) /\ Len(<<x, y>>) = 2
         /\ <<x, y>>[1] = x /\ <<x, y>>[2] = y
  OBVIOUS

(* A call of read_file is told to find the path after one of its errors.   *)
LEMMA ReadAdvice ==
  ASSUME NEW x \in {"no_such_file", "permission_denied", "io_error"}
  PROVE  Last(Observation("read_file", <<"failed_to_read", x>>)) = "find_the_path"
           <=> x = "no_such_file"
<1> DEFINE S == {"error_executing", "read_file", "failed_to_read", "no_such_file",
                 "permission_denied", "io_error"}
           head == <<"error_executing", "read_file">>
           told == <<"failed_to_read", x>>
           raw == head \o told
           hits == {i \in DOMAIN PathRules : \E m \in PathRules[i].marks : Mentions(raw, m)}
<1>4. /\ "error_executing" \in S /\ "read_file" \in S /\ "failed_to_read" \in S /\ x \in S
      /\ "find_the_path" \notin S
  OBVIOUS
<1> HIDE DEF S
<1>5. /\ head \in Seq(S) /\ Len(head) = 2 /\ head[1] = "error_executing" /\ head[2] = "read_file"
      /\ told \in Seq(S) /\ Len(told) = 2 /\ told[1] = "failed_to_read" /\ told[2] = x
  BY <1>4, Tuple2
<1>6. Observation("read_file", told) =
        IF hits = {} THEN raw ELSE Append(raw, PathRules[Min(hits)].hint)
  BY DEF Observation, AnalyzeAndInject, Rules
<1> HIDE DEF head, told
<1>7. /\ raw \in Seq(S) /\ Len(raw) = 4
      /\ raw[1] = "error_executing" /\ raw[2] = "read_file" /\ raw[3] = "failed_to_read" /\ raw[4] = x
  <2>1. /\ raw \in Seq(S) /\ Len(raw) = Len(head) + Len(told)
        /\ \A k \in 1..(Len(head) + Len(told)) : raw[k] = IF k <= Len(head) THEN head[k] ELSE told[k - Len(head)]
    BY <1>5, ConcatProperties
  <2> HIDE DEF raw
  <2>2. \A k \in 1..4 : raw[k] = IF k <= 2 THEN head[k] ELSE told[k - 2]
    BY <1>5, <2>1
  <2>3. raw[1] = head[1] /\ raw[2] = head[2] /\ raw[3] = told[1] /\ raw[4] = told[2]
    BY <2>2
  <2> QED
    BY <1>5, <2>1, <2>3
<1> HIDE DEF raw
<1>8. ASSUME NEW y, y \notin {"error_executing", "read_file", "failed_to_read"}
      PROVE  Mentions(raw, <<y>>) <=> x = y
  <2>1. Mentions(raw, <<y>>) <=> \E i \in 1..Len(raw) : raw[i] = y
    BY <1>7, MentionsOne
  <2>2. \A i \in 1..4 : i = 1 \/ i = 2 \/ i = 3 \/ i = 4
    OBVIOUS
  <2> QED
    BY <1>7, <1>8, <2>1, <2>2
<1>9. /\ DOMAIN PathRules = 1..2
      /\ PathRules[1].hint = "find_the_path" /\ PathRules[2].hint # "find_the_path"
  <2>1. DOMAIN PathRules = 1..2
    BY DEF PathRules
  <2>2. PathRules[1].hint = "find_the_path"
    BY DEF PathRules
  <2>3. PathRules[2].hint # "find_the_path"
    BY DEF PathRules
  <2> QED
    BY <2>1, <2>2, <2>3
<1>10. /\ PathRules[1].marks = {<<"no_such_file">>}
       /\ PathRules[2].marks = {<<"permission_denied">>}
  <2>1. PathRules[1].marks = {NoSuchFile}
    BY DEF PathRules
  <2>2. PathRules[2].marks = {Denied}
    BY DEF PathRules
  <2> QED
    BY <2>1, <2>2 DEF NoSuchFile, Denied
<1>11. /\ 1 \in hits <=> x = "no_such_file"
       /\ 2 \in hits <=> x = "permission_denied"
       /\ hits \subseteq 1..2
  <2>1. Mentions(raw, <<"no_such_file">>) <=> x = "no_such_file"
    BY <1>8
  <2>2. Mentions(raw, <<"permission_denied">>) <=> x = "permission_denied"
    BY <1>8
  <2>3. 1 \in hits <=> Mentions(raw, <<"no_such_file">>)
    BY <1>9, <1>10
  <2>4. 2 \in hits <=> Mentions(raw, <<"permission_denied">>)
    BY <1>9, <1>10
  <2>5. hits \subseteq 1..2
    BY <1>9
  <2> HIDE DEF hits
  <2> QED
    BY <2>1, <2>2, <2>3, <2>4, <2>5
<1> HIDE DEF hits
<1>12. CASE hits = {}
  <2>1. Last(raw) = x
    BY <1>7 DEF Last
  <2> QED
    BY <1>4, <1>6, <1>11, <1>12, <2>1 DEF told
<1>13. CASE hits # {}
  <2>1. Min(hits) \in hits /\ \A y \in hits : Min(hits) <= y
    <3>1. hits \in SUBSET Nat
      BY <1>11
    <3> QED
      BY <1>13, <3>1, MinIsMember
  <2> DEFINE m == Min(hits)
             h == PathRules[m].hint
  <2>2. m \in 1..2 /\ (m = 1 <=> x = "no_such_file")
    <3> HIDE DEF m
    <3>1. m \in hits /\ \A y \in hits : m <= y
      BY <2>1 DEF m
    <3>2. m \in 1..2
      BY <1>11, <3>1
    <3>3. x = "no_such_file" => m = 1
      BY <1>11, <3>1, <3>2
    <3>4. m = 1 => x = "no_such_file"
      BY <1>11, <3>1
    <3> QED
      BY <3>2, <3>3, <3>4
  <2>3. Observation("read_file", told) = Append(raw, h)
    BY <1>6, <1>13
  <2> HIDE DEF m
  <2>4. h = "find_the_path" <=> x = "no_such_file"
    BY <1>9, <2>2
  <2> HIDE DEF h
  <2>5. Last(Append(raw, h)) = h
    <3>1. raw \in Seq(S \cup {h})
      BY <1>7, SeqMonotonic
    <3> QED
      BY <3>1, AppendProperties DEF Last
  <2> QED
    BY <2>3, <2>4, <2>5 DEF told
<1> QED
  BY <1>12, <1>13

(* Whenever reading its file ends a call with an error, the advice fits:   *)
(* that of edit_file for every file and edit, and that of read_file for    *)
(* every failure, whatever other calls do meanwhile.                       *)
THEOREM AdviceHolds == Spec => AdviceFits
<1>0. FilesInv' => EditsAdvised'
  BY EditAdviceHolds, PTL
<1>1. ASSUME FilesInv, FilesInv', [Next]_vars, NEW c \in Calls, pc[c] = "read", pc'[c] = "error"
      PROVE  /\ EditAdviceFits(c)'
             /\ tool[c] = "read_file" =>
                  (Last(out'[c]) = "find_the_path" <=> files[path[c]] = Absent)
  <2>3. EditAdviceFits(c)'
    BY <1>0, <1>1 DEF EditsAdvised
  <2>4. ASSUME tool[c] = "read_file"
        PROVE  Last(out'[c]) = "find_the_path" <=> files[path[c]] = Absent
    <3>1. ReadFails(c)
      <4>1. pc \in [Calls -> Places]
        BY <1>1 DEF FilesInv, TypeOK, Places
      <4>2. \A d \in Calls : \A how : Finish(d, how) => d = c /\ how = "error"
        BY <1>1, <4>1 DEF Finish
      <4>3. ASSUME NEW d \in Calls,
                   \/ \E t : ArgumentsFail(d, t)
                   \/ \E t, in, next, s : Begin(d, t, in, next, s)
                   \/ ReadFile(d) \/ OpenFails(d) \/ Open(d) \/ Write(d) \/ WriteFails(d)
            PROVE  FALSE
        <5>1. \E how : Finish(d, how)
          BY <4>3 DEF ArgumentsFail, Begin, Fail, ReadFile, OpenFails, Open, Write, WriteFails
        <5>2. d = c /\ ~Finish(c, "ok")
          BY <4>2, <5>1
        <5> QED
          BY <1>1, <4>3, <5>2
             DEF ArgumentsFail, Begin, ReadFile, OpenFails, Open, Write, WriteFails
      <4>4. ASSUME NEW d \in Calls, ReadForEdit(d) PROVE FALSE
        <5>1. \E how : Finish(d, how)
          BY <4>4 DEF ReadForEdit, Fail
        <5>2. d = c
          BY <4>2, <5>1
        <5> QED
          BY <2>4, <4>4, <5>2 DEF ReadForEdit
      <4>5. ASSUME NEW d \in Calls, ReadFails(d) PROVE d = c
        <5>1. \E how : Finish(d, how)
          BY <4>5 DEF ReadFails, Fail
        <5> QED
          BY <4>2, <5>1
      <4>6. ~Crash
        BY <1>1 DEF Crash
      <4>7. ~UNCHANGED vars
        BY <1>1 DEF vars
      <4> QED
        BY <1>1, <4>3, <4>4, <4>5, <4>6, <4>7 DEF Next, BeginRead, BeginEdit, BeginWrite
    <3>2. PICK err \in IF files[path[c]] = Absent THEN {NoSuchFile}
                                                ELSE {Denied, <<"io_error">>} :
            out' = [out EXCEPT ![c] = Observation("read_file", <<"failed_to_read">> \o err)]
      BY <2>4, <3>1 DEF ReadFails, Fail
    <3>3. PICK x \in {"no_such_file", "permission_denied", "io_error"} :
            err = <<x>> /\ (x = "no_such_file" <=> files[path[c]] = Absent)
      BY <3>2 DEF NoSuchFile, Denied
    <3>4. out'[c] = Observation("read_file", <<"failed_to_read", x>>)
      <4>1. out'[c] = Observation("read_file", <<"failed_to_read">> \o err)
        BY <1>1, <3>2 DEF FilesInv
      <4> QED
        BY <3>3, <4>1, Pair
    <3> QED
      BY <3>3, <3>4, ReadAdvice
  <2> QED
    BY <2>3, <2>4
<1>2. FilesInv /\ FilesInv' /\ [Next]_vars =>
        [\A c \in Calls :
           pc[c] = "read" /\ pc'[c] = "error" =>
             /\ EditAdviceFits(c)'
             /\ tool[c] = "read_file" =>
                  (Last(out'[c]) = "find_the_path" <=> files[path[c]] = Absent)]_vars
  BY <1>1
<1> QED
  BY <1>2, FilesInit, FilesNext, PTL DEF Spec, AdviceFits

-----------------------------------------------------------------------------
(* A tail extended by a chunk and trimmed is a tail of the longer stream.  *)
LEMMA TrimTail ==
  ASSUME NEW l \in Seq(Bytes), NEW s \in Seq(Bytes), NEW p \in Seq(Bytes),
         IsTail(s, l, Len(l))
  PROVE  /\ Trim(s \o p) \in Seq(Bytes)
         /\ IsTail(Trim(s \o p), l \o p, Len(l \o p))
<1> DEFINE t == s \o p
           m == l \o p
<1>1. /\ Len(l) \in Nat /\ Len(s) \in Nat /\ Len(p) \in Nat /\ Len(s) <= Len(l)
      /\ t \in Seq(Bytes) /\ m \in Seq(Bytes)
      /\ Len(t) = Len(s) + Len(p) /\ Len(m) = Len(l) + Len(p)
  BY RingAssumption DEF IsTail
<1>2. ASSUME NEW i \in 1..Len(t) PROVE t[i] = m[Len(m) - Len(t) + i]
  <2>1. CASE i <= Len(s)
    <3>1. t[i] = s[i] /\ s[i] = l[Len(l) - Len(s) + i]
      BY <1>1, <2>1 DEF IsTail
    <3>2. m[Len(l) - Len(s) + i] = l[Len(l) - Len(s) + i]
      BY <1>1, <2>1
    <3>3. Len(m) - Len(t) + i = Len(l) - Len(s) + i
      BY <1>1
    <3> QED
      BY <3>1, <3>2, <3>3
  <2>2. CASE i > Len(s)
    <3> DEFINE j == Len(l) + (i - Len(s))
    <3>1. t[i] = p[i - Len(s)]
      BY <1>1, <2>2
    <3>2. m[j] = p[i - Len(s)]
      BY <1>1, <2>2
    <3>3. Len(m) - Len(t) + i = j
      BY <1>1
    <3> QED
      BY <3>1, <3>2, <3>3
  <2> QED
    BY <1>1, <2>1, <2>2
<1> HIDE DEF t, m
<1>3. CASE Len(t) > maxSize
  <2> DEFINE u == SubSeq(t, Len(t) - maxSize + 1, Len(t))
  <2>1. Trim(t) = u
    BY <1>3 DEF Trim
  <2>2. u \in Seq(Bytes) /\ Len(u) = maxSize
    BY <1>1, <1>3, RingAssumption
  <2>3. ASSUME NEW i \in 1..maxSize PROVE u[i] = m[Len(m) - maxSize + i]
    <3>1. u[i] = t[Len(t) - maxSize + i]
      BY <1>1, <1>3, RingAssumption
    <3>2. Len(t) - maxSize + i \in 1..Len(t)
      BY <1>1, <1>3, RingAssumption
    <3>3. Len(m) - Len(t) + (Len(t) - maxSize + i) = Len(m) - maxSize + i
      BY <1>1, RingAssumption
    <3> QED
      BY <1>2, <3>1, <3>2, <3>3
  <2>4. ~(Len(m) < maxSize)
    BY <1>1, <1>3, RingAssumption
  <2> HIDE DEF u
  <2>5. IsTail(u, m, Len(m))
    BY <2>2, <2>3, <2>4 DEF IsTail
  <2> QED
    BY <2>1, <2>2, <2>5 DEF t, m
<1>4. CASE Len(t) <= maxSize
  <2>1. Trim(t) = t
    BY <1>1, <1>4, RingAssumption DEF Trim
  <2>2. Len(t) = IF Len(m) < maxSize THEN Len(m) ELSE maxSize
    BY <1>1, <1>4, RingAssumption DEF IsTail
  <2>3. IsTail(t, m, Len(m))
    BY <1>2, <2>2 DEF IsTail
  <2> QED
    BY <1>1, <2>1, <2>3 DEF t, m
<1> QED
  BY <1>1, <1>3, <1>4, RingAssumption

RingInv == RingTypeOK /\ KeepsTheTail /\ ReportIsATail

LEMMA RingInvInit == RingInit => RingInv
  BY RingAssumption DEF RingInit, RingInv, RingTypeOK, KeepsTheTail, ReportIsATail, IsTail

LEMMA RingInvNext == RingInv /\ [RingNext]_ringVars => RingInv'
<1> SUFFICES ASSUME RingInv, [RingNext]_ringVars PROVE RingInv'
  OBVIOUS
<1>1. ASSUME NEW p \in Chunks, RingWrite(p) PROVE RingInv'
  <2>1. p \in Seq(Bytes)
    BY RingAssumption DEF Chunks
  <2>2. buf' \in Seq(Bytes) /\ IsTail(buf', log', Len(log'))
    BY <1>1, <2>1, TrimTail DEF RingWrite, RingInv, RingTypeOK, KeepsTheTail
  <2>3. log' \in Seq(Bytes) /\ Len(log') = Len(log) + Len(p) /\ Len(p) \in Nat
    BY <1>1, <2>1 DEF RingWrite, RingInv, RingTypeOK
  <2>4. \A i \in 1..Len(log) : log'[i] = log[i]
    BY <1>1, <2>1 DEF RingWrite, RingInv, RingTypeOK
  <2>5. RingTypeOK' /\ KeepsTheTail'
    <3>1. Len(buf') <= maxSize
      BY <2>2, <2>3, RingAssumption DEF IsTail, RingInv, RingTypeOK
    <3>2. total' \in Nat /\ total' = Len(log')
      BY <1>1, <2>3 DEF RingWrite, RingInv, RingTypeOK, KeepsTheTail
    <3>3. UNCHANGED <<text, count, mark>> /\ mark \in 0..Len(log')
      BY <1>1, <2>3 DEF RingWrite, RingInv, RingTypeOK
    <3> QED
      BY <2>2, <2>3, <3>1, <3>2, <3>3 DEF RingInv, RingTypeOK, KeepsTheTail
  <2>6. ReportIsATail'
    <3>1. UNCHANGED <<text, count, mark>>
      BY <1>1 DEF RingWrite
    <3>2. IsTail(text, log', mark)
      BY <2>4, RingAssumption DEF RingInv, RingTypeOK, ReportIsATail, IsTail
    <3> QED
      BY <3>1, <3>2 DEF RingInv, ReportIsATail
  <2> QED
    BY <2>5, <2>6 DEF RingInv
<1>2. CASE String
  <2>1. RingTypeOK'
    BY <1>2 DEF String, RingInv, RingTypeOK
  <2>2. KeepsTheTail' /\ ReportIsATail'
    BY <1>2 DEF String, RingInv, KeepsTheTail, ReportIsATail
  <2> QED
    BY <2>1, <2>2 DEF RingInv
<1>3. CASE Total
  <2>1. RingTypeOK' /\ KeepsTheTail'
    BY <1>3 DEF Total, RingInv, RingTypeOK, KeepsTheTail
  <2>2. ReportIsATail'
    BY <1>3 DEF Total, RingInv, RingTypeOK, KeepsTheTail, ReportIsATail
  <2> QED
    BY <2>1, <2>2 DEF RingInv
<1>4. CASE UNCHANGED ringVars
  BY <1>4 DEF ringVars, RingInv, RingTypeOK, KeepsTheTail, ReportIsATail, IsTail
<1> QED
  BY <1>1, <1>2, <1>3, <1>4 DEF RingNext

(* Memory is bounded and the types hold.                                   *)
THEOREM RingTypeCorrect == RingSpec => []RingTypeOK
<1>1. RingInv => RingTypeOK
  BY DEF RingInv
<1> QED
  BY <1>1, RingInvInit, RingInvNext, PTL DEF RingSpec

(* The buffer is always the tail of the stream: writes of any size lose    *)
(* only the oldest output.                                                 *)
THEOREM TailKept == RingSpec => []KeepsTheTail
<1>1. RingInv => KeepsTheTail
  BY DEF RingInv
<1> QED
  BY <1>1, RingInvInit, RingInvNext, PTL DEF RingSpec

(* A report is a consistent picture of the stream.                         *)
THEOREM ReportConsistent == RingSpec => []ReportIsATail
<1>1. RingInv => ReportIsATail
  BY DEF RingInv
<1> QED
  BY <1>1, RingInvInit, RingInvNext, PTL DEF RingSpec

-----------------------------------------------------------------------------
BashTypes ==
  /\ written \in Nat /\ copied \in Nat /\ copied <= written
  /\ call \in {"idle", "runs", "returned"}
  /\ bash \in [state : {"none", "alive", "zombie", "reaped"},
               status : {"none", "zero", "other", "killed"}]
  /\ ctx \in {"alive", "done", "unwatched"} /\ blamed \in BOOLEAN

(* There is a bash once the call has started one, and only the end of the  *)
(* context is ever blamed on it.                                           *)
BashPhases ==
  /\ call = "idle" => bash.state = "none"
  /\ call = "runs" => bash.state # "none"
  /\ blamed => ctx = "done"

(* A call that has returned left nothing that could still write or change  *)
(* the verdict.                                                            *)
BashSettled ==
  call = "returned" /\ bash.state # "none" =>
    /\ bash.state = "reaped" /\ ctx # "alive"
    /\ EndOfFile
    /\ result = Shown(written)

BashInv == BashTypes /\ BashPhases /\ BashSettled

LEMMA BashInvInit == BashInit => BashInv
<1>1. ASSUME BashInit PROVE BashTypes
  <2>1. bash \in [state : {"none", "alive", "zombie", "reaped"},
                  status : {"none", "zero", "other", "killed"}]
    BY <1>1 DEF BashInit
  <2>2. written \in Nat /\ copied \in Nat /\ copied <= written
    BY <1>1 DEF BashInit
  <2>3. blamed \in BOOLEAN
    BY <1>1 DEF BashInit
  <2> QED
    BY <1>1, <2>1, <2>2, <2>3 DEF BashInit, BashTypes
<1>2. BashInit => BashPhases /\ BashSettled
  BY DEF BashInit, BashPhases, BashSettled
<1> QED
  BY <1>1, <1>2 DEF BashInv

LEMMA BashInvNext == BashInv /\ [BashNext]_bashVars => BashInv'
<1> SUFFICES ASSUME BashInv, [BashNext]_bashVars PROVE BashInv'
  OBVIOUS
<1> USE DEF BashInv, BashTypes, BashPhases, BashSettled, EndOfFile, PipeHeld, Alive
<1>1. CASE ParseFails \/ StartFails
  BY <1>1 DEF ParseFails, StartFails
<1>2. CASE StartBash
  BY <1>2 DEF StartBash
<1>3. CASE BashWrites
  BY <1>3 DEF BashWrites
<1>4. CASE BashForks \/ ChildEnds
  <2>1. UNCHANGED <<call, bash, ctx, blamed, written, copied, result>>
    BY <1>4 DEF BashForks, ChildEnds
  <2>2. child' = "holds" => bash.state = "alive"
    BY <1>4 DEF BashForks, ChildEnds
  <2> QED
    BY <2>1, <2>2 DEF Shown, Failed
<1>5. CASE BashExits
  BY <1>5 DEF BashExits
<1>6. CASE ContextDone
  BY <1>6 DEF ContextDone
<1>7. CASE Reap
  BY <1>7 DEF Reap
<1>8. CASE WatcherRests
  BY <1>8 DEF WatcherRests, Shown, Failed
<1>9. CASE CopyOutput
  BY <1>9 DEF CopyOutput
<1>10. CASE Return
  BY <1>10 DEF Return, Shown, Failed
<1>11. CASE UNCHANGED bashVars
  BY <1>11 DEF bashVars, Shown, Failed
<1> QED
  BY <1>1, <1>2, <1>3, <1>4, <1>5, <1>6, <1>7, <1>8, <1>9, <1>10, <1>11
     DEF BashNext, ToolSteps

(* Whatever the command does and whenever the context ends, what the model *)
(* is told of it is true: nothing is missing but what is said to be.       *)
THEOREM BashReportTrue == BashSpec => []ReportTrue
<1>1. BashInv => ReportTrue
  BY BashAssumption DEF BashInv, BashTypes, BashPhases, BashSettled, Shown, Failed, ReportTrue
<1> QED
  BY <1>1, BashInvInit, BashInvNext, PTL DEF BashSpec

-----------------------------------------------------------------------------
(* Background tasks.  A bash that is not reaped belongs to a task that     *)
(* counts as running, and an accepted Kill has left its mark on the task.  *)
LinkInv ==
  /\ \A t \in Tasks : leader[t] \in {"alive", "zombie"} => status[t] = "running"
  /\ \A t \in Tasks : leader[t] = "none" => status[t] \in {"none", "failed"} /\ forked[t] = "none"
  /\ \A k \in Killers : kpc[k] \notin {"idle", "refused"} => killRequested[victim[k]]

RunningInv == Cardinality(Running) <= MaxTasks

ManagerInv ==
  /\ ManagerTypeOK
  /\ LinkInv
  /\ EndedMeansEnded
  /\ AcceptedKillIsReported
  /\ RunningInv

LEMMA ManagerInvInit == ManagerInit => ManagerInv
<1> SUFFICES ASSUME ManagerInit PROVE ManagerInv
  OBVIOUS
<1>1. ManagerTypeOK /\ LinkInv /\ EndedMeansEnded /\ AcceptedKillIsReported
  BY BackgroundAssumption
  DEF ManagerInit, ManagerTypeOK, Statuses, Ended, LinkInv, EndedMeansEnded, AcceptedKillIsReported
<1>2. RunningInv
  <2>1. Running = {}
    BY DEF ManagerInit, Running
  <2> QED
    BY <2>1, FS_EmptySet, BackgroundAssumption DEF RunningInv
<1> QED
  BY <1>1, <1>2 DEF ManagerInv

(* Cardinality enters only here: a step adds at most one running task, and *)
(* only when there is room.                                                *)
LEMMA RunningStep ==
  ASSUME RunningInv,
         \/ Running' \subseteq Running
         \/ Cardinality(Running) < MaxTasks /\ \E t \in Tasks : Running' \subseteq Running \cup {t}
  PROVE  RunningInv'
<1>1. IsFiniteSet(Running)
  BY FS_Subset, BackgroundAssumption DEF Running
<1>2. CASE Running' \subseteq Running
  BY <1>1, <1>2, FS_Subset, FS_CardinalityType, BackgroundAssumption DEF RunningInv
<1>3. ASSUME Cardinality(Running) < MaxTasks,
             NEW t \in Tasks, Running' \subseteq Running \cup {t}
      PROVE  RunningInv'
  <2>1. IsFiniteSet(Running \cup {t})
    BY <1>1, FS_AddElement
  <2>2. Cardinality(Running \cup {t}) <= Cardinality(Running) + 1
    <3>1. Cardinality(Running) \in Nat
      BY <1>1, FS_CardinalityType
    <3>2. CASE t \in Running
      <4>1. Cardinality(Running \cup {t}) = Cardinality(Running)
        BY <1>1, <3>2, FS_AddElement
      <4> QED
        BY <3>1, <4>1
    <3>3. CASE t \notin Running
      <4>1. Cardinality(Running \cup {t}) = Cardinality(Running) + 1
        BY <1>1, <3>3, FS_AddElement
      <4> QED
        BY <3>1, <4>1
    <3> QED
      BY <3>2, <3>3
  <2>3. Cardinality(Running') <= Cardinality(Running \cup {t})
    BY <1>3, <2>1, FS_Subset
  <2> QED
    BY <1>1, <1>3, <2>1, <2>2, <2>3, FS_Subset, FS_CardinalityType, BackgroundAssumption
    DEF RunningInv
<1> QED
  BY <1>2, <1>3

LEMMA SpawnKeeps ==
  ASSUME ManagerInv, NEW t \in Tasks, NEW p \in Programs, Spawn(t, p)
  PROVE  ManagerInv'
<1> USE DEF ManagerInv, ManagerTypeOK, Spawn, taskVars, osVars, killVars, logVars, Ended
<1>1. ManagerTypeOK'
  BY BackgroundAssumption DEF Statuses, PipeOpen
<1>2. LinkInv'
  BY DEF LinkInv
<1>3. EndedMeansEnded'
  BY DEF EndedMeansEnded, LinkInv, PipeOpen
<1>4. AcceptedKillIsReported'
  BY DEF AcceptedKillIsReported, LinkInv
<1>5. RunningInv'
  <2>1. Running' \subseteq Running \cup {t}
    BY DEF Running
  <2> QED
    BY <2>1, RunningStep
<1> QED
  BY <1>1, <1>2, <1>3, <1>4, <1>5

LEMMA SpawnFailsKeeps ==
  ASSUME ManagerInv, NEW t \in Tasks, SpawnFails(t)
  PROVE  ManagerInv'
<1> USE DEF ManagerInv, ManagerTypeOK, SpawnFails, taskVars, osVars, killVars, logVars, Ended
<1>1. ManagerTypeOK'
  BY BackgroundAssumption DEF Statuses, PipeOpen
<1>2. LinkInv'
  BY DEF LinkInv
<1>3. EndedMeansEnded'
  BY DEF EndedMeansEnded, LinkInv, PipeOpen
<1>4. AcceptedKillIsReported'
  BY DEF AcceptedKillIsReported, LinkInv
<1>5. RunningInv'
  <2>1. Running' \subseteq Running
    BY DEF Running
  <2> QED
    BY <2>1, RunningStep
<1> QED
  BY <1>1, <1>2, <1>3, <1>4, <1>5

LEMMA ForkKeeps ==
  ASSUME ManagerInv, NEW t \in Tasks, Fork(t)
  PROVE  ManagerInv'
<1> USE DEF ManagerInv, ManagerTypeOK, Fork, taskVars, osVars, killVars, logVars, Ended
<1>1. ManagerTypeOK'
  BY BackgroundAssumption DEF Statuses, PipeOpen
<1>2. LinkInv'
  BY DEF LinkInv
<1>3. EndedMeansEnded'
  BY DEF EndedMeansEnded, LinkInv, PipeOpen
<1>4. AcceptedKillIsReported'
  BY DEF AcceptedKillIsReported, LinkInv
<1>5. RunningInv'
  <2>1. Running' \subseteq Running
    BY DEF Running
  <2> QED
    BY <2>1, RunningStep
<1> QED
  BY <1>1, <1>2, <1>3, <1>4, <1>5

LEMMA EmitKeeps ==
  ASSUME ManagerInv, NEW t \in Tasks, Emit(t)
  PROVE  ManagerInv'
<1> USE DEF ManagerInv, ManagerTypeOK, Emit, taskVars, osVars, killVars, logVars, Ended
<1>1. ManagerTypeOK'
  BY BackgroundAssumption DEF Statuses, PipeOpen
<1>2. LinkInv'
  BY DEF LinkInv
<1>3. EndedMeansEnded'
  BY DEF EndedMeansEnded, LinkInv, PipeOpen
<1>4. AcceptedKillIsReported'
  BY DEF AcceptedKillIsReported, LinkInv
<1>5. RunningInv'
  <2>1. Running' \subseteq Running
    BY DEF Running
  <2> QED
    BY <2>1, RunningStep
<1> QED
  BY <1>1, <1>2, <1>3, <1>4, <1>5

LEMMA CopyKeeps ==
  ASSUME ManagerInv, NEW t \in Tasks, Copy(t)
  PROVE  ManagerInv'
<1> USE DEF ManagerInv, ManagerTypeOK, Copy, taskVars, osVars, killVars, logVars, Ended
<1>1. ManagerTypeOK'
  BY BackgroundAssumption DEF Statuses, PipeOpen
<1>2. LinkInv'
  BY DEF LinkInv
<1>3. EndedMeansEnded'
  BY DEF EndedMeansEnded, LinkInv, PipeOpen
<1>4. AcceptedKillIsReported'
  BY DEF AcceptedKillIsReported, LinkInv
<1>5. RunningInv'
  <2>1. Running' \subseteq Running
    BY DEF Running
  <2> QED
    BY <2>1, RunningStep
<1> QED
  BY <1>1, <1>2, <1>3, <1>4, <1>5

LEMMA LeaderExitsKeeps ==
  ASSUME ManagerInv, NEW t \in Tasks, LeaderExits(t)
  PROVE  ManagerInv'
<1> USE DEF ManagerInv, ManagerTypeOK, LeaderExits, taskVars, osVars, killVars, logVars, Ended
<1>1. ManagerTypeOK'
  BY BackgroundAssumption DEF Statuses, PipeOpen
<1>2. LinkInv'
  BY DEF LinkInv
<1>3. EndedMeansEnded'
  BY DEF EndedMeansEnded, LinkInv, PipeOpen
<1>4. AcceptedKillIsReported'
  BY DEF AcceptedKillIsReported, LinkInv
<1>5. RunningInv'
  <2>1. Running' \subseteq Running
    BY DEF Running
  <2> QED
    BY <2>1, RunningStep
<1> QED
  BY <1>1, <1>2, <1>3, <1>4, <1>5

LEMMA ChildExitsKeeps ==
  ASSUME ManagerInv, NEW t \in Tasks, ChildExits(t)
  PROVE  ManagerInv'
<1> USE DEF ManagerInv, ManagerTypeOK, ChildExits, taskVars, osVars, killVars, logVars, Ended
<1>1. ManagerTypeOK'
  BY BackgroundAssumption DEF Statuses, PipeOpen
<1>2. LinkInv'
  BY DEF LinkInv
<1>3. EndedMeansEnded'
  BY DEF EndedMeansEnded, LinkInv, PipeOpen
<1>4. AcceptedKillIsReported'
  BY DEF AcceptedKillIsReported, LinkInv
<1>5. RunningInv'
  <2>1. Running' \subseteq Running
    BY DEF Running
  <2> QED
    BY <2>1, RunningStep
<1> QED
  BY <1>1, <1>2, <1>3, <1>4, <1>5

LEMMA WaitKeeps ==
  ASSUME ManagerInv, NEW t \in Tasks, Wait(t)
  PROVE  ManagerInv'
<1> USE DEF ManagerInv, ManagerTypeOK, Wait, taskVars, osVars, killVars, logVars, Ended
<1>1. ManagerTypeOK'
  BY BackgroundAssumption DEF Statuses, PipeOpen
<1>2. LinkInv'
  BY DEF LinkInv
<1>3. EndedMeansEnded'
  BY DEF EndedMeansEnded, LinkInv, PipeOpen
<1>4. AcceptedKillIsReported'
  BY DEF AcceptedKillIsReported, LinkInv
<1>5. RunningInv'
  <2>1. Running' \subseteq Running
    BY DEF Running
  <2> QED
    BY <2>1, RunningStep
<1> QED
  BY <1>1, <1>2, <1>3, <1>4, <1>5

LEMMA RecordKeeps ==
  ASSUME ManagerInv, NEW t \in Tasks, Record(t)
  PROVE  ManagerInv'
<1> USE DEF ManagerInv, ManagerTypeOK, Record, taskVars, osVars, killVars, logVars, Ended
<1>1. ManagerTypeOK'
  BY BackgroundAssumption DEF Statuses, PipeOpen
<1>2. LinkInv'
  BY DEF LinkInv
<1>3. EndedMeansEnded'
  BY DEF EndedMeansEnded, LinkInv, PipeOpen
<1>4. AcceptedKillIsReported'
  BY DEF AcceptedKillIsReported, LinkInv
<1>5. RunningInv'
  <2>1. Running' \subseteq Running
    BY DEF Running
  <2> QED
    BY <2>1, RunningStep
<1> QED
  BY <1>1, <1>2, <1>3, <1>4, <1>5

LEMMA KillRefusedKeeps ==
  ASSUME ManagerInv, NEW k \in Killers, NEW t \in Tasks, KillRefused(k, t)
  PROVE  ManagerInv'
<1> USE DEF ManagerInv, ManagerTypeOK, KillRefused, taskVars, osVars, killVars, logVars, Ended
<1>1. ManagerTypeOK'
  BY BackgroundAssumption DEF Statuses, PipeOpen
<1>2. LinkInv'
  BY DEF LinkInv
<1>3. EndedMeansEnded'
  BY DEF EndedMeansEnded, LinkInv, PipeOpen
<1>4. AcceptedKillIsReported'
  BY DEF AcceptedKillIsReported, LinkInv
<1>5. RunningInv'
  <2>1. Running' \subseteq Running
    BY DEF Running
  <2> QED
    BY <2>1, RunningStep
<1> QED
  BY <1>1, <1>2, <1>3, <1>4, <1>5

LEMMA KillRequestKeeps ==
  ASSUME ManagerInv, NEW k \in Killers, NEW t \in Tasks, KillRequest(k, t)
  PROVE  ManagerInv'
<1> USE DEF ManagerInv, ManagerTypeOK, KillRequest, taskVars, osVars, killVars, logVars, Ended
<1>1. ManagerTypeOK'
  BY BackgroundAssumption DEF Statuses, PipeOpen
<1>2. LinkInv'
  BY DEF LinkInv
<1>3. EndedMeansEnded'
  BY DEF EndedMeansEnded, LinkInv, PipeOpen
<1>4. AcceptedKillIsReported'
  BY DEF AcceptedKillIsReported, LinkInv
<1>5. RunningInv'
  <2>1. Running' \subseteq Running
    BY DEF Running
  <2> QED
    BY <2>1, RunningStep
<1> QED
  BY <1>1, <1>2, <1>3, <1>4, <1>5

LEMMA SigTermKeeps ==
  ASSUME ManagerInv, NEW k \in Killers, SigTerm(k)
  PROVE  ManagerInv'
<1> USE DEF ManagerInv, ManagerTypeOK, SigTerm, Signalled, taskVars, osVars, killVars, logVars, Ended
<1>1. ManagerTypeOK'
  BY BackgroundAssumption DEF Statuses, PipeOpen
<1>2. LinkInv'
  BY DEF LinkInv
<1>3. EndedMeansEnded'
  BY DEF EndedMeansEnded, LinkInv, PipeOpen
<1>4. AcceptedKillIsReported'
  BY DEF AcceptedKillIsReported, LinkInv
<1>5. RunningInv'
  <2>1. Running' \subseteq Running
    BY DEF Running
  <2> QED
    BY <2>1, RunningStep
<1> QED
  BY <1>1, <1>2, <1>3, <1>4, <1>5

LEMMA GraceOverKeeps ==
  ASSUME ManagerInv, NEW k \in Killers, GraceOver(k)
  PROVE  ManagerInv'
<1> USE DEF ManagerInv, ManagerTypeOK, GraceOver, taskVars, osVars, killVars, logVars, Ended
<1>1. ManagerTypeOK'
  BY BackgroundAssumption DEF Statuses, PipeOpen
<1>2. LinkInv'
  BY DEF LinkInv
<1>3. EndedMeansEnded'
  BY DEF EndedMeansEnded, LinkInv, PipeOpen
<1>4. AcceptedKillIsReported'
  BY DEF AcceptedKillIsReported, LinkInv
<1>5. RunningInv'
  <2>1. Running' \subseteq Running
    BY DEF Running
  <2> QED
    BY <2>1, RunningStep
<1> QED
  BY <1>1, <1>2, <1>3, <1>4, <1>5

LEMMA SigKillKeeps ==
  ASSUME ManagerInv, NEW k \in Killers, SigKill(k)
  PROVE  ManagerInv'
<1> USE DEF ManagerInv, ManagerTypeOK, SigKill, Signalled, taskVars, osVars, killVars, logVars, Ended
<1>1. ManagerTypeOK'
  BY BackgroundAssumption DEF Statuses, PipeOpen
<1>2. LinkInv'
  BY DEF LinkInv
<1>3. EndedMeansEnded'
  BY DEF EndedMeansEnded, LinkInv, PipeOpen
<1>4. AcceptedKillIsReported'
  BY DEF AcceptedKillIsReported, LinkInv
<1>5. RunningInv'
  <2>1. Running' \subseteq Running
    BY DEF Running
  <2> QED
    BY <2>1, RunningStep
<1> QED
  BY <1>1, <1>2, <1>3, <1>4, <1>5

LEMMA ReadBuffersKeeps ==
  ASSUME ManagerInv, NEW r \in Readers, NEW t \in Tasks, ReadBuffers(r, t)
  PROVE  ManagerInv'
<1> USE DEF ManagerInv, ManagerTypeOK, ReadBuffers, taskVars, osVars, killVars, logVars, Ended
<1>1. ManagerTypeOK'
  BY BackgroundAssumption DEF Statuses, PipeOpen
<1>2. LinkInv'
  BY DEF LinkInv
<1>3. EndedMeansEnded'
  BY DEF EndedMeansEnded, LinkInv, PipeOpen
<1>4. AcceptedKillIsReported'
  BY DEF AcceptedKillIsReported, LinkInv
<1>5. RunningInv'
  <2>1. Running' \subseteq Running
    BY DEF Running
  <2> QED
    BY <2>1, RunningStep
<1> QED
  BY <1>1, <1>2, <1>3, <1>4, <1>5

LEMMA SnapshotKeeps ==
  ASSUME ManagerInv, NEW r \in Readers, Snapshot(r)
  PROVE  ManagerInv'
<1> USE DEF ManagerInv, ManagerTypeOK, Snapshot, taskVars, osVars, killVars, logVars, Ended
<1>1. ManagerTypeOK'
  BY BackgroundAssumption DEF Statuses, PipeOpen
<1>2. LinkInv'
  BY DEF LinkInv
<1>3. EndedMeansEnded'
  BY DEF EndedMeansEnded, LinkInv, PipeOpen
<1>4. AcceptedKillIsReported'
  BY DEF AcceptedKillIsReported, LinkInv
<1>5. RunningInv'
  <2>1. Running' \subseteq Running
    BY DEF Running
  <2> QED
    BY <2>1, RunningStep
<1> QED
  BY <1>1, <1>2, <1>3, <1>4, <1>5

LEMMA ManagerInvNext == ManagerInv /\ [ManagerNext]_managerVars => ManagerInv'
<1> SUFFICES ASSUME ManagerInv, [ManagerNext]_managerVars PROVE ManagerInv'
  OBVIOUS
<1>1. CASE ManagerNext
  BY <1>1, SpawnKeeps, SpawnFailsKeeps, ForkKeeps, EmitKeeps, CopyKeeps, LeaderExitsKeeps,
     ChildExitsKeeps, WaitKeeps, RecordKeeps, KillRefusedKeeps, KillRequestKeeps,
     SigTermKeeps, GraceOverKeeps, SigKillKeeps, ReadBuffersKeeps, SnapshotKeeps
     DEF ManagerNext, OSStep, ReaperStep, KillStep
<1>2. CASE UNCHANGED managerVars
  BY <1>2 DEF managerVars, taskVars, osVars, killVars, logVars, ManagerInv, ManagerTypeOK, LinkInv, Ended,
     EndedMeansEnded, PipeOpen, AcceptedKillIsReported, RunningInv, Running
<1> QED
  BY <1>1, <1>2

THEOREM ManagerInvariance == ManagerSpec => []ManagerInv
  BY ManagerInvInit, ManagerInvNext, PTL DEF ManagerSpec

(* The variables keep their types, and a buffer never runs ahead.          *)
THEOREM ManagerTypeCorrect == ManagerSpec => []ManagerTypeOK
<1>1. ManagerInv => ManagerTypeOK
  BY DEF ManagerInv
<1> QED
  BY <1>1, ManagerInvariance, PTL

(* The limit on running tasks bounds the bash processes that exist.        *)
THEOREM LimitHolds == ManagerSpec => []LimitRespected
<1>1. ManagerInv => LimitRespected
  <2> SUFFICES ASSUME ManagerInv PROVE LimitRespected
    OBVIOUS
  <2> DEFINE Procs == {t \in Tasks : leader[t] \in {"alive", "zombie"}}
  <2>1. Procs \subseteq Running
    BY DEF ManagerInv, LinkInv, Running
  <2>2. IsFiniteSet(Running)
    BY FS_Subset, BackgroundAssumption DEF Running
  <2>3. Cardinality(Procs) <= Cardinality(Running) /\ IsFiniteSet(Procs)
    BY <2>1, <2>2, FS_Subset
  <2>4. Cardinality(Procs) \in Nat /\ Cardinality(Running) \in Nat
    BY <2>2, <2>3, FS_CardinalityType
  <2> QED
    BY <2>3, <2>4, BackgroundAssumption DEF ManagerInv, RunningInv, LimitRespected
<1> QED
  BY <1>1, ManagerInvariance, PTL

(* A task is reported as ended only when its bash is gone, its pipe closed *)
(* and its output in the buffer.                                           *)
THEOREM EndedIsTrue == ManagerSpec => []EndedMeansEnded
<1>1. ManagerInv => EndedMeansEnded
  BY DEF ManagerInv
<1> QED
  BY <1>1, ManagerInvariance, PTL

(* An accepted Kill is never reported as a natural exit.                   *)
THEOREM KillIsReported == ManagerSpec => []AcceptedKillIsReported
<1>1. ManagerInv => AcceptedKillIsReported
  BY DEF ManagerInv
<1> QED
  BY <1>1, ManagerInvariance, PTL

-----------------------------------------------------------------------------
(* An increment that will still reach the map stores no more than the      *)
(* failures begun on it; one from an older map is lost.                    *)
FlightInv ==
  \A r \in Runs :
    at[r] = "store" /\ loaded[r].epoch = epoch => loaded[r].count + 1 <= since[print[r]]

PhantomInv == ReminderTypeOK /\ NoPhantomFailures /\ FlightInv

LEMMA PhantomInit == NewInjector => PhantomInv
<1> SUFFICES ASSUME NewInjector PROVE PhantomInv
  OBVIOUS
<1>1. Zero \in [Prints -> Nat]
  BY DEF Zero
<1>2. ReminderTypeOK
  <2>1. own \in [Runs -> [Prints -> Nat]]
    BY <1>1 DEF NewInjector
  <2>2. loaded \in [Runs -> [epoch : 0..epoch, count : Nat]]
    BY DEF NewInjector
  <2>3. consecutiveFailures \in [Prints -> Nat] /\ since \in [Prints -> Nat]
    BY <1>1 DEF NewInjector
  <2>4. /\ at \in [Runs -> {"idle", "load", "store", "judge"}]
        /\ print \in [Runs -> Prints \cup {NoPrint}]
        /\ nudge \in [Runs -> Nat] /\ streak \in [Runs -> Nat]
        /\ checks \in [Runs -> 0..MaxChecks]
        /\ \A r \in Runs : at[r] = "idle"
    BY ReminderAssumption DEF NewInjector
  <2>5. epoch \in Nat /\ crashed \in BOOLEAN
    BY DEF NewInjector
  <2> QED
    BY <2>1, <2>2, <2>3, <2>4, <2>5 DEF ReminderTypeOK
<1>3. NoPhantomFailures /\ FlightInv
  BY DEF NewInjector, Zero, NoPhantomFailures, FlightInv
<1> QED
  BY <1>2, <1>3 DEF PhantomInv

LEMMA PhantomNext == PhantomInv /\ [ReminderNext]_reminderVars => PhantomInv'
<1> SUFFICES ASSUME PhantomInv, [ReminderNext]_reminderVars PROVE PhantomInv'
  OBVIOUS
<1> USE ReminderAssumption DEF PhantomInv, ReminderTypeOK, historyVars, Called, Zero
<1>1. ASSUME NEW r \in Runs, NEW f \in Prints, CallSucceeded(r, f) PROVE PhantomInv'
  <2>1. ReminderTypeOK'
    BY <1>1 DEF CallSucceeded
  <2>2. NoPhantomFailures'
    BY <1>1 DEF CallSucceeded, NoPhantomFailures
  <2>3. FlightInv'
    BY <1>1 DEF CallSucceeded, FlightInv
  <2> QED
    BY <2>1, <2>2, <2>3
<1>2. ASSUME NEW r \in Runs, NEW f \in Prints, CallFailed(r, f) PROVE PhantomInv'
  <2>1. ReminderTypeOK'
    BY <1>2 DEF CallFailed
  <2>2. NoPhantomFailures' /\ FlightInv'
    BY <1>2 DEF CallFailed, NoPhantomFailures, FlightInv
  <2> QED
    BY <2>1, <2>2
<1>3. ASSUME NEW r \in Runs, Load(r) PROVE PhantomInv'
  <2>1. ReminderTypeOK'
    BY <1>3 DEF Load
  <2>2. NoPhantomFailures'
    BY <1>3 DEF Load, NoPhantomFailures
  <2>3. FlightInv'
    BY <1>3 DEF Load, NoPhantomFailures, FlightInv
  <2> QED
    BY <2>1, <2>2, <2>3
<1>4. ASSUME NEW r \in Runs, Store(r) PROVE PhantomInv'
  <2>1. ReminderTypeOK'
    BY <1>4 DEF Store
  <2>2. NoPhantomFailures'
    BY <1>4 DEF Store, NoPhantomFailures, FlightInv
  <2>3. FlightInv'
    BY <1>4 DEF Store, FlightInv
  <2> QED
    BY <2>1, <2>2, <2>3
<1>5. ASSUME NEW r \in Runs, Judge(r) PROVE PhantomInv'
  BY <1>5 DEF Judge, NoPhantomFailures, FlightInv
<1>6. CASE RaceDetected
  BY <1>6 DEF RaceDetected, NoPhantomFailures, FlightInv
<1>7. CASE UNCHANGED reminderVars
  BY <1>7 DEF reminderVars, NoPhantomFailures, FlightInv
<1> QED
  BY <1>1, <1>2, <1>3, <1>4, <1>5, <1>6, <1>7 DEF ReminderNext

LEMMA PhantomInvariance == ReminderSpec => []PhantomInv
  BY PhantomInit, PhantomNext, PTL DEF ReminderSpec

(* The variables keep their types.                                         *)
THEOREM ReminderTypeCorrect == ReminderSpec => []ReminderTypeOK
<1>1. PhantomInv => ReminderTypeOK
  BY DEF PhantomInv
<1> QED
  BY <1>1, PhantomInvariance, PTL

(* No interleaving of runs makes a counter exceed the failures since the   *)
(* last success.                                                           *)
THEOREM NoPhantoms == ReminderSpec => []NoPhantomFailures
<1>1. PhantomInv => NoPhantomFailures
  BY DEF PhantomInv
<1> QED
  BY <1>1, PhantomInvariance, PTL

-----------------------------------------------------------------------------
(* What the map holds while one run uses the engine: its own failures, but *)
(* for the one it is about to count.                                       *)
Sole(r) == \A q \in Runs \ {r} : checks[q] = 0

SoleShape ==
  /\ \A r \in Runs : checks[r] = 0 => at[r] = "idle" /\ own[r] = Zero /\ streak[r] = 0
  /\ (\A r \in Runs : checks[r] = 0) => consecutiveFailures = Zero
  /\ \A r \in Runs : streak[r] > 0 => print[r] \in Prints
  /\ \A r \in Runs : at[r] # "idle" => streak[r] > 0 /\ own[r][print[r]] > 0

SoleCounts ==
  \A r \in Runs :
    Sole(r) =>
      /\ \A f \in Prints :
           consecutiveFailures[f] =
             IF at[r] \in {"load", "store"} /\ f = print[r]
               THEN own[r][f] - 1 ELSE own[r][f]
      /\ at[r] = "store" =>
           loaded[r].epoch = epoch /\ loaded[r].count = own[r][print[r]] - 1

SoleInv == SoleShape /\ SoleCounts

(* Its reminders count its failures with the call since its last success.  *)
SoleNudge ==
  \A r \in Runs :
    Sole(r) /\ at[r] = "idle" /\ streak[r] > 0 =>
      nudge[r] = IF own[r][print[r]] > Threshold THEN own[r][print[r]] ELSE 0

LEMMA SoleInvariance == ReminderSpec => [](SoleInv /\ SoleNudge)
<1>1. NewInjector => SoleInv /\ SoleNudge
  BY ReminderAssumption DEF NewInjector, Zero, SoleInv, SoleShape, SoleCounts, Sole, SoleNudge
<1>2. ReminderTypeOK /\ SoleInv /\ SoleNudge /\ [ReminderNext]_reminderVars => SoleInv' /\ SoleNudge'
  <2> SUFFICES ASSUME ReminderTypeOK, SoleInv, SoleNudge, [ReminderNext]_reminderVars
               PROVE  SoleInv' /\ SoleNudge'
    OBVIOUS
  <2> USE ReminderAssumption DEF ReminderTypeOK, SoleInv, SoleShape, SoleCounts, Sole, SoleNudge,
                              historyVars, Called, Zero
  <2>1. ASSUME NEW r \in Runs, NEW f \in Prints, CallSucceeded(r, f)
        PROVE  SoleInv' /\ SoleNudge'
    BY <2>1 DEF CallSucceeded
  <2>2. ASSUME NEW r \in Runs, NEW f \in Prints, CallFailed(r, f)
        PROVE  SoleInv' /\ SoleNudge'
    <3>1. SoleShape'
      BY <2>2 DEF CallFailed
    <3>2. SoleCounts'
      BY <2>2 DEF CallFailed
    <3>3. SoleNudge'
      BY <2>2 DEF CallFailed
    <3> QED
      BY <3>1, <3>2, <3>3
  <2>3. ASSUME NEW r \in Runs, Load(r) PROVE SoleInv' /\ SoleNudge'
    <3>1. SoleShape'
      BY <2>3 DEF Load
    <3>2. SoleCounts'
      BY <2>3 DEF Load
    <3>3. SoleNudge'
      BY <2>3 DEF Load
    <3> QED
      BY <3>1, <3>2, <3>3
  <2>4. ASSUME NEW r \in Runs, Store(r) PROVE SoleInv' /\ SoleNudge'
    <3>1. SoleShape'
      BY <2>4 DEF Store
    <3>2. SoleCounts'
      BY <2>4 DEF Store
    <3>3. SoleNudge'
      BY <2>4 DEF Store
    <3> QED
      BY <3>1, <3>2, <3>3
  <2>5. ASSUME NEW r \in Runs, Judge(r) PROVE SoleInv' /\ SoleNudge'
    <3>1. SoleInv'
      BY <2>5 DEF Judge
    <3>2. Sole(r) => consecutiveFailures[print[r]] = own[r][print[r]]
      BY <2>5 DEF Judge
    <3>3. \A q \in Runs \ {r} : ~Sole(q)
      BY <2>5 DEF Judge
    <3>4. SoleNudge'
      BY <2>5, <3>2, <3>3 DEF Judge
    <3> QED
      BY <3>1, <3>4
  <2>6. CASE RaceDetected
    BY <2>6 DEF RaceDetected
  <2>7. CASE UNCHANGED reminderVars
    BY <2>7 DEF reminderVars
  <2> QED
    BY <2>1, <2>2, <2>3, <2>4, <2>5, <2>6, <2>7 DEF ReminderNext
<1> QED
  BY <1>1, <1>2, ReminderTypeCorrect, PTL DEF ReminderSpec

(* A row of failures is among the run's failures since its last success,   *)
(* and is all of them if they are of one call.                             *)
StreakInv ==
  \A r \in Runs :
    /\ streak[r] = 0 => own[r] = Zero
    /\ streak[r] > 0 => print[r] \in Prints /\ own[r][print[r]] >= streak[r]
    /\ streak[r] > 0 /\ (\A g \in Prints \ {print[r]} : own[r][g] = 0) =>
         own[r][print[r]] = streak[r]

LEMMA StreakInvariance == ReminderSpec => []StreakInv
<1>1. NewInjector => StreakInv
  BY DEF NewInjector, StreakInv
<1>2. ReminderTypeOK /\ StreakInv /\ [ReminderNext]_reminderVars => StreakInv'
  <2> SUFFICES ASSUME ReminderTypeOK, StreakInv, [ReminderNext]_reminderVars
               PROVE  StreakInv'
    OBVIOUS
  <2>1. ASSUME NEW r \in Runs, NEW f \in Prints, CallSucceeded(r, f) PROVE StreakInv'
    BY <2>1 DEF ReminderTypeOK, StreakInv, CallSucceeded, Called
  <2>2. ASSUME NEW r \in Runs, NEW f \in Prints, CallFailed(r, f) PROVE StreakInv'
    <3>1. /\ own' = [own EXCEPT ![r] = [own[r] EXCEPT ![f] = own[r][f] + 1]]
          /\ streak' = [streak EXCEPT ![r] = IF print[r] = f THEN streak[r] + 1 ELSE 1]
          /\ print' = [print EXCEPT ![r] = f]
      BY <2>2 DEF CallFailed, Called
    <3>2. ASSUME NEW q \in Runs, q # r
          PROVE  own'[q] = own[q] /\ streak'[q] = streak[q] /\ print'[q] = print[q]
      BY <3>1, <3>2 DEF ReminderTypeOK
    <3>3. /\ streak'[r] > 0 /\ print'[r] = f
          /\ own'[r] = [own[r] EXCEPT ![f] = own[r][f] + 1]
          /\ streak'[r] = IF print[r] = f THEN streak[r] + 1 ELSE 1
          /\ own[r] \in [Prints -> Nat] /\ streak[r] \in Nat
      BY <3>1 DEF ReminderTypeOK
    <3>4. own'[r][f] >= streak'[r]
      <4>1. CASE print[r] = f /\ streak[r] > 0
        BY <3>3, <4>1 DEF StreakInv
      <4>2. CASE ~(print[r] = f /\ streak[r] > 0)
        BY <3>3, <4>2
      <4> QED
        BY <4>1, <4>2
    <3>5. (\A g \in Prints \ {f} : own'[r][g] = 0) => own'[r][f] = streak'[r]
      <4> SUFFICES ASSUME \A g \in Prints \ {f} : own'[r][g] = 0
                   PROVE  own'[r][f] = streak'[r]
        OBVIOUS
      <4>0. \A g \in Prints \ {f} : own[r][g] = 0
        BY <3>3
      <4>1. CASE streak[r] = 0
        BY <3>3, <4>1 DEF StreakInv, Zero
      <4>2. CASE streak[r] > 0 /\ print[r] = f
        BY <3>3, <4>0, <4>2 DEF StreakInv
      <4>3. CASE streak[r] > 0 /\ print[r] # f
        BY <3>3, <4>0, <4>3 DEF StreakInv
      <4> QED
        BY <3>3, <4>1, <4>2, <4>3
    <3> QED
      BY <3>2, <3>3, <3>4, <3>5 DEF StreakInv
  <2>3. CASE UNCHANGED <<own, streak, print>>
    BY <2>3 DEF StreakInv
  <2> QED
    BY <2>1, <2>2, <2>3
       DEF ReminderNext, Load, Store, Judge, RaceDetected, historyVars, reminderVars
<1> QED
  BY <1>1, <1>2, ReminderTypeCorrect, PTL DEF ReminderSpec

(* While one run uses the engine, a row of failures does not pass without  *)
(* a reminder, and reminders of a run that fails with one call are exact.  *)
THEOREM NudgesExact == ReminderSpec => []NudgeExact
<1>1. ReminderTypeOK /\ StreakInv /\ SoleNudge => NudgeExact
  <2> SUFFICES ASSUME ReminderTypeOK, StreakInv, SoleNudge, NEW r \in Runs,
                      \A q \in Runs \ {r} : checks[q] = 0, at[r] = "idle", streak[r] > 0
               PROVE  /\ streak[r] > Threshold => nudge[r] # 0
                      /\ (\A g \in Prints \ {print[r]} : own[r][g] = 0) =>
                           nudge[r] = IF streak[r] > Threshold THEN streak[r] ELSE 0
    BY DEF NudgeExact
  <2>1. nudge[r] = IF own[r][print[r]] > Threshold THEN own[r][print[r]] ELSE 0
    BY DEF SoleNudge, Sole
  <2>2. /\ own[r][print[r]] \in Nat /\ own[r][print[r]] >= streak[r]
        /\ (\A g \in Prints \ {print[r]} : own[r][g] = 0) => own[r][print[r]] = streak[r]
    BY DEF StreakInv, ReminderTypeOK
  <2>3. streak[r] \in Nat /\ Threshold \in Nat
    BY ReminderAssumption DEF ReminderTypeOK
  <2> QED
    BY <2>1, <2>2, <2>3
<1> QED
  BY <1>1, ReminderTypeCorrect, StreakInvariance, SoleInvariance, PTL

=============================================================================
