---------------------------- MODULE ContextProofs ----------------------------
(***************************************************************************)
(* Proofs about Context, for every window, watermark and length.           *)
(***************************************************************************)
EXTENDS Context, FoldProofs

(* The messages a history may hold: no system prompt, nothing compacted.   *)
Said == {m \in Message : m.role # "system" /\ m.form = "full"}

(* The working memory has the messages of the history, in their order.     *)
LEMMA WorkingMemoryType ==
  ASSUME NEW h \in Seq(Said)
  PROVE  WorkingMemory(h) \in Seq(Said)
<1> DEFINE tail == SubSeq(h, Len(h) - Limit + 1, Len(h))
           kept == {i \in 1..Limit : \E j \in 1..i : ~IsObservation(tail[j])}
<1>1. CASE Len(h) <= Limit
  BY <1>1 DEF WorkingMemory
<1>2. CASE ~(Len(h) <= Limit)
  <2>1. tail \in Seq(Said) /\ Len(tail) = Limit
    BY <1>2, ContextAssumption, SubSeqProperties, LenProperties
  <2>2. CASE kept = {}
    BY <1>2, <2>2, EmptySeq DEF WorkingMemory
  <2>3. CASE kept # {}
    <3>1. kept \in SUBSET Nat /\ kept \subseteq 1..Limit
      OBVIOUS
    <3>2. Min(kept) \in 1..Limit
      <4> HIDE DEF kept
      <4> QED
        BY <2>3, <3>1, MinIsMember
    <3>3. SubSeq(tail, Min(kept), Limit) \in Seq(Said)
      <4> DEFINE n == Min(kept)
      <4>1. n \in 1..Limit /\ Limit \in Nat
        BY <3>2, ContextAssumption
      <4> HIDE DEF n, tail
      <4>2. \A i \in n..Limit : tail[i] \in Said
        BY <2>1, <4>1, ElementOfSeq
      <4>3. n \in Int /\ Limit \in Int
        BY <4>1
      <4>4. SubSeq(tail, n, Limit) \in Seq(Said)
        BY <4>2, <4>3, SubSeqProperties
      <4> QED
        BY <4>4 DEF n
    <3> QED
      BY <1>2, <2>3, <3>3 DEF WorkingMemory
  <2> QED
    BY <2>2, <2>3
<1> QED
  BY <1>1, <1>2

LEMMA AskedType ==
  ASSUME history \in Seq(Said)
  PROVE  /\ Asked \in Seq({m \in Message : m.form = "full"})
         /\ Len(Asked) >= 1
<1>1. System \in {m \in Message : m.form = "full"}
  BY ContextAssumption, EmptySeq DEF System, Msg, Message
<1>2. WorkingMemory(history) \in Seq({m \in Message : m.form = "full"})
  BY WorkingMemoryType, SeqMonotonic DEF Said
<1> QED
  BY <1>1, <1>2, ConcatProperties, LenProperties DEF Asked

(* Compaction changes no message but in its content, and none of those it  *)
(* has to spare.                                                           *)
LEMMA CompactKeeps ==
  ASSUME NEW msgs \in Seq({m \in Message : m.form = "full"})
  PROVE  /\ Compact(msgs) \in Seq(Message)
         /\ Len(Compact(msgs)) = Len(msgs)
         /\ \A i \in 1..Len(msgs) :
              /\ [Compact(msgs)[i] EXCEPT !.len = msgs[i].len, !.form = "full"] = msgs[i]
              /\ \/ msgs[i].role = "system"
                 \/ msgs[i].role = "user" /\ ~IsObservation(msgs[i])
                 \/ i > Len(msgs) - RetainLast
                    /\ (IsObservation(msgs[i]) => msgs[i].len <= MaxKeep)
                 => Compact(msgs)[i] = msgs[i]
<1>1. ASSUME NEW m \in Message, m.form = "full", NEW recent \in BOOLEAN
      PROVE  /\ Compacted(m, recent) \in Message
             /\ [Compacted(m, recent) EXCEPT !.len = m.len, !.form = "full"] = m
             /\ \/ m.role = "system"
                \/ m.role = "user" /\ ~IsObservation(m)
                \/ recent /\ (IsObservation(m) => m.len <= MaxKeep)
                => Compacted(m, recent) = m
  <2> DEFINE with(n, f) == [m EXCEPT !.len = n, !.form = f]
  <2>1. /\ m = [role |-> m.role, calls |-> m.calls, answers |-> m.answers,
                len |-> m.len, args |-> m.args, form |-> m.form]
        /\ m.calls \in Seq(Nat) /\ m.answers \in Nat /\ m.len \in Nat /\ m.args \in Nat
        /\ m.role \in {"system", "user", "assistant"}
    BY DEF Message
  <2>2. ASSUME NEW n \in Nat, NEW f \in {"masked", "trimmed", "collapsed"}
        PROVE  /\ with(n, f) \in Message
               /\ [with(n, f) EXCEPT !.len = m.len, !.form = "full"] = m
    BY <1>1, <2>1 DEF Message
  <2>3. [m EXCEPT !.len = m.len, !.form = "full"] = m
    BY <1>1, <2>1
  <2>4. /\ MaskNote \in Nat /\ MaxKeep + TrimNote \in Nat
        /\ MaskAbove \in Nat /\ MaxKeep \in Nat
    BY ContextAssumption
  <2>5. \/ Compacted(m, recent) = m
        \/ \E n \in Nat, f \in {"masked", "trimmed", "collapsed"} :
             Compacted(m, recent) = with(n, f)
    BY <2>4 DEF Compacted
  <2>6. \/ m.role = "system"
        \/ m.role = "user" /\ ~IsObservation(m)
        \/ recent /\ (IsObservation(m) => m.len <= MaxKeep)
        => Compacted(m, recent) = m
    BY <2>1, <2>4 DEF Compacted, IsObservation
  <2>7. CASE Compacted(m, recent) = m
    BY <2>3, <2>7
  <2>8. CASE Compacted(m, recent) # m
    <3>1. PICK n \in Nat, f \in {"masked", "trimmed", "collapsed"} :
            Compacted(m, recent) = with(n, f)
      BY <2>5, <2>8
    <3> HIDE DEF with
    <3>2. with(n, f) \in Message /\ [with(n, f) EXCEPT !.len = m.len, !.form = "full"] = m
      BY ONLY <2>2, <3>1
    <3>3. /\ Compacted(m, recent) \in Message
          /\ [Compacted(m, recent) EXCEPT !.len = m.len, !.form = "full"] = m
      BY ONLY <3>1, <3>2
    <3> QED
      BY ONLY <2>6, <3>3
  <2> QED
    BY <2>7, <2>8
<1>2. CASE EstimateLength(msgs) < MaxChars
  <2>1. Compact(msgs) = msgs
    BY <1>2 DEF Compact
  <2>2. \A i \in 1..Len(msgs) : msgs[i] \in {m \in Message : m.form = "full"}
    BY ElementOfSeq
  <2>3. msgs \in Seq(Message)
    BY SeqMonotonic
  <2> QED
    BY <2>1, <2>2, <2>3 DEF Message
<1>3. CASE ~(EstimateLength(msgs) < MaxChars)
  <2>1. Compact(msgs) =
          [i \in 1..Len(msgs) |-> Compacted(msgs[i], i > Len(msgs) - RetainLast)]
    BY <1>3 DEF Compact
  <2>2. \A i \in 1..Len(msgs) : msgs[i] \in Message /\ msgs[i].form = "full"
    BY ElementOfSeq
  <2>3. Len(msgs) \in Nat
    BY LenProperties
  <2>4. ASSUME NEW i \in 1..Len(msgs)
        PROVE  LET m == msgs[i]
                   recent == i > Len(msgs) - RetainLast
               IN  /\ Compacted(m, recent) \in Message
                   /\ [Compacted(m, recent) EXCEPT !.len = m.len, !.form = "full"] = m
                   /\ \/ m.role = "system"
                      \/ m.role = "user" /\ ~IsObservation(m)
                      \/ recent /\ (IsObservation(m) => m.len <= MaxKeep)
                      => Compacted(m, recent) = m
    <3>1. (i > Len(msgs) - RetainLast) \in BOOLEAN
      OBVIOUS
    <3>2. msgs[i] \in Message /\ msgs[i].form = "full"
      BY <2>2
    <3> QED
      BY <1>1, <3>1, <3>2
  <2>5. Compact(msgs) \in Seq(Message)
    <3>1. Compact(msgs) \in [1..Len(msgs) -> Message]
      BY <2>1, <2>4
    <3> QED
      BY <2>3, <3>1, SeqDef
  <2>6. Len(Compact(msgs)) = Len(msgs)
    BY <2>1, <2>3, <2>5, LenProperties
  <2> QED
    BY <2>1, <2>4, <2>5, <2>6
<1> QED
  BY <1>2, <1>3

-----------------------------------------------------------------------------
(* Lengths.  What the two sums take from one message.                      *)
EstimateStep(n, m) == n + m.len + m.args

OutputStep(n, m) == IF IsObservation(m) THEN n + m.len ELSE n

(* Both sums go through numbers.                                           *)
LEMMA EstimateFold ==
  ASSUME NEW msgs \in Seq(Message)
  PROVE  \E r \in [0..Len(msgs) -> Nat] :
           /\ r[0] = 0
           /\ \A k \in 1..Len(msgs) : r[k] = EstimateStep(r[k-1], msgs[k])
           /\ EstimateLength(msgs) = r[Len(msgs)]
<1> DEFINE n == Len(msgs)
           G == [x \in Nat \X (1..n) |-> EstimateStep(x[1], msgs[x[2]])]
           Good(g) == g = [s \in SUBSET (1..n) |->
                             IF s = {} THEN 0 ELSE EstimateStep(g[s \ {Max(s)}], msgs[Max(s)])]
           h == CHOOSE g : Good(g)
<1>1. n \in Nat /\ DOMAIN msgs = 1..n
  OBVIOUS
<1>2. EstimateLength(msgs) = h[1..n]
  BY <1>1 DEF EstimateLength, FoldLeft, MapThenFoldSet, EstimateStep
<1>3. 0 \in Nat /\ G \in [Nat \X (1..n) -> Nat]
  <2>1. ASSUME NEW u \in Nat, NEW i \in 1..n PROVE EstimateStep(u, msgs[i]) \in Nat
    <3>1. msgs[i].len \in Nat /\ msgs[i].args \in Nat
      <4>1. msgs[i] \in Message
        BY <1>1, ElementOfSeq
      <4> QED
        BY <4>1 DEF Message
    <3> QED
      BY <3>1 DEF EstimateStep
  <2> QED
    BY <2>1
<1>4. \E g : Good(g)
  <2>1. PICK f \in [SUBSET (1..n) -> Nat] : Iterates(f, n, 0, G)
    <3> HIDE DEF G, n
    <3> QED
      BY <1>1, <1>3, FoldExists
  <2>2. ASSUME NEW s \in SUBSET (1..n), s # {}
        PROVE  G[<<f[s \ {Max(s)}], Max(s)>>] = EstimateStep(f[s \ {Max(s)}], msgs[Max(s)])
    <3>1. Max(s) \in 1..n /\ f[s \ {Max(s)}] \in Nat
      BY <1>1, <2>2, MaxIsMember
    <3> QED
      BY <3>1
  <2>3. f = [s \in SUBSET (1..n) |-> IF s = {} THEN 0 ELSE G[<<f[s \ {Max(s)}], Max(s)>>]]
    BY <2>1 DEF Iterates
  <2> HIDE DEF G, n
  <2>4. Good(f)
    BY <2>2, <2>3
  <2> HIDE DEF Good
  <2> QED
    BY <2>4
<1>5. Good(h)
  <2> HIDE DEF Good
  <2> QED
    BY <1>4
<1> HIDE DEF h
<1>6. h[{}] = 0
  BY <1>5
<1>7. ASSUME NEW k \in 1..n, h[1..(k-1)] \in Nat PROVE h[1..k] = G[<<h[1..(k-1)], k>>]
  <2>1. Max(1..k) = k /\ (1..k) \ {k} = 1..(k-1) /\ 1..k # {} /\ 1..k \in SUBSET (1..n)
    BY <1>1, PrefixFold
  <2>2. h[1..k] = EstimateStep(h[1..(k-1)], msgs[k])
    BY <1>5, <2>1
  <2> QED
    BY <1>7, <2>2
<1>8. Reaches(h, n, Nat, 0, G)
  <2> HIDE DEF G, n
  <2>1. Follows(h, n, Nat, 0, G)
    BY <1>6, <1>7 DEF Follows
  <2> QED
    BY <1>1, <1>3, <2>1, FoldPrefixes
<1>9. PICK r \in [0..n -> Nat] :
        r[0] = 0 /\ (\A k \in 1..n : r[k] = G[<<r[k-1], k>>]) /\ r[n] = h[1..n]
  <2> HIDE DEF G, n
  <2> QED
    BY <1>8 DEF Reaches
<1>10. ASSUME NEW k \in 1..n PROVE r[k] = EstimateStep(r[k-1], msgs[k])
  <2>1. k - 1 \in 0..n
    BY <1>1
  <2> QED
    BY <1>9, <2>1
<1> QED
  BY <1>2, <1>9, <1>10

LEMMA OutputFold ==
  ASSUME NEW msgs \in Seq(Message)
  PROVE  \E r \in [0..Len(msgs) -> Nat] :
           /\ r[0] = 0
           /\ \A k \in 1..Len(msgs) : r[k] = OutputStep(r[k-1], msgs[k])
           /\ OutputLength(msgs) = r[Len(msgs)]
<1> DEFINE n == Len(msgs)
           G == [x \in Nat \X (1..n) |-> OutputStep(x[1], msgs[x[2]])]
           Good(g) == g = [s \in SUBSET (1..n) |->
                             IF s = {} THEN 0 ELSE OutputStep(g[s \ {Max(s)}], msgs[Max(s)])]
           h == CHOOSE g : Good(g)
<1>1. n \in Nat /\ DOMAIN msgs = 1..n
  OBVIOUS
<1>2. OutputLength(msgs) = h[1..n]
  BY <1>1 DEF OutputLength, FoldLeft, MapThenFoldSet, OutputStep
<1>3. 0 \in Nat /\ G \in [Nat \X (1..n) -> Nat]
  <2>1. ASSUME NEW u \in Nat, NEW i \in 1..n PROVE OutputStep(u, msgs[i]) \in Nat
    <3>1. msgs[i].len \in Nat /\ msgs[i].args \in Nat
      <4>1. msgs[i] \in Message
        BY <1>1, ElementOfSeq
      <4> QED
        BY <4>1 DEF Message
    <3> QED
      BY <3>1 DEF OutputStep
  <2> QED
    BY <2>1
<1>4. \E g : Good(g)
  <2>1. PICK f \in [SUBSET (1..n) -> Nat] : Iterates(f, n, 0, G)
    <3> HIDE DEF G, n
    <3> QED
      BY <1>1, <1>3, FoldExists
  <2>2. ASSUME NEW s \in SUBSET (1..n), s # {}
        PROVE  G[<<f[s \ {Max(s)}], Max(s)>>] = OutputStep(f[s \ {Max(s)}], msgs[Max(s)])
    <3>1. Max(s) \in 1..n /\ f[s \ {Max(s)}] \in Nat
      BY <1>1, <2>2, MaxIsMember
    <3> QED
      BY <3>1
  <2>3. f = [s \in SUBSET (1..n) |-> IF s = {} THEN 0 ELSE G[<<f[s \ {Max(s)}], Max(s)>>]]
    BY <2>1 DEF Iterates
  <2> HIDE DEF G, n
  <2>4. Good(f)
    BY <2>2, <2>3
  <2> HIDE DEF Good
  <2> QED
    BY <2>4
<1>5. Good(h)
  <2> HIDE DEF Good
  <2> QED
    BY <1>4
<1> HIDE DEF h
<1>6. h[{}] = 0
  BY <1>5
<1>7. ASSUME NEW k \in 1..n, h[1..(k-1)] \in Nat PROVE h[1..k] = G[<<h[1..(k-1)], k>>]
  <2>1. Max(1..k) = k /\ (1..k) \ {k} = 1..(k-1) /\ 1..k # {} /\ 1..k \in SUBSET (1..n)
    BY <1>1, PrefixFold
  <2>2. h[1..k] = OutputStep(h[1..(k-1)], msgs[k])
    BY <1>5, <2>1
  <2> QED
    BY <1>7, <2>2
<1>8. Reaches(h, n, Nat, 0, G)
  <2> HIDE DEF G, n
  <2>1. Follows(h, n, Nat, 0, G)
    BY <1>6, <1>7 DEF Follows
  <2> QED
    BY <1>1, <1>3, <2>1, FoldPrefixes
<1>9. PICK r \in [0..n -> Nat] :
        r[0] = 0 /\ (\A k \in 1..n : r[k] = G[<<r[k-1], k>>]) /\ r[n] = h[1..n]
  <2> HIDE DEF G, n
  <2> QED
    BY <1>8 DEF Reaches
<1>10. ASSUME NEW k \in 1..n PROVE r[k] = OutputStep(r[k-1], msgs[k])
  <2>1. k - 1 \in 0..n
    BY <1>1
  <2> QED
    BY <1>9, <2>1
<1> QED
  BY <1>2, <1>9, <1>10

(* Outputs are part of the whole.                                          *)
LEMMA OutputsArePart ==
  ASSUME NEW msgs \in Seq(Message)
  PROVE  OutputLength(msgs) <= EstimateLength(msgs)
<1> DEFINE n == Len(msgs)
<1>1. PICK e \in [0..n -> Nat] :
        /\ e[0] = 0
        /\ \A k \in 1..n : e[k] = EstimateStep(e[k-1], msgs[k])
        /\ EstimateLength(msgs) = e[n]
  BY EstimateFold
<1>2. PICK o \in [0..n -> Nat] :
        /\ o[0] = 0
        /\ \A k \in 1..n : o[k] = OutputStep(o[k-1], msgs[k])
        /\ OutputLength(msgs) = o[n]
  BY OutputFold
<1> DEFINE T == {k \in 0..n : o[k] <= e[k]}
<1>3. n \in Nat /\ \A i \in 1..n : msgs[i].len \in Nat /\ msgs[i].args \in Nat
  <2>1. n \in Nat /\ \A i \in 1..n : msgs[i] \in Message
    BY ElementOfSeq, LenProperties
  <2> QED
    BY <2>1 DEF Message
<1> HIDE DEF n
<1>4. ASSUME NEW k \in 0..(n-1), k \in T PROVE k + 1 \in T
  <2>1. k + 1 \in 1..n /\ (k + 1) - 1 = k /\ k + 1 \in 0..n /\ k \in 0..n
    <3>1. n \in Nat
      BY <1>3
    <3> QED
      BY ONLY <3>1, k \in 0..(n-1)
  <2>2. o[k] \in Nat /\ e[k] \in Nat /\ o[k] <= e[k]
    BY <1>4, <2>1
  <2>3. e[k+1] = e[k] + msgs[k+1].len + msgs[k+1].args
    BY <1>1, <2>1 DEF EstimateStep
  <2>4. o[k+1] = o[k] + msgs[k+1].len \/ o[k+1] = o[k]
    BY <1>2, <2>1 DEF OutputStep
  <2>5. o[k+1] <= e[k+1]
    <3>1. msgs[k+1].len \in Nat /\ msgs[k+1].args \in Nat
      BY <1>3, <2>1
    <3> QED
      BY ONLY <2>2, <2>3, <2>4, <3>1
  <2> QED
    BY <2>1, <2>5
<1>5. T = 0..n
  <2>1. T \in SUBSET (0..n) /\ 0 \in T
    BY <1>1, <1>2, <1>3
  <2> HIDE DEF T
  <2> QED
    BY <1>3, <1>4, <2>1, Upwards
<1>6. o[n] <= e[n]
  <2>1. n \in 0..n
    BY <1>3
  <2> QED
    BY <1>5, <2>1
<1> QED
  BY <1>1, <1>2, <1>6

LEMMA MaxOfTwo ==
  ASSUME NEW a \in Nat, NEW b \in Nat
  PROVE  Max({a, b}) \in Nat /\ a <= Max({a, b}) /\ b <= Max({a, b})
<1>1. \E x \in {a, b} : \A y \in {a, b} : x >= y
  OBVIOUS
<1> QED
  BY <1>1 DEF Max

(* A few messages that are each bounded are bounded together.              *)
LEMMA Products ==
  ASSUME NEW a \in Nat, NEW m \in Nat, NEW n \in Nat
  PROVE  a * 0 = 0 /\ a * n \in Nat /\ a * (n + 1) = a * n + a
         /\ (m <= n => a * m <= a * n)
<1>1. a * 0 = 0 /\ a * n \in Nat /\ a * (n + 1) = a * n + a
  OBVIOUS
<1>2. m <= n => a * m <= a * n
  <2> SUFFICES ASSUME m <= n PROVE a * m <= a * n
    OBVIOUS
  <2> DEFINE d == n - m
  <2>1. d \in Nat /\ n = m + d
    OBVIOUS
  <2> HIDE DEF d
  <2>2. a * (m + d) = a * m + a * d /\ a * d \in Nat /\ a * m \in Nat
    BY <2>1
  <2> QED
    BY <2>1, <2>2
<1> QED
  BY <1>1, <1>2

(* If the first message is none of a tool, those up to the l-th carry at   *)
(* most a, and the others at most b, then all carry no more than so many.  *)
LEMMA OutputsAddUp ==
  ASSUME NEW msgs \in Seq(Message), NEW l \in Nat, NEW a \in Nat, NEW b \in Nat,
         NEW r \in Nat, Len(msgs) >= 1, ~IsObservation(msgs[1]),
         \A i \in 1..Len(msgs) :
           IsObservation(msgs[i]) => msgs[i].len <= IF i > Len(msgs) - r THEN b ELSE a,
         Len(msgs) <= l + 1, r <= l
  PROVE  OutputLength(msgs) <= r * b + (l - r) * a
<1> DEFINE n == Len(msgs)
           early == IF n > r THEN n - r - 1 ELSE 0
           late(k) == IF n > r THEN k - (n - r) ELSE k - 1
           Bound(k) == IF k <= n - r THEN a * (k - 1) ELSE a * early + b * late(k)
<1>1. PICK o \in [0..n -> Nat] :
        /\ o[0] = 0
        /\ \A k \in 1..n : o[k] = OutputStep(o[k-1], msgs[k])
        /\ OutputLength(msgs) = o[n]
  BY OutputFold
<1>2. n \in Nat \ {0} /\ \A i \in 1..n : msgs[i].len \in Nat
  <2>1. n \in Nat \ {0} /\ \A i \in 1..n : msgs[i] \in Message
    BY ElementOfSeq, LenProperties
  <2> QED
    BY <2>1 DEF Message
<1>3. \A i \in 1..n : IsObservation(msgs[i]) =>
         msgs[i].len <= IF i > n - r THEN b ELSE a
  OBVIOUS
<1>4. n <= l + 1 /\ r <= l
  OBVIOUS
<1> HIDE DEF n
<1> DEFINE T == {k \in 0..(n-1) : o[k+1] <= Bound(k+1)}
<1>5. 0 \in T
  <2>1. 0 \in 0..(n-1) /\ 1 \in 1..n /\ 0 + 1 = 1 /\ 1 - 1 = 0
    BY <1>2
  <2>2. o[1] = 0
    <3>1. o[1] = OutputStep(o[1-1], msgs[1])
      BY <1>1, <2>1
    <3> QED
      BY <1>1, <2>1, <3>1 DEF OutputStep
  <2>3. 0 <= Bound(1)
    <3>1. CASE 1 <= n - r
      <4>1. a * (1 - 1) = 0
        OBVIOUS
      <4> QED
        BY <3>1, <4>1
    <3>2. CASE ~(1 <= n - r)
      <4>1. early = 0 /\ late(1) = 0
        BY <1>2, <3>2
      <4>2. a * early = 0 /\ b * late(1) = 0
        BY <4>1
      <4> HIDE DEF early, late
      <4> QED
        BY <3>2, <4>2
    <3> QED
      BY <3>1, <3>2
  <2> HIDE DEF Bound
  <2> QED
    BY <2>1, <2>2, <2>3
<1>6. ASSUME NEW k \in 0..((n-1)-1), k \in T PROVE k + 1 \in T
  <2> DEFINE i == k + 2
  <2>1. /\ i \in 2..n /\ i - 1 = k + 1 /\ k + 1 \in 0..(n-1) /\ (k + 1) + 1 = i
        /\ i - 1 \in 0..n /\ i \in 0..n
    BY <1>2
  <2>2. o[i-1] \in Nat /\ o[i-1] <= Bound(i-1)
    <3>1. o[k+1] <= Bound(k+1)
      BY <1>6
    <3> HIDE DEF Bound
    <3> QED
      BY <2>1, <3>1
  <2> HIDE DEF i
  <2> DEFINE c == IF i > n - r THEN b ELSE a
  <2>3. o[i] \in Nat /\ o[i] <= o[i-1] + c
    <3>1. i \in 1..n
      BY <2>1
    <3>2. o[i] = OutputStep(o[i-1], msgs[i])
      BY <1>1, <3>1
    <3>3. c \in Nat /\ o[i] \in Nat
      BY <2>1
    <3>4. IsObservation(msgs[i]) => msgs[i].len \in Nat /\ msgs[i].len <= c
      BY <1>2, <1>3, <3>1
    <3> HIDE DEF c, Bound
    <3> QED
      BY <2>2, <3>2, <3>3, <3>4 DEF OutputStep
  <2>4. Bound(i) = Bound(i-1) + c
    <3>1. CASE i <= n - r
      <4>1. a * (i - 1) = a * (i - 1 - 1) + a
        <5>1. i - 2 \in Nat /\ (i - 2) + 1 = i - 1 /\ i - 1 - 1 = i - 2
          BY <2>1
        <5> QED
          BY <5>1, Products
      <4>2. i - 1 <= n - r /\ ~(i > n - r)
        BY <1>2, <2>1, <3>1
      <4> QED
        BY <3>1, <4>1, <4>2
    <3>2. CASE i = n - r + 1
      <4>1. n > r /\ i - 1 <= n - r /\ ~(i <= n - r) /\ i > n - r
        BY <1>2, <2>1, <3>2
      <4>2. early = i - 1 - 1 /\ late(i) = 1 /\ b * 1 = b
        BY <1>2, <2>1, <3>2, <4>1
      <4>3. Bound(i) = a * early + b * late(i)
        BY <4>1
      <4>4. Bound(i-1) = a * (i - 1 - 1)
        BY <4>1
      <4> QED
        BY <4>1, <4>2, <4>3, <4>4
    <3>3. CASE i > n - r + 1
      <4>1. ~(i <= n - r) /\ ~(i - 1 <= n - r) /\ i > n - r
        BY <1>2, <2>1, <3>3
      <4>2. late(i-1) \in Nat /\ late(i) = late(i-1) + 1 /\ early \in Nat
        BY <1>2, <2>1, <3>3
      <4>3. Bound(i) = a * early + b * late(i) /\ Bound(i-1) = a * early + b * late(i-1)
        BY <4>1
      <4> DEFINE x == late(i-1)
                 y == late(i)
                 z == early
      <4>4. x \in Nat /\ y = x + 1 /\ z \in Nat
        BY <4>2
      <4>5. Bound(i) = a * z + b * y /\ Bound(i-1) = a * z + b * x /\ c = b
        BY <4>1, <4>3
      <4> HIDE DEF x, y, z, Bound, c
      <4>6. b * y = b * x + b /\ b * x \in Nat /\ a * z \in Nat
        BY <4>4, Products
      <4> QED
        BY <4>5, <4>6
    <3> QED
      BY <1>2, <2>1, <3>1, <3>2, <3>3
  <2>5. Bound(i-1) \in Int /\ c \in Nat
    <3>1. a * (i - 1 - 1) \in Int
      BY <2>1
    <3>2. a * early \in Int /\ b * late(i-1) \in Int
      BY <1>2, <2>1
    <3> HIDE DEF early, late
    <3> QED
      BY <3>1, <3>2
  <2>6. o[i] <= Bound(i)
    <3> HIDE DEF Bound, c
    <3> QED
      BY <2>2, <2>3, <2>4, <2>5
  <2> HIDE DEF Bound
  <2> QED
    BY <2>1, <2>6
<1>7. T = 0..(n-1)
  <2>1. T \in SUBSET (0..(n-1)) /\ n - 1 \in Nat
    BY <1>2
  <2> HIDE DEF T
  <2> QED
    BY <1>5, <1>6, <2>1, Upwards
<1>8. o[n] <= Bound(n)
  <2>1. n - 1 \in 0..(n-1) /\ (n - 1) + 1 = n
    BY <1>2
  <2> HIDE DEF Bound
  <2> QED
    BY <1>7, <2>1
<1>9. Bound(n) <= r * b + (l - r) * a
  <2>1. l - r \in Nat /\ early \in Nat /\ early <= l - r
    BY <1>2, <1>4
  <2> DEFINE x == late(n)
             z == early
  <2>2. x \in Int /\ x <= r
    BY <1>2
  <2>3. CASE ~(n <= n - r)
    <3>1. x \in Nat /\ z \in Nat /\ z <= l - r
      BY <1>2, <2>1, <2>3
    <3>2. Bound(n) = a * z + b * x
      <4> HIDE DEF early, late
      <4> QED
        BY <2>3
    <3> HIDE DEF x, z, Bound
    <3>3. a * z <= a * (l - r) /\ b * x <= b * r
      BY <2>1, <2>2, <3>1, Products
    <3>4. a * (l - r) = (l - r) * a /\ b * r = r * b
      OBVIOUS
    <3>5. a * z \in Nat /\ b * x \in Nat /\ a * (l - r) \in Nat /\ b * r \in Nat
      BY <2>1, <3>1, Products
    <3> QED
      BY <3>2, <3>3, <3>4, <3>5
  <2>4. CASE n <= n - r
    <3>1. r = 0 /\ n - 1 \in Nat /\ n - 1 <= l - r
      BY <1>2, <1>4, <2>4
    <3>2. Bound(n) = a * (n - 1)
      BY <2>4
    <3> HIDE DEF Bound
    <3>3. a * (n - 1) <= a * (l - r)
      BY <2>1, <3>1, Products
    <3>4. r * b = 0 /\ a * (l - r) = (l - r) * a
      BY <3>1
    <3>5. a * (n - 1) \in Nat /\ a * (l - r) \in Nat
      BY <2>1, <3>1, Products
    <3> QED
      BY <3>2, <3>3, <3>4, <3>5
  <2> QED
    BY <1>2, <2>3, <2>4
<1>10. Bound(n) \in Int
  <2>1. a * (n - 1) \in Int /\ a * early \in Int /\ b * late(n) \in Int
    BY <1>2
  <2> HIDE DEF early, late
  <2> QED
    BY <2>1
<1> QED
  <2>1. o[n] \in Nat /\ r * b + (l - r) * a \in Int
    BY <1>2
  <2> HIDE DEF Bound
  <2> QED
    BY <1>1, <1>8, <1>9, <1>10, <2>1

(* The window is no longer than the working memory may be.                 *)
LEMMA AskedBounded ==
  ASSUME history \in Seq(Said)
  PROVE  Len(Asked) <= Limit + 1 /\ Asked[1] = System
<1> DEFINE h == history
           tail == SubSeq(h, Len(h) - Limit + 1, Len(h))
           kept == {i \in 1..Limit : \E j \in 1..i : ~IsObservation(tail[j])}
           w == WorkingMemory(h)
<1>1. w \in Seq(Said) /\ Len(w) \in Nat /\ Limit \in Nat
  BY WorkingMemoryType, ContextAssumption, LenProperties
<1>2. Len(w) <= Limit
  <2>1. CASE Len(h) <= Limit
    BY <2>1 DEF WorkingMemory
  <2>2. CASE ~(Len(h) <= Limit) /\ kept = {}
    BY <1>1, <2>2, EmptySeq DEF WorkingMemory
  <2>3. CASE ~(Len(h) <= Limit) /\ kept # {}
    <3>1. w = SubSeq(tail, Min(kept), Limit)
      BY <2>3 DEF WorkingMemory
    <3>2. Min(kept) \in 1..Limit
      <4>1. kept \in SUBSET Nat /\ kept \subseteq 1..Limit
        OBVIOUS
      <4> HIDE DEF kept
      <4> QED
        BY <2>3, <4>1, MinIsMember
    <3> DEFINE m == Min(kept)
    <3>3. tail \in Seq(Said) /\ Len(tail) = Limit
      BY <2>3, ContextAssumption, SubSeqProperties, LenProperties
    <3>4. m \in 1..Limit /\ w = SubSeq(tail, m, Limit)
      BY <3>1, <3>2
    <3> HIDE DEF m, tail, w
    <3>5. \A i \in m..Limit : tail[i] \in Said
      BY <1>1, <3>3, <3>4, ElementOfSeq
    <3>6. m \in Int /\ Limit \in Int
      BY <1>1, <3>4
    <3>7. Len(w) = IF m <= Limit THEN Limit - m + 1 ELSE 0
      BY <3>4, <3>5, <3>6, SubSeqProperties
    <3> QED
      BY <1>1, <3>4, <3>7
  <2> QED
    BY <2>1, <2>2, <2>3
<1>3. <<System>> \in Seq(Message) /\ Len(<<System>>) = 1 /\ <<System>>[1] = System
  <2>1. System \in Message
    BY ContextAssumption, EmptySeq DEF System, Msg, Message
  <2> QED
    BY <2>1
<1>4. w \in Seq(Message)
  BY <1>1, SeqMonotonic DEF Said
<1> HIDE DEF w
<1>5. Len(<<System>> \o w) = 1 + Len(w) /\ (<<System>> \o w)[1] = System
  BY <1>3, <1>4, ConcatProperties
<1> QED
  BY <1>1, <1>2, <1>5 DEF Asked, w

-----------------------------------------------------------------------------
(* What ContextTypeOK says of the answers needs the calls to have been counted.   *)
Counted(h, n) ==
  \A i \in 1..Len(h) :
    h[i].answers <= n /\ \A k \in 1..Len(h[i].calls) : h[i].calls[k] <= n

IInv ==
  /\ history \in Seq(Said) /\ request \in Seq(Message)
  /\ phase \in {"idle", "ask", "answer", "observe", "remind"}
  /\ ids \in Nat
  /\ Counted(history, ids)
  /\ phase = "observe" => history # <<>> /\ Last(history).calls # <<>>

LEMMA Extended ==
  ASSUME NEW h \in Seq(Said), NEW e \in Seq(Said), NEW n \in Nat, NEW o \in Nat,
         n <= o, Counted(h, n), Counted(e, o)
  PROVE  h \o e \in Seq(Said) /\ Counted(h \o e, o)
<1>1. /\ h \o e \in Seq(Said)
      /\ Len(h) \in Nat /\ Len(e) \in Nat /\ Len(h \o e) = Len(h) + Len(e)
  BY ConcatProperties, LenProperties
<1>2. ASSUME NEW i \in 1..Len(h \o e)
      PROVE  /\ (h \o e)[i].answers <= o
             /\ \A k \in 1..Len((h \o e)[i].calls) : (h \o e)[i].calls[k] <= o
  <2>1. CASE i <= Len(h)
    <3>1. (h \o e)[i] = h[i] /\ i \in 1..Len(h)
      BY <1>1, <2>1, ConcatProperties
    <3>2. /\ h[i].answers \in Nat /\ h[i].calls \in Seq(Nat)
          /\ h[i].answers <= n /\ \A k \in 1..Len(h[i].calls) : h[i].calls[k] <= n
      BY <3>1, ElementOfSeq DEF Said, Message, Counted
    <3>3. \A k \in 1..Len(h[i].calls) : h[i].calls[k] \in Nat
      BY <3>2, ElementOfSeq
    <3> QED
      BY <3>1, <3>2, <3>3
  <2>2. CASE i > Len(h)
    <3>1. (h \o e)[i] = e[i - Len(h)] /\ i - Len(h) \in 1..Len(e)
      BY <1>1, <2>2, ConcatProperties
    <3> QED
      BY <3>1 DEF Counted
  <2> QED
    BY <1>1, <2>1, <2>2
<1> QED
  BY <1>1, <1>2 DEF Counted

(* One more message.                                                       *)
LEMMA OneMore ==
  ASSUME NEW h \in Seq(Said), NEW m \in Said, NEW n \in Nat, NEW o \in Nat, n <= o,
         Counted(h, n), m.answers <= o,
         \A k \in 1..Len(m.calls) : m.calls[k] <= o
  PROVE  Append(h, m) \in Seq(Said) /\ Counted(Append(h, m), o)
<1>1. Append(h, m) = h \o <<m>>
  BY AppendIsConcat
<1>2. <<m>> \in Seq(Said) /\ Counted(<<m>>, o)
  BY DEF Counted
<1> QED
  BY <1>1, <1>2, Extended

(* A message of a user, or of the injector.                                *)
LEMMA UserMessage ==
  ASSUME NEW l \in Nat, NEW n \in Nat, NEW h \in Seq(Said), Counted(h, n)
  PROVE  LET g == Append(h, Msg("user", <<>>, 0, l, 0))
         IN  g \in Seq(Said) /\ Counted(g, n)
<1> DEFINE m == Msg("user", <<>>, 0, l, 0)
<1>1. m \in Said /\ m.answers = 0 /\ m.calls = <<>>
  BY EmptySeq DEF Msg, Said, Message
<1> HIDE DEF m
<1>2. m.answers <= n /\ \A k \in 1..Len(m.calls) : m.calls[k] <= n
  BY <1>1, EmptySeq
<1>3. Append(h, m) \in Seq(Said) /\ Counted(Append(h, m), n)
  BY <1>1, <1>2, OneMore
<1> QED
  BY <1>3 DEF m

LEMMA StepInv == IInv /\ [ContextNext]_contextVars => IInv'
<1> USE ContextAssumption
<1> SUFFICES ASSUME IInv, [ContextNext]_contextVars PROVE IInv'
  OBVIOUS
<1>1. ASSUME NEW l \in Lengths, UserSays(l) PROVE IInv'
  <2>1. l \in Nat /\ history' = Append(history, Msg("user", <<>>, 0, l, 0))
    BY <1>1 DEF UserSays, Append1
  <2>2. history' \in Seq(Said) /\ Counted(history', ids)
    BY <2>1, UserMessage DEF IInv
  <2> QED
    BY <1>1, <2>2 DEF UserSays, IInv
<1>2. CASE Ask
  <2>1. Compact(Asked) \in Seq(Message)
    BY AskedType, CompactKeeps DEF IInv
  <2> QED
    BY <1>2, <2>1 DEF Ask, Asked, IInv
<1>3. CASE AnswerFails
  BY <1>3 DEF AnswerFails, IInv
<1>4. ASSUME NEW l \in Lengths, NEW a \in Lengths, NEW n \in 0..MaxCalls, Answer(l, n, a)
      PROVE  IInv'
  <2> DEFINE calls == [i \in 1..n |-> ids + i]
             m == Msg("assistant", calls, 0, l, a)
  <2>1. history' = Append(history, m) /\ ids' = ids + n /\ n \in Nat
    BY <1>4 DEF Answer, Append1
  <2>2. /\ calls \in Seq(Nat) /\ Len(calls) = n
        /\ \A k \in 1..Len(calls) : calls[k] <= ids'
    BY <2>1 DEF IInv
  <2>3. /\ m \in Said /\ m.answers <= ids'
        /\ m.calls = calls /\ \A k \in 1..Len(m.calls) : m.calls[k] <= ids'
    <3> HIDE DEF calls
    <3>1. l \in Nat /\ a \in Nat /\ 0 <= ids'
      BY <2>1 DEF IInv
    <3> QED
      BY <2>2, <3>1 DEF Msg, Said, Message
  <2>4. history' \in Seq(Said) /\ Counted(history', ids') /\ ids' \in Nat
    <3> HIDE DEF m
    <3>1. ids \in Nat /\ ids' \in Nat /\ ids <= ids'
      BY <2>1 DEF IInv
    <3> QED
      BY <2>1, <2>3, <3>1, OneMore DEF IInv
  <2>5. phase' = "observe" => history' # <<>> /\ Last(history').calls # <<>>
    <3> HIDE DEF m, calls
    <3>1. /\ Len(history') = Len(history) + 1 /\ Len(history) \in Nat
          /\ history'[Len(history')] = m
      BY <2>1, <2>3, AppendProperties, LenProperties DEF IInv
    <3>2. phase' = "observe" => n # 0
      BY <1>4 DEF Answer
    <3>3. history' # <<>> /\ Last(history') = m
      BY <2>4, <3>1, EmptySeq DEF Last
    <3> QED
      BY <2>2, <2>3, <3>2, <3>3, EmptySeq
  <2> QED
    BY <1>4, <2>4, <2>5 DEF Answer, IInv
<1>5. ASSUME NEW n \in 1..MaxCalls, NEW ls \in [1..n -> Lengths], Observe(ls)
      PROVE  IInv'
  <2> DEFINE calls == Last(history).calls
             e == [i \in 1..Len(calls) |-> Msg("user", <<>>, calls[i], ls[i], 0)]
  <2>1. /\ history' = history \o e /\ Len(ls) = Len(calls)
        /\ phase' = "remind" /\ UNCHANGED <<request, ids>>
    BY <1>5 DEF Observe
  <2>2. /\ Last(history) \in Said /\ Len(history) \in 1..Len(history)
        /\ Last(history) = history[Len(history)]
    BY <1>5, ElementOfSeq, EmptySeq, LenProperties DEF Observe, IInv, Last
  <2>3. calls \in Seq(Nat) /\ \A k \in 1..Len(calls) : calls[k] \in Nat /\ calls[k] <= ids
    BY <2>2, ElementOfSeq DEF Said, Message, IInv, Counted
  <2>4. \A i \in 1..Len(calls) : ls[i] \in Nat
    <3>1. ls \in Seq(Lengths)
      BY SeqDef
    <3> QED
      BY <2>1, <3>1, ElementOfSeq
  <2>5. e \in Seq(Said) /\ Counted(e, ids)
    <3> HIDE DEF calls
    <3>1. \A i \in 1..Len(calls) : e[i] \in Said /\ e[i].answers <= ids /\ e[i].calls = <<>>
      BY <2>3, <2>4 DEF Msg, Said, Message
    <3>2. Len(calls) \in Nat
      BY <2>3, LenProperties
    <3>3. e \in Seq(Said) /\ Len(e) = Len(calls)
      BY <3>1, <3>2, SeqDef
    <3> QED
      BY <3>1, <3>3 DEF Counted
  <2>6. history' \in Seq(Said) /\ Counted(history', ids)
    <3> HIDE DEF e
    <3> QED
      BY <2>1, <2>5, Extended DEF IInv
  <2> QED
    BY <2>1, <2>6 DEF IInv
<1>6. ASSUME NEW l \in Lengths, Remind(l) PROVE IInv'
  <2>1. CASE l = 0
    BY <1>6, <2>1 DEF Remind, IInv
  <2>2. CASE l # 0
    <3>1. l \in Nat /\ history' = Append(history, Msg("user", <<>>, 0, l, 0))
      BY <1>6, <2>2 DEF Remind
    <3>2. history' \in Seq(Said) /\ Counted(history', ids)
      BY <3>1, UserMessage DEF IInv
    <3> QED
      BY <1>6, <3>2 DEF Remind, IInv
  <2> QED
    BY <2>1, <2>2
<1>7. CASE UNCHANGED contextVars
  BY <1>7 DEF contextVars, IInv
<1> QED
  BY <1>1, <1>2, <1>3, <1>4, <1>5, <1>6, <1>7 DEF ContextNext

LEMMA InitInv == ContextInit => IInv
BY EmptySeq DEF ContextInit, IInv, Counted

LEMMA Invariant == ContextSpec => []IInv
BY InitInv, StepInv, PTL DEF ContextSpec

(* The variables keep their types, and no message answers a call that was  *)
(* not made.                                                               *)
THEOREM TypeCorrect == ContextSpec => []ContextTypeOK
<1>1. IInv => ContextTypeOK
  BY SeqMonotonic DEF IInv, Counted, ContextTypeOK, Said
<1> QED
  BY <1>1, Invariant, PTL

(* For any history, window and watermark, a compacted request still tells  *)
(* the model all it did, and what it was asked, word for word.             *)
THEOREM EvidenceSurvives == ContextSpec => []EvidenceKept
<1>1. ContextInit => EvidenceKept
  BY DEF ContextInit, EvidenceKept
<1>2. IInv /\ EvidenceKept /\ [ContextNext]_contextVars => EvidenceKept'
  <2> SUFFICES ASSUME IInv, EvidenceKept, [ContextNext]_contextVars, phase' = "answer"
               PROVE  EvidenceKept'
    BY DEF EvidenceKept
  <2>1. CASE Ask
    <3>1. request' = Compact(Asked) /\ Asked' = Asked
      BY <2>1 DEF Ask, Asked
    <3>2. Asked \in Seq({m \in Message : m.form = "full"})
      BY AskedType DEF IInv
    <3> QED
      BY <3>1, <3>2, CompactKeeps DEF EvidenceKept
  <2>2. CASE UNCHANGED contextVars
    BY <2>2 DEF contextVars, EvidenceKept, Asked
  <2> QED
    BY <2>1, <2>2 DEF ContextNext, UserSays, AnswerFails, Answer, Observe, Remind
<1> QED
  BY <1>1, <1>2, Invariant, PTL DEF ContextSpec

(* For any outputs, history, window and watermark, what a request carries  *)
(* of tools' outputs stays below the bound.                                *)
THEOREM OutputsBound == ContextSpec => []OutputsBounded
<1> DEFINE a == Max({MaskAbove, MaskNote})
           b == MaxKeep + TrimNote
           c == RetainLast * b + (Limit - RetainLast) * a
<1>1. /\ MaskAbove \in Nat /\ MaskNote \in Nat /\ MaxKeep \in Nat /\ TrimNote \in Nat
      /\ RetainLast \in Nat /\ Limit \in Nat /\ MaxChars \in Nat /\ RetainLast <= Limit
  BY ContextAssumption
<1>2. a \in Nat /\ MaskAbove <= a /\ MaskNote <= a
  BY <1>1, MaxOfTwo
<1>3. b \in Nat /\ MaxKeep <= b /\ b = MaxKeep + TrimNote
  BY <1>1
<1> HIDE DEF a, b
<1>4. c \in Nat
  <2>1. RetainLast * b \in Nat /\ (Limit - RetainLast) * a \in Nat
    BY <1>1, <1>2, <1>3
  <2> QED
    BY <2>1
<1>5. MaxChars <= Max({MaxChars, c}) /\ c <= Max({MaxChars, c}) /\ Max({MaxChars, c}) \in Nat
  <2> HIDE DEF c
  <2> QED
    BY <1>1, <1>4, MaxOfTwo
<1>6. OutputsBounded <=> (phase = "answer" => OutputLength(request) <= Max({MaxChars, c}))
  BY DEF OutputsBounded, a, b
<1>7. OutputsBounded' <=> (phase' = "answer" => OutputLength(request') <= Max({MaxChars, c}))
  BY DEF OutputsBounded, a, b
<1>8. ContextInit => OutputsBounded
  BY DEF ContextInit, OutputsBounded
<1>9. ASSUME IInv PROVE OutputLength(Compact(Asked)) <= Max({MaxChars, c})
  <2>1. /\ Asked \in Seq({m \in Message : m.form = "full"}) /\ Len(Asked) >= 1
        /\ Len(Asked) <= Limit + 1 /\ Asked[1] = System
    BY <1>9, AskedType, AskedBounded DEF IInv
  <2>2. Asked \in Seq(Message) /\ Len(Asked) \in Nat
    BY <2>1, SeqMonotonic, LenProperties
  <2>3. OutputLength(Asked) \in Nat /\ EstimateLength(Asked) \in Nat
    <3>1. Len(Asked) \in 0..Len(Asked)
      BY <2>2
    <3> QED
      BY <2>2, <3>1, OutputFold, EstimateFold
  <2>4. CASE EstimateLength(Asked) < MaxChars
    <3>1. Compact(Asked) = Asked
      BY <2>4 DEF Compact
    <3>2. OutputLength(Asked) <= EstimateLength(Asked)
      BY <2>2, OutputsArePart
    <3> HIDE DEF c
    <3> QED
      BY <1>1, <1>5, <2>3, <2>4, <3>1, <3>2
  <2>5. CASE ~(EstimateLength(Asked) < MaxChars)
    <3> DEFINE msgs == Compact(Asked)
    <3>1. /\ msgs \in Seq(Message) /\ Len(msgs) = Len(Asked)
          /\ \A i \in 1..Len(Asked) : msgs[i] = Compacted(Asked[i], i > Len(Asked) - RetainLast)
      <4>1. msgs = [i \in 1..Len(Asked) |-> Compacted(Asked[i], i > Len(Asked) - RetainLast)]
        BY <2>5 DEF Compact
      <4>2. msgs \in Seq(Message) /\ Len(msgs) = Len(Asked)
        BY <2>1, CompactKeeps
      <4> HIDE DEF msgs
      <4> QED
        BY <4>1, <4>2
    <3>2. ~IsObservation(msgs[1])
      <4>1. 1 \in 1..Len(Asked)
        BY <2>1, <2>2
      <4>2. System.role = "system"
        BY DEF System, Msg
      <4>3. msgs[1] = System
        BY <2>1, <3>1, <4>1, <4>2 DEF Compacted, IsObservation
      <4> HIDE DEF msgs
      <4> QED
        BY <4>2, <4>3 DEF IsObservation
    <3>3. ASSUME NEW i \in 1..Len(msgs), IsObservation(msgs[i])
          PROVE  msgs[i].len <= IF i > Len(msgs) - RetainLast THEN b ELSE a
      <4> DEFINE m == Asked[i]
                 recent == i > Len(Asked) - RetainLast
      <4>1. m \in Message /\ msgs[i] = Compacted(m, recent) /\ recent \in BOOLEAN
        BY <2>2, <3>1, ElementOfSeq
      <4>2. recent <=> i > Len(msgs) - RetainLast
        BY <3>1
      <4>3. IsObservation(msgs[i])
        BY <3>3
      <4> HIDE DEF recent, m, msgs
      <4>4. /\ m.len \in Nat /\ m.role \in {"system", "user", "assistant"}
            /\ m = [role |-> m.role, calls |-> m.calls, answers |-> m.answers,
                    len |-> m.len, args |-> m.args, form |-> m.form]
        BY <4>1 DEF Message
      <4>5. Compacted(m, recent).role = m.role /\ Compacted(m, recent).answers = m.answers
        BY <4>4 DEF Compacted
      <4>6. IsObservation(m)
        BY <4>1, <4>3, <4>5 DEF IsObservation
      <4>7. CASE recent
        <5>1. msgs[i].len = IF m.len > MaxKeep THEN MaxKeep + TrimNote ELSE m.len
          BY <4>1, <4>4, <4>6, <4>7 DEF Compacted, IsObservation
        <5> QED
          BY <1>1, <1>3, <4>2, <4>4, <4>7, <5>1
      <4>8. CASE ~recent
        <5>1. msgs[i].len = IF m.len > MaskAbove THEN MaskNote ELSE m.len
          BY <4>1, <4>4, <4>6, <4>8 DEF Compacted, IsObservation
        <5> QED
          BY <1>1, <1>2, <4>2, <4>4, <4>8, <5>1
      <4> QED
        BY <4>7, <4>8
    <3>4. OutputLength(msgs) \in Nat
      <4>1. Len(msgs) \in 0..Len(msgs)
        BY <2>2, <3>1
      <4> HIDE DEF msgs
      <4> QED
        BY <3>1, <4>1, OutputFold
    <3>5. OutputLength(msgs) <= c
      <4> HIDE DEF msgs
      <4> QED
        BY <1>1, <1>2, <1>3, <2>1, <3>1, <3>2, <3>3, OutputsAddUp
    <3> HIDE DEF c, msgs
    <3>6. OutputLength(msgs) <= Max({MaxChars, c})
      BY <1>4, <1>5, <3>4, <3>5
    <3> QED
      BY <3>6 DEF msgs
  <2> QED
    BY <2>4, <2>5
<1>10. IInv /\ OutputsBounded /\ [ContextNext]_contextVars => OutputsBounded'
  <2> HIDE DEF c
  <2> SUFFICES ASSUME IInv, OutputsBounded, [ContextNext]_contextVars, phase' = "answer"
               PROVE  OutputLength(request') <= Max({MaxChars, c})
    BY <1>7
  <2>1. CASE Ask
    <3>1. request' = Compact(Asked)
      BY <2>1 DEF Ask, Asked
    <3> QED
      BY <1>9, <3>1
  <2>2. CASE UNCHANGED contextVars
    BY <1>6, <2>2 DEF contextVars
  <2> QED
    BY <2>1, <2>2 DEF ContextNext, UserSays, AnswerFails, Answer, Observe, Remind
<1> QED
  BY <1>8, <1>10, Invariant, PTL DEF ContextSpec

-----------------------------------------------------------------------------
(* Pairs.  What the blocks of a request are, message by message; s[k] has  *)
(* those of the first k messages.                                          *)
Block == {"text", "use", "result"} \X Nat

Chain(s, bs, n) ==
  /\ s \in [0..n -> Seq(Block)] /\ bs \in [1..n -> Seq(Block)]
  /\ s[0] = <<>>
  /\ \A k \in 1..n : s[k] = s[k-1] \o bs[k]

(* The p-th block of message i stands behind those of the messages before. *)
Place(s, i, p) == Len(s[i-1]) + p

Laid(s, bs, k) ==
  /\ \A i \in 1..k : \A p \in 1..Len(bs[i]) :
       Place(s, i, p) \in 1..Len(s[k]) /\ s[k][Place(s, i, p)] = bs[i][p]
  /\ \A x \in 1..Len(s[k]) : \E i \in 1..k : \E p \in 1..Len(bs[i]) : x = Place(s, i, p)
  /\ \A i \in 1..k : Place(s, i, Len(bs[i])) <= Len(s[k])

LEMMA SumIn ==
  ASSUME NEW a \in Nat, NEW b \in Nat, NEW c \in Nat, NEW p \in Nat, a + b <= c, p <= b
  PROVE  a + p <= c /\ a + p \in Nat
OBVIOUS

LEMMA ChainLaid ==
  ASSUME NEW n \in Nat, NEW s, NEW bs, Chain(s, bs, n)
  PROVE  \A k \in 0..n : Laid(s, bs, k)
<1> DEFINE T == {k \in 0..n : Laid(s, bs, k)}
<1>1. 0 \in T
  <2>1. Len(s[0]) = 0
    BY EmptySeq DEF Chain
  <2> QED
    BY <2>1 DEF Laid
<1>2. ASSUME NEW k \in 0..(n-1), k \in T PROVE k + 1 \in T
  <2> DEFINE a == s[k]
             b == bs[k+1]
             c == s[k+1]
  <2>1. k + 1 \in 1..n /\ k + 1 \in 0..n /\ (k + 1) - 1 = k /\ k \in 0..n /\ k \in Nat
    OBVIOUS
  <2>2. a \in Seq(Block) /\ b \in Seq(Block) /\ c = a \o b
    BY <2>1 DEF Chain
  <2>3. Laid(s, bs, k)
    BY <1>2
  <2>4. \A p : Place(s, k + 1, p) = Len(a) + p
    BY <2>1 DEF Place
  <2>5. \A i \in 1..k : Len(s[i-1]) \in Nat /\ Len(bs[i]) \in Nat
    <3>1. \A i \in 1..k : i - 1 \in 0..n /\ i \in 1..n
      BY <2>1
    <3>2. \A i \in 1..k : s[i-1] \in Seq(Block) /\ bs[i] \in Seq(Block)
      BY <3>1 DEF Chain
    <3> QED
      BY <3>2, LenProperties
  <2>6. /\ \A i \in 1..k : \A p \in 1..Len(bs[i]) :
             Place(s, i, p) \in 1..Len(a) /\ a[Place(s, i, p)] = bs[i][p]
        /\ \A x \in 1..Len(a) : \E i \in 1..k : \E p \in 1..Len(bs[i]) : x = Place(s, i, p)
        /\ \A i \in 1..k : Place(s, i, Len(bs[i])) <= Len(a)
    BY <2>3 DEF Laid
  <2> HIDE DEF a, b, c
  <2>7. /\ Len(a) \in Nat /\ Len(b) \in Nat /\ Len(c) = Len(a) + Len(b)
        /\ \A i \in 1..(Len(a) + Len(b)) : c[i] = IF i <= Len(a) THEN a[i] ELSE b[i - Len(a)]
    BY <2>2, ConcatProperties, LenProperties
  <2>8. \A i \in 1..(k+1) : i \in 1..k \/ i = k + 1
    BY <2>1
  <2>9. ASSUME NEW i \in 1..(k+1), NEW p \in 1..Len(bs[i])
        PROVE  Place(s, i, p) \in 1..Len(c) /\ c[Place(s, i, p)] = bs[i][p]
    <3>1. CASE i \in 1..k
      <4>1. Place(s, i, p) \in 1..Len(a) /\ a[Place(s, i, p)] = bs[i][p]
        BY <2>6, <3>1
      <4> DEFINE x == Place(s, i, p)
      <4>2. x \in 1..Len(a) /\ a[x] = bs[i][p]
        BY <4>1
      <4> HIDE DEF x
      <4>3. x \in 1..(Len(a) + Len(b)) /\ x <= Len(a)
        BY <2>7, <4>2
      <4>4. c[x] = a[x]
        BY <2>7, <4>3
      <4> QED
        BY <2>7, <4>2, <4>3, <4>4 DEF x
    <3>2. CASE i = k + 1
      <4>1. Place(s, i, p) = Len(a) + p /\ bs[i] = b /\ p \in 1..Len(b)
        BY <2>4, <3>2 DEF b
      <4>2. Len(a) + p \in 1..(Len(a) + Len(b)) /\ ~(Len(a) + p <= Len(a)) /\ (Len(a) + p) - Len(a) = p
        BY <2>7, <4>1
      <4> QED
        BY <2>7, <4>1, <4>2
    <3> QED
      BY <2>8, <3>1, <3>2
  <2>10. ASSUME NEW x \in 1..Len(c)
         PROVE  \E i \in 1..(k+1) : \E p \in 1..Len(bs[i]) : x = Place(s, i, p)
    <3>1. CASE x \in 1..Len(a)
      <4>1. \E i \in 1..k : \E p \in 1..Len(bs[i]) : x = Place(s, i, p)
        BY <2>6, <3>1
      <4>2. \A i \in 1..k : i \in 1..(k+1)
        BY <2>1
      <4> QED
        BY <4>1, <4>2
    <3>2. CASE x \notin 1..Len(a)
      <4>1. x - Len(a) \in 1..Len(b) /\ x = Len(a) + (x - Len(a))
        BY <2>7, <3>2
      <4>2. k + 1 \in 1..(k+1) /\ bs[k+1] = b
        BY <2>1 DEF b
      <4> QED
        BY <2>4, <4>1, <4>2
    <3> QED
      BY <3>1, <3>2
  <2>11. ASSUME NEW i \in 1..(k+1) PROVE Place(s, i, Len(bs[i])) <= Len(c)
    <3>1. CASE i \in 1..k
      <4>1. Place(s, i, Len(bs[i])) <= Len(a)
        BY <2>6, <3>1
      <4>2. Place(s, i, Len(bs[i])) \in Nat
        <5>1. Len(s[i-1]) \in Nat /\ Len(bs[i]) \in Nat
          BY <2>5, <3>1
        <5>2. Len(s[i-1]) + Len(bs[i]) \in Nat
          <6>1. \A x, y \in Nat : x + y \in Nat
            OBVIOUS
          <6> QED
            BY ONLY <5>1, <6>1
        <5> QED
          BY <5>2 DEF Place
      <4> QED
        BY <2>7, <4>1, <4>2
    <3>2. CASE i = k + 1
      <4>1. Place(s, i, Len(bs[i])) = Len(a) + Len(b)
        BY <2>4, <3>2 DEF b
      <4> QED
        BY <2>7, <4>1
    <3> QED
      BY <2>8, <3>1, <3>2
  <2>12. Laid(s, bs, k + 1)
    BY <2>9, <2>10, <2>11 DEF Laid, c
  <2> QED
    BY <2>1, <2>12
<1>3. T = 0..n
  <2>1. T \in SUBSET (0..n)
    OBVIOUS
  <2> HIDE DEF T
  <2> QED
    BY <1>1, <1>2, <2>1, Upwards
<1> QED
  BY <1>3

(* The rule of the APIs, in terms of messages.                             *)
PairedAt(bs, n, i, p) ==
  /\ bs[i][p][1] = "text" => bs[i][p][2] = 0
  /\ bs[i][p][1] = "use" /\ bs[i][p][2] # 0 =>
       \E j \in (i+1)..n :
         /\ bs[j] = << <<"result", bs[i][p][2]>> >>
         /\ \A q \in p..Len(bs[i]) : bs[i][q][1] # "text"
         /\ \A l \in (i+1)..(j-1) : \A q \in 1..Len(bs[l]) : bs[l][q][1] # "text"
  /\ bs[i][p][1] = "result" /\ bs[i][p][2] # 0 =>
       \E j \in 1..n : \E q \in 1..Len(bs[j]) : bs[j][q] = <<"use", bs[i][p][2]>>
  /\ \A j \in 1..n : \A q \in 1..Len(bs[j]) :
       bs[i][p] = bs[j][q] /\ bs[i][p][2] # 0 => i = j /\ p = q

Paired(bs, n) == \A i \in 1..n : \A p \in 1..Len(bs[i]) : PairedAt(bs, n, i, p)

LEMMA BlockParts ==
  ASSUME NEW b \in Block
  PROVE  b = <<b[1], b[2]>> /\ b[1] \in {"text", "use", "result"} /\ b[2] \in Nat
BY DEF Block

LEMMA PairedAreWell ==
  ASSUME NEW n \in Nat, NEW s, NEW bs, Chain(s, bs, n), Paired(bs, n)
  PROVE  WellPaired(s[n])
<1> DEFINE B == s[n]
           at(kind, id) == {x \in 1..Len(B) : B[x] = <<kind, id>>}
<1>1. \A k \in 0..n : Laid(s, bs, k)
  BY ChainLaid
<1>2. /\ \A i \in 1..n : \A p \in 1..Len(bs[i]) :
           Place(s, i, p) \in 1..Len(B) /\ B[Place(s, i, p)] = bs[i][p]
      /\ \A x \in 1..Len(B) : \E i \in 1..n : \E p \in 1..Len(bs[i]) : x = Place(s, i, p)
  <2>1. n \in 0..n
    OBVIOUS
  <2> QED
    BY <1>1, <2>1 DEF Laid
<1>3. /\ \A i \in 1..n : bs[i] \in Seq(Block) /\ Len(bs[i]) \in Nat /\ Len(s[i-1]) \in Nat
      /\ \A i \in 1..n : \A p \in 1..Len(bs[i]) : bs[i][p] \in Block
  <2>1. \A i \in 1..n : i - 1 \in 0..n
    OBVIOUS
  <2>2. \A i \in 1..n : bs[i] \in Seq(Block) /\ s[i-1] \in Seq(Block)
    BY <2>1 DEF Chain
  <2> QED
    BY <2>2, LenProperties, ElementOfSeq
<1>4. ASSUME NEW i \in 1..n, NEW j \in 1..n, i < j
      PROVE  Len(s[i-1]) + Len(bs[i]) <= Len(s[j-1])
  <2>1. j - 1 \in 0..n /\ i \in 1..(j-1)
    BY <1>4
  <2> QED
    BY <1>1, <2>1 DEF Laid, Place
<1> HIDE DEF B
<1> DEFINE Good(id) == \E u, r \in 1..Len(B) :
                         /\ at("use", id) = {u} /\ at("result", id) = {r} /\ u < r
                         /\ \A x \in u..r : B[x][1] # "text"
<1>5. ASSUME NEW id, NEW i \in 1..n, NEW p \in 1..Len(bs[i]),
             bs[i][p] = <<"use", id>>, id # 0
      PROVE  Good(id)
  <2>0. bs[i][p][1] = "use" /\ bs[i][p][2] = id
    BY <1>5
  <2>1. PICK j \in (i+1)..n :
           /\ bs[j] = << <<"result", id>> >>
           /\ \A q \in p..Len(bs[i]) : bs[i][q][1] # "text"
           /\ \A l \in (i+1)..(j-1) : \A q \in 1..Len(bs[l]) : bs[l][q][1] # "text"
    BY <1>5, <2>0 DEF Paired, PairedAt
  <2>2. j \in 1..n /\ i < j
    OBVIOUS
  <2>3. Len(bs[j]) = 1 /\ bs[j][1] = <<"result", id>> /\ 1 \in 1..Len(bs[j])
    BY <2>1
  <2>4. bs[i][p] = <<"use", id>> /\ id # 0 /\ id \in Nat
    BY <1>3, <1>5, <2>0, BlockParts
  <2> DEFINE u == Place(s, i, p)
             r == Place(s, j, 1)
  <2>5. u \in 1..Len(B) /\ B[u] = <<"use", id>> /\ r \in 1..Len(B) /\ B[r] = <<"result", id>>
    BY <1>2, <2>2, <2>3, <2>4
  <2>6. ASSUME NEW x \in 1..Len(B), B[x] = <<"use", id>> PROVE x = u
    <3>1. PICK k \in 1..n : \E q \in 1..Len(bs[k]) : x = Place(s, k, q)
      BY <1>2
    <3>2. PICK q \in 1..Len(bs[k]) : x = Place(s, k, q)
      BY <3>1
    <3>3. bs[k][q] = bs[i][p]
      BY <1>2, <2>4, <2>6, <3>2
    <3>4. k = i /\ q = p
      BY <1>5, <2>0, <3>3 DEF Paired, PairedAt
    <3> QED
      BY <3>2, <3>4
  <2>7. ASSUME NEW x \in 1..Len(B), B[x] = <<"result", id>> PROVE x = r
    <3>1. PICK k \in 1..n : \E q \in 1..Len(bs[k]) : x = Place(s, k, q)
      BY <1>2
    <3>2. PICK q \in 1..Len(bs[k]) : x = Place(s, k, q)
      BY <3>1
    <3>0. bs[k][q] = <<"result", id>>
      BY <1>2, <2>7, <3>2
    <3>3. bs[k][q] = bs[j][1] /\ bs[k][q][2] # 0
      BY <2>3, <2>4, <3>0
    <3>4. k = j /\ q = 1
      BY <2>2, <2>3, <3>3 DEF Paired, PairedAt
    <3> QED
      BY <3>2, <3>4
  <2>8. u < r
    <3>1. Len(s[i-1]) + Len(bs[i]) <= Len(s[j-1])
      BY <1>4, <2>2
    <3>2. /\ u = Len(s[i-1]) + p /\ r = Len(s[j-1]) + 1
          /\ Len(s[i-1]) \in Nat /\ Len(s[j-1]) \in Nat /\ Len(bs[i]) \in Nat
          /\ p \in Nat /\ p <= Len(bs[i])
      BY <1>3, <2>2 DEF Place
    <3>3. Len(s[i-1]) + p <= Len(s[j-1])
      BY <3>1, <3>2, SumIn
    <3> HIDE DEF u, r
    <3> QED
      BY <3>2, <3>3
  <2>9. ASSUME NEW x \in u..r PROVE B[x][1] # "text"
    <3>0. x \in 1..Len(B)
      <4>1. u \in Int /\ r \in Int /\ Len(B) \in Nat /\ 1 <= u /\ r <= Len(B)
        <5>1. B \in Seq(Block)
          BY DEF Chain, B
        <5> QED
          BY <2>5, <5>1, LenProperties
      <4> HIDE DEF u, r
      <4> QED
        BY <4>1
    <3>1. PICK l \in 1..n : \E q \in 1..Len(bs[l]) : x = Place(s, l, q)
      BY <1>2, <3>0
    <3>2. PICK q \in 1..Len(bs[l]) : x = Place(s, l, q)
      BY <3>1
    <3>3. B[x] = bs[l][q]
      BY <1>2, <3>2
    <3>4. /\ x = Len(s[l-1]) + q /\ u = Len(s[i-1]) + p /\ r = Len(s[j-1]) + 1
          /\ Len(s[l-1]) \in Nat /\ Len(s[i-1]) \in Nat /\ Len(s[j-1]) \in Nat
          /\ Len(bs[l]) \in Nat /\ Len(bs[i]) \in Nat
      BY <1>3, <2>2, <3>2 DEF Place
    <3>5. ~(l < i)
      <4> SUFFICES ASSUME l < i PROVE FALSE
        OBVIOUS
      <4>1. Len(s[l-1]) + Len(bs[l]) <= Len(s[i-1])
        BY <1>4
      <4>2. u <= x /\ q <= Len(bs[l]) /\ q \in Nat /\ p \in Nat /\ p >= 1
        BY <3>4
      <4> HIDE DEF u, r
      <4>3. x <= Len(s[i-1])
        BY <3>4, <4>1, <4>2, SumIn
      <4>4. u > Len(s[i-1])
        BY ONLY <3>4, <4>2
      <4> QED
        BY ONLY <3>4, <4>2, <4>3, <4>4
    <3>6. ~(j < l)
      <4> SUFFICES ASSUME j < l PROVE FALSE
        OBVIOUS
      <4>1. Len(s[j-1]) + Len(bs[j]) <= Len(s[l-1])
        BY <1>4, <2>2
      <4>2. x <= r /\ q \in Nat /\ q >= 1
        BY <3>4
      <4> QED
        BY ONLY <2>3, <3>4, <4>1, <4>2
    <3>7. CASE l = i
      <4>1. u <= x /\ p \in Nat /\ q \in Nat
        BY <3>4
      <4>2. p <= q
        BY ONLY <3>4, <3>7, <4>1
      <4>3. q \in p..Len(bs[i])
        BY ONLY <3>4, <3>7, <4>1, <4>2, q \in 1..Len(bs[l])
      <4> QED
        BY <2>1, <3>3, <3>7, <4>3
    <3>8. CASE l = j
      <4>0. Len(bs[l]) = 1
        BY <2>3, <3>8
      <4>1. q = 1
        BY <4>0
      <4> QED
        BY <2>3, <3>3, <3>8, <4>1
    <3>9. CASE i < l /\ l < j
      <4>1. l \in (i+1)..(j-1)
        BY <3>9
      <4> QED
        BY <2>1, <3>3, <4>1
    <3> QED
      BY <3>5, <3>6, <3>7, <3>8, <3>9
  <2> HIDE DEF u, r
  <2>10. at("use", id) = {u} /\ at("result", id) = {r}
    BY <2>5, <2>6, <2>7
  <2> QED
    BY <2>5, <2>8, <2>9, <2>10
<1>6. ASSUME NEW id \in {B[x][2] : x \in 1..Len(B)} \ {0}
      PROVE  Good(id)
  <2> HIDE DEF Good
  <2>1. PICK x \in 1..Len(B) : B[x][2] = id
    OBVIOUS
  <2>2. PICK i \in 1..n : \E p \in 1..Len(bs[i]) : x = Place(s, i, p)
    BY <1>2
  <2>3. PICK p \in 1..Len(bs[i]) : x = Place(s, i, p)
    BY <2>2
  <2>4. bs[i][p][2] = id /\ id # 0 /\ bs[i][p] \in Block
    BY <1>2, <1>3, <2>1, <2>3
  <2>5. bs[i][p][1] \in {"use", "result"}
    BY <2>4, BlockParts DEF Paired, PairedAt
  <2>6. CASE bs[i][p][1] = "use"
    <3>1. bs[i][p] = <<"use", id>>
      BY <2>4, <2>6, BlockParts
    <3> QED
      BY <1>5, <2>4, <3>1
  <2>7. CASE bs[i][p][1] = "result"
    <3>1. PICK j \in 1..n : \E q \in 1..Len(bs[j]) : bs[j][q] = <<"use", id>>
      BY <2>4, <2>7 DEF Paired, PairedAt
    <3>2. PICK q \in 1..Len(bs[j]) : bs[j][q] = <<"use", id>>
      BY <3>1
    <3> QED
      BY <1>5, <2>4, <3>2
  <2> QED
    BY <2>5, <2>6, <2>7
<1> QED
  BY <1>6 DEF WellPaired, B

-----------------------------------------------------------------------------
(* Calls and answers are in place: the k-th call of a message is answered  *)
(* by the k-th message behind it.  Linked looks from the answers back,     *)
(* Answered from the calls of the first n messages forward.                *)
Linked(h) ==
  \A i \in 1..Len(h) :
    /\ h[i].role # "assistant" => h[i].calls = <<>>
    /\ h[i].role # "user" => h[i].answers = 0
    /\ \A k \in 1..Len(h[i].calls) : h[i].calls[k] # 0
    /\ \A k \in 1..Len(h[i].calls) : \A j \in 1..Len(h) : \A l \in 1..Len(h[j].calls) :
         h[i].calls[k] = h[j].calls[l] => i = j /\ k = l
    /\ h[i].answers # 0 =>
         \E j \in 1..(i-1) : \E k \in 1..Len(h[j].calls) :
           i = j + k /\ h[i].answers = h[j].calls[k]

Answered(h, n) ==
  \A i \in 1..n : \A k \in 1..Len(h[i].calls) :
    i + k <= Len(h) /\ h[i+k].answers = h[i].calls[k]

LEMMA SameCall ==
  ASSUME NEW h, Linked(h), NEW i \in 1..Len(h), NEW k \in 1..Len(h[i].calls),
         NEW j \in 1..Len(h), NEW l \in 1..Len(h[j].calls), h[i].calls[k] = h[j].calls[l]
  PROVE  i = j /\ k = l
<1>1. \A y \in 1..Len(h) : \A z \in 1..Len(h[y].calls) :
        h[i].calls[k] = h[y].calls[z] => i = y /\ k = z
  BY DEF Linked
<1> QED
  BY <1>1

LEMMA CallerOf ==
  ASSUME NEW h, Linked(h), NEW i \in 1..Len(h), h[i].answers # 0
  PROVE  \E j \in 1..(i-1) : \E k \in 1..Len(h[j].calls) :
           i = j + k /\ h[i].answers = h[j].calls[k]
BY DEF Linked

LEMMA Joined ==
  ASSUME NEW h \in Seq(Said), NEW e \in Seq(Said)
  PROVE  /\ Len(h \o e) = Len(h) + Len(e) /\ Len(h) \in Nat /\ Len(e) \in Nat
         /\ \A i \in 1..Len(h) : (h \o e)[i] = h[i]
         /\ \A x \in 1..Len(e) : (h \o e)[Len(h) + x] = e[x]
<1> DEFINE g == h \o e
<1>1. /\ g \in Seq(Said) /\ Len(g) = Len(h) + Len(e) /\ Len(h) \in Nat /\ Len(e) \in Nat
      /\ \A i \in 1..(Len(h) + Len(e)) : g[i] = IF i <= Len(h) THEN h[i] ELSE e[i - Len(h)]
  BY ConcatProperties, LenProperties
<1> HIDE DEF g
<1>2. \A i \in 1..Len(h) : i \in 1..(Len(h) + Len(e)) /\ i <= Len(h)
  BY <1>1
<1>3. \A x \in 1..Len(e) : /\ Len(h) + x \in 1..(Len(h) + Len(e)) /\ ~(Len(h) + x <= Len(h))
                          /\ (Len(h) + x) - Len(h) = x
  BY <1>1
<1>4. \A i \in 1..Len(h) : g[i] = h[i]
  BY <1>1, <1>2
<1>5. \A x \in 1..Len(e) : g[Len(h) + x] = e[x]
  BY <1>1, <1>3
<1> QED
  BY <1>1, <1>4, <1>5 DEF g

(* What both translations make of a message, but for what neither a call   *)
(* nor an answer is in.                                                    *)
BlocksFit(m, b) ==
  \/ m.answers # 0 /\ b = << <<"result", m.answers>> >>
  \/ m.role = "assistant" /\ m.answers = 0 /\ b = TextBlock(m) \o Uses(m)
  \/ m.role # "assistant" /\ m.answers = 0 /\ b \in {<<>>, << <<"text", 0>> >>}

(* The number of texts before the calls.                                   *)
Lead(m, b) == Len(b) - Len(m.calls)

LEMMA AssistantBlocks ==
  ASSUME NEW m \in Message
  PROVE  LET b == TextBlock(m) \o Uses(m)
         IN  /\ b \in Seq(Block) /\ Lead(m, b) \in Nat
             /\ m.len > 0 \/ m.calls # <<>> => b # <<>>
             /\ \A p \in 1..Len(b) :
                  IF p <= Lead(m, b) THEN b[p] = <<"text", 0>>
                  ELSE p - Lead(m, b) \in 1..Len(m.calls)
                       /\ b[p] = <<"use", m.calls[p - Lead(m, b)]>>
             /\ \A k \in 1..Len(m.calls) :
                  Lead(m, b) + k \in 1..Len(b) /\ b[Lead(m, b) + k] = <<"use", m.calls[k]>>
<1> DEFINE t == TextBlock(m)
           u == Uses(m)
           b == t \o u
           c == m.calls
<1>1. c \in Seq(Nat) /\ m.len \in Nat /\ Len(c) \in Nat
  BY LenProperties DEF Message
<1>2. \A k \in 1..Len(c) : c[k] \in Nat
  BY <1>1, ElementOfSeq
<1>3. /\ u \in Seq(Block) /\ Len(u) = Len(c)
      /\ \A k \in 1..Len(c) : u[k] = <<"use", c[k]>>
  <2>1. \A k \in 1..Len(c) : <<"use", c[k]>> \in Block
    BY <1>2 DEF Block
  <2>2. u = [k \in 1..Len(c) |-> <<"use", c[k]>>]
    BY DEF Uses
  <2> HIDE DEF u, c
  <2>3. u \in [1..Len(c) -> Block] /\ DOMAIN u = 1..Len(c)
    BY <2>1, <2>2
  <2>4. u \in Seq(Block)
    BY <1>1, <2>3, SeqDef
  <2>5. Len(u) = Len(c)
    BY <1>1, <2>3, <2>4, LenProperties
  <2> QED
    BY <2>2, <2>4, <2>5
<1>4. /\ t \in Seq(Block) /\ Len(t) \in {0, 1} /\ (m.len > 0 => Len(t) = 1)
      /\ \A p \in 1..Len(t) : t[p] = <<"text", 0>>
  <2>1. <<"text", 0>> \in Block
    BY DEF Block
  <2>2. CASE m.len > 0
    BY <2>1, <2>2 DEF TextBlock
  <2>3. CASE ~(m.len > 0)
    <3>1. t = <<>>
      BY <2>3 DEF TextBlock
    <3> QED
      BY <2>3, <3>1, EmptySeq
  <2> QED
    BY <2>2, <2>3
<1> HIDE DEF t, u, c
<1>5. /\ b \in Seq(Block) /\ Len(b) = Len(t) + Len(c) /\ Len(t) \in Nat
      /\ \A p \in 1..(Len(t) + Len(c)) : b[p] = IF p <= Len(t) THEN t[p] ELSE u[p - Len(t)]
  BY <1>3, <1>4, ConcatProperties
<1> HIDE DEF b
<1>6. Lead(m, b) = Len(t)
  BY <1>1, <1>5 DEF Lead, c
<1>7. \A p \in 1..Len(b) :
        IF p <= Len(t) THEN b[p] = <<"text", 0>>
        ELSE p - Len(t) \in 1..Len(c) /\ b[p] = <<"use", c[p - Len(t)]>>
  <2> SUFFICES ASSUME NEW p \in 1..Len(b)
               PROVE  IF p <= Len(t) THEN b[p] = <<"text", 0>>
                      ELSE p - Len(t) \in 1..Len(c) /\ b[p] = <<"use", c[p - Len(t)]>>
    OBVIOUS
  <2>1. p \in 1..(Len(t) + Len(c))
    BY <1>5
  <2>2. CASE p <= Len(t)
    <3>1. p \in 1..Len(t) /\ b[p] = t[p]
      BY <1>5, <2>1, <2>2
    <3> QED
      BY <1>4, <2>2, <3>1
  <2>3. CASE ~(p <= Len(t))
    <3>1. b[p] = u[p - Len(t)] /\ p - Len(t) \in 1..Len(c)
      BY <1>1, <1>5, <2>1, <2>3
    <3> QED
      BY <1>3, <2>3, <3>1
  <2> QED
    BY <2>2, <2>3
<1>8. \A k \in 1..Len(c) :
        Len(t) + k \in 1..Len(b) /\ b[Len(t) + k] = <<"use", c[k]>>
  <2> SUFFICES ASSUME NEW k \in 1..Len(c)
               PROVE  Len(t) + k \in 1..Len(b) /\ b[Len(t) + k] = <<"use", c[k]>>
    OBVIOUS
  <2>1. /\ Len(t) + k \in 1..(Len(t) + Len(c)) /\ ~(Len(t) + k <= Len(t))
        /\ (Len(t) + k) - Len(t) = k
    BY <1>1, <1>5
  <2>2. b[Len(t) + k] = u[k]
    BY <1>5, <2>1
  <2> QED
    BY <1>3, <1>5, <2>1, <2>2
<1>9. m.len > 0 \/ c # <<>> => b # <<>>
  <2>1. c # <<>> => Len(c) # 0
    BY <1>1, EmptySeq
  <2>2. m.len > 0 \/ c # <<>> => Len(b) # 0
    BY <1>1, <1>4, <1>5, <2>1
  <2> QED
    BY <1>5, <2>2, EmptySeq
<1> QED
  BY <1>5, <1>6, <1>7, <1>8, <1>9 DEF b, t, u, c

(* A message's blocks, whatever it is.                                     *)
BlocksOk(m, b) ==
  /\ b \in Seq(Block)
  /\ m.answers # 0 => b = << <<"result", m.answers>> >>
  /\ m.answers = 0 =>
       /\ \A p \in 1..Len(b) :
            IF p <= Lead(m, b) THEN b[p] = <<"text", 0>>
            ELSE p - Lead(m, b) \in 1..Len(m.calls)
                 /\ b[p] = <<"use", m.calls[p - Lead(m, b)]>>
       /\ \A k \in 1..Len(m.calls) :
            Lead(m, b) + k \in 1..Len(b) /\ b[Lead(m, b) + k] = <<"use", m.calls[k]>>
  /\ Lead(m, b) \in Int

LEMMA FittingBlocks ==
  ASSUME NEW m \in Message, NEW b, BlocksFit(m, b),
         m.role # "assistant" => m.calls = <<>>
  PROVE  BlocksOk(m, b)
<1>0. Len(m.calls) \in Nat /\ m.answers \in Nat
  BY LenProperties DEF Message
<1>1. CASE m.answers # 0
  <2>1. b = << <<"result", m.answers>> >>
    BY <1>1 DEF BlocksFit
  <2>2. <<"result", m.answers>> \in Block
    BY <1>0 DEF Block
  <2>3. b \in Seq(Block) /\ Len(b) = 1
    BY <2>1, <2>2
  <2>4. Lead(m, b) \in Int
    BY <1>0, <2>3 DEF Lead
  <2> QED
    BY <1>1, <2>1, <2>3, <2>4 DEF BlocksOk
<1>2. CASE m.role = "assistant" /\ m.answers = 0
  <2>1. b = TextBlock(m) \o Uses(m)
    BY <1>2 DEF BlocksFit
  <2> QED
    <3>1. b \in Seq(Block) /\ Lead(m, b) \in Nat
      BY <2>1, AssistantBlocks
    <3>2. \A p \in 1..Len(b) :
            IF p <= Lead(m, b) THEN b[p] = <<"text", 0>>
            ELSE p - Lead(m, b) \in 1..Len(m.calls)
                 /\ b[p] = <<"use", m.calls[p - Lead(m, b)]>>
      BY <2>1, AssistantBlocks
    <3>3. \A k \in 1..Len(m.calls) :
            Lead(m, b) + k \in 1..Len(b) /\ b[Lead(m, b) + k] = <<"use", m.calls[k]>>
      BY <2>1, AssistantBlocks
    <3> QED
      BY <1>2, <3>1, <3>2, <3>3 DEF BlocksOk
<1>3. CASE m.role # "assistant" /\ m.answers = 0
  <2>1. b \in {<<>>, << <<"text", 0>> >>} /\ m.calls = <<>>
    BY <1>3 DEF BlocksFit
  <2>2. Len(m.calls) = 0
    BY <2>1, EmptySeq
  <2>3. b \in Seq(Block) /\ Len(b) \in Nat
    <3>1. <<"text", 0>> \in Block
      BY DEF Block
    <3>2. << <<"text", 0>> >> \in Seq(Block)
      BY <3>1
    <3>3. <<>> \in Seq(Block)
      BY EmptySeq
    <3>4. b \in Seq(Block)
      BY <2>1, <3>2, <3>3
    <3> QED
      BY <3>4, LenProperties
  <2>4. Lead(m, b) = Len(b)
    BY <2>2, <2>3 DEF Lead
  <2>5. \A p \in 1..Len(b) : b[p] = <<"text", 0>>
    <3>1. CASE b = <<>>
      <4>1. Len(b) = 0
        BY <3>1, EmptySeq
      <4> QED
        BY <4>1
    <3>2. CASE b = << <<"text", 0>> >>
      BY <3>2
    <3> QED
      BY <2>1, <3>1, <3>2
  <2> QED
    BY <1>3, <2>2, <2>3, <2>4, <2>5 DEF BlocksOk
<1> QED
  BY <1>1, <1>2, <1>3 DEF BlocksFit

LEMMA BlocksArePaired ==
  ASSUME NEW n \in Nat, NEW r, NEW bs, Len(r) = n,
         Linked(r), Answered(r, n),
         \A i \in 1..n : r[i] \in Message /\ BlocksOk(r[i], bs[i])
  PROVE  Paired(bs, n)
<1>1. \A i \in 1..n : /\ r[i].answers \in Nat /\ r[i].calls \in Seq(Nat)
                      /\ Len(r[i].calls) \in Nat
  <2>1. \A i \in 1..n : r[i].answers \in Nat /\ r[i].calls \in Seq(Nat)
    BY DEF Message
  <2> QED
    BY <2>1, LenProperties
<1>2. \A i \in 1..n : Len(bs[i]) \in Nat /\ Lead(r[i], bs[i]) \in Int
  BY LenProperties DEF BlocksOk
(* What stands in a place tells of the message.                            *)
<1>3. ASSUME NEW i \in 1..n, r[i].answers # 0
      PROVE  /\ bs[i] = << <<"result", r[i].answers>> >> /\ Len(bs[i]) = 1
             /\ \A p \in 1..Len(bs[i]) : p = 1 /\ bs[i][p] = <<"result", r[i].answers>>
  <2>1. bs[i] = << <<"result", r[i].answers>> >>
    BY <1>3 DEF BlocksOk
  <2>2. Len(bs[i]) = 1
    BY <2>1
  <2>3. \A p \in 1..Len(bs[i]) : p = 1
    BY <2>2
  <2> QED
    BY <2>1, <2>2, <2>3
<1>4. ASSUME NEW i \in 1..n, NEW p \in 1..Len(bs[i]), bs[i][p][1] = "text"
      PROVE  bs[i][p] = <<"text", 0>> /\ r[i].answers = 0 /\ p <= Lead(r[i], bs[i])
  <2>1. r[i].answers = 0
    BY <1>3, <1>4
  <2>2. CASE p <= Lead(r[i], bs[i])
    BY <2>1, <2>2 DEF BlocksOk
  <2>3. CASE ~(p <= Lead(r[i], bs[i]))
    <3>1. bs[i][p] = <<"use", r[i].calls[p - Lead(r[i], bs[i])]>>
      BY <2>1, <2>3 DEF BlocksOk
    <3> QED
      BY <1>4, <3>1
  <2> QED
    BY <2>2, <2>3
<1>5. ASSUME NEW i \in 1..n, NEW p \in 1..Len(bs[i]), bs[i][p][1] = "use"
      PROVE  /\ r[i].answers = 0
             /\ \E k \in 1..Len(r[i].calls) :
                  p = Lead(r[i], bs[i]) + k /\ bs[i][p] = <<"use", r[i].calls[k]>>
  <2>1. r[i].answers = 0
    BY <1>3, <1>5
  <2>2. CASE p <= Lead(r[i], bs[i])
    <3>1. bs[i][p] = <<"text", 0>>
      BY <2>1, <2>2 DEF BlocksOk
    <3> QED
      BY <1>5, <3>1
  <2>3. CASE ~(p <= Lead(r[i], bs[i]))
    <3> DEFINE d == Lead(r[i], bs[i])
               k == p - d
    <3>1. k \in 1..Len(r[i].calls) /\ bs[i][p] = <<"use", r[i].calls[k]>>
      BY <2>1, <2>3 DEF BlocksOk
    <3>2. p = d + k
      <4>1. d \in Int /\ p \in Int
        BY <1>2
      <4> HIDE DEF d
      <4> QED
        BY <4>1
    <3> QED
      BY <2>1, <3>1, <3>2
  <2> QED
    BY <2>2, <2>3
<1>6. ASSUME NEW i \in 1..n, NEW p \in 1..Len(bs[i]), bs[i][p][1] = "result"
      PROVE  r[i].answers # 0 /\ bs[i][p] = <<"result", r[i].answers>> /\ p = 1
  <2>1. CASE r[i].answers # 0
    BY <1>3, <2>1
  <2>2. CASE r[i].answers = 0
    <3>1. CASE p <= Lead(r[i], bs[i])
      <4>1. bs[i][p] = <<"text", 0>>
        BY <2>2, <3>1 DEF BlocksOk
      <4> QED
        BY <1>6, <4>1
    <3>2. CASE ~(p <= Lead(r[i], bs[i]))
      <4>1. bs[i][p] = <<"use", r[i].calls[p - Lead(r[i], bs[i])]>>
        BY <2>2, <3>2 DEF BlocksOk
      <4> QED
        BY <1>6, <4>1
    <3> QED
      BY <3>1, <3>2
  <2> QED
    BY <2>1, <2>2
(* A call's answers follow it at once.                                     *)
<1>7. ASSUME NEW i \in 1..n, NEW k \in 1..Len(r[i].calls)
      PROVE  /\ i + k \in (i+1)..n /\ r[i+k].answers # 0
             /\ bs[i+k] = << <<"result", r[i].calls[k]>> >>
  <2>1. i + k <= n /\ r[i+k].answers = r[i].calls[k] /\ r[i].calls[k] # 0
    BY DEF Answered, Linked
  <2>2. i + k \in (i+1)..n /\ i + k \in 1..n
    BY <1>1, <2>1
  <2> QED
    BY <1>3, <2>1, <2>2
<1>8. ASSUME NEW i \in 1..n, NEW p \in 1..Len(bs[i]), bs[i][p][1] = "use"
      PROVE  \E j \in (i+1)..n :
               /\ bs[j] = << <<"result", bs[i][p][2]>> >>
               /\ \A q \in p..Len(bs[i]) : bs[i][q][1] # "text"
               /\ \A l \in (i+1)..(j-1) : \A q \in 1..Len(bs[l]) : bs[l][q][1] # "text"
  <2> DEFINE d == Lead(r[i], bs[i])
  <2>1. PICK k \in 1..Len(r[i].calls) : p = d + k /\ bs[i][p] = <<"use", r[i].calls[k]>>
    BY <1>5, <1>8
  <2>2. i + k \in (i+1)..n /\ bs[i+k] = << <<"result", bs[i][p][2]>> >>
    BY <1>7, <2>1
  <2>3. ASSUME NEW q \in p..Len(bs[i]), bs[i][q][1] = "text" PROVE FALSE
    <3>1. d \in Int /\ Len(bs[i]) \in Nat
      BY <1>2
    <3>2. q \in 1..Len(bs[i])
      BY <3>1
    <3>3. q <= d
      BY <1>4, <2>3, <3>2
    <3> HIDE DEF d
    <3> QED
      BY <2>1, <3>1, <3>3
  <2>4. ASSUME NEW l \in (i+1)..((i+k)-1), NEW q \in 1..Len(bs[l]), bs[l][q][1] = "text"
        PROVE  FALSE
    <3>0. i \in Nat /\ k \in Nat /\ Len(r[i].calls) \in Nat /\ k <= Len(r[i].calls)
          /\ i + k <= n /\ i >= 1 /\ l \in Int /\ i + 1 <= l /\ l <= (i + k) - 1
      BY <1>1, <2>2
    <3>1. l - i \in 1..Len(r[i].calls) /\ l = i + (l - i) /\ l \in 1..n
      BY ONLY <3>0, n \in Nat
    <3>2. r[l].answers # 0
      BY <1>7, <3>1
    <3> QED
      BY <1>4, <2>4, <3>1, <3>2
  <2> QED
    BY <2>2, <2>3, <2>4
<1>9. ASSUME NEW i \in 1..n, NEW p \in 1..Len(bs[i]), bs[i][p][1] = "result"
      PROVE  \E j \in 1..n : \E q \in 1..Len(bs[j]) : bs[j][q] = <<"use", bs[i][p][2]>>
  <2>1. r[i].answers # 0 /\ bs[i][p] = <<"result", r[i].answers>>
    BY <1>6, <1>9
  <2>2. PICK j \in 1..(i-1) : \E k \in 1..Len(r[j].calls) : r[i].answers = r[j].calls[k]
    BY <2>1 DEF Linked
  <2>3. PICK k \in 1..Len(r[j].calls) : r[i].answers = r[j].calls[k]
    BY <2>2
  <2>4. j \in 1..n
    OBVIOUS
  <2>5. r[j].role = "assistant" /\ r[j].answers = 0
    <3>1. r[j].calls # <<>>
      <4>1. Len(r[j].calls) # 0
        BY <1>1, <2>3, <2>4
      <4> QED
        BY <4>1, EmptySeq
    <3> QED
      BY <2>4, <3>1 DEF Linked
  <2>6. /\ Lead(r[j], bs[j]) + k \in 1..Len(bs[j])
        /\ bs[j][Lead(r[j], bs[j]) + k] = <<"use", r[j].calls[k]>>
    BY <2>4, <2>5 DEF BlocksOk
  <2> QED
    BY <2>1, <2>3, <2>4, <2>6
<1>10. ASSUME NEW i \in 1..n, NEW p \in 1..Len(bs[i]),
              NEW j \in 1..n, NEW q \in 1..Len(bs[j]),
              bs[i][p] = bs[j][q], bs[i][p][2] # 0
       PROVE  i = j /\ p = q
  <2>1. bs[i][p] \in Block
    BY ElementOfSeq DEF BlocksOk
  <2>2. CASE bs[i][p][1] = "text"
    <3>1. bs[i][p] = <<"text", 0>>
      BY <1>4, <2>2
    <3> QED
      BY <1>10, <3>1
  <2>3. CASE bs[i][p][1] = "use"
    <3>1. PICK k \in 1..Len(r[i].calls) :
            p = Lead(r[i], bs[i]) + k /\ bs[i][p] = <<"use", r[i].calls[k]>>
      BY <1>5, <2>3
    <3>2. PICK l \in 1..Len(r[j].calls) :
            q = Lead(r[j], bs[j]) + l /\ bs[j][q] = <<"use", r[j].calls[l]>>
      BY <1>5, <1>10, <2>3
    <3>3. r[i].calls[k] = r[j].calls[l]
      BY <1>10, <3>1, <3>2
    <3>4. i = j /\ k = l
      BY <3>3, SameCall
    <3> QED
      BY <3>1, <3>2, <3>4
  <2>4. CASE bs[i][p][1] = "result"
    <3>1. /\ r[i].answers # 0 /\ bs[i][p] = <<"result", r[i].answers>> /\ p = 1
          /\ r[j].answers # 0 /\ bs[j][q] = <<"result", r[j].answers>> /\ q = 1
      BY <1>6, <1>10, <2>4
    <3>2. PICK a \in 1..(i-1) : \E k \in 1..Len(r[a].calls) :
            i = a + k /\ r[i].answers = r[a].calls[k]
      BY <3>1, CallerOf
    <3>3. PICK k \in 1..Len(r[a].calls) : i = a + k /\ r[i].answers = r[a].calls[k]
      BY <3>2
    <3>4. PICK b \in 1..(j-1) : \E l \in 1..Len(r[b].calls) :
            j = b + l /\ r[j].answers = r[b].calls[l]
      BY <3>1, CallerOf
    <3>5. PICK l \in 1..Len(r[b].calls) : j = b + l /\ r[j].answers = r[b].calls[l]
      BY <3>4
    <3>6. r[a].calls[k] = r[b].calls[l] /\ a \in 1..n /\ b \in 1..n
      <4>1. r[i].answers = r[j].answers
        <5>1. bs[i][p][2] = r[i].answers
          BY <3>1
        <5>2. bs[j][q][2] = r[j].answers
          BY <3>1
        <5> QED
          BY <1>10, <5>1, <5>2
      <4> QED
        BY <3>3, <3>5, <4>1
    <3>7. a = b /\ k = l
      BY <3>6, SameCall
    <3> QED
      BY <3>1, <3>3, <3>5, <3>7
  <2> QED
    BY <2>1, <2>2, <2>3, <2>4, BlockParts
<1>11. ASSUME NEW i \in 1..n, NEW p \in 1..Len(bs[i]), bs[i][p][1] = "text"
       PROVE  bs[i][p][2] = 0
  <2>1. bs[i][p] = <<"text", 0>>
    BY <1>4, <1>11
  <2> QED
    BY <2>1
<1> QED
  <2> SUFFICES ASSUME NEW i \in 1..n, NEW p \in 1..Len(bs[i])
               PROVE  PairedAt(bs, n, i, p)
    BY DEF Paired
  <2>1. bs[i][p][1] = "use" /\ bs[i][p][2] # 0 =>
          \E j \in (i+1)..n :
            /\ bs[j] = << <<"result", bs[i][p][2]>> >>
            /\ \A q \in p..Len(bs[i]) : bs[i][q][1] # "text"
            /\ \A l \in (i+1)..(j-1) : \A q \in 1..Len(bs[l]) : bs[l][q][1] # "text"
    BY <1>8
  <2>2. bs[i][p][1] = "result" /\ bs[i][p][2] # 0 =>
          \E j \in 1..n : \E q \in 1..Len(bs[j]) : bs[j][q] = <<"use", bs[i][p][2]>>
    BY <1>9
  <2>3. \A j \in 1..n : \A q \in 1..Len(bs[j]) :
          bs[i][p] = bs[j][q] /\ bs[i][p][2] # 0 => i = j /\ p = q
    BY <1>10
  <2>4. bs[i][p][1] = "text" => bs[i][p][2] = 0
    BY <1>11
  <2> QED
    BY <2>1, <2>2, <2>3, <2>4 DEF PairedAt

-----------------------------------------------------------------------------
(* Messages for an API, with something in them.                            *)
Sent == [role : {"system", "user", "assistant", "tool"}, blocks : Seq(Block)]

SentFull == {a \in Sent : a.blocks # <<>>}

BlocksStep(blocks, a) == blocks \o a.blocks

ClaudeStep(api, m) ==
  IF ClaudeBlocks(m) = <<>> THEN api
  ELSE Append(api, [role |-> m.role, blocks |-> ClaudeBlocks(m)])

(* What is said of a message by its place among the others.                *)
Regular(m) ==
  /\ m.role # "assistant" => m.calls = <<>>
  /\ m.role # "user" => m.answers = 0

LEMMA ClaudeFits ==
  ASSUME NEW m \in Message, Regular(m)
  PROVE  /\ BlocksFit(m, ClaudeBlocks(m)) /\ ClaudeBlocks(m) \in Seq(Block)
         /\ m.role = "user" => ClaudeBlocks(m) # <<>>
<1>1. m.role \in {"system", "user", "assistant"}
  BY DEF Message
<1>2. BlocksFit(m, ClaudeBlocks(m))
  BY <1>1 DEF BlocksFit, ClaudeBlocks, IsObservation, Regular
<1>3. ClaudeBlocks(m) \in Seq(Block)
  BY <1>2, FittingBlocks DEF BlocksOk, Regular
<1>4. ASSUME m.role = "user" PROVE ClaudeBlocks(m) # <<>>
  BY <1>4 DEF ClaudeBlocks
<1> QED
  BY <1>2, <1>3, <1>4

LEMMA OpenAIFits ==
  ASSUME NEW m \in Message, Regular(m)
  PROVE  /\ BlocksFit(m, OpenAIBlocks(m)) /\ OpenAIBlocks(m) \in Seq(Block)
         /\ OpenAIRole(m) \in {"system", "user", "assistant", "tool"}
<1>1. m.role \in {"system", "user", "assistant"}
  BY DEF Message
<1>2. BlocksFit(m, OpenAIBlocks(m))
  BY <1>1 DEF BlocksFit, OpenAIBlocks, IsObservation, Regular
<1>3. OpenAIBlocks(m) \in Seq(Block)
  BY <1>2, FittingBlocks DEF BlocksOk, Regular
<1> QED
  BY <1>1, <1>2, <1>3 DEF OpenAIRole

LEMMA BlocksStepType ==
  ASSUME NEW u \in Seq(Block), NEW a \in Sent
  PROVE  BlocksStep(u, a) \in Seq(Block)
<1>1. a.blocks \in Seq(Block)
  BY DEF Sent
<1> QED
  BY <1>1, ConcatProperties DEF BlocksStep

LEMMA ClaudeStepType ==
  ASSUME NEW u \in Seq(SentFull), NEW m \in {x \in Message : Regular(x)}
  PROVE  ClaudeStep(u, m) \in Seq(SentFull)
<1> DEFINE a == [role |-> m.role, blocks |-> ClaudeBlocks(m)]
<1>1. CASE ClaudeBlocks(m) = <<>>
  BY <1>1 DEF ClaudeStep
<1>2. CASE ClaudeBlocks(m) # <<>>
  <2>1. a \in SentFull
    <3>1. ClaudeBlocks(m) \in Seq(Block) /\ m.role \in {"system", "user", "assistant"}
      BY ClaudeFits DEF Message
    <3> QED
      BY <1>2, <3>1 DEF SentFull, Sent
  <2>2. ClaudeStep(u, m) = Append(u, a)
    BY <1>2 DEF ClaudeStep
  <2> HIDE DEF a
  <2> QED
    BY <2>1, <2>2, AppendProperties
<1> QED
  BY <1>1, <1>2

(* The blocks of a request, message by message.                            *)
LEMMA BlocksFold ==
  ASSUME NEW api \in Seq(Sent)
  PROVE  \E r \in [0..Len(api) -> Seq(Block)] :
           /\ r[0] = <<>>
           /\ \A k \in 1..Len(api) : r[k] = BlocksStep(r[k-1], api[k])
           /\ Blocks(api) = r[Len(api)]
<1> DEFINE n == Len(api)
           G == [x \in (Seq(Block)) \X (1..n) |-> BlocksStep(x[1], api[x[2]])]
           Good(g) == g = [s \in SUBSET (1..n) |->
                             IF s = {} THEN <<>> ELSE BlocksStep(g[s \ {Max(s)}], api[Max(s)])]
           h == CHOOSE g : Good(g)
<1>1. n \in Nat /\ DOMAIN api = 1..n
  OBVIOUS
<1>2. Blocks(api) = h[1..n]
  BY <1>1 DEF Blocks, FoldLeft, MapThenFoldSet, BlocksStep
<1>3. <<>> \in Seq(Block) /\ G \in [(Seq(Block)) \X (1..n) -> Seq(Block)]
  <2>1. ASSUME NEW u \in Seq(Block), NEW i \in 1..n PROVE BlocksStep(u, api[i]) \in Seq(Block)
    <3>1. api[i] \in Sent
      BY <1>1, ElementOfSeq
    <3> QED
      BY <3>1, BlocksStepType
  <2>2. <<>> \in Seq(Block)
    BY EmptySeq
  <2> QED
    BY <2>1, <2>2
<1>4. \E g : Good(g)
  <2>1. PICK f \in [SUBSET (1..n) -> Seq(Block)] : Iterates(f, n, <<>>, G)
    <3> HIDE DEF G, n
    <3> QED
      BY <1>1, <1>3, FoldExists
  <2>2. ASSUME NEW s \in SUBSET (1..n), s # {}
        PROVE  G[<<f[s \ {Max(s)}], Max(s)>>] = BlocksStep(f[s \ {Max(s)}], api[Max(s)])
    <3>1. Max(s) \in 1..n /\ f[s \ {Max(s)}] \in Seq(Block)
      BY <1>1, <2>2, MaxIsMember
    <3> QED
      BY <3>1
  <2>3. f = [s \in SUBSET (1..n) |-> IF s = {} THEN <<>> ELSE G[<<f[s \ {Max(s)}], Max(s)>>]]
    BY <2>1 DEF Iterates
  <2> HIDE DEF G, n
  <2>4. Good(f)
    BY <2>2, <2>3
  <2> HIDE DEF Good
  <2> QED
    BY <2>4
<1>5. Good(h)
  <2> HIDE DEF Good
  <2> QED
    BY <1>4
<1> HIDE DEF h
<1>6. h[{}] = <<>>
  BY <1>5
<1>7. ASSUME NEW k \in 1..n, h[1..(k-1)] \in Seq(Block) PROVE h[1..k] = G[<<h[1..(k-1)], k>>]
  <2>1. Max(1..k) = k /\ (1..k) \ {k} = 1..(k-1) /\ 1..k # {} /\ 1..k \in SUBSET (1..n)
    BY <1>1, PrefixFold
  <2>2. h[1..k] = BlocksStep(h[1..(k-1)], api[k])
    BY <1>5, <2>1
  <2> QED
    BY <1>7, <2>2
<1>8. Reaches(h, n, Seq(Block), <<>>, G)
  <2> HIDE DEF G, n
  <2>1. Follows(h, n, Seq(Block), <<>>, G)
    BY <1>6, <1>7 DEF Follows
  <2> QED
    BY <1>1, <1>3, <2>1, FoldPrefixes
<1>9. PICK r \in [0..n -> Seq(Block)] :
        r[0] = <<>> /\ (\A k \in 1..n : r[k] = G[<<r[k-1], k>>]) /\ r[n] = h[1..n]
  <2> HIDE DEF G, n
  <2> QED
    BY <1>8 DEF Reaches
<1>10. ASSUME NEW k \in 1..n PROVE r[k] = BlocksStep(r[k-1], api[k])
  <2>1. k - 1 \in 0..n
    BY <1>1
  <2> QED
    BY <1>9, <2>1
<1> QED
  BY <1>2, <1>9, <1>10

(* The translation for Claude, message by message.                         *)
LEMMA ClaudeFold ==
  ASSUME NEW msgs \in Seq({m \in Message : Regular(m)})
  PROVE  \E r \in [0..Len(msgs) -> Seq(SentFull)] :
           /\ r[0] = <<>>
           /\ \A k \in 1..Len(msgs) : r[k] = ClaudeStep(r[k-1], msgs[k])
           /\ Claude(msgs) = r[Len(msgs)]
<1> DEFINE n == Len(msgs)
           G == [x \in (Seq(SentFull)) \X (1..n) |-> ClaudeStep(x[1], msgs[x[2]])]
           Good(g) == g = [s \in SUBSET (1..n) |->
                             IF s = {} THEN <<>> ELSE ClaudeStep(g[s \ {Max(s)}], msgs[Max(s)])]
           h == CHOOSE g : Good(g)
<1>1. n \in Nat /\ DOMAIN msgs = 1..n
  OBVIOUS
<1>2. Claude(msgs) = h[1..n]
  BY <1>1 DEF Claude, FoldLeft, MapThenFoldSet, ClaudeStep
<1>3. <<>> \in Seq(SentFull) /\ G \in [(Seq(SentFull)) \X (1..n) -> Seq(SentFull)]
  <2>1. ASSUME NEW u \in Seq(SentFull), NEW i \in 1..n PROVE ClaudeStep(u, msgs[i]) \in Seq(SentFull)
    <3>1. msgs[i] \in {m \in Message : Regular(m)}
      BY <1>1, ElementOfSeq
    <3> QED
      BY <3>1, ClaudeStepType
  <2>2. <<>> \in Seq(SentFull)
    BY EmptySeq
  <2> QED
    BY <2>1, <2>2
<1>4. \E g : Good(g)
  <2>1. PICK f \in [SUBSET (1..n) -> Seq(SentFull)] : Iterates(f, n, <<>>, G)
    <3> HIDE DEF G, n
    <3> QED
      BY <1>1, <1>3, FoldExists
  <2>2. ASSUME NEW s \in SUBSET (1..n), s # {}
        PROVE  G[<<f[s \ {Max(s)}], Max(s)>>] = ClaudeStep(f[s \ {Max(s)}], msgs[Max(s)])
    <3>1. Max(s) \in 1..n /\ f[s \ {Max(s)}] \in Seq(SentFull)
      BY <1>1, <2>2, MaxIsMember
    <3> QED
      BY <3>1
  <2>3. f = [s \in SUBSET (1..n) |-> IF s = {} THEN <<>> ELSE G[<<f[s \ {Max(s)}], Max(s)>>]]
    BY <2>1 DEF Iterates
  <2> HIDE DEF G, n
  <2>4. Good(f)
    BY <2>2, <2>3
  <2> HIDE DEF Good
  <2> QED
    BY <2>4
<1>5. Good(h)
  <2> HIDE DEF Good
  <2> QED
    BY <1>4
<1> HIDE DEF h
<1>6. h[{}] = <<>>
  BY <1>5
<1>7. ASSUME NEW k \in 1..n, h[1..(k-1)] \in Seq(SentFull) PROVE h[1..k] = G[<<h[1..(k-1)], k>>]
  <2>1. Max(1..k) = k /\ (1..k) \ {k} = 1..(k-1) /\ 1..k # {} /\ 1..k \in SUBSET (1..n)
    BY <1>1, PrefixFold
  <2>2. h[1..k] = ClaudeStep(h[1..(k-1)], msgs[k])
    BY <1>5, <2>1
  <2> QED
    BY <1>7, <2>2
<1>8. Reaches(h, n, Seq(SentFull), <<>>, G)
  <2> HIDE DEF G, n
  <2>1. Follows(h, n, Seq(SentFull), <<>>, G)
    BY <1>6, <1>7 DEF Follows
  <2> QED
    BY <1>1, <1>3, <2>1, FoldPrefixes
<1>9. PICK r \in [0..n -> Seq(SentFull)] :
        r[0] = <<>> /\ (\A k \in 1..n : r[k] = G[<<r[k-1], k>>]) /\ r[n] = h[1..n]
  <2> HIDE DEF G, n
  <2> QED
    BY <1>8 DEF Reaches
<1>10. ASSUME NEW k \in 1..n PROVE r[k] = ClaudeStep(r[k-1], msgs[k])
  <2>1. k - 1 \in 0..n
    BY <1>1
  <2> QED
    BY <1>9, <2>1
<1> QED
  BY <1>2, <1>9, <1>10

LEMMA BlocksOfNone == Blocks(<<>>) = <<>>
<1>1. <<>> \in Seq(Sent) /\ Len(<<>>) = 0
  BY EmptySeq
<1>2. PICK r \in [0..Len(<<>>) -> Seq(Block)] :
        r[0] = <<>> /\ Blocks(<<>>) = r[Len(<<>>)]
  BY <1>1, BlocksFold
<1> QED
  BY <1>1, <1>2

LEMMA BlocksAppend ==
  ASSUME NEW api \in Seq(Sent), NEW a \in Sent
  PROVE  Blocks(Append(api, a)) = Blocks(api) \o a.blocks
<1> DEFINE n == Len(api)
           b == Append(api, a)
<1>1. /\ b \in Seq(Sent) /\ Len(b) = n + 1 /\ n \in Nat
      /\ (\A k \in 1..n : b[k] = api[k]) /\ b[n+1] = a
  BY AppendProperties, LenProperties
<1> HIDE DEF b
<1>2. PICK r \in [0..n -> Seq(Block)] :
        /\ r[0] = <<>>
        /\ \A k \in 1..n : r[k] = BlocksStep(r[k-1], api[k])
        /\ Blocks(api) = r[n]
  BY BlocksFold
<1>3. PICK q \in [0..Len(b) -> Seq(Block)] :
        /\ q[0] = <<>>
        /\ \A k \in 1..Len(b) : q[k] = BlocksStep(q[k-1], b[k])
        /\ Blocks(b) = q[Len(b)]
  BY <1>1, BlocksFold
<1> DEFINE T == {k \in 0..n : r[k] = q[k]}
<1>4. T = 0..n
  <2>1. 0 \in T /\ T \in SUBSET (0..n)
    BY <1>1, <1>2, <1>3
  <2>2. ASSUME NEW k \in 0..(n-1), k \in T PROVE k + 1 \in T
    <3>1. k + 1 \in 1..n /\ k + 1 \in 1..Len(b) /\ (k + 1) - 1 = k /\ k + 1 \in 0..n
      BY <1>1
    <3>2. r[k+1] = BlocksStep(r[k], api[k+1]) /\ q[k+1] = BlocksStep(q[k], b[k+1])
      BY <1>2, <1>3, <3>1
    <3> QED
      BY <1>1, <2>2, <3>1, <3>2
  <2> HIDE DEF T, n
  <2> QED
    BY <1>1, <2>1, <2>2, Upwards
<1>5. r[n] = q[n]
  <2>1. n \in 0..n
    BY <1>1
  <2> QED
    BY <1>4, <2>1
<1>6. q[n+1] = BlocksStep(q[n], b[n+1])
  <2>1. n + 1 \in 1..Len(b) /\ (n + 1) - 1 = n
    BY <1>1
  <2> QED
    BY <1>3, <2>1
<1> QED
  BY <1>1, <1>2, <1>3, <1>5, <1>6 DEF BlocksStep, b

(* The blocks of a translation are those of its messages in a row.         *)
LEMMA ClaudeChain ==
  ASSUME NEW msgs \in Seq({m \in Message : Regular(m)})
  PROVE  /\ \E s : Chain(s, [i \in 1..Len(msgs) |-> ClaudeBlocks(msgs[i])], Len(msgs))
                   /\ Blocks(Claude(msgs)) = s[Len(msgs)]
         /\ Claude(msgs) \in Seq(SentFull)
         /\ msgs # <<>> /\ msgs[Len(msgs)].role = "user" => Claude(msgs) # <<>>
<1> DEFINE n == Len(msgs)
           bs == [i \in 1..n |-> ClaudeBlocks(msgs[i])]
<1>1. n \in Nat /\ \A i \in 1..n : msgs[i] \in Message /\ Regular(msgs[i])
  BY LenProperties, ElementOfSeq
<1>2. PICK api \in [0..n -> Seq(SentFull)] :
        /\ api[0] = <<>>
        /\ \A k \in 1..n : api[k] = ClaudeStep(api[k-1], msgs[k])
        /\ Claude(msgs) = api[n]
  BY ClaudeFold
<1>3. bs \in [1..n -> Seq(Block)] /\ \A k \in 1..n : bs[k] = ClaudeBlocks(msgs[k])
  BY <1>1, ClaudeFits
<1> HIDE DEF n, bs
<1>4. \A k \in 0..n : api[k] \in Seq(Sent) /\ Blocks(api[k]) \in Seq(Block)
  <2>1. SUFFICES ASSUME NEW k \in 0..n PROVE api[k] \in Seq(Sent) /\ Blocks(api[k]) \in Seq(Block)
    OBVIOUS
  <2>2. api[k] \in Seq(Sent)
    BY <1>2, SeqMonotonic DEF SentFull
  <2>3. PICK q \in [0..Len(api[k]) -> Seq(Block)] : Blocks(api[k]) = q[Len(api[k])]
    BY <2>2, BlocksFold
  <2>4. Len(api[k]) \in 0..Len(api[k])
    BY <2>2, LenProperties
  <2> QED
    BY <2>2, <2>3, <2>4
<1> DEFINE s == [k \in 0..n |-> Blocks(api[k])]
<1>5. ASSUME NEW k \in 1..n PROVE s[k] = s[k-1] \o bs[k]
  <2>1. k - 1 \in 0..n /\ k \in 0..n
    BY <1>1 DEF n
  <2>2. api[k] = ClaudeStep(api[k-1], msgs[k]) /\ msgs[k] \in Message /\ Regular(msgs[k])
    BY <1>1, <1>2
  <2>3. CASE bs[k] = <<>>
    <3>1. api[k] = api[k-1]
      BY <1>3, <2>2, <2>3 DEF ClaudeStep
    <3>2. s[k-1] \in Seq(Block)
      BY <1>4, <2>1
    <3>3. s[k-1] \o <<>> = s[k-1]
      BY <3>2, ConcatEmptySeq
    <3> QED
      BY <2>1, <2>3, <3>1, <3>3
  <2>4. CASE bs[k] # <<>>
    <3> DEFINE a == [role |-> msgs[k].role, blocks |-> bs[k]]
    <3>1. api[k] = Append(api[k-1], a)
      BY <1>3, <2>2, <2>4 DEF ClaudeStep
    <3>2. a \in Sent /\ a.blocks = bs[k]
      BY <1>3, <2>2 DEF Sent, Message
    <3> HIDE DEF a
    <3>3. Blocks(api[k]) = Blocks(api[k-1]) \o bs[k]
      BY <1>4, <2>1, <3>1, <3>2, BlocksAppend
    <3> QED
      BY <2>1, <3>3
  <2> QED
    BY <2>3, <2>4
<1>6. Chain(s, bs, n)
  <2>1. s \in [0..n -> Seq(Block)]
    BY <1>4
  <2>2. s[0] = <<>>
    <3>1. 0 \in 0..n
      BY <1>1 DEF n
    <3> QED
      BY <1>2, <3>1, BlocksOfNone
  <2> HIDE DEF s
  <2> QED
    BY <1>3, <1>5, <2>1, <2>2 DEF Chain
<1>7. n \in 0..n
  BY <1>1 DEF n
<1>8. Blocks(Claude(msgs)) = s[n] /\ Claude(msgs) \in Seq(SentFull)
  BY <1>2, <1>7
<1>9. ASSUME msgs # <<>>, msgs[n].role = "user" PROVE Claude(msgs) # <<>>
  <2>1. n \in 1..n /\ n - 1 \in 0..n
    BY <1>1, <1>9, EmptySeq DEF n
  <2>2. ClaudeBlocks(msgs[n]) # <<>>
    BY <1>1, <1>9, <2>1, ClaudeFits
  <2> DEFINE a == [role |-> msgs[n].role, blocks |-> ClaudeBlocks(msgs[n])]
  <2>3. Claude(msgs) = Append(api[n-1], a)
    BY <1>2, <2>1, <2>2 DEF ClaudeStep
  <2>4. a \in SentFull
    <3>1. ClaudeBlocks(msgs[n]) \in Seq(Block) /\ msgs[n].role \in {"system", "user", "assistant"}
      BY <1>1, <2>1, ClaudeFits DEF Message
    <3> QED
      BY <2>2, <3>1 DEF SentFull, Sent
  <2> HIDE DEF a
  <2>5. Append(api[n-1], a) # <<>>
    <3>1. api[n-1] \in Seq(SentFull)
      BY <1>2, <2>1
    <3> QED
      BY <2>4, <3>1, AppendProperties
  <2> QED
    BY <2>3, <2>5
<1> QED
  BY <1>6, <1>8, <1>9 DEF n, bs

LEMMA OpenAIChain ==
  ASSUME NEW msgs \in Seq({m \in Message : Regular(m)})
  PROVE  \E s : Chain(s, [i \in 1..Len(msgs) |-> OpenAIBlocks(msgs[i])], Len(msgs))
                /\ Blocks(OpenAI(msgs)) = s[Len(msgs)]
<1> DEFINE n == Len(msgs)
           bs == [i \in 1..n |-> OpenAIBlocks(msgs[i])]
           api == OpenAI(msgs)
<1>1. n \in Nat /\ \A i \in 1..n : msgs[i] \in Message /\ Regular(msgs[i])
  BY LenProperties, ElementOfSeq
<1>2. bs \in [1..n -> Seq(Block)] /\ \A k \in 1..n : bs[k] = OpenAIBlocks(msgs[k])
  BY <1>1, OpenAIFits
<1>3. /\ api \in Seq(Sent) /\ Len(api) = n
      /\ \A k \in 1..n : api[k].blocks = bs[k]
  <2>1. \A k \in 1..n : [role |-> OpenAIRole(msgs[k]), blocks |-> OpenAIBlocks(msgs[k])] \in Sent
    BY <1>1, OpenAIFits DEF Sent
  <2>2. api = [k \in 1..n |-> [role |-> OpenAIRole(msgs[k]), blocks |-> OpenAIBlocks(msgs[k])]]
    BY DEF OpenAI
  <2> HIDE DEF api, n, bs
  <2>3. api \in [1..n -> Sent] /\ \A k \in 1..n : api[k].blocks = bs[k]
    BY <1>2, <2>1, <2>2
  <2>4. n \in Nat
    BY <1>1 DEF n
  <2>5. api \in Seq(Sent)
    BY <2>3, <2>4, SeqDef
  <2>6. Len(api) = n
    BY <2>3, <2>4, <2>5, LenProperties
  <2> QED
    BY <2>3, <2>5, <2>6
<1> HIDE DEF api, n, bs
<1>4. PICK s \in [0..n -> Seq(Block)] :
        /\ s[0] = <<>>
        /\ \A k \in 1..n : s[k] = BlocksStep(s[k-1], api[k])
        /\ Blocks(api) = s[n]
  BY <1>3, BlocksFold
<1>5. Chain(s, bs, n)
  BY <1>2, <1>3, <1>4 DEF Chain, BlocksStep
<1> QED
  BY <1>4, <1>5 DEF n, bs, api

(* A request in which calls and answers are in place is accepted by both.  *)
LEMMA LinkedIsAccepted ==
  ASSUME NEW msgs \in Seq(Message), msgs # <<>>, msgs[Len(msgs)].role = "user",
         Linked(msgs), Answered(msgs, Len(msgs))
  PROVE  /\ WellPaired(Blocks(Claude(msgs)))
         /\ WellPaired(Blocks(OpenAI(msgs)))
         /\ Claude(msgs) # <<>>
         /\ \A i \in 1..Len(Claude(msgs)) : Claude(msgs)[i].blocks # <<>>
<1> DEFINE n == Len(msgs)
<1>1. n \in Nat /\ \A i \in 1..n : msgs[i] \in Message /\ Regular(msgs[i])
  BY LenProperties, ElementOfSeq DEF Linked, Regular
<1>2. msgs \in Seq({m \in Message : Regular(m)})
  <2>1. msgs \in [1..n -> {m \in Message : Regular(m)}]
    <3>1. DOMAIN msgs = 1..n /\ msgs = [i \in 1..n |-> msgs[i]]
      BY LenProperties
    <3> HIDE DEF n
    <3> QED
      BY <1>1, <3>1
  <2> QED
    BY <1>1, <2>1, SeqDef
<1>3. ASSUME NEW bs, \A i \in 1..n : BlocksFit(msgs[i], bs[i]), NEW s, Chain(s, bs, n)
      PROVE  WellPaired(s[n])
  <2>1. \A i \in 1..n : BlocksOk(msgs[i], bs[i])
    BY <1>1, <1>3, FittingBlocks DEF Regular
  <2>2. Paired(bs, n)
    BY <1>1, <2>1, BlocksArePaired
  <2> QED
    BY <1>1, <1>3, <2>2, PairedAreWell
<1>4. WellPaired(Blocks(Claude(msgs)))
  <2> DEFINE bs == [i \in 1..n |-> ClaudeBlocks(msgs[i])]
  <2>1. PICK s : Chain(s, bs, n) /\ Blocks(Claude(msgs)) = s[n]
    BY <1>2, ClaudeChain
  <2>2. \A i \in 1..n : BlocksFit(msgs[i], bs[i])
    BY <1>1, ClaudeFits
  <2> HIDE DEF bs, n
  <2> QED
    BY <1>3, <2>1, <2>2
<1>5. WellPaired(Blocks(OpenAI(msgs)))
  <2> DEFINE bs == [i \in 1..n |-> OpenAIBlocks(msgs[i])]
  <2>1. PICK s : Chain(s, bs, n) /\ Blocks(OpenAI(msgs)) = s[n]
    BY <1>2, OpenAIChain
  <2>2. \A i \in 1..n : BlocksFit(msgs[i], bs[i])
    BY <1>1, OpenAIFits
  <2> HIDE DEF bs, n
  <2> QED
    BY <1>3, <2>1, <2>2
<1>6. Claude(msgs) # <<>> /\ Claude(msgs) \in Seq(SentFull)
  BY <1>2, ClaudeChain
<1>7. \A i \in 1..Len(Claude(msgs)) : Claude(msgs)[i].blocks # <<>>
  <2>1. \A i \in 1..Len(Claude(msgs)) : Claude(msgs)[i] \in SentFull
    BY <1>6, ElementOfSeq
  <2> QED
    BY <2>1 DEF SentFull
<1> QED
  BY <1>4, <1>5, <1>6, <1>7

-----------------------------------------------------------------------------
(* The window is the history from some message on, which is no answer if   *)
(* anything was cut off, or it is nothing but answers.                     *)
LEMMA WindowShape ==
  ASSUME NEW h \in Seq(Said)
  PROVE  LET w == WorkingMemory(h)
         IN  \/ /\ Len(h) > Limit /\ \A i \in (Len(h) - Limit + 1)..Len(h) : IsObservation(h[i])
             \/ \E d \in 0..Len(h) :
                  /\ d = 0 \/ (d < Len(h) /\ ~IsObservation(h[d+1]))
                  /\ Len(w) = Len(h) - d
                  /\ \A i \in 1..Len(w) : w[i] = h[d+i]
<1> DEFINE n == Len(h)
           m == n - Limit + 1
           tail == SubSeq(h, m, n)
           kept == {i \in 1..Limit : \E j \in 1..i : ~IsObservation(tail[j])}
           w == WorkingMemory(h)
<1>0. n \in Nat /\ Limit \in Nat \ {0}
  BY ContextAssumption, LenProperties
<1>1. CASE n <= Limit
  <2>1. w = h
    BY <1>1 DEF WorkingMemory
  <2> QED
    BY <1>0, <2>1
<1>2. CASE ~(n <= Limit)
  <2>1. m \in 1..n /\ m \in Int /\ n \in Int /\ n - m + 1 = Limit /\ m <= n
    BY <1>0, <1>2
  <2>2. tail \in Seq(Said) /\ Len(tail) = Limit /\ \A i \in 1..Limit : tail[i] = h[m + i - 1]
    <3> HIDE DEF m, n
    <3>1. \A i \in m..n : h[i] \in Said
      BY <2>1, ElementOfSeq DEF n
    <3> QED
      BY <2>1, <3>1, SubSeqProperties
  <2>3. w = IF kept = {} THEN <<>> ELSE SubSeq(tail, Min(kept), Limit)
    BY <1>2 DEF WorkingMemory
  <2> HIDE DEF tail, w
  <2>4. CASE kept = {}
    <3>1. ASSUME NEW i \in m..n PROVE IsObservation(h[i])
      <4> DEFINE j == i - m + 1
      <4>1. j \in 1..Limit /\ m + j - 1 = i
        BY <1>0, <2>1
      <4> HIDE DEF j
      <4>2. IsObservation(tail[j])
        <5>1. j \in 1..j
          BY <4>1
        <5>2. j \notin kept
          BY <2>4
        <5> QED
          BY <4>1, <5>1, <5>2
      <4> QED
        BY <2>2, <4>1, <4>2
    <3> QED
      BY <1>0, <1>2, <3>1
  <2>5. CASE kept # {}
    <3> DEFINE f == Min(kept)
    <3>1. f \in kept /\ \A y \in kept : f <= y
      <4>1. kept \in SUBSET Nat
        BY <1>0
      <4> HIDE DEF kept
      <4> QED
        BY <2>5, <4>1, MinIsMember
    <3>2. w = SubSeq(tail, f, Limit)
      BY <2>3, <2>5
    <3> HIDE DEF f
    <3>3. f \in 1..Limit
      BY <3>1
    <3>4. ~IsObservation(tail[f])
      <4>1. PICK j \in 1..f : ~IsObservation(tail[j])
        BY <3>1
      <4>2. j \in 1..Limit /\ j \in 1..j
        BY <1>0, <3>3, <4>1
      <4>3. j \in kept
        BY <4>1, <4>2
      <4>4. f <= j
        BY <3>1, <4>3
      <4>5. j = f
        BY <3>3, <4>4
      <4> QED
        BY <4>1, <4>5
    <3> HIDE DEF kept
    <3>5. Len(w) = Limit - f + 1 /\ \A i \in 1..(Limit - f + 1) : w[i] = tail[f + i - 1]
      <4>1. f \in Int /\ Limit \in Int /\ f <= Limit
        BY <1>0, <3>3
      <4>2. \A i \in f..Limit : tail[i] \in Said
        BY <2>2, <3>3, <1>0, ElementOfSeq
      <4> HIDE DEF m, n
      <4> QED
        BY <3>2, <4>1, <4>2, SubSeqProperties
    <3> DEFINE d == m + f - 2
    <3>6. d \in 0..n /\ d < n /\ Limit - f + 1 = n - d /\ d + 1 = m + f - 1
      BY <1>0, <2>1, <3>3
    <3>7. ~IsObservation(h[d+1])
      BY <2>2, <3>3, <3>4, <3>6
    <3>8. ASSUME NEW i \in 1..Len(w) PROVE w[i] = h[d+i]
      <4> DEFINE j == f + i - 1
      <4>1. i \in 1..(Limit - f + 1)
        BY <3>5
      <4>2. j \in 1..Limit /\ m + j - 1 = d + i
        BY <1>0, <2>1, <3>3, <4>1
      <4>3. w[i] = tail[j]
        BY <3>5, <4>1
      <4> HIDE DEF j, d
      <4> QED
        BY <2>2, <4>2, <4>3
    <3> HIDE DEF d, m
    <3>9. Len(w) = n - d
      BY <3>5, <3>6
    <3> QED
      BY <3>6, <3>7, <3>8, <3>9 DEF w
  <2> QED
    BY <2>4, <2>5
<1> QED
  BY <1>1, <1>2

(* Neither cutting the window, nor the system prompt in front, nor the     *)
(* compaction moves an answer away from its call.                          *)
LEMMA SuffixLinked ==
  ASSUME NEW h \in Seq(Said), Linked(h), Answered(h, Len(h)),
         NEW d \in 0..Len(h), d = 0 \/ (d < Len(h) /\ ~IsObservation(h[d+1])),
         NEW r \in Seq(Message), Len(r) = Len(h) - d + 1,
         r[1].role = "system", r[1].calls = <<>>, r[1].answers = 0,
         \A i \in 1..(Len(h) - d) :
           /\ r[i+1].role = h[d+i].role /\ r[i+1].calls = h[d+i].calls
           /\ r[i+1].answers = h[d+i].answers
  PROVE  Linked(r) /\ Answered(r, Len(r))
<1> DEFINE n == Len(h)
<1>1. n \in Nat /\ d \in Nat /\ d <= n /\ Len(r) = n - d + 1
  BY LenProperties
<1>2. \A i \in 1..n : /\ Len(h[i].calls) \in Nat /\ h[i].answers \in Nat
                      /\ h[i].role \in {"user", "assistant"}
  <2>1. \A i \in 1..n : h[i] \in Said
    BY ElementOfSeq
  <2> QED
    BY <2>1, LenProperties DEF Said, Message
<1>3. Len(r[1].calls) = 0
  BY EmptySeq
<1>4. ASSUME NEW i \in 1..Len(r)
      PROVE  \/ i = 1
             \/ /\ d + (i - 1) \in 1..n /\ r[i].role = h[d + (i-1)].role
                /\ r[i].calls = h[d + (i-1)].calls /\ r[i].answers = h[d + (i-1)].answers
  <2>1. i # 1 => i - 1 \in 1..(n - d) /\ (i - 1) + 1 = i /\ d + (i - 1) \in 1..n
    BY <1>1
  <2> QED
    BY <2>1
<1> HIDE DEF n
<1>5. ASSUME NEW i \in 1..Len(r), NEW k \in 1..Len(r[i].calls)
      PROVE  /\ i # 1 /\ d + (i - 1) \in 1..n
             /\ k \in 1..Len(h[d + (i-1)].calls) /\ r[i].calls[k] = h[d + (i-1)].calls[k]
             /\ d + (i - 1) + k <= n /\ i + k <= Len(r)
             /\ r[i+k].answers = h[d + (i - 1) + k].answers
             /\ h[d + (i - 1) + k].answers = h[d + (i-1)].calls[k]
  <2>1. i # 1
    BY <1>3
  <2>2. d + (i - 1) \in 1..n /\ r[i].calls = h[d + (i-1)].calls
    BY <1>4, <2>1
  <2>3. k \in 1..Len(h[d + (i-1)].calls) /\ k \in Nat /\ k >= 1
    BY <1>2, <2>2
  <2>4. d + (i - 1) + k <= n /\ h[d + (i - 1) + k].answers = h[d + (i-1)].calls[k]
    BY <2>2, <2>3 DEF Answered, n
  <2>5. i + k \in 1..Len(r) /\ i + k # 1 /\ d + ((i + k) - 1) = d + (i - 1) + k
    BY <1>1, <2>1, <2>3, <2>4
  <2>6. r[i+k].answers = h[d + ((i + k) - 1)].answers
    BY <1>4, <2>5
  <2> QED
    BY <2>1, <2>2, <2>3, <2>4, <2>5, <2>6
<1>6. Answered(r, Len(r))
  BY <1>5 DEF Answered
<1>11. \A a \in 1..n : \A k \in 1..Len(h[a].calls) : h[a].calls[k] # 0
  BY DEF Linked, n
<1>12. \A a \in 1..n : \A k \in 1..Len(h[a].calls) :
         \A b \in 1..n : \A l \in 1..Len(h[b].calls) :
           h[a].calls[k] = h[b].calls[l] => a = b /\ k = l
  BY DEF Linked, n
<1>7. ASSUME NEW i \in 1..Len(r)
      PROVE  /\ r[i].role # "assistant" => r[i].calls = <<>>
             /\ r[i].role # "user" => r[i].answers = 0
  <2>1. CASE i = 1
    BY <2>1
  <2>2. CASE i # 1
    <3>1. /\ d + (i - 1) \in 1..n /\ r[i].role = h[d + (i-1)].role
          /\ r[i].calls = h[d + (i-1)].calls /\ r[i].answers = h[d + (i-1)].answers
      BY <1>4, <2>2
    <3> QED
      BY <3>1 DEF Linked, n
  <2> QED
    BY <2>1, <2>2
<1>8. ASSUME NEW i \in 1..Len(r), NEW k \in 1..Len(r[i].calls)
      PROVE  r[i].calls[k] # 0
  <2> DEFINE a == d + (i - 1)
  <2>1. a \in 1..n /\ k \in 1..Len(h[a].calls) /\ r[i].calls[k] = h[a].calls[k]
    BY <1>5
  <2> HIDE DEF a
  <2> QED
    BY <1>11, <2>1
<1>9. ASSUME NEW i \in 1..Len(r), NEW k \in 1..Len(r[i].calls),
             NEW j \in 1..Len(r), NEW l \in 1..Len(r[j].calls),
             r[i].calls[k] = r[j].calls[l]
      PROVE  i = j /\ k = l
  <2> DEFINE a == d + (i - 1)
             b == d + (j - 1)
  <2>1. a \in 1..n /\ k \in 1..Len(h[a].calls) /\ r[i].calls[k] = h[a].calls[k]
    BY <1>5
  <2>2. b \in 1..n /\ l \in 1..Len(h[b].calls) /\ r[j].calls[l] = h[b].calls[l]
    BY <1>5
  <2>3. a = b => i = j
    BY <1>1
  <2> HIDE DEF a, b
  <2>4. h[a].calls[k] = h[b].calls[l]
    BY <1>9, <2>1, <2>2
  <2>5. a = b /\ k = l
    <3>1. \A x \in 1..n : \A y \in 1..Len(h[x].calls) :
            h[a].calls[k] = h[x].calls[y] => a = x /\ k = y
      <4>1. a \in 1..n /\ k \in 1..Len(h[a].calls)
        BY <2>1
      <4> QED
        BY <1>12, <4>1
    <3>2. b \in 1..n /\ l \in 1..Len(h[b].calls)
      BY <2>2
    <3> QED
      BY <2>4, <3>1, <3>2
  <2> QED
    BY <2>3, <2>5
<1>10. ASSUME NEW i \in 1..Len(r), r[i].answers # 0
       PROVE  \E j \in 1..(i-1) : \E k \in 1..Len(r[j].calls) :
                i = j + k /\ r[i].answers = r[j].calls[k]
  <2> DEFINE x == d + (i - 1)
  <2>1. i # 1 /\ x \in 1..n /\ r[i].answers = h[x].answers
    BY <1>4, <1>10
  <2>2. PICK y \in 1..(x-1) : \E k \in 1..Len(h[y].calls) :
          x = y + k /\ h[x].answers = h[y].calls[k]
    BY <1>10, <2>1, CallerOf DEF n
  <2>3. PICK k \in 1..Len(h[y].calls) : x = y + k /\ h[x].answers = h[y].calls[k]
    BY <2>2
  <2>4. y \in 1..n /\ Len(h[y].calls) \in Nat /\ x \in Int
    BY <1>1, <1>2, <2>1
  <2>5. ~(y <= d)
    <3> SUFFICES ASSUME y <= d PROVE FALSE
      OBVIOUS
    <3> DEFINE e == (d + 1) - y
    <3>1. d + 1 <= x
      BY <1>1, <2>1
    <3> HIDE DEF x
    <3>2. e \in 1..Len(h[y].calls) /\ y + e = d + 1
      BY <1>1, <2>3, <2>4, <3>1
    <3> HIDE DEF e
    <3>3. h[d+1].answers = h[y].calls[e] /\ d + 1 <= n
      BY <2>4, <3>2 DEF Answered, n
    <3>4. h[y].calls[e] # 0
      BY <2>4, <3>2 DEF Linked, n
    <3>5. h[d+1].role = "user"
      <4>1. d + 1 \in 1..n
        BY <1>1, <3>3
      <4> QED
        BY <3>3, <3>4, <4>1 DEF Linked, n
    <3>6. d # 0
      BY <1>1, <2>4
    <3> QED
      BY <3>3, <3>4, <3>5, <3>6 DEF IsObservation
  <2> DEFINE j == (y - d) + 1
  <2>6. j \in 1..(i-1) /\ j \in 1..Len(r) /\ j # 1 /\ d + (j - 1) = y /\ i = j + k
    BY <1>1, <2>1, <2>3, <2>4, <2>5
  <2> HIDE DEF j, x
  <2>7. r[j].calls = h[y].calls
    BY <1>4, <2>6
  <2> QED
    BY <2>1, <2>3, <2>6, <2>7
<1> QED
  BY <1>6, <1>7, <1>8, <1>9, <1>10 DEF Linked

-----------------------------------------------------------------------------
(* The request made of a history in which all is in place.                 *)
LEMMA RequestLinked ==
  ASSUME NEW h \in Seq(Said), h # <<>>, Linked(h), Answered(h, Len(h)),
         h[Len(h)].role = "user", MaxCalls < Limit,
         \A i \in 1..Len(h) : Len(h[i].calls) <= MaxCalls
  PROVE  LET r == Compact(<<System>> \o WorkingMemory(h))
         IN  /\ r \in Seq(Message) /\ r # <<>> /\ r[Len(r)].role = "user"
             /\ Linked(r) /\ Answered(r, Len(r))
<1> DEFINE n == Len(h)
           w == WorkingMemory(h)
           asked == <<System>> \o w
           r == Compact(asked)
           Full == {m \in Message : m.form = "full"}
<1>1. n \in Nat /\ n >= 1 /\ Limit \in Nat /\ MaxCalls \in Nat
  BY EmptySeq, LenProperties, ContextAssumption
<1>2. ASSUME n > Limit, \A i \in (n - Limit + 1)..n : IsObservation(h[i]) PROVE FALSE
  <2>1. n \in 1..n /\ n \in (n - Limit + 1)..n
    BY <1>1, <1>2, ContextAssumption
  <2>2. h[n].answers # 0
    BY <1>2, <2>1 DEF IsObservation
  <2>3. PICK j \in 1..(n-1) : \E k \in 1..Len(h[j].calls) : n = j + k
    BY <2>1, <2>2, CallerOf
  <2>4. PICK k \in 1..Len(h[j].calls) : n = j + k
    BY <2>3
  <2>5. j \in 1..n /\ Len(h[j].calls) <= MaxCalls /\ Len(h[j].calls) \in Nat
    <3>1. j \in 1..n
      BY <1>1
    <3>2. h[j].calls \in Seq(Nat)
      BY <3>1, ElementOfSeq DEF Said, Message
    <3> QED
      BY <3>1, <3>2, LenProperties
  <2>6. j \in (n - Limit + 1)..n
    BY <1>1, <2>4, <2>5
  <2>7. h[j].role = "user"
    BY <1>2, <2>6 DEF IsObservation
  <2>8. h[j].calls = <<>>
    BY <2>5, <2>7 DEF Linked
  <2>9. Len(h[j].calls) = 0
    BY <2>8, EmptySeq
  <2> QED
    BY <2>4, <2>9
<1>3. PICK d \in 0..n :
        /\ d = 0 \/ (d < n /\ ~IsObservation(h[d+1]))
        /\ Len(w) = n - d
        /\ \A i \in 1..Len(w) : w[i] = h[d+i]
  BY <1>2, WindowShape
<1>4. System \in Full /\ System.role = "system" /\ System.calls = <<>> /\ System.answers = 0
  BY ContextAssumption, EmptySeq DEF System, Msg, Message
<1>5. w \in Seq(Full)
  BY WorkingMemoryType, SeqMonotonic DEF Said
<1> HIDE DEF n, w
<1>6. /\ asked \in Seq(Full) /\ Len(asked) = Len(w) + 1 /\ asked[1] = System
      /\ \A i \in 1..Len(w) : asked[i+1] = w[i]
  <2> DEFINE s == <<System>>
  <2>1. s \in Seq(Full) /\ Len(s) = 1 /\ s[1] = System
    BY <1>4
  <2>2. Len(w) \in Nat
    BY <1>5, LenProperties
  <2> HIDE DEF s
  <2>3. /\ s \o w \in Seq(Full) /\ Len(s \o w) = Len(s) + Len(w)
        /\ \A i \in 1..(Len(s) + Len(w)) :
             (s \o w)[i] = IF i <= Len(s) THEN s[i] ELSE w[i - Len(s)]
    BY <1>5, <2>1, ConcatProperties
  <2>4. \A i \in 1..Len(w) : i + 1 \in 1..(1 + Len(w)) /\ ~(i + 1 <= 1) /\ (i + 1) - 1 = i
    BY <2>2
  <2>5. 1 \in 1..(1 + Len(w)) /\ 1 + Len(w) = Len(w) + 1
    BY <2>2
  <2>6. (s \o w)[1] = System
    BY <2>1, <2>3, <2>5
  <2>7. \A i \in 1..Len(w) : (s \o w)[i+1] = w[i]
    BY <2>1, <2>3, <2>4
  <2> QED
    BY <2>1, <2>3, <2>5, <2>6, <2>7 DEF s
<1> HIDE DEF asked
<1>7. /\ r \in Seq(Message) /\ Len(r) = Len(asked)
      /\ \A i \in 1..Len(asked) :
           /\ r[i] \in Message
           /\ [r[i] EXCEPT !.len = asked[i].len, !.form = "full"] = asked[i]
  <2>1. /\ r \in Seq(Message) /\ Len(r) = Len(asked)
        /\ \A i \in 1..Len(asked) :
             [r[i] EXCEPT !.len = asked[i].len, !.form = "full"] = asked[i]
    BY <1>6, CompactKeeps
  <2> HIDE DEF r
  <2> QED
    BY <2>1, ElementOfSeq
<1> HIDE DEF r
<1>8. ASSUME NEW i \in 1..Len(asked)
      PROVE  /\ r[i].role = asked[i].role /\ r[i].calls = asked[i].calls
             /\ r[i].answers = asked[i].answers
  <2> DEFINE x == r[i]
             y == asked[i]
  <2>1. [x EXCEPT !.len = y.len, !.form = "full"] = y /\ x \in Message
    BY <1>7
  <2> HIDE DEF x, y
  <2>2. x = [role |-> x.role, calls |-> x.calls, answers |-> x.answers,
             len |-> x.len, args |-> x.args, form |-> x.form]
    BY <2>1 DEF Message
  <2>3. x.role = y.role /\ x.calls = y.calls /\ x.answers = y.answers
    BY <2>1, <2>2
  <2> QED
    BY <2>3 DEF x, y
<1>9. Len(r) = n - d + 1 /\ Len(asked) = n - d + 1 /\ n - d \in Nat
  <2>1. Len(asked) = (n - d) + 1 /\ Len(r) = Len(asked)
    BY <1>3, <1>6, <1>7
  <2>2. n - d \in Nat
    BY <1>1
  <2> QED
    BY <2>1, <2>2
<1>10. r[1].role = "system" /\ r[1].calls = <<>> /\ r[1].answers = 0
  <2>1. 1 \in 1..Len(asked)
    BY <1>9
  <2> QED
    BY <1>4, <1>6, <1>8, <2>1
<1>11. \A i \in 1..(n - d) :
         /\ r[i+1].role = h[d+i].role /\ r[i+1].calls = h[d+i].calls
         /\ r[i+1].answers = h[d+i].answers
  <2> SUFFICES ASSUME NEW i \in 1..(n - d)
               PROVE  /\ r[i+1].role = h[d+i].role /\ r[i+1].calls = h[d+i].calls
                      /\ r[i+1].answers = h[d+i].answers
    OBVIOUS
  <2>1. i \in 1..Len(w) /\ i + 1 \in 1..Len(asked)
    BY <1>3, <1>9
  <2>2. asked[i+1] = h[d+i]
    BY <1>3, <1>6, <2>1
  <2> QED
    BY <1>8, <2>1, <2>2
<1>12. Linked(r) /\ Answered(r, Len(r))
  BY <1>3, <1>7, <1>9, <1>10, <1>11, SuffixLinked DEF n
<1>13. r # <<>> /\ r[Len(r)].role = "user"
  <2>1. d # n
    <3> SUFFICES ASSUME d = n PROVE FALSE
      OBVIOUS
    <3>1. d # 0 /\ ~(d < n)
      BY <1>1
    <3> QED
      BY <1>3, <3>1
  <2>2. n - d \in 1..(n - d) /\ d + (n - d) = n
    BY <1>1, <1>9, <2>1
  <2>3. r[(n - d) + 1].role = h[n].role
    BY <1>11, <2>2
  <2>4. Len(r) # 0
    BY <1>9
  <2> QED
    BY <1>9, <2>3, <2>4, EmptySeq DEF n
<1> QED
  BY <1>7, <1>12, <1>13 DEF r, asked, w

-----------------------------------------------------------------------------
(* All calls and answers of the history are in place, but for the calls of *)
(* the last message while their tools run.                                 *)
LinkInv ==
  /\ Linked(history)
  /\ \A i \in 1..Len(history) : Len(history[i].calls) <= MaxCalls
  /\ Answered(history, IF phase = "observe" THEN Len(history) - 1 ELSE Len(history))
  /\ phase \in {"ask", "answer", "remind"} =>
       history # <<>> /\ history[Len(history)].role = "user"

(* What is said next makes new calls, or answers those made last.          *)
Continues(h, e, n) ==
  \A x \in 1..Len(e) :
    /\ e[x].role # "assistant" => e[x].calls = <<>>
    /\ e[x].role # "user" => e[x].answers = 0
    /\ \A k \in 1..Len(e[x].calls) : e[x].calls[k] > n
    /\ \A k \in 1..Len(e[x].calls) : \A y \in 1..Len(e) :
         \A l \in 1..Len(e[y].calls) :
           e[x].calls[k] = e[y].calls[l] => x = y /\ k = l
    /\ e[x].answers # 0 =>
         /\ Len(h) # 0 /\ x \in 1..Len(h[Len(h)].calls)
         /\ e[x].answers = h[Len(h)].calls[x]

LEMMA LinkedMore ==
  ASSUME NEW h \in Seq(Said), NEW e \in Seq(Said), NEW n \in Nat,
         Linked(h), Counted(h, n), Continues(h, e, n)
  PROVE  Linked(h \o e)
<1> DEFINE g == h \o e
           m == Len(h)
<1>1. /\ g \in Seq(Said) /\ Len(g) = m + Len(e) /\ m \in Nat /\ Len(e) \in Nat
      /\ \A i \in 1..(m + Len(e)) : g[i] = IF i <= m THEN h[i] ELSE e[i - m]
  BY ConcatProperties, LenProperties
<1>2. ASSUME NEW i \in 1..Len(g)
      PROVE  \/ i \in 1..m /\ g[i] = h[i]
             \/ i - m \in 1..Len(e) /\ g[i] = e[i - m] /\ i > m
  <2> HIDE DEF g, m
  <2> QED
    BY <1>1
<1> HIDE DEF g
<1>3. \A i \in 1..m : \A k \in 1..Len(h[i].calls) : h[i].calls[k] \in Nat /\ h[i].calls[k] <= n
  <2>1. \A i \in 1..m : h[i].calls \in Seq(Nat)
    BY ElementOfSeq DEF Said, Message
  <2> QED
    BY <2>1, ElementOfSeq DEF Counted
<1>4. \A i \in 1..Len(e) : \A k \in 1..Len(e[i].calls) : e[i].calls[k] \in Nat /\ e[i].calls[k] > n
  <2>1. \A i \in 1..Len(e) : e[i].calls \in Seq(Nat)
    BY ElementOfSeq DEF Said, Message
  <2> QED
    BY <2>1, ElementOfSeq DEF Continues
<1>5. ASSUME NEW i \in 1..Len(g)
      PROVE  /\ g[i].role # "assistant" => g[i].calls = <<>>
             /\ g[i].role # "user" => g[i].answers = 0
             /\ \A k \in 1..Len(g[i].calls) : g[i].calls[k] # 0
  <2>1. CASE i \in 1..m /\ g[i] = h[i]
    BY <2>1 DEF Linked, m
  <2>2. CASE i - m \in 1..Len(e) /\ g[i] = e[i - m] /\ i > m
    <3> DEFINE x == i - m
    <3>1. x \in 1..Len(e) /\ g[i] = e[x]
      BY <2>2
    <3> HIDE DEF x
    <3>2. \A k \in 1..Len(e[x].calls) : e[x].calls[k] # 0
      BY <1>4, <3>1
    <3> QED
      BY <3>1, <3>2 DEF Continues
  <2> QED
    BY <1>2, <2>1, <2>2
<1>6. ASSUME NEW i \in 1..Len(g), NEW k \in 1..Len(g[i].calls),
             NEW j \in 1..Len(g), NEW l \in 1..Len(g[j].calls),
             g[i].calls[k] = g[j].calls[l]
      PROVE  i = j /\ k = l
  <2>1. CASE (i \in 1..m /\ g[i] = h[i]) /\ (j \in 1..m /\ g[j] = h[j])
    <3>1. k \in 1..Len(h[i].calls) /\ l \in 1..Len(h[j].calls) /\ h[i].calls[k] = h[j].calls[l]
      BY <1>6, <2>1
    <3>2. \A x \in 1..m : \A y \in 1..Len(h[x].calls) :
            h[i].calls[k] = h[x].calls[y] => i = x /\ k = y
      <4>1. i \in 1..Len(h) /\ m = Len(h)
        BY <2>1
      <4> QED
        BY <3>1, <4>1 DEF Linked
    <3> QED
      BY <2>1, <3>1, <3>2
  <2>2. CASE (i \in 1..m /\ g[i] = h[i]) /\ (j - m \in 1..Len(e) /\ g[j] = e[j - m] /\ j > m)
    <3>1. g[i].calls[k] \in Nat /\ g[i].calls[k] <= n
      BY <1>3, <2>2
    <3>2. g[j].calls[l] \in Nat /\ g[j].calls[l] > n
      BY <1>4, <2>2
    <3> QED
      BY <1>6, <3>1, <3>2
  <2>3. CASE (i - m \in 1..Len(e) /\ g[i] = e[i - m] /\ i > m) /\ (j \in 1..m /\ g[j] = h[j])
    <3>1. g[i].calls[k] \in Nat /\ g[i].calls[k] > n
      BY <1>4, <2>3
    <3>2. g[j].calls[l] \in Nat /\ g[j].calls[l] <= n
      BY <1>3, <2>3
    <3> QED
      BY <1>6, <3>1, <3>2
  <2>4. CASE /\ i - m \in 1..Len(e) /\ g[i] = e[i - m] /\ i > m
             /\ j - m \in 1..Len(e) /\ g[j] = e[j - m] /\ j > m
    <3> DEFINE x == i - m
               y == j - m
    <3>1. x \in 1..Len(e) /\ y \in 1..Len(e) /\ g[i] = e[x] /\ g[j] = e[y]
      BY <2>4
    <3>2. x = y => i = j
      BY <1>1
    <3> HIDE DEF x, y, m
    <3>3. k \in 1..Len(e[x].calls) /\ l \in 1..Len(e[y].calls) /\ e[x].calls[k] = e[y].calls[l]
      BY <1>6, <3>1
    <3>4. x = y /\ k = l
      BY <3>1, <3>3 DEF Continues
    <3> QED
      BY <3>2, <3>4
  <2> QED
    BY <1>2, <2>1, <2>2, <2>3, <2>4
<1>7. ASSUME NEW i \in 1..Len(g), g[i].answers # 0
      PROVE  \E j \in 1..(i-1) : \E k \in 1..Len(g[j].calls) :
               i = j + k /\ g[i].answers = g[j].calls[k]
  <2>0. \A j \in 1..m : g[j] = h[j]
    <3> HIDE DEF m
    <3> QED
      BY <1>1 DEF g
  <2>1. CASE i \in 1..m /\ g[i] = h[i]
    <3>1. PICK j \in 1..(i-1) : \E k \in 1..Len(h[j].calls) :
            i = j + k /\ h[i].answers = h[j].calls[k]
      <4>1. i \in 1..Len(h) /\ h[i].answers # 0
        BY <1>7, <2>1
      <4> QED
        BY <4>1, CallerOf
    <3>2. j \in 1..m
      BY <1>1, <2>1
    <3> QED
      BY <2>0, <2>1, <3>1, <3>2
  <2>2. CASE i - m \in 1..Len(e) /\ g[i] = e[i - m] /\ i > m
    <3> DEFINE x == i - m
    <3>1. x \in 1..Len(e) /\ g[i] = e[x]
      BY <2>2
    <3>2. i = m + x
      BY <1>1
    <3> HIDE DEF x
    <3>3. m # 0 /\ x \in 1..Len(h[m].calls) /\ e[x].answers = h[m].calls[x]
      BY <1>7, <3>1 DEF m, Continues
    <3>4. m \in 1..(i-1) /\ m \in 1..m
      BY <1>1, <2>2, <3>3
    <3>5. g[m] = h[m]
      BY <2>0, <3>4
    <3> QED
      BY <3>1, <3>2, <3>3, <3>4, <3>5
  <2> QED
    BY <1>2, <2>1, <2>2
<1>8. Linked(g)
  BY <1>5, <1>6, <1>7 DEF Linked
<1> QED
  BY <1>8 DEF g

LEMMA AnsweredMore ==
  ASSUME NEW h \in Seq(Said), NEW e \in Seq(Said), NEW n \in 0..Len(h), Answered(h, n)
  PROVE  Answered(h \o e, n)
<1> DEFINE g == h \o e
<1>1. /\ Len(g) = Len(h) + Len(e) /\ Len(h) \in Nat /\ Len(e) \in Nat
      /\ \A i \in 1..Len(h) : g[i] = h[i]
  BY ConcatProperties, LenProperties
<1> HIDE DEF g
<1>2. ASSUME NEW i \in 1..n, NEW k \in 1..Len(g[i].calls)
      PROVE  i + k <= Len(g) /\ g[i+k].answers = g[i].calls[k]
  <2>1. i \in 1..Len(h) /\ g[i] = h[i]
    BY <1>1
  <2>2. i + k <= Len(h) /\ h[i+k].answers = h[i].calls[k]
    BY <2>1 DEF Answered
  <2>3. i + k \in 1..Len(h)
    BY <1>1, <2>1, <2>2
  <2> QED
    BY <1>1, <2>1, <2>2, <2>3
<1> QED
  BY <1>2 DEF Answered, g

-----------------------------------------------------------------------------
(* One more message that neither calls nor answers.                        *)
LEMMA PlainMessage ==
  ASSUME NEW h \in Seq(Said), NEW l \in Nat, NEW n \in Nat, Linked(h), Counted(h, n),
         Answered(h, Len(h)), \A i \in 1..Len(h) : Len(h[i].calls) <= MaxCalls
  PROVE  LET g == Append(h, Msg("user", <<>>, 0, l, 0))
         IN  /\ Linked(g) /\ Answered(g, Len(g))
             /\ \A i \in 1..Len(g) : Len(g[i].calls) <= MaxCalls
             /\ g # <<>> /\ g[Len(g)].role = "user"
<1> DEFINE m == Msg("user", <<>>, 0, l, 0)
           g == Append(h, m)
           e == <<m>>
<1>1. m \in Said /\ m.role = "user" /\ m.calls = <<>> /\ m.answers = 0
  BY EmptySeq DEF Msg, Said, Message
<1> HIDE DEF m
<1>2. e \in Seq(Said) /\ Len(e) = 1 /\ e[1] = m
  BY <1>1
<1>3. g = h \o e
  BY <1>1, AppendIsConcat
<1>4. \A x \in 1..Len(e) : e[x].role = "user" /\ e[x].calls = <<>> /\ e[x].answers = 0
  BY <1>1, <1>2
<1>5. Len(<<>>) = 0
  BY EmptySeq
<1> HIDE DEF e
<1>6. Linked(h \o e)
  <2>1. Continues(h, e, n)
    BY <1>4, <1>5 DEF Continues
  <2> QED
    BY <1>2, <2>1, LinkedMore
<1>7. /\ Len(g) = Len(h) + 1 /\ Len(h) \in Nat /\ g[Len(h) + 1] = m
      /\ \A i \in 1..Len(h) : g[i] = h[i]
  BY <1>1, AppendProperties, LenProperties
<1>8. Len(h) \in 0..Len(h)
  BY <1>7
<1>9. Answered(h \o e, Len(h))
  BY <1>2, <1>8, AnsweredMore
<1> HIDE DEF g
<1>10. Answered(g, Len(g))
  <2>1. \A i \in 1..Len(g) : i \in 1..Len(h) \/ i = Len(h) + 1
    BY <1>7
  <2>2. Len(g[Len(h) + 1].calls) = 0
    BY <1>1, <1>5, <1>7
  <2>3. \A i \in 1..Len(h) : \A k \in 1..Len(g[i].calls) :
          i + k <= Len(g) /\ g[i+k].answers = g[i].calls[k]
    BY <1>3, <1>9 DEF Answered
  <2>4. ASSUME NEW i \in 1..Len(g), NEW k \in 1..Len(g[i].calls)
        PROVE  i + k <= Len(g) /\ g[i+k].answers = g[i].calls[k]
    <3>1. CASE i \in 1..Len(h)
      BY <2>3, <3>1
    <3>2. CASE i = Len(h) + 1
      BY <2>2, <3>2
    <3> QED
      BY <2>1, <3>1, <3>2
  <2> QED
    BY <2>4 DEF Answered
<1>11. ASSUME NEW i \in 1..Len(g) PROVE Len(g[i].calls) <= MaxCalls
  <2>1. CASE i \in 1..Len(h)
    BY <1>7, <2>1
  <2>2. CASE i \notin 1..Len(h)
    <3>1. i = Len(h) + 1
      BY <1>7, <2>2
    <3> QED
      BY <1>1, <1>5, <1>7, <3>1, ContextAssumption
  <2> QED
    BY <2>1, <2>2
<1>12. g # <<>> /\ g[Len(g)].role = "user"
  <2>1. Len(g) # 0
    BY <1>7
  <2> QED
    BY <1>1, <1>5, <1>7, <2>1
<1> QED
  BY <1>3, <1>6, <1>10, <1>11, <1>12 DEF g, m

LEMMA LinkStep == IInv /\ LinkInv /\ [ContextNext]_contextVars => LinkInv'
<1> USE ContextAssumption
<1> SUFFICES ASSUME IInv, LinkInv, [ContextNext]_contextVars PROVE LinkInv'
  OBVIOUS
<1>0. history \in Seq(Said) /\ ids \in Nat /\ Counted(history, ids) /\ Len(history) \in Nat
  BY LenProperties DEF IInv
<1>1. ASSUME NEW l \in Lengths, UserSays(l) PROVE LinkInv'
  <2>1. /\ l \in Nat /\ history' = Append(history, Msg("user", <<>>, 0, l, 0))
        /\ phase = "idle" /\ phase' = "ask"
    BY <1>1 DEF UserSays, Append1
  <2>2. /\ Linked(history) /\ Answered(history, Len(history))
        /\ \A i \in 1..Len(history) : Len(history[i].calls) <= MaxCalls
    BY <2>1 DEF LinkInv
  <2>3. /\ Linked(history') /\ Answered(history', Len(history'))
        /\ \A i \in 1..Len(history') : Len(history'[i].calls) <= MaxCalls
        /\ history' # <<>> /\ history'[Len(history')].role = "user"
    BY <1>0, <2>1, <2>2, PlainMessage
  <2> QED
    BY <2>1, <2>3 DEF LinkInv
<1>2. CASE Ask
  BY <1>2 DEF Ask, LinkInv
<1>3. CASE AnswerFails
  BY <1>3 DEF AnswerFails, LinkInv
<1>4. ASSUME NEW l \in Lengths, NEW a \in Lengths, NEW n \in 0..MaxCalls, Answer(l, n, a)
      PROVE  LinkInv'
  <2> DEFINE calls == [i \in 1..n |-> ids + i]
             m == Msg("assistant", calls, 0, l, a)
             e == <<m>>
             h == history
             g == history'
  <2>1. /\ g = Append(h, m) /\ ids' = ids + n /\ n \in Nat /\ phase = "answer"
        /\ phase' = IF n = 0 THEN "idle" ELSE "observe"
    BY <1>4 DEF Answer, Append1
  <2>2. /\ Linked(h) /\ Answered(h, Len(h))
        /\ \A i \in 1..Len(h) : Len(h[i].calls) <= MaxCalls
    BY <2>1 DEF LinkInv
  <2>3. calls \in Seq(Nat) /\ Len(calls) = n /\ \A k \in 1..n : calls[k] = ids + k
    BY <1>0, <2>1
  <2> HIDE DEF calls
  <2>4. m \in Said /\ m.role = "assistant" /\ m.calls = calls /\ m.answers = 0
    BY <2>3 DEF Msg, Said, Message
  <2> HIDE DEF m
  <2>5. e \in Seq(Said) /\ Len(e) = 1 /\ e[1] = m
    BY <2>4
  <2>6. g = h \o e
    BY <1>0, <2>1, <2>4, AppendIsConcat
  <2> HIDE DEF e
  <2>7. Linked(h \o e)
    <3>1. \A x \in 1..Len(e) : x = 1 /\ e[x] = m
      BY <2>5
    <3>2. \A k \in 1..n : calls[k] > ids
      BY <1>0, <2>3
    <3>3. \A k, j \in 1..n : calls[k] = calls[j] => k = j
      BY <1>0, <2>3
    <3>5. Len(m.calls) = n /\ \A k \in 1..n : m.calls[k] = calls[k]
      BY <2>3, <2>4
    <3>6. (\A k \in 1..Len(m.calls) : m.calls[k] > ids)
          /\ \A k, j \in 1..Len(m.calls) : m.calls[k] = m.calls[j] => k = j
      <4>1. \A k \in 1..n : m.calls[k] > ids
        BY <3>2, <3>5
      <4>2. \A k, j \in 1..n : m.calls[k] = m.calls[j] => k = j
        BY <3>3, <3>5
      <4> QED
        BY <3>5, <4>1, <4>2
    <3>4. Continues(h, e, ids)
      <4> SUFFICES ASSUME NEW x \in 1..Len(e)
                   PROVE  /\ e[x].role # "assistant" => e[x].calls = <<>>
                          /\ e[x].role # "user" => e[x].answers = 0
                          /\ \A k \in 1..Len(e[x].calls) : e[x].calls[k] > ids
                          /\ \A k \in 1..Len(e[x].calls) : \A y \in 1..Len(e) :
                               \A j \in 1..Len(e[y].calls) :
                                 e[x].calls[k] = e[y].calls[j] => x = y /\ k = j
                          /\ e[x].answers # 0 =>
                               /\ Len(h) # 0 /\ x \in 1..Len(h[Len(h)].calls)
                               /\ e[x].answers = h[Len(h)].calls[x]
        BY DEF Continues
      <4>1. e[x] = m /\ x = 1
        BY <3>1
      <4>2. ASSUME NEW k \in 1..Len(e[x].calls), NEW y \in 1..Len(e),
                   NEW j \in 1..Len(e[y].calls), e[x].calls[k] = e[y].calls[j]
            PROVE  x = y /\ k = j
        <5>1. e[y] = m /\ y = 1
          BY <3>1
        <5>2. k \in 1..Len(m.calls) /\ j \in 1..Len(m.calls) /\ m.calls[k] = m.calls[j]
          BY <4>1, <4>2, <5>1
        <5> QED
          BY <3>6, <4>1, <5>1, <5>2
      <4>3. \A k \in 1..Len(e[x].calls) : e[x].calls[k] > ids
        BY <3>6, <4>1
      <4>4. e[x].role = "assistant" /\ e[x].answers = 0
        BY <2>4, <4>1
      <4> QED
        BY <4>2, <4>3, <4>4
    <3> QED
      BY <1>0, <2>2, <2>5, <3>4, LinkedMore
  <2>8. /\ Len(g) = Len(h) + 1 /\ g[Len(h) + 1] = m
        /\ \A i \in 1..Len(h) : g[i] = h[i]
    BY <1>0, <2>1, <2>4, AppendProperties
  <2>9. Answered(g, Len(h))
    <3>1. Len(h) \in 0..Len(h)
      BY <1>0
    <3> QED
      BY <1>0, <2>2, <2>5, <2>6, <3>1, AnsweredMore
  <2>10. \A i \in 1..Len(g) : i \in 1..Len(h) \/ i = Len(h) + 1
    BY <1>0, <2>8
  <2> HIDE DEF g, h
  <2>11. \A i \in 1..Len(g) : Len(g[i].calls) <= MaxCalls
    <3> SUFFICES ASSUME NEW i \in 1..Len(g) PROVE Len(g[i].calls) <= MaxCalls
      OBVIOUS
    <3>1. CASE i \in 1..Len(h)
      BY <2>2, <2>8, <3>1
    <3>2. CASE i = Len(h) + 1
      <4>1. Len(g[i].calls) = n
        BY <2>3, <2>4, <2>8, <3>2
      <4> QED
        BY <4>1
    <3> QED
      BY <2>10, <3>1, <3>2
  <2>12. Answered(g, IF phase' = "observe" THEN Len(g) - 1 ELSE Len(g))
    <3>1. CASE n # 0
      <4>1. phase' = "observe" /\ Len(g) - 1 = Len(h)
        BY <1>0, <2>1, <2>8, <3>1 DEF h
      <4> QED
        BY <2>9, <4>1
    <3>2. CASE n = 0
      <4>1. phase' # "observe" /\ Len(g[Len(h) + 1].calls) = 0
        BY <2>1, <2>3, <2>4, <2>8, <3>2
      <4>2. ASSUME NEW i \in 1..Len(g), NEW k \in 1..Len(g[i].calls)
            PROVE  i + k <= Len(g) /\ g[i+k].answers = g[i].calls[k]
        <5>1. CASE i \in 1..Len(h)
          BY <2>9, <5>1 DEF Answered
        <5>2. CASE i = Len(h) + 1
          BY <4>1, <5>2
        <5> QED
          BY <2>10, <5>1, <5>2
      <4> QED
        BY <4>1, <4>2 DEF Answered
    <3> QED
      BY <3>1, <3>2
  <2>13. phase' \notin {"ask", "answer", "remind"}
    BY <2>1
  <2> QED
    BY <2>6, <2>7, <2>11, <2>12, <2>13 DEF LinkInv, g
<1>5. ASSUME NEW n \in 1..MaxCalls, NEW ls \in [1..n -> Lengths], Observe(ls)
      PROVE  LinkInv'
  <2> DEFINE h == history
             g == history'
             calls == h[Len(h)].calls
             e == [i \in 1..Len(calls) |-> Msg("user", <<>>, calls[i], ls[i], 0)]
  <2>1. /\ g = h \o e /\ Len(ls) = Len(calls)
        /\ phase = "observe" /\ phase' = "remind"
    BY <1>5 DEF Observe, Last
  <2>2. h # <<>> /\ calls # <<>>
    BY <2>1 DEF IInv, Last
  <2>3. Len(h) \in 1..Len(h)
    BY <1>0, <2>2, EmptySeq
  <2>4. calls \in Seq(Nat) /\ Len(calls) \in Nat /\ Len(calls) # 0
    <3>1. h[Len(h)] \in Said
      BY <1>0, <2>3, ElementOfSeq
    <3>2. calls \in Seq(Nat)
      BY <3>1 DEF Said, Message
    <3> QED
      BY <2>2, <3>2, LenProperties, EmptySeq
  <2>5. /\ Linked(h) /\ Answered(h, Len(h) - 1)
        /\ \A i \in 1..Len(h) : Len(h[i].calls) <= MaxCalls
    BY <2>1 DEF LinkInv
  <2>6. \A i \in 1..Len(calls) : ls[i] \in Nat /\ calls[i] \in Nat
    <3>1. ls \in Seq(Lengths)
      BY SeqDef
    <3> QED
      BY <2>1, <2>4, <3>1, ElementOfSeq
  <2> HIDE DEF calls
  <2>7. \A x \in 1..Len(calls) :
          /\ e[x] \in Said /\ e[x].role = "user" /\ e[x].calls = <<>>
          /\ e[x].answers = calls[x]
    BY <2>6, EmptySeq DEF Msg, Said, Message
  <2>8. e \in Seq(Said) /\ Len(e) = Len(calls)
    BY <2>4, <2>7, SeqDef
  <2> HIDE DEF e
  <2>9. Len(<<>>) = 0
    BY EmptySeq
  <2>10. Linked(g)
    <3>1. Continues(h, e, ids)
      <4>1. Len(h) # 0
        BY <2>3
      <4> QED
        BY <2>7, <2>8, <2>9, <4>1 DEF calls, Continues
    <3> QED
      BY <1>0, <2>1, <2>5, <2>8, <3>1, LinkedMore
  <2>11. /\ Len(g) = Len(h) + Len(calls) /\ Len(h) \in Nat
         /\ \A i \in 1..Len(h) : g[i] = h[i]
         /\ \A x \in 1..Len(calls) : g[Len(h) + x] = e[x]
    <3>1. h \in Seq(Said)
      BY <1>0
    <3>2. g = h \o e
      BY <2>1
    <3> HIDE DEF g, h
    <3>3. /\ Len(h \o e) = Len(h) + Len(e) /\ Len(h) \in Nat
          /\ \A i \in 1..Len(h) : (h \o e)[i] = h[i]
          /\ \A x \in 1..Len(e) : (h \o e)[Len(h) + x] = e[x]
      BY <2>8, <3>1, Joined
    <3> QED
      BY <2>8, <3>2, <3>3
  <2>12. Answered(g, Len(h) - 1)
    <3>1. Len(h) - 1 \in 0..Len(h)
      BY <1>0, <2>3
    <3> QED
      BY <1>0, <2>1, <2>5, <2>8, <3>1, AnsweredMore
  <2> HIDE DEF g, h
  <2>13. Len(h) \in Nat /\ Len(h) >= 1
    BY <1>0, <2>3 DEF h
  <2>16. ASSUME NEW i \in 1..Len(g)
         PROVE  \/ i \in 1..Len(h)
                \/ i - Len(h) \in 1..Len(calls) /\ i = Len(h) + (i - Len(h))
    BY <2>4, <2>11, <2>13
  <2>17. ASSUME NEW i \in 1..Len(g), i \notin 1..Len(h)
         PROVE  Len(g[i].calls) = 0 /\ g[i].role = "user"
    <3> DEFINE x == i - Len(h)
    <3>1. x \in 1..Len(calls) /\ i = Len(h) + x
      BY <2>16, <2>17
    <3> HIDE DEF x
    <3>2. g[i] = e[x]
      BY <2>11, <3>1
    <3> QED
      BY <2>7, <2>9, <3>1, <3>2
  <2>18. \A i \in 1..Len(g) : Len(g[i].calls) <= MaxCalls
    <3> SUFFICES ASSUME NEW i \in 1..Len(g) PROVE Len(g[i].calls) <= MaxCalls
      OBVIOUS
    <3>1. CASE i \in 1..Len(h)
      BY <2>5, <2>11, <3>1
    <3>2. CASE i \notin 1..Len(h)
      BY <2>17, <3>2
    <3> QED
      BY <3>1, <3>2
  <2>19. ASSUME NEW i \in 1..Len(g), NEW k \in 1..Len(g[i].calls)
         PROVE  i + k <= Len(g) /\ g[i+k].answers = g[i].calls[k]
    <3>1. CASE i \in 1..(Len(h) - 1)
      BY <2>12, <3>1 DEF Answered
    <3>2. CASE i = Len(h)
      <4>1. i \in 1..Len(h)
        BY <2>13, <3>2
      <4>2. g[i].calls = calls
        BY <2>11, <3>2, <4>1 DEF calls
      <4>3. k \in 1..Len(calls)
        BY <4>2
      <4>4. g[i+k] = e[k] /\ e[k].answers = calls[k]
        BY <2>7, <2>11, <3>2, <4>3
      <4>5. i + k <= Len(g)
        BY <2>4, <2>11, <2>13, <3>2, <4>3
      <4> QED
        BY <4>2, <4>4, <4>5
    <3>3. CASE i \notin 1..Len(h)
      <4>1. Len(g[i].calls) = 0
        BY <2>17, <3>3
      <4> QED
        BY <4>1
    <3> QED
      BY <2>13, <3>1, <3>2, <3>3
  <2>20. Answered(g, Len(g))
    BY <2>19 DEF Answered
  <2>21. g # <<>> /\ g[Len(g)].role = "user"
    <3>1. Len(g) \in 1..Len(g) /\ Len(g) \notin 1..Len(h) /\ Len(g) # 0
      BY <2>4, <2>11, <2>13
    <3> QED
      BY <2>9, <2>17, <3>1
  <2> QED
    BY <2>1, <2>10, <2>18, <2>20, <2>21 DEF LinkInv, g
<1>6. ASSUME NEW l \in Lengths, Remind(l) PROVE LinkInv'
  <2>1. CASE l = 0
    BY <1>6, <2>1 DEF Remind, LinkInv
  <2>2. CASE l # 0
    <3>1. /\ l \in Nat /\ history' = Append(history, Msg("user", <<>>, 0, l, 0))
          /\ phase = "remind" /\ phase' = "ask"
      BY <1>6, <2>2 DEF Remind
    <3>2. /\ Linked(history) /\ Answered(history, Len(history))
          /\ \A i \in 1..Len(history) : Len(history[i].calls) <= MaxCalls
      BY <3>1 DEF LinkInv
    <3>3. /\ Linked(history') /\ Answered(history', Len(history'))
          /\ \A i \in 1..Len(history') : Len(history'[i].calls) <= MaxCalls
          /\ history' # <<>> /\ history'[Len(history')].role = "user"
      BY <1>0, <3>1, <3>2, PlainMessage
    <3> QED
      BY <3>1, <3>3 DEF LinkInv
  <2> QED
    BY <2>1, <2>2
<1>7. CASE UNCHANGED contextVars
  BY <1>7 DEF contextVars, LinkInv
<1> QED
  BY <1>1, <1>2, <1>3, <1>4, <1>5, <1>6, <1>7 DEF ContextNext

LEMMA LinkInit == ContextInit => LinkInv
<1> SUFFICES ASSUME ContextInit PROVE LinkInv
  OBVIOUS
<1>1. history = <<>> /\ Len(history) = 0 /\ phase = "idle"
  BY EmptySeq DEF ContextInit
<1> QED
  BY <1>1 DEF LinkInv, Linked, Answered

LEMMA LinkInvariant == ContextSpec => []LinkInv
BY LinkInit, LinkStep, Invariant, PTL DEF ContextSpec

(* For any history, window and watermark, both providers accept what the   *)
(* loop sends, however the window cut the turns, if a turn has fewer calls *)
(* than the window has messages, which the code does not enforce.          *)
THEOREM RequestsAccepted ==
  ASSUME MaxCalls < Limit
  PROVE  ContextSpec => []RequestAccepted
<1>1. ContextInit => RequestAccepted
  BY DEF ContextInit, RequestAccepted
<1>2. IInv /\ LinkInv /\ RequestAccepted /\ [ContextNext]_contextVars => RequestAccepted'
  <2> SUFFICES ASSUME IInv, LinkInv, RequestAccepted, [ContextNext]_contextVars, phase' = "answer"
               PROVE  RequestAccepted'
    BY DEF RequestAccepted
  <2>1. CASE Ask
    <3>1. request' = Compact(<<System>> \o WorkingMemory(history)) /\ phase = "ask"
      BY <2>1 DEF Ask
    <3>2. /\ history \in Seq(Said) /\ history # <<>> /\ Linked(history)
          /\ Answered(history, Len(history)) /\ history[Len(history)].role = "user"
          /\ \A i \in 1..Len(history) : Len(history[i].calls) <= MaxCalls
      BY <3>1 DEF IInv, LinkInv
    <3>3. /\ request' \in Seq(Message) /\ request' # <<>>
          /\ request'[Len(request')].role = "user"
          /\ Linked(request') /\ Answered(request', Len(request'))
      BY <3>1, <3>2, RequestLinked
    <3> QED
      BY <3>3, LinkedIsAccepted DEF RequestAccepted
  <2>2. CASE UNCHANGED contextVars
    BY <2>2 DEF contextVars, RequestAccepted
  <2> QED
    BY <2>1, <2>2 DEF ContextNext, UserSays, AnswerFails, Answer, Observe, Remind
<1> QED
  BY <1>1, <1>2, Invariant, LinkInvariant, PTL DEF ContextSpec

=============================================================================
