------------------------ MODULE NasFileLogs_proofs ------------------------
(***************************************************************************)
(* Proofs about the NAS file-log collector, for every value of its         *)
(* constants: its types, the timestamps it gives, that its state file and  *)
(* its pushes are a durable outbox, and that it passes over no line in     *)
(* silence.                                                                *)
(***************************************************************************)
EXTENDS NasFileLogs, Recursion, SequenceTheorems, TLAPS

-----------------------------------------------------------------------------
(* The filter and the reading of the generations.                          *)

\* u is what the filter leaves of the first m lines of q, in their order.
Filtered(u, q, m) ==
    /\ u \in Seq(Lines)
    /\ \A i \in 1..m : q[i] \notin Normal => \E j \in 1..Len(u) : u[j] = q[i]
    /\ \A j \in 1..Len(u) : \E i \in 1..m : q[i] = u[j]
    /\ \A a, b \in 1..Len(u) : a < b => \E i, j \in 1..m : i < j /\ q[i] = u[a] /\ q[j] = u[b]

LEMMA FilteredStep ==
    ASSUME NEW q, NEW m \in Nat, NEW u, Filtered(u, q, m), q[m + 1] \in Lines
    PROVE  Filtered(IF q[m + 1] \in Normal THEN u ELSE Append(u, q[m + 1]), q, m + 1)
<1>1. CASE q[m + 1] \in Normal
  <2>1. \A i \in 1..(m + 1) : q[i] \notin Normal => i \in 1..m
    BY <1>1
  <2>2. 1..m \subseteq 1..(m + 1)
    OBVIOUS
  <2>3. \A i \in 1..(m + 1) : q[i] \notin Normal => \E j \in 1..Len(u) : u[j] = q[i]
    BY <2>1, Zenon DEF Filtered
  <2>4. \A j \in 1..Len(u) : \E i \in 1..(m + 1) : q[i] = u[j]
    BY <2>2, Zenon DEF Filtered
  <2>5. ASSUME NEW a \in 1..Len(u), NEW b \in 1..Len(u), a < b
        PROVE  \E i, j \in 1..(m + 1) : i < j /\ q[i] = u[a] /\ q[j] = u[b]
    <3>1. PICK i \in 1..m, j \in 1..m : i < j /\ q[i] = u[a] /\ q[j] = u[b]
      BY <2>5, Zenon DEF Filtered
    <3> QED
      BY <2>2, <3>1
  <2>6. Filtered(u, q, m + 1)
    BY <2>3, <2>4, <2>5, Zenon DEF Filtered
  <2> QED
    BY <1>1, <2>6, Zenon
<1>2. CASE q[m + 1] \notin Normal
  <2> DEFINE l == q[m + 1]
             w == Append(u, l)
  <2>1. /\ u \in Seq(Lines)
        /\ w \in Seq(Lines)
        /\ Len(u) \in Nat
        /\ Len(w) = Len(u) + 1
        /\ \A j \in 1..Len(u) : w[j] = u[j]
        /\ w[Len(u) + 1] = l
    BY AppendProperties DEF Filtered
  <2> HIDE DEF w
  <2>2. \A i \in 1..(m + 1) : q[i] \notin Normal => \E j \in 1..Len(w) : w[j] = q[i]
    <3> SUFFICES ASSUME NEW i \in 1..(m + 1), q[i] \notin Normal
                 PROVE  \E j \in 1..Len(w) : w[j] = q[i]
      OBVIOUS
    <3>1. CASE i = m + 1
      BY <3>1, <2>1
    <3>2. CASE i # m + 1
      <4>0. i \in 1..m
        BY <3>2
      <4>1. PICK j \in 1..Len(u) : u[j] = q[i]
        BY <4>0, Zenon DEF Filtered
      <4> QED
        BY <4>1, <2>1
    <3> QED
      BY <3>1, <3>2
  <2>3. \A j \in 1..Len(w) : \E i \in 1..(m + 1) : q[i] = w[j]
    <3> SUFFICES ASSUME NEW j \in 1..Len(w) PROVE \E i \in 1..(m + 1) : q[i] = w[j]
      OBVIOUS
    <3>1. CASE j = Len(u) + 1
      BY <3>1, <2>1
    <3>2. CASE j # Len(u) + 1
      <4>1. j \in 1..Len(u)
        BY <3>2, <2>1
      <4>2. PICK i \in 1..m : q[i] = u[j]
        BY <4>1 DEF Filtered
      <4> QED
        BY <4>1, <4>2, <2>1
    <3> QED
      BY <3>1, <3>2
  <2>4. ASSUME NEW a \in 1..Len(w), NEW b \in 1..Len(w), a < b
        PROVE  \E i, j \in 1..(m + 1) : i < j /\ q[i] = w[a] /\ q[j] = w[b]
    <3>0. a \in 1..Len(u)
      BY <2>1, <2>4
    <3>1. CASE b = Len(u) + 1
      <4>1. PICK i \in 1..m : q[i] = u[a]
        BY <3>0 DEF Filtered
      <4> QED
        BY <3>0, <3>1, <4>1, <2>1
    <3>2. CASE b # Len(u) + 1
      <4>1. b \in 1..Len(u)
        BY <3>2, <2>1
      <4>2. PICK i \in 1..m, j \in 1..m : i < j /\ q[i] = u[a] /\ q[j] = u[b]
        BY <3>0, <4>1, <2>4 DEF Filtered
      <4> QED
        BY <3>0, <4>1, <4>2, <2>1
    <3> QED
      BY <3>1, <3>2
  <2>5. Filtered(w, q, m + 1)
    BY <2>1, <2>2, <2>3, <2>4, Zenon DEF Filtered
  <2> QED
    BY <1>2, <2>5, Zenon DEF w
<1> QED
  BY <1>1, <1>2

LEMMA UnfilteredProperties ==
    ASSUME NEW q \in Seq(Lines) PROVE Filtered(Unfiltered(q), q, Len(q))
<1> DEFINE n == Len(q)
           body(f) == [i \in 0..n |->
                         IF i = 0 THEN <<>>
                         ELSE IF q[i] \in Normal THEN f[i - 1] ELSE Append(f[i - 1], q[i])]
           kept == CHOOSE f : f = body(f)
           step == [i \in 1..n |-> [v \in Seq(Lines) |->
                         IF q[i] \in Normal THEN v ELSE Append(v, q[i])]]
<1>0. n \in Nat /\ \A i \in 1..n : q[i] \in Lines
  BY LenProperties
<1>1. Unfiltered(q) = kept[n]
  BY Zenon DEF Unfiltered
<1>2. kept = body(kept)
  <2>1. step \in [1..n -> [Seq(Lines) -> Seq(Lines)]]
    <3> SUFFICES ASSUME NEW i \in 1..n, NEW v \in Seq(Lines)
                 PROVE  (IF q[i] \in Normal THEN v ELSE Append(v, q[i])) \in Seq(Lines)
      OBVIOUS
    <3> QED
      BY <1>0, AppendProperties
  <2> HIDE DEF step, n
  <2>2. PICK f : Recursive(f, n, Seq(Lines), <<>>, step)
    <3>1. <<>> \in Seq(Lines) /\ n \in Nat
      BY <1>0, EmptySeq
    <3> QED
      BY <2>1, <3>1, RecursionTo
  <2>3. /\ f \in [0..n -> Seq(Lines)]
        /\ f[0] = <<>> /\ \A i \in 1..n : f[i] = step[i][f[i - 1]]
    BY <2>2 DEF Recursive
  <2>4. f = body(f)
    <3>1. ASSUME NEW i \in 0..n PROVE f[i] = body(f)[i]
      <4>1. CASE i = 0
        BY <2>3, <4>1
      <4>2. CASE i # 0
        <5>1. i \in 1..n /\ i - 1 \in 0..n /\ f[i - 1] \in Seq(Lines)
          BY <4>2, <1>0, <2>3
        <5>2. f[i] = step[i][f[i - 1]]
          BY <2>3, <4>2
        <5>3. step[i][f[i - 1]] = IF q[i] \in Normal THEN f[i - 1] ELSE Append(f[i - 1], q[i])
          BY <5>1 DEF step
        <5> QED
          BY <4>2, <5>2, <5>3
      <4> QED
        BY <4>1, <4>2
    <3>2. body(f) = [i \in 0..n |-> body(f)[i]]
      OBVIOUS
    <3>3. f = [i \in 0..n |-> f[i]]
      BY <2>3
    <3> HIDE DEF body
    <3> QED
      BY <3>1, <3>2, <3>3
  <2> HIDE DEF body
  <2> QED
    BY <2>4
<1> DEFINE S == {i \in 0..n : Filtered(kept[i], q, i)}
<1> HIDE DEF kept, n
<1>3. kept[0] = <<>> /\ \A i \in 1..n :
        kept[i] = IF q[i] \in Normal THEN kept[i - 1] ELSE Append(kept[i - 1], q[i])
  <2>1. \A i \in 0..n : kept[i] = body(kept)[i]
    BY <1>2, Zenon
  <2>2. \A i \in 1..n : i \in 0..n /\ i # 0
    BY <1>0
  <2>3. 0 \in 0..n
    BY <1>0
  <2> QED
    BY <2>1, <2>2, <2>3
<1>4. 0 \in S
  <2>1. Filtered(<<>>, q, 0)
    BY EmptySeq DEF Filtered
  <2>2. 0 \in 0..n
    BY <1>0
  <2> QED
    BY <1>3, <2>1, <2>2
<1>5. ASSUME NEW i \in 1..n, i - 1 \in S PROVE i \in S
  <2>1. i - 1 \in Nat /\ (i - 1) + 1 = i /\ i \in 0..n
    BY <1>0
  <2>2. Filtered(IF q[i] \in Normal THEN kept[i - 1] ELSE Append(kept[i - 1], q[i]), q, i)
    BY <1>0, <1>5, <2>1, FilteredStep
  <2> QED
    BY <1>3, <2>1, <2>2
<1>6. n \in S
  <2> HIDE DEF S
  <2>1. \A i \in 0..n : i \in S
    BY <1>0, <1>4, <1>5, InductionTo
  <2> QED
    BY <1>0, <2>1
<1> QED
  BY <1>1, <1>6 DEF n

\* What ReadLines takes of generation k.
Part(s, oldest, offset, seen, k) ==
    LET from == IF k = oldest THEN offset ELSE 0
    IN  SubSeq(s[k].lines, from + 1, ReadTo(s[k], from, seen, k # 1))

\* A concatenation has what the two have.
LEMMA ConcatHas ==
    ASSUME NEW u \in Seq(Lines), NEW v \in Seq(Lines)
    PROVE  /\ u \o v \in Seq(Lines)
           /\ \A i \in 1..Len(u) : \E j \in 1..Len(u \o v) : (u \o v)[j] = u[i]
           /\ \A i \in 1..Len(v) : \E j \in 1..Len(u \o v) : (u \o v)[j] = v[i]
<1>1. /\ u \o v \in Seq(Lines)
      /\ Len(u) \in Nat /\ Len(v) \in Nat
      /\ Len(u \o v) = Len(u) + Len(v)
      /\ \A i \in 1 .. Len(u) + Len(v) : (u \o v)[i] = IF i <= Len(u) THEN u[i] ELSE v[i - Len(u)]
  BY ConcatProperties, LenProperties
<1>2. ASSUME NEW i \in 1..Len(u) PROVE \E j \in 1..Len(u \o v) : (u \o v)[j] = u[i]
  BY <1>1
<1>3. ASSUME NEW i \in 1..Len(v) PROVE \E j \in 1..Len(u \o v) : (u \o v)[j] = v[i]
  <2>1. Len(u) + i \in 1..(Len(u) + Len(v)) /\ ~(Len(u) + i <= Len(u)) /\ (Len(u) + i) - Len(u) = i
    BY <1>1
  <2>2. (u \o v)[Len(u) + i] = v[i]
    BY <1>1, <2>1
  <2> QED
    BY <1>1, <2>1, <2>2
<1> QED
  BY <1>1, <1>2, <1>3

\* The parts make up a sequence with the lines of each of them.
LEMMA ReadLinesProperties ==
    ASSUME NEW s, NEW oldest \in Nat, NEW offset, NEW seen,
           \A k \in 1..oldest : Part(s, oldest, offset, seen, k) \in Seq(Lines)
    PROVE  /\ ReadLines(s, oldest, offset, seen) \in Seq(Lines)
           /\ \A k \in 1..oldest : \A i \in 1..Len(Part(s, oldest, offset, seen, k)) :
                 \E j \in 1..Len(ReadLines(s, oldest, offset, seen)) :
                    ReadLines(s, oldest, offset, seen)[j] = Part(s, oldest, offset, seen, k)[i]
           /\ oldest = 1 => ReadLines(s, oldest, offset, seen) = Part(s, oldest, offset, seen, 1)
<1> DEFINE from(k) == IF k = oldest THEN offset ELSE 0
           part(k) == SubSeq(s[k].lines, from(k) + 1, ReadTo(s[k], from(k), seen, k # 1))
           body(f) == [n \in 0..oldest |->
                         IF n = 0 THEN <<>> ELSE f[n - 1] \o part(oldest - n + 1)]
           read == CHOOSE f : f = body(f)
           step == [n \in 1..oldest |-> [v \in Seq(Lines) |-> v \o part(oldest - n + 1)]]
<1>0. \A k \in 1..oldest : part(k) = Part(s, oldest, offset, seen, k) /\ part(k) \in Seq(Lines)
  BY DEF Part
<1>1. ReadLines(s, oldest, offset, seen) = read[oldest]
  BY Zenon DEF ReadLines
<1>a. ASSUME NEW n \in 1..oldest PROVE oldest - n + 1 \in 1..oldest
  OBVIOUS
<1>2. read = body(read)
  <2>1. step \in [1..oldest -> [Seq(Lines) -> Seq(Lines)]]
    <3> SUFFICES ASSUME NEW n \in 1..oldest, NEW v \in Seq(Lines)
                 PROVE  v \o part(oldest - n + 1) \in Seq(Lines)
      OBVIOUS
    <3> HIDE DEF part
    <3>1. part(oldest - n + 1) \in Seq(Lines)
      BY <1>0, <1>a
    <3> QED
      BY <3>1, ConcatProperties
  <2> HIDE DEF step, part
  <2>2. PICK f : Recursive(f, oldest, Seq(Lines), <<>>, step)
    <3>1. <<>> \in Seq(Lines)
      BY EmptySeq
    <3> QED
      BY <2>1, <3>1, RecursionTo
  <2>3. /\ f \in [0..oldest -> Seq(Lines)]
        /\ f[0] = <<>> /\ \A n \in 1..oldest : f[n] = step[n][f[n - 1]]
    BY <2>2 DEF Recursive
  <2>4. f = body(f)
    <3>1. ASSUME NEW n \in 0..oldest PROVE f[n] = body(f)[n]
      <4>1. CASE n = 0
        BY <2>3, <4>1
      <4>2. CASE n # 0
        <5>1. n \in 1..oldest /\ n - 1 \in 0..oldest /\ f[n - 1] \in Seq(Lines)
          BY <4>2, <2>3
        <5>2. f[n] = step[n][f[n - 1]]
          BY <2>3, <4>2
        <5>3. step[n][f[n - 1]] = f[n - 1] \o part(oldest - n + 1)
          BY <5>1 DEF step
        <5> QED
          BY <4>2, <5>2, <5>3
      <4> QED
        BY <4>1, <4>2
    <3>2. body(f) = [n \in 0..oldest |-> body(f)[n]]
      OBVIOUS
    <3>3. f = [n \in 0..oldest |-> f[n]]
      BY <2>3
    <3> HIDE DEF body
    <3> QED
      BY <3>1, <3>2, <3>3
  <2> HIDE DEF body
  <2> QED
    BY <2>4
<1> DEFINE Has(n) == /\ read[n] \in Seq(Lines)
                     /\ \A k \in (oldest - n + 1)..oldest : \A i \in 1..Len(part(k)) :
                           \E j \in 1..Len(read[n]) : read[n][j] = part(k)[i]
           S == {n \in 0..oldest : Has(n)}
<1> HIDE DEF read, part
<1>3. read[0] = <<>> /\ \A n \in 1..oldest : read[n] = read[n - 1] \o part(oldest - n + 1)
  <2>1. \A n \in 0..oldest : read[n] = body(read)[n]
    BY <1>2, Zenon
  <2>2. 0 \in 0..oldest
    OBVIOUS
  <2>3. read[0] = <<>>
    BY <2>1, <2>2
  <2>4. ASSUME NEW n \in 1..oldest PROVE read[n] = read[n - 1] \o part(oldest - n + 1)
    <3>1. n \in 0..oldest /\ n # 0
      OBVIOUS
    <3> QED
      BY <2>1, <3>1
  <2> QED
    BY <2>3, <2>4
<1>4. 0 \in S
  <2>1. Has(0)
    <3>1. \A k \in (oldest - 0 + 1)..oldest : FALSE
      OBVIOUS
    <3>2. read[0] \in Seq(Lines)
      BY <1>3, EmptySeq
    <3> QED
      BY <3>1, <3>2, Zenon
  <2> HIDE DEF Has
  <2> QED
    BY <2>1
<1>5. ASSUME NEW n \in 1..oldest, n - 1 \in S PROVE n \in S
  <2> DEFINE g == oldest - n + 1
             u == read[n - 1]
             w == read[n]
  <2>0. Has(n - 1)
    BY <1>5
  <2>1. g \in 1..oldest /\ part(g) \in Seq(Lines) /\ u \in Seq(Lines)
    BY <1>0, <1>a, <2>0
  <2>2. w = u \o part(g)
    BY <1>3
  <2> HIDE DEF w, u
  <2>3. /\ w \in Seq(Lines)
        /\ \A i \in 1..Len(u) : \E j \in 1..Len(w) : w[j] = u[i]
        /\ \A i \in 1..Len(part(g)) : \E j \in 1..Len(w) : w[j] = part(g)[i]
    <3> DEFINE v == part(g)
    <3>1. u \in Seq(Lines) /\ v \in Seq(Lines) /\ w = u \o v
      BY <2>1, <2>2
    <3> HIDE DEF v
    <3>2. /\ w \in Seq(Lines)
          /\ \A i \in 1..Len(u) : \E j \in 1..Len(w) : w[j] = u[i]
          /\ \A i \in 1..Len(v) : \E j \in 1..Len(w) : w[j] = v[i]
      <4>1. /\ u \o v \in Seq(Lines)
            /\ \A i \in 1..Len(u) : \E j \in 1..Len(u \o v) : (u \o v)[j] = u[i]
            /\ \A i \in 1..Len(v) : \E j \in 1..Len(u \o v) : (u \o v)[j] = v[i]
        BY <3>1, ConcatHas
      <4> QED
        BY <3>1, <4>1, Zenon
    <3> QED
      BY <3>2, Zenon DEF v
  <2>4. ASSUME NEW k \in g..oldest, NEW i \in 1..Len(part(k))
        PROVE  \E j \in 1..Len(w) : w[j] = part(k)[i]
    <3>1. CASE k = g
      BY <2>3, <3>1, Zenon
    <3>2. CASE k # g
      <4>1. k \in (oldest - (n - 1) + 1)..oldest
        BY <3>2
      <4>2. PICK j \in 1..Len(u) : u[j] = part(k)[i]
        BY <4>1, <2>0 DEF u
      <4> QED
        BY <4>2, <2>3
    <3> QED
      BY <3>1, <3>2
  <2>5. Has(n)
    BY <2>3, <2>4 DEF w
  <2> HIDE DEF Has
  <2> QED
    BY <2>5
<1>6. Has(oldest)
  <2> HIDE DEF S, Has
  <2>1. \A n \in 0..oldest : n \in S
    BY <1>4, <1>5, InductionTo
  <2> QED
    BY <2>1 DEF S
<1>7. oldest = 1 => read[oldest] = part(1)
  <2>1. SUFFICES ASSUME oldest = 1 PROVE read[1] = part(1)
    OBVIOUS
  <2>2. read[1] = read[0] \o part(1)
    <3>1. 1 \in 1..oldest /\ 1 - 1 = 0 /\ oldest - 1 + 1 = 1
      BY <2>1
    <3> QED
      BY <1>3, <3>1, Zenon
  <2>3. <<>> \o part(1) = part(1)
    BY <1>0, <2>1, ConcatEmptySeq
  <2> QED
    BY <1>3, <2>2, <2>3, Zenon
<1>8. \A k \in 1..oldest : k \in (oldest - oldest + 1)..oldest
  OBVIOUS
<1>9. \A k \in 1..oldest : \A i \in 1..Len(part(k)) :
         \E j \in 1..Len(read[oldest]) : read[oldest][j] = part(k)[i]
  BY <1>6, <1>8, Zenon
<1>10. ASSUME oldest = 1 PROVE part(1) = Part(s, oldest, offset, seen, 1)
  BY <1>0, <1>10
<1>11. read[oldest] \in Seq(Lines)
  BY <1>6, Zenon
<1> HIDE DEF Has
<1> QED
  BY <1>0, <1>1, <1>7, <1>9, <1>10, <1>11, Zenon

-----------------------------------------------------------------------------
(* Types.                                                                  *)

Generations == Files \cup {Missing}

LEMMA OldestOf ==
    ASSUME NEW n \in Nat, NEW T \in SUBSET (1..n), T # {}
    PROVE  Oldest(T) \in T /\ \A j \in T : j <= Oldest(T)
<1> SUFFICES \E k \in T : \A j \in T : j <= k
  BY Zenon DEF Oldest
<1> SUFFICES ASSUME \A k \in T : \E j \in T : ~(j <= k) PROVE FALSE
  BY Zenon
<1> DEFINE S == {i \in 0..n : \E k \in T : i <= k}
<1>1. 0 \in S
  <2>1. PICK k \in T : TRUE
    OBVIOUS
  <2>2. 0 <= k /\ 0 \in 0..n
    BY <2>1
  <2> QED
    BY <2>2
<1>2. ASSUME NEW i \in 1..n, i - 1 \in S PROVE i \in S
  <2>1. PICK k \in T : i - 1 <= k
    BY <1>2
  <2>2. PICK j \in T : ~(j <= k)
    OBVIOUS
  <2> QED
    BY <2>1, <2>2
<1>3. n \in S
  <2> HIDE DEF S
  <2>1. \A i \in 0..n : i \in S
    BY <1>1, <1>2, InductionTo
  <2> QED
    BY <2>1
<1>4. PICK k \in T : n <= k
  BY <1>3
<1> QED
  BY <1>4

LEMMA FoundIn ==
    ASSUME NEW s \in Seq(Generations), NEW c, Found(s, c) # 0
    PROVE  /\ Found(s, c) \in 1..Len(s)
           /\ s[Found(s, c)] # Missing
           /\ MatchesPrefix(s[Found(s, c)], c)
<1> DEFINE prefixed == {k \in Present(s) : MatchesPrefix(s[k], c)}
           same == {k \in prefixed : s[k].ino = c.ino}
<1>1. Len(s) \in Nat /\ DOMAIN s = 1..Len(s)
  OBVIOUS
<1>2. same \subseteq prefixed /\ prefixed \subseteq 1..Len(s)
  BY <1>1 DEF Present
<1>3. Found(s, c) = IF same # {} THEN Oldest(same) ELSE IF prefixed # {} THEN Oldest(prefixed) ELSE 0
  BY Zenon DEF Found
<1>4. Found(s, c) \in prefixed
  <2> HIDE DEF same, prefixed
  <2>1. same # {} => Oldest(same) \in same
    BY <1>1, <1>2, OldestOf
  <2>2. prefixed # {} => Oldest(prefixed) \in prefixed
    BY <1>1, <1>2, OldestOf
  <2> QED
    BY <1>2, <1>3, <2>1, <2>2
<1> QED
  BY <1>1, <1>4 DEF Present

LEMMA GenerationType ==
    ASSUME NEW f \in Generations
    PROVE  /\ f.lines \in Seq(Lines) /\ Len(f.lines) \in Nat
           /\ f.open \in BOOLEAN /\ f.ino \in 0..(MaxRotations + 1)
           /\ Size(f) \in Nat \X BOOLEAN
<1>0. MaxRotations \in Nat
  BY NasAssumption
<1>1. f.lines \in Seq(Lines) /\ f.open \in BOOLEAN /\ f.ino \in 0..(MaxRotations + 1)
  <2>1. CASE f \in Files
    BY <1>0, <2>1 DEF Files, Inodes
  <2>2. CASE f = Missing
    <3>1. f.lines = <<>> /\ f.open = FALSE /\ f.ino = 0
      BY <2>2 DEF Missing
    <3>2. <<>> \in Seq(Lines)
      BY EmptySeq
    <3>3. 0 \in 0..(MaxRotations + 1)
      BY <1>0
    <3> QED
      BY <3>1, <3>2, <3>3
  <2> QED
    BY <2>1, <2>2 DEF Generations
<1>2. Len(f.lines) \in Nat
  BY <1>1
<1> QED
  BY <1>1, <1>2 DEF Size

LEMMA ReadToBounds ==
    ASSUME NEW f \in Generations, NEW offset \in 0..Len(f.lines), NEW seen, NEW rotated \in BOOLEAN
    PROVE  ReadTo(f, offset, seen, rotated) \in offset..Len(f.lines)
  BY GenerationType DEF ReadTo

LEMMA SubSeqType ==
    ASSUME NEW q \in Seq(Lines), NEW i \in 0..Len(q), NEW j \in i..Len(q)
    PROVE  /\ SubSeq(q, i + 1, j) \in Seq(Lines)
           /\ Len(SubSeq(q, i + 1, j)) = j - i
           /\ \A k \in 1..(j - i) : SubSeq(q, i + 1, j)[k] = q[i + k]
<1>0. Len(q) \in Nat /\ \A k \in 1..Len(q) : q[k] \in Lines
  OBVIOUS
<1>1. \A k \in (i + 1)..j : q[k] \in Lines
  BY <1>0
<1>2. i + 1 \in Int /\ j \in Int /\ j - (i + 1) + 1 = j - i
  BY <1>0
<1>3. /\ SubSeq(q, i + 1, j) \in Seq(Lines)
      /\ Len(SubSeq(q, i + 1, j)) = IF i + 1 <= j THEN j - (i + 1) + 1 ELSE 0
      /\ \A k \in 1..(j - (i + 1) + 1) : SubSeq(q, i + 1, j)[k] = q[(i + 1) + k - 1]
  BY <1>1, <1>2, SubSeqProperties
<1>4. Len(SubSeq(q, i + 1, j)) = j - i
  BY <1>0, <1>3
<1>5. ASSUME NEW k \in 1..(j - i) PROVE SubSeq(q, i + 1, j)[k] = q[i + k]
  <2>1. (i + 1) + k - 1 = i + k
    BY <1>0
  <2> QED
    BY <1>2, <1>3, <2>1
<1> QED
  BY <1>3, <1>4, <1>5

LEMMA PartType ==
    ASSUME NEW s \in Seq(Generations), NEW oldest \in 1..Len(s),
           NEW offset \in 0..Len(s[oldest].lines), NEW seen, NEW k \in 1..oldest
    PROVE  Part(s, oldest, offset, seen, k) \in Seq(Lines)
<1> DEFINE from == IF k = oldest THEN offset ELSE 0
           to == ReadTo(s[k], from, seen, k # 1)
<1>1. s[k] \in Generations
  <2>1. k \in 1..Len(s)
    OBVIOUS
  <2> QED
    BY <2>1, ElementOfSeq
<1>2. s[k].lines \in Seq(Lines) /\ Len(s[k].lines) \in Nat
  BY <1>1, GenerationType
<1>3. from \in 0..Len(s[k].lines)
  BY <1>2
<1> HIDE DEF from
<1>4. to \in from..Len(s[k].lines)
  BY <1>1, <1>3, ReadToBounds
<1> HIDE DEF to
<1>5. SubSeq(s[k].lines, from + 1, to) \in Seq(Lines)
  BY <1>2, <1>3, <1>4, SubSeqType
<1> QED
  BY <1>5, Zenon DEF Part, from, to

LEMMA LastOfType ==
    ASSUME NEW q \in Seq(Lines), NEW n \in Nat
    PROVE  LastOf(q, n) \in Seq(Lines)
<1>1. CASE Len(q) <= n
  BY <1>1 DEF LastOf
<1>2. CASE ~(Len(q) <= n)
  <2>1. Len(q) \in Nat /\ Len(q) - n \in 0..Len(q) /\ Len(q) \in (Len(q) - n)..Len(q)
    BY <1>2
  <2>2. SubSeq(q, Len(q) - n + 1, Len(q)) \in Seq(Lines)
    BY <2>1, SubSeqType
  <2> QED
    BY <1>2, <2>2, Zenon DEF LastOf
<1> QED
  BY <1>1, <1>2

LEMMA WorkType ==
    ASSUME NEW a \in Acked, NEW s \in Seq(Generations), s # <<>>
    PROVE  Work(a, s) \in Seq(Lines)
<1> DEFINE c == a.cursor
           whole == ReadLines(s, 1, 0, c.seen)
           rest == ReadLines(s, Found(s, c), Offset(c), c.seen)
           lines == CASE c = NoCursor -> LastOf(whole, BootTail)
                      [] c # NoCursor /\ Found(s, c) = 0 -> whole
                      [] OTHER -> rest
<1>0. Len(s) \in Nat /\ 1 \in 1..Len(s) /\ BootTail \in Nat
  BY NasAssumption
<1>1. whole \in Seq(Lines)
  <2>1. s[1] \in Generations
    BY <1>0, ElementOfSeq
  <2>2. 0 \in 0..Len(s[1].lines)
    BY <2>1, GenerationType
  <2>3. \A k \in 1..1 : Part(s, 1, 0, c.seen, k) \in Seq(Lines)
    BY <1>0, <2>2, PartType
  <2> QED
    BY <2>3, ReadLinesProperties
<1>2. ASSUME Found(s, c) # 0 PROVE rest \in Seq(Lines)
  <2>1. Found(s, c) \in 1..Len(s) /\ MatchesPrefix(s[Found(s, c)], c)
    BY <1>2, FoundIn
  <2>2. s[Found(s, c)] \in Generations
    BY <2>1, ElementOfSeq
  <2>3. Offset(c) \in Nat
    BY <1>0 DEF Acked, Cursors, Offset
  <2>4. Offset(c) \in 0..Len(s[Found(s, c)].lines)
    BY <2>1, <2>2, <2>3, GenerationType DEF MatchesPrefix
  <2>5. \A k \in 1..Found(s, c) : Part(s, Found(s, c), Offset(c), c.seen, k) \in Seq(Lines)
    BY <2>1, <2>4, PartType
  <2>6. Found(s, c) \in Nat
    BY <1>0, <2>1
  <2> QED
    BY <2>5, <2>6, ReadLinesProperties
<1> HIDE DEF whole, rest
<1>3. lines \in Seq(Lines)
  <2>1. CASE c = NoCursor
    BY <1>0, <1>1, <2>1, LastOfType
  <2>2. CASE c # NoCursor /\ Found(s, c) = 0
    BY <1>1, <2>2
  <2>3. CASE c # NoCursor /\ Found(s, c) # 0
    BY <1>2, <2>3
  <2> QED
    BY <2>1, <2>2, <2>3
<1>4. Work(a, s) = Unfiltered(lines)
  BY Zenon DEF Work, whole, rest
<1> HIDE DEF lines
<1> QED
  BY <1>3, <1>4, UnfilteredProperties DEF Filtered

LEMMA CursorType ==
    ASSUME NEW a \in Acked, NEW s \in Seq(Generations), s # <<>>
    PROVE  CursorAfter(a, s) \in Cursors
<1> DEFINE c == a.cursor
           from == IF c # NoCursor /\ Found(s, c) = 1 THEN Offset(c) ELSE 0
           to == ReadTo(s[1], from, c.seen, FALSE)
<1>0. Len(s) \in Nat /\ s[1] \in Generations
  BY ElementOfSeq
<1>1. /\ s[1].lines \in Seq(Lines) /\ Len(s[1].lines) \in Nat
      /\ s[1].ino \in 0..(MaxRotations + 1) /\ Size(s[1]) \in Nat \X BOOLEAN
  BY <1>0, GenerationType
<1>2. from \in 0..Len(s[1].lines)
  <2>1. CASE c # NoCursor /\ Found(s, c) = 1
    <3>1. MatchesPrefix(s[1], c)
      BY <2>1, FoundIn
    <3>2. Offset(c) \in Nat
      BY DEF Acked, Cursors, Offset
    <3> QED
      BY <1>1, <2>1, <3>1, <3>2 DEF MatchesPrefix
  <2>2. CASE ~(c # NoCursor /\ Found(s, c) = 1)
    BY <1>1, <2>2
  <2> QED
    BY <2>1, <2>2
<1> HIDE DEF from
<1>3. to \in from..Len(s[1].lines)
  BY <1>0, <1>2, ReadToBounds
<1>4. SubSeq(s[1].lines, 1, to) \in Seq(Lines)
  <2> HIDE DEF to
  <2>1. to \in 0..Len(s[1].lines) /\ 0 \in 0..Len(s[1].lines) /\ 0 + 1 = 1
    BY <1>1, <1>2, <1>3
  <2>2. SubSeq(s[1].lines, 0 + 1, to) \in Seq(Lines)
    BY <1>1, <2>1, SubSeqType
  <2> QED
    BY <2>1, <2>2
<1>5. CursorAfter(a, s) = [ino |-> s[1].ino, prefix |-> SubSeq(s[1].lines, 1, to), seen |-> Size(s[1])]
  BY Zenon DEF CursorAfter, from
<1> HIDE DEF to
<1> QED
  BY <1>1, <1>4, <1>5 DEF Cursors

\* The entries of a new outbox are stamped one after the other, past the last stamp.
LEMMA CandidateProperties ==
    ASSUME NEW st \in States, NEW s \in Seq(Generations), s # <<>>, NEW now \in Clocks
    PROVE  LET new == Candidate(st, s, now)
               w   == Work(st.acked, s)
               t   == FirstStamp(st.acked, now)
           IN  /\ new \in States
               /\ new.full /\ new.acked = st.acked
               /\ t \in Nat /\ t > st.acked.last
               /\ w \in Seq(Lines) /\ Len(new.box.entries) = Len(w)
               /\ \A i \in 1..Len(w) : /\ new.box.entries[i].ts = t + i - 1
                                       /\ new.box.entries[i].line = w[i]
               /\ new.box.next.last = IF Len(w) = 0 THEN st.acked.last ELSE t + Len(w) - 1
               /\ new.box.next.cursor = CursorAfter(st.acked, s)
<1> DEFINE a == st.acked
           w == Work(a, s)
           t == FirstStamp(a, now)
           entries == [i \in 1..Len(w) |-> [ts |-> t + i - 1, line |-> w[i]]]
           next == [cursor |-> CursorAfter(a, s),
                    last |-> IF w = <<>> THEN a.last ELSE t + Len(w) - 1,
                    gaps |-> IF a.cursor # NoCursor /\ Found(s, a.cursor) = 0
                             THEN a.gaps + 1 ELSE a.gaps]
           new == Candidate(st, s, now)
<1>1. a \in Acked /\ a.last \in Nat /\ a.gaps \in Nat
  BY DEF States, Acked
<1>2. w \in Seq(Lines)
  BY <1>1, WorkType
<1>3. t \in Nat /\ t > a.last
  BY <1>1, NasAssumption DEF FirstStamp
<1>4. CursorAfter(a, s) \in Cursors
  BY <1>1, CursorType
<1>5. new = [st EXCEPT !.full = TRUE, !.box = [entries |-> entries, next |-> next]]
  BY Zenon DEF Candidate
<1> HIDE DEF w, t, new
<1>6. Len(w) \in Nat /\ (w = <<>> <=> Len(w) = 0) /\ \A i \in 1..Len(w) : w[i] \in Lines
  BY <1>2
<1>7. entries \in Seq(Entries) /\ Len(entries) = Len(w)
  <2>1. \A i \in 1..Len(w) : [ts |-> t + i - 1, line |-> w[i]] \in Entries
    BY <1>3, <1>6 DEF Entries
  <2> QED
    BY <1>6, <2>1
<1>8. next \in Acked /\ next.cursor = CursorAfter(a, s)
      /\ next.last = IF Len(w) = 0 THEN a.last ELSE t + Len(w) - 1
  BY <1>1, <1>3, <1>4, <1>6 DEF Acked
<1>9. \A i \in 1..Len(w) : entries[i].ts = t + i - 1 /\ entries[i].line = w[i]
  OBVIOUS
<1> HIDE DEF entries, next
<1>10. /\ new \in States /\ new.full /\ new.acked = st.acked
       /\ new.box.entries = entries /\ new.box.next = next
  BY <1>5, <1>7, <1>8 DEF States
<1> QED
  BY <1>2, <1>3, <1>7, <1>8, <1>9, <1>10, Zenon DEF w, t, new

LEMMA InitialStateType == InitialState \in States /\ NoBox \in [entries : Seq(Entries), next : Acked]
<1>0. MaxRotations \in Nat
  BY NasAssumption
<1> DEFINE nil == <<>>
           acked == [cursor |-> NoCursor, last |-> 0, gaps |-> 0]
<1>1. nil \in Seq(Lines) /\ nil \in Seq(Entries)
  BY EmptySeq
<1>2. NoCursor \in Cursors
  <2>1. NoCursor = [ino |-> 0, prefix |-> nil, seen |-> <<0, FALSE>>]
    BY DEF NoCursor
  <2> HIDE DEF nil
  <2>2. <<0, FALSE>> \in Nat \X BOOLEAN
    OBVIOUS
  <2>3. 0 \in 0..(MaxRotations + 1)
    BY <1>0
  <2> QED
    BY <1>1, <2>1, <2>2, <2>3 DEF Cursors
<1>3. acked \in Acked
  BY <1>2 DEF Acked
<1>4. NoBox = [entries |-> nil, next |-> acked]
  BY DEF NoBox
<1> HIDE DEF nil, acked
<1>5. NoBox \in [entries : Seq(Entries), next : Acked] /\ NoBox.next \in Acked
  BY <1>1, <1>3, <1>4
<1> QED
  BY <1>5 DEF InitialState, States

LEMMA CommittedType == ASSUME NEW st \in States PROVE Committed(st) \in States
  BY InitialStateType DEF Committed, States

LEMMA BatchType ==
    ASSUME NEW b \in Seq(Entries), NEW k PROVE Batch(b, k) \subseteq {b[i] : i \in DOMAIN b}
                                            /\ {b[i] : i \in DOMAIN b} \subseteq Entries
  BY DEF Batch

LEMMA FileExcept ==
    ASSUME NEW f \in Files, NEW y
    PROVE  [f EXCEPT !.open = y] = [ino |-> f.ino, lines |-> f.lines, open |-> y]
  BY DEF Files

LEMMA WriteLineType ==
    ASSUME NEW part \in BOOLEAN, TypeOK, WriteLine(part)
    PROVE  nas' \in Seq(Files) /\ Len(nas') = Len(nas) /\ written' \in 0..MaxLines
<1> DEFINE f == nas[1]
           g == [ino |-> f.ino, lines |-> Append(f.lines, written + 1), open |-> part]
<1>0. MaxLines \in Nat /\ written \in 0..MaxLines /\ written < MaxLines
  BY NasAssumption DEF TypeOK, WriteLine
<1>1. nas \in Seq(Files) /\ 1 \in 1..Len(nas) /\ f \in Files
  BY NasAssumption DEF TypeOK
<1>2. f = [ino |-> f.ino, lines |-> f.lines, open |-> f.open] /\ f.lines \in Seq(Lines) /\ f.ino \in Inodes
  BY <1>1 DEF Files
<1>3. written + 1 \in Lines
  BY <1>0 DEF Lines
<1>4. Append(f.lines, written + 1) \in Seq(Lines)
  BY <1>2, <1>3, AppendProperties
<1>5. g \in Files
  BY <1>2, <1>4 DEF Files
<1>6. nas' = [nas EXCEPT ![1] = g]
  BY Zenon DEF WriteLine
<1> HIDE DEF g
<1>7. nas' \in Seq(Files) /\ Len(nas') = Len(nas)
  BY <1>1, <1>5, <1>6, ExceptSeq
<1>8. written' = written + 1
  BY DEF WriteLine
<1> QED
  BY <1>0, <1>7, <1>8

LEMMA FinishLineType ==
    ASSUME TypeOK, FinishLine PROVE nas' \in Seq(Files) /\ Len(nas') = Len(nas)
<1> DEFINE f == nas[1]
           g == [ino |-> f.ino, lines |-> f.lines, open |-> FALSE]
<1>1. nas \in Seq(Files) /\ 1 \in 1..Len(nas) /\ f \in Files
  BY NasAssumption DEF TypeOK
<1>2. g \in Files /\ f = [ino |-> f.ino, lines |-> f.lines, open |-> f.open]
  BY <1>1 DEF Files
<1>3. nas' = [nas EXCEPT ![1] = g]
  <2>1. nas' = [nas EXCEPT ![1] = [nas[1] EXCEPT !.open = FALSE]]
    BY Zenon DEF FinishLine
  <2>2. [nas[1] EXCEPT !.open = FALSE] = g
    BY <1>1, FileExcept, Zenon
  <2> QED
    BY <2>1, <2>2, Zenon
<1> HIDE DEF g
<1> QED
  BY <1>1, <1>2, <1>3, ExceptSeq

\* What a rotation leaves: an empty current file, the file of before and those
\* behind it, as many as are kept.
LEMMA RotateProperties ==
    ASSUME NEW style, TypeOK, Rotate(style)
    PROVE  /\ nas' \in Seq(Files)
           /\ Len(nas') = IF Len(nas) < Depth THEN Len(nas) + 1 ELSE Depth
           /\ nas'[1].lines = <<>> /\ nas'[1].open = FALSE
           /\ 2 <= Len(nas') => nas'[2].lines = nas[1].lines /\ nas'[2].open = nas[1].open
           /\ \A k \in 3..Len(nas') : nas'[k] = nas[k - 1]
<1> DEFINE kept == nas[1].ino
           new  == rotations + 2
           cur  == [ino |-> IF style = "rename" THEN new ELSE kept, lines |-> <<>>, open |-> FALSE]
           old  == [nas[1] EXCEPT !.ino = IF style = "rename" THEN kept ELSE new]
           all  == <<cur, old>> \o Tail(nas)
           m    == IF Len(nas) < Depth THEN Len(nas) + 1 ELSE Depth
<1>0. /\ nas \in Seq(Files) /\ Len(nas) \in 1..Depth /\ Depth \in Nat /\ nas # <<>>
      /\ rotations \in 0..MaxRotations /\ rotations < MaxRotations /\ MaxRotations \in Nat
  BY NasAssumption DEF TypeOK, Rotate
<1>1. nas[1] \in Files
  BY <1>0
<1>2. new \in Inodes /\ kept \in Inodes
  BY <1>0, <1>1 DEF Inodes, Files
<1>3. old \in Files /\ old.lines = nas[1].lines /\ old.open = nas[1].open
  BY <1>1, <1>2 DEF Files
<1>4. cur \in Files /\ cur.lines = <<>> /\ cur.open = FALSE
  BY <1>2, EmptySeq DEF Files
<1>5. /\ Tail(nas) \in Seq(Files) /\ Len(Tail(nas)) = Len(nas) - 1
      /\ \A i \in 1..(Len(nas) - 1) : Tail(nas)[i] = nas[i + 1]
  BY <1>0, HeadTailProperties
<1>6. nas' = SubSeq(all, 1, m)
  BY Zenon DEF Rotate
<1> HIDE DEF cur, old
<1>7. <<cur, old>> \in Seq(Files) /\ Len(<<cur, old>>) = 2 /\ <<cur, old>>[1] = cur /\ <<cur, old>>[2] = old
  BY <1>3, <1>4
<1> DEFINE two == <<cur, old>>
           tl  == Tail(nas)
<1> HIDE DEF two, tl, all
<1>8. /\ all \in Seq(Files) /\ Len(all) = Len(nas) + 1
      /\ all[1] = cur /\ all[2] = old
      /\ \A k \in 3..(Len(nas) + 1) : all[k] = nas[k - 1]
  <2>1. all = two \o tl
    BY DEF two, tl, all
  <2>2. two \in Seq(Files) /\ tl \in Seq(Files) /\ Len(two) = 2 /\ Len(tl) = Len(nas) - 1
    BY <1>5, <1>7 DEF two, tl
  <2>3. /\ all \in Seq(Files) /\ Len(all) = Len(two) + Len(tl)
        /\ \A i \in 1..(Len(two) + Len(tl)) : all[i] = IF i <= Len(two) THEN two[i] ELSE tl[i - Len(two)]
    <3>1. /\ two \o tl \in Seq(Files) /\ Len(two \o tl) = Len(two) + Len(tl)
          /\ \A i \in 1..(Len(two) + Len(tl)) :
                (two \o tl)[i] = IF i <= Len(two) THEN two[i] ELSE tl[i - Len(two)]
      BY <2>2, ConcatProperties
    <3> QED
      BY <2>1, <3>1, Zenon
  <2>4. Len(all) = Len(nas) + 1
    BY <1>0, <2>2, <2>3
  <2>5. all[1] = cur /\ all[2] = old
    BY <1>0, <1>7, <2>2, <2>3 DEF two
  <2>6. ASSUME NEW k \in 3..(Len(nas) + 1) PROVE all[k] = nas[k - 1]
    <3>1. all[k] = tl[k - 2]
      BY <1>0, <2>2, <2>3
    <3>2. k - 2 \in 1..(Len(nas) - 1) /\ (k - 2) + 1 = k - 1
      BY <1>0
    <3> QED
      BY <1>5, <3>1, <3>2 DEF tl
  <2> QED
    BY <2>3, <2>4, <2>5, <2>6
<1>9. m \in Nat /\ m >= 1 /\ m <= Len(all) /\ m <= Len(nas) + 1
  BY <1>0, <1>8
<1> HIDE DEF m
<1>10. /\ nas' \in Seq(Files) /\ Len(nas') = m
       /\ \A k \in 1..m : nas'[k] = all[k]
  <2>1. \A i \in 1..m : all[i] \in Files
    BY <1>8, <1>9
  <2>2. 1 \in Int /\ m \in Int /\ m - 1 + 1 = m
    BY <1>9
  <2>3. /\ nas' \in Seq(Files) /\ Len(nas') = IF 1 <= m THEN m - 1 + 1 ELSE 0
        /\ \A i \in 1..(m - 1 + 1) : nas'[i] = all[1 + i - 1]
    BY <1>6, <2>1, <2>2, SubSeqProperties
  <2>4. \A i \in 1..m : 1 + i - 1 = i
    OBVIOUS
  <2> QED
    BY <1>9, <2>2, <2>3, <2>4
<1>11. 2 <= m => nas'[2] = old
  BY <1>8, <1>9, <1>10
<1>12. nas'[1] = cur
  BY <1>8, <1>9, <1>10
<1>13. \A k \in 3..m : nas'[k] = nas[k - 1]
  BY <1>8, <1>9, <1>10
<1> QED
  BY <1>3, <1>4, <1>10, <1>11, <1>12, <1>13 DEF m

LEMMA InitType == Init => TypeOK
<1> SUFFICES ASSUME Init PROVE TypeOK
  OBVIOUS
<1> DEFINE f == [ino |-> 1, lines |-> <<>>, open |-> FALSE]
<1>0. /\ MaxLines \in Nat /\ MaxRotations \in Nat /\ MaxCrashes \in Nat
      /\ Depth \in Nat /\ Depth >= 1
  BY NasAssumption
<1>1. f \in Files
  BY <1>0, EmptySeq DEF Files, Inodes
<1> HIDE DEF f
<1>2. nas = <<f>>
  BY DEF Init, f
<1>3. nas \in Seq(Files) /\ Len(nas) = 1
  BY <1>1, <1>2
<1>4. snap = <<>> /\ snap \in Seq(Files \cup {Missing}) /\ Len(snap) = 0
  BY EmptySeq DEF Init
<1>5. disk = InitialState /\ mem = InitialState
  BY DEF Init
<1>6. /\ written = 0 /\ rotations = 0 /\ loaded = FALSE /\ upto = 0 /\ boot = 0
      /\ pc = "wait" /\ pushed = 0 /\ loki = {} /\ crashes = 0
  BY DEF Init
<1>7. Len(nas) \in 1..Depth /\ Len(snap) <= Depth
  BY <1>0, <1>3, <1>4
<1> QED
  <2>1. /\ 0 \in 0..MaxLines /\ 0 \in 0..MaxRotations /\ 0 \in 0..MaxCrashes /\ 0 \in Nat
        /\ "wait" \in {"wait", "snap", "push"} /\ FALSE \in BOOLEAN /\ {} \subseteq Entries
    BY <1>0
  <2> QED
    BY <1>3, <1>4, <1>5, <1>6, <1>7, <2>1, InitialStateType, Zenon DEF TypeOK

\* The snapshot under way, as Prepare finds it.
LEMMA SnapshotType ==
    ASSUME TypeOK, Len(snap) = Depth
    PROVE  snap \in Seq(Generations) /\ snap # <<>>
<1>1. Depth # 0 /\ snap \in Seq(Files \cup {Missing})
  BY NasAssumption DEF TypeOK
<1> QED
  BY <1>1, EmptySeq DEF Generations

LEMMA EndPollType ==
    ASSUME EndPoll
    PROVE  /\ snap' \in Seq(Files \cup {Missing}) /\ Len(snap') <= Depth
           /\ upto' \in 0..MaxLines /\ pc' \in {"wait", "snap", "push"} /\ pushed' \in Nat
  BY NasAssumption, EmptySeq DEF EndPoll

LEMMA NextType == TypeOK /\ [Next]_vars => TypeOK'
<1> SUFFICES ASSUME TypeOK, [Next]_vars PROVE TypeOK'
  OBVIOUS
<1>0. /\ Depth \in Nat /\ Depth >= 1 /\ Len(nas) \in 1..Depth
      /\ MaxLines \in Nat /\ MaxRotations \in Nat /\ MaxCrashes \in Nat /\ BatchSize \in Nat
  BY NasAssumption DEF TypeOK
<1>1. ASSUME NEW part \in BOOLEAN, WriteLine(part) PROVE TypeOK'
  BY <1>1, WriteLineType DEF WriteLine, TypeOK
<1>2. CASE FinishLine
  BY <1>2, FinishLineType DEF FinishLine, TypeOK
<1>3. ASSUME NEW style \in Styles, Rotate(style) PROVE TypeOK'
  <2>1. nas' \in Seq(Files) /\ Len(nas') = IF Len(nas) < Depth THEN Len(nas) + 1 ELSE Depth
    BY <1>3, RotateProperties
  <2>2. Len(nas') \in 1..Depth
    BY <1>0, <2>1
  <2>3. rotations' \in 0..MaxRotations
    BY <1>0, <1>3 DEF Rotate, TypeOK
  <2>4. UNCHANGED <<written, disk, mem, loaded, snap, upto, pc, pushed, loki, boot, crashes>>
    BY <1>3, Zenon DEF Rotate
  <2> QED
    BY <2>1, <2>2, <2>3, <2>4 DEF TypeOK
<1>4. CASE StartPoll
  <2>1. snap' = <<>> /\ <<>> \in Seq(Files \cup {Missing}) /\ Len(<<>>) = 0
    BY <1>4, EmptySeq DEF StartPoll
  <2> QED
    BY <1>0, <1>4, <2>1 DEF StartPoll, TypeOK, nasVars
<1>5. CASE ReadGeneration
  <2> DEFINE g == IF Len(snap) < Len(nas) THEN nas[Len(snap) + 1] ELSE Missing
  <2>1. Len(snap) \in Nat /\ snap \in Seq(Files \cup {Missing}) /\ nas \in Seq(Files)
    BY DEF TypeOK
  <2>2. g \in Files \cup {Missing}
    BY <1>0, <2>1
  <2>3. snap' = Append(snap, g) /\ Len(snap) < Depth
    BY <1>5 DEF ReadGeneration
  <2> HIDE DEF g
  <2>4. snap' \in Seq(Files \cup {Missing}) /\ Len(snap') = Len(snap) + 1
    BY <2>1, <2>2, <2>3, AppendProperties
  <2>5. upto' \in 0..MaxLines
    BY <1>5 DEF ReadGeneration, TypeOK
  <2>6. UNCHANGED <<nas, written, rotations, disk, mem, loaded, pc, pushed, loki, boot, crashes>>
    BY <1>5 DEF ReadGeneration, nasVars
  <2> QED
    BY <1>0, <2>1, <2>3, <2>4, <2>5, <2>6 DEF TypeOK
<1>6. CASE FetchFails
  BY <1>6, EndPollType DEF FetchFails, TypeOK, nasVars
<1>7. ASSUME NEW now \in Clocks, Prepare(now) PROVE TypeOK'
  <2>1. Len(snap) = Depth
    BY <1>7 DEF Prepare
  <2>2. Candidate(mem, snap, now) \in States
    BY <2>1, SnapshotType, CandidateProperties DEF TypeOK
  <2>3. snap' = <<>> /\ <<>> \in Seq(Files \cup {Missing}) /\ Len(<<>>) = 0
    BY <1>7, EmptySeq DEF Prepare
  <2>4. mem' \in States /\ disk' \in States
    BY <1>7, <2>2, Zenon DEF Prepare, Saved
  <2>5. /\ UNCHANGED <<nas, written, rotations, loaded, pushed, loki, crashes>>
        /\ pc' = "push" /\ upto' = 0 /\ boot' \in {upto, boot}
    BY <1>7 DEF Prepare, nasVars
  <2> QED
    BY <1>0, <2>3, <2>4, <2>5 DEF TypeOK
<1>8. ASSUME NEW now \in Clocks, PrepareNotSaved(now) PROVE TypeOK'
  <2>1. Len(snap) = Depth
    BY <1>8 DEF PrepareNotSaved
  <2>2. Candidate(mem, snap, now) \in States
    BY <2>1, SnapshotType, CandidateProperties DEF TypeOK
  <2>3. disk' \in States
    BY <1>8, <2>2 DEF PrepareNotSaved, SaveFailed, TypeOK
  <2>4. /\ UNCHANGED <<nas, written, rotations, mem, loaded, loki, crashes>>
        /\ EndPoll /\ boot' \in {upto, boot}
    BY <1>8 DEF PrepareNotSaved, nasVars
  <2> QED
    BY <1>0, <2>3, <2>4, EndPollType DEF TypeOK
<1>9. CASE Push
  <2>1. Batch(mem.box.entries, pushed) \subseteq Entries
    BY BatchType DEF TypeOK, States
  <2> QED
    BY <1>9, <2>1 DEF Push, TypeOK, nasVars
<1>10. CASE PushFails
  <2>1. Batch(mem.box.entries, pushed) \subseteq Entries
    BY BatchType DEF TypeOK, States
  <2> QED
    BY <1>10, <2>1, EndPollType DEF PushFails, TypeOK, nasVars
<1>11. CASE Commit
  <2>1. Committed(mem) \in States
    BY CommittedType DEF TypeOK
  <2> QED
    BY <1>11, <2>1, EndPollType DEF Commit, Saved, TypeOK, nasVars
<1>12. CASE CommitNotSaved
  <2>1. Committed(mem) \in States
    BY CommittedType DEF TypeOK
  <2> QED
    BY <1>12, <2>1, EndPollType DEF CommitNotSaved, SaveFailed, TypeOK, nasVars
<1>13. CASE Crash
  <2>1. crashes' \in 0..MaxCrashes
    BY <1>0, <1>13 DEF Crash, TypeOK
  <2>2. mem' \in States /\ loaded' \in BOOLEAN
    BY <1>13, InitialStateType, Zenon DEF Crash
  <2>3. EndPoll /\ UNCHANGED <<nas, written, rotations, disk, loki, boot>>
    BY <1>13 DEF Crash, nasVars
  <2> QED
    BY <2>1, <2>2, <2>3, EndPollType DEF TypeOK
<1>14. CASE UNCHANGED vars
  BY <1>14 DEF vars, TypeOK
<1> QED
  BY <1>1, <1>2, <1>3, <1>4, <1>5, <1>6, <1>7, <1>8, <1>9, <1>10, <1>11, <1>12, <1>13, <1>14
     DEF Next, Nas, Progress, Failure

\* Every variable keeps the type it is meant to have, whatever the NAS does to its
\* files: the generations kept and read, the state in memory and on disk, the
\* outbox that prepare() computes, and what Loki has.
THEOREM TypeCorrect == Spec => []TypeOK
<1>1. Init => TypeOK
  BY InitType
<1>2. TypeOK /\ [Next]_vars => TypeOK'
  BY NextType
<1> QED
  BY <1>1, <1>2, PTL DEF Spec

-----------------------------------------------------------------------------
(* The outbox: its timestamps, and what of it is on disk, in memory and at  *)
(* Loki.                                                                    *)

\* The entries of a state's outbox are stamped apart, past what is acknowledged and
\* up to what will be once they are delivered.
Stamped(st) ==
    /\ ~st.full => st.box = NoBox
    /\ st.full => st.acked.last <= st.box.next.last
    /\ \A i \in 1..Len(st.box.entries) :
          st.acked.last < st.box.entries[i].ts /\ st.box.entries[i].ts <= st.box.next.last
    /\ \A i, j \in 1..Len(st.box.entries) :
          st.box.entries[i].ts = st.box.entries[j].ts => i = j

\* How self.state and the state file may differ: a new outbox was written and its
\* save reported as failed, or an outbox was delivered and its removal was.
Prepared  == ~mem.full /\ mem.acked = disk.acked
Delivered == mem.full /\ disk = Committed(mem) /\ BoxEntries(mem) \subseteq loki

Copies ==
    /\ ~loaded => mem = InitialState /\ pc = "wait"
    /\ loaded => mem = disk \/ Prepared \/ Delivered
    /\ pc = "snap" => ~mem.full
    /\ pc = "push" => mem.full

\* What Loki has is acknowledged or in the outbox on disk; before an outbox is
\* computed, it is acknowledged in memory.
Arrived ==
    /\ \A e \in loki : e.ts <= disk.acked.last \/ e \in BoxEntries(disk)
    /\ loaded /\ ~mem.full => \A e \in loki : e.ts <= mem.acked.last
    /\ \A x, y \in loki : x.ts = y.ts => x.line = y.line

Sent ==
    /\ pc # "push" => pushed = 0
    /\ pc = "push" => \A j \in 1..Len(mem.box.entries) :
                        j <= pushed * BatchSize => mem.box.entries[j] \in loki

OutboxInv == TypeOK /\ Stamped(disk) /\ Stamped(mem) /\ Copies /\ Arrived /\ Sent

LEMMA NoBoxEmpty ==
    /\ NoBox.entries = <<>> /\ Len(NoBox.entries) = 0 /\ 1..Len(NoBox.entries) = {}
    /\ \A st : st.box = NoBox => BoxEntries(st) = {}
<1>1. NoBox.entries = <<>>
  BY DEF NoBox
<1>2. Len(<<>>) = 0 /\ DOMAIN <<>> = {} /\ 1..0 = {}
  OBVIOUS
<1> QED
  BY <1>1, <1>2 DEF BoxEntries

LEMMA StampedEmpty ==
    ASSUME NEW st, ~st.full, st.box = NoBox PROVE Stamped(st) /\ BoxEntries(st) = {}
  BY NoBoxEmpty DEF Stamped

LEMMA InitialStateStamped ==
    Stamped(InitialState) /\ BoxEntries(InitialState) = {} /\ ~InitialState.full
  BY StampedEmpty DEF InitialState

LEMMA CommittedStamped ==
    ASSUME NEW st
    PROVE  /\ Stamped(Committed(st)) /\ BoxEntries(Committed(st)) = {}
           /\ ~Committed(st).full /\ Committed(st).acked = st.box.next
  BY StampedEmpty DEF Committed

LEMMA EntriesOf ==
    ASSUME NEW st \in States
    PROVE  /\ st.box.entries \in Seq(Entries) /\ Len(st.box.entries) \in Nat
           /\ BoxEntries(st) = {st.box.entries[i] : i \in 1..Len(st.box.entries)}
           /\ BoxEntries(st) \subseteq Entries
           /\ st.acked.last \in Nat /\ st.box.next.last \in Nat
<1>1. st.box.entries \in Seq(Entries) /\ st.acked \in Acked /\ st.box.next \in Acked
  BY DEF States
<1> QED
  BY <1>1 DEF BoxEntries, Acked

LEMMA CandidateStamped ==
    ASSUME NEW st \in States, NEW s \in Seq(Generations), s # <<>>, NEW now \in Clocks
    PROVE  Stamped(Candidate(st, s, now)) /\ Candidate(st, s, now).acked = st.acked
           /\ Candidate(st, s, now).full /\ Candidate(st, s, now) \in States
<1> DEFINE new == Candidate(st, s, now)
           w == Work(st.acked, s)
           t == FirstStamp(st.acked, now)
<1>1. /\ new \in States
      /\ new.full /\ new.acked = st.acked
      /\ t \in Nat /\ t > st.acked.last
      /\ w \in Seq(Lines) /\ Len(new.box.entries) = Len(w)
      /\ \A i \in 1..Len(w) : /\ new.box.entries[i].ts = t + i - 1
                              /\ new.box.entries[i].line = w[i]
      /\ new.box.next.last = IF Len(w) = 0 THEN st.acked.last ELSE t + Len(w) - 1
  BY CandidateProperties
<1> HIDE DEF new, w, t
<1>2. st.acked.last \in Nat /\ Len(w) \in Nat
  BY <1>1, EntriesOf
<1>3. \A i \in 1..Len(w) : st.acked.last < t + i - 1 /\ t + i - 1 <= t + Len(w) - 1 /\ Len(w) # 0
  BY <1>1, <1>2
<1>4. \A i, j \in 1..Len(w) : t + i - 1 = t + j - 1 => i = j
  BY <1>1, <1>2
<1>5. st.acked.last <= new.box.next.last
  BY <1>1, <1>2
<1>6. \A i \in 1..Len(w) : st.acked.last < new.box.entries[i].ts
                           /\ new.box.entries[i].ts <= new.box.next.last
  BY <1>1, <1>3
<1>7. \A i, j \in 1..Len(w) : new.box.entries[i].ts = new.box.entries[j].ts => i = j
  BY <1>1, <1>4
<1>8. Stamped(new)
  BY <1>1, <1>5, <1>6, <1>7 DEF Stamped
<1> QED
  BY <1>1, <1>8 DEF new

LEMMA InitOutbox == Init => OutboxInv
  BY InitType, InitialStateStamped DEF OutboxInv, Init, Copies, Arrived, Sent

\* Two entries with one timestamp have one line, in the outbox and at Loki.
LEMMA OneLine ==
    ASSUME TypeOK, Stamped(disk), Arrived,
           NEW x \in loki \cup BoxEntries(disk), NEW y \in loki \cup BoxEntries(disk), x.ts = y.ts
    PROVE  x.line = y.line
<1>0. disk \in States /\ loki \subseteq Entries
  BY DEF TypeOK
<1>1. BoxEntries(disk) = {disk.box.entries[i] : i \in 1..Len(disk.box.entries)}
      /\ disk.acked.last \in Nat /\ BoxEntries(disk) \subseteq Entries
  BY <1>0, EntriesOf
<1>2. \A e \in loki \cup BoxEntries(disk) : e.ts \in Nat
  BY <1>0, <1>1 DEF Entries
<1>3. \A e \in BoxEntries(disk) : disk.acked.last < e.ts
  BY <1>1 DEF Stamped
<1>4. \A e, f \in BoxEntries(disk) : e.ts = f.ts => e = f
  BY <1>1 DEF Stamped
<1>5. CASE x \in loki /\ y \in loki
  BY <1>5 DEF Arrived
<1>6. CASE x \in BoxEntries(disk) /\ y \in BoxEntries(disk)
  BY <1>4, <1>6
<1>7. ASSUME NEW e \in loki, NEW f \in BoxEntries(disk), e.ts = f.ts, e \notin BoxEntries(disk)
      PROVE  FALSE
  BY <1>1, <1>2, <1>3, <1>7 DEF Arrived
<1> QED
  BY <1>5, <1>6, <1>7

LEMMA StampsFollow == OutboxInv => StampsDistinct
<1> SUFFICES ASSUME OutboxInv PROVE StampsDistinct
  OBVIOUS
<1>1. BoxEntries(mem) \subseteq loki \cup BoxEntries(disk)
  <2>1. CASE ~loaded
    BY <2>1, InitialStateStamped DEF OutboxInv, Copies
  <2>2. CASE loaded /\ Prepared
    BY <2>2, StampedEmpty DEF OutboxInv, Prepared, Stamped
  <2> QED
    BY <2>1, <2>2 DEF OutboxInv, Copies, Delivered
<1> QED
  BY <1>1, OneLine DEF OutboxInv, StampsDistinct

\* What a step leaves of the outbox when it changes no copy of it.
LEMMA SameBoxes ==
    ASSUME OutboxInv, UNCHANGED <<disk, mem, loki>>, TypeOK', Copies', Sent',
           loaded' => loaded
    PROVE  OutboxInv'
<1>1. Stamped(disk)' /\ Stamped(mem)'
  BY DEF OutboxInv, Stamped
<1>2. BoxEntries(disk)' = BoxEntries(disk)
  BY DEF BoxEntries
<1>3. Arrived'
  BY <1>2 DEF OutboxInv, Arrived
<1> QED
  BY <1>1, <1>3 DEF OutboxInv

LEMMA StartPollOutbox == OutboxInv /\ TypeOK' /\ StartPoll => OutboxInv'
<1> SUFFICES ASSUME OutboxInv, TypeOK', StartPoll PROVE OutboxInv'
  OBVIOUS
<1>0. /\ mem' = IF loaded THEN mem ELSE disk
      /\ loaded' /\ pc' = (IF mem'.full THEN "push" ELSE "snap") /\ pushed' = 0
      /\ disk' = disk /\ loki' = loki
  BY DEF StartPoll
<1>1. Stamped(disk)' /\ Stamped(mem)'
  BY <1>0, Zenon DEF OutboxInv, Stamped
<1>2. BoxEntries(disk)' = BoxEntries(disk) /\ BoxEntries(mem') = BoxEntries(mem)'
  BY <1>0 DEF BoxEntries
<1>3. Copies'
  <2>1. CASE ~loaded
    BY <1>0, <2>1 DEF Copies
  <2>2. CASE loaded
    <3>1. mem' = mem /\ BoxEntries(mem)' = BoxEntries(mem) /\ Committed(mem)' = Committed(mem)
      BY <1>0, <2>2 DEF BoxEntries, Committed
    <3>2. mem' = disk' \/ Prepared' \/ Delivered'
      BY <1>0, <2>2, <3>1 DEF OutboxInv, Copies, Prepared, Delivered
    <3> QED
      BY <1>0, <3>2 DEF Copies
  <2> QED
    BY <2>1, <2>2
<1>4. Arrived'
  <2>1. CASE loaded
    BY <1>0, <1>2, <2>1 DEF OutboxInv, Arrived
  <2>2. CASE ~loaded
    <3>1. mem' = disk
      BY <1>0, <2>2
    <3>2. ~disk.full => BoxEntries(disk) = {}
      BY StampedEmpty DEF OutboxInv, Stamped
    <3> QED
      BY <1>0, <1>2, <2>2, <3>1, <3>2 DEF OutboxInv, Arrived
  <2> QED
    BY <2>1, <2>2
<1>5. Sent'
  <2>1. BatchSize \in Nat /\ mem' \in States
    BY NasAssumption DEF TypeOK
  <2>2. \A j \in 1..Len(mem'.box.entries) : ~(j <= 0 * BatchSize)
    BY <2>1, EntriesOf
  <2> QED
    BY <1>0, <2>2 DEF Sent
<1> QED
  BY <1>1, <1>3, <1>4, <1>5 DEF OutboxInv

\* A new outbox is written: nothing of the one on disk has left.
LEMMA PrepareOutbox ==
    ASSUME OutboxInv, pc = "snap", NEW new \in States, new.full, new.acked = mem.acked, Stamped(new)
    PROVE  /\ BoxEntries(disk) \cap loki = {}
           /\ new.acked = disk.acked
           /\ \A e \in loki : e.ts <= new.acked.last
           /\ BoxEntries(new) \cap loki = {}
<1>1. ~mem.full /\ loaded
  BY DEF OutboxInv, Copies
<1>2. mem.acked = disk.acked
  BY <1>1 DEF OutboxInv, Copies, Prepared, Delivered
<1>3. \A e \in loki : e.ts <= mem.acked.last
  BY <1>1 DEF OutboxInv, Arrived
<1>4. ASSUME NEW st \in States, Stamped(st), st.acked = mem.acked
      PROVE  BoxEntries(st) \cap loki = {}
  <2>1. /\ BoxEntries(st) = {st.box.entries[i] : i \in 1..Len(st.box.entries)}
        /\ BoxEntries(st) \subseteq Entries /\ st.acked.last \in Nat
    BY <1>4, EntriesOf
  <2>2. \A e \in BoxEntries(st) : st.acked.last < e.ts /\ e.ts \in Nat
    BY <1>4, <2>1 DEF Stamped, Entries
  <2> QED
    BY <1>3, <1>4, <2>1, <2>2
<1> QED
  BY <1>2, <1>3, <1>4 DEF OutboxInv, TypeOK

LEMMA SentBatch ==
    ASSUME OutboxInv, pc = "push"
    PROVE  /\ AllPushed(mem.box.entries, pushed) => BoxEntries(mem) \subseteq loki
           /\ Batch(mem.box.entries, pushed) \subseteq BoxEntries(mem)
           /\ mem = disk \/ Delivered
           /\ Batch(mem.box.entries, pushed) \subseteq BoxEntries(disk) \cup loki
<1>0. mem \in States /\ pushed \in Nat /\ BatchSize \in Nat
  BY NasAssumption DEF OutboxInv, TypeOK
<1>1. /\ BoxEntries(mem) = {mem.box.entries[i] : i \in 1..Len(mem.box.entries)}
      /\ Len(mem.box.entries) \in Nat /\ DOMAIN mem.box.entries = 1..Len(mem.box.entries)
  BY <1>0, EntriesOf
<1>2. pushed * BatchSize \in Nat
  BY <1>0
<1>3. AllPushed(mem.box.entries, pushed) => BoxEntries(mem) \subseteq loki
  BY <1>1, <1>2 DEF AllPushed, OutboxInv, Sent
<1>4. Batch(mem.box.entries, pushed) \subseteq BoxEntries(mem)
  BY <1>1 DEF Batch
<1>5. mem = disk \/ Delivered
  BY DEF OutboxInv, Copies, Prepared
<1> QED
  BY <1>3, <1>4, <1>5 DEF Delivered

\* The steps of a poll, and what makes it raise.
LEMMA OutboxStep == OutboxInv /\ TypeOK' /\ [Next]_vars => OutboxInv'
<1> SUFFICES ASSUME OutboxInv, TypeOK', [Next]_vars PROVE OutboxInv'
  OBVIOUS
<1>1. CASE UNCHANGED <<disk, mem, loaded, pc, pushed, loki>>
  <2>1. Copies' /\ Sent'
    BY <1>1 DEF OutboxInv, Copies, Prepared, Delivered, Sent, Committed, BoxEntries
  <2> QED
    BY <1>1, <2>1, SameBoxes
<1>2. CASE Nas
  BY <1>1, <1>2 DEF Nas, WriteLine, FinishLine, Rotate
<1>3. CASE StartPoll
  BY <1>3, StartPollOutbox
<1>4. CASE ReadGeneration
  BY <1>1, <1>4 DEF ReadGeneration
<1>5. ASSUME UNCHANGED <<disk, mem, loki, loaded>>, pc' = "wait", pushed' = 0 PROVE OutboxInv'
  <2>1. Copies' /\ Sent'
    BY <1>5 DEF OutboxInv, Copies, Prepared, Delivered, Sent, Committed, BoxEntries
  <2> QED
    BY <1>5, <2>1, SameBoxes
<1>6. CASE FetchFails
  BY <1>5, <1>6 DEF FetchFails, EndPoll
<1>7. ASSUME NEW now \in Clocks, Prepare(now) PROVE OutboxInv'
  <2> DEFINE new == Candidate(mem, snap, now)
  <2>1. /\ new \in States /\ Stamped(new) /\ new.full /\ new.acked = mem.acked
    <3>1. snap \in Seq(Generations) /\ snap # <<>>
      BY <1>7, SnapshotType DEF Prepare, OutboxInv
    <3> QED
      BY <3>1, CandidateStamped DEF OutboxInv, TypeOK
  <2>2. mem' = new /\ disk' = new /\ pc' = "push" /\ UNCHANGED <<loaded, pushed, loki>> /\ pc = "snap"
    BY <1>7, Zenon DEF Prepare, Saved
  <2> HIDE DEF new
  <2>3. \A e \in loki : e.ts <= new.acked.last
    BY <2>1, <2>2, PrepareOutbox
  <2>4. Stamped(disk)' /\ Stamped(mem)'
    BY <2>1, <2>2, Zenon DEF Stamped
  <2>5. loaded /\ Copies'
    BY <2>1, <2>2 DEF OutboxInv, Copies
  <2>6. Arrived'
    BY <2>1, <2>2, <2>3 DEF OutboxInv, Arrived
  <2>7. Sent'
    <3>1. mem' \in States /\ BatchSize \in Nat /\ pushed = 0
      BY <2>2, NasAssumption DEF TypeOK, OutboxInv, Sent
    <3>2. \A j \in 1..Len(mem'.box.entries) : ~(j <= 0 * BatchSize)
      BY <3>1, EntriesOf
    <3> QED
      BY <2>2, <3>1, <3>2 DEF Sent
  <2> QED
    BY <2>4, <2>5, <2>6, <2>7 DEF OutboxInv
<1>8. ASSUME NEW now \in Clocks, PrepareNotSaved(now) PROVE OutboxInv'
  <2> DEFINE new == Candidate(mem, snap, now)
  <2>1. /\ new \in States /\ Stamped(new) /\ new.full /\ new.acked = mem.acked
    <3>1. snap \in Seq(Generations) /\ snap # <<>>
      BY <1>8, SnapshotType DEF PrepareNotSaved, OutboxInv
    <3> QED
      BY <3>1, CandidateStamped DEF OutboxInv, TypeOK
  <2>2. /\ disk' \in {disk, new} /\ pc' = "wait" /\ pushed' = 0
        /\ UNCHANGED <<loaded, mem, loki>> /\ pc = "snap"
    BY <1>8, Zenon DEF PrepareNotSaved, SaveFailed, EndPoll
  <2>3. CASE disk' = disk
    BY <1>5, <2>2, <2>3
  <2>4. CASE disk' = new
    <3> HIDE DEF new
    <3>1. (\A e \in loki : e.ts <= new.acked.last) /\ new.acked = disk.acked
      BY <2>1, <2>2, PrepareOutbox
    <3>2. Stamped(disk)'
      BY <2>1, <2>4, Zenon DEF Stamped
    <3>3. Stamped(mem)'
      BY <2>2, Zenon DEF OutboxInv, Stamped
    <3>4. loaded /\ ~mem.full
      BY <2>2 DEF OutboxInv, Copies
    <3>5. Prepared'
      BY <2>1, <2>2, <2>4, <3>4, Zenon DEF Prepared
    <3>6. Copies'
      BY <2>2, <3>4, <3>5 DEF Copies
    <3>7. Arrived'
      BY <2>1, <2>2, <2>4, <3>1 DEF OutboxInv, Arrived
    <3>8. Sent'
      BY <2>2 DEF Sent
    <3> QED
      BY <3>2, <3>3, <3>6, <3>7, <3>8 DEF OutboxInv
  <2> QED
    BY <2>2, <2>3, <2>4
<1>9. ASSUME pc = "push", UNCHANGED <<disk, mem, loaded>>,
             loki' \in {loki, loki \cup Batch(mem.box.entries, pushed)}
      PROVE  Stamped(disk)' /\ Stamped(mem)' /\ Arrived' /\ (pc' \in {"wait", "push"} => Copies')
  <2>1. Stamped(disk)' /\ Stamped(mem)'
    BY <1>9, Zenon DEF OutboxInv, Stamped
  <2>2. BoxEntries(disk)' = BoxEntries(disk) /\ BoxEntries(mem)' = BoxEntries(mem)
        /\ Committed(mem)' = Committed(mem)
    BY <1>9 DEF BoxEntries, Committed
  <2>3. loki' \subseteq loki \cup BoxEntries(disk) /\ loki \subseteq loki'
    BY <1>9, SentBatch
  <2>4. mem.full /\ loaded
    BY <1>9 DEF OutboxInv, Copies
  <2>5. \A x, y \in loki' : x.ts = y.ts => x.line = y.line
    BY <2>3, OneLine DEF OutboxInv
  <2>6. Arrived'
    BY <1>9, <2>2, <2>3, <2>4, <2>5 DEF OutboxInv, Arrived
  <2>7. mem = disk \/ Delivered
    BY <1>9, SentBatch
  <2>8. pc' \in {"wait", "push"} => Copies'
    BY <1>9, <2>2, <2>3, <2>4, <2>7 DEF Copies, Delivered
  <2> QED
    BY <2>1, <2>6, <2>8
<1>10. CASE Push
  <2>1. pc = "push" /\ pc' = "push" /\ UNCHANGED <<disk, mem, loaded>>
        /\ loki' = loki \cup Batch(mem.box.entries, pushed) /\ pushed' = pushed + 1
    BY <1>10 DEF Push
  <2>2. Stamped(disk)' /\ Stamped(mem)' /\ Arrived' /\ Copies'
    BY <1>9, <2>1
  <2>3. Sent'
    <3>1. Len(mem.box.entries) \in Nat /\ DOMAIN mem.box.entries = 1..Len(mem.box.entries)
      <4>1. mem.box.entries \in Seq(Entries)
        BY EntriesOf DEF OutboxInv, TypeOK
      <4> QED
        BY <4>1, LenProperties
    <3>2. ASSUME NEW j \in 1..Len(mem.box.entries), j <= (pushed + 1) * BatchSize
          PROVE  mem.box.entries[j] \in loki'
      <4>1. CASE j <= pushed * BatchSize
        BY <2>1, <4>1 DEF OutboxInv, Sent
      <4>2. CASE ~(j <= pushed * BatchSize)
        <5>1. j > pushed * BatchSize
          BY <4>2, NasAssumption DEF OutboxInv, TypeOK
        <5>2. mem.box.entries[j] \in Batch(mem.box.entries, pushed)
          BY <3>1, <3>2, <5>1, Zenon DEF Batch
        <5> QED
          BY <2>1, <5>2
      <4> QED
        BY <4>1, <4>2
    <3> QED
      BY <2>1, <3>2 DEF Sent
  <2> QED
    BY <2>2, <2>3 DEF OutboxInv
<1>11. CASE PushFails
  <2>1. pc = "push" /\ pc' = "wait" /\ UNCHANGED <<disk, mem, loaded>> /\ pushed' = 0
        /\ loki' \in {loki, loki \cup Batch(mem.box.entries, pushed)}
    BY <1>11 DEF PushFails, EndPoll
  <2>2. Stamped(disk)' /\ Stamped(mem)' /\ Arrived' /\ Copies'
    BY <1>9, <2>1
  <2>3. Sent'
    BY <2>1 DEF Sent
  <2> QED
    BY <2>2, <2>3 DEF OutboxInv
<1> DEFINE done == Committed(mem)
<1>12. ASSUME pc = "push", AllPushed(mem.box.entries, pushed), disk' = done, loki' = loki
       PROVE  /\ Stamped(disk)'
              /\ \A e \in loki : e.ts <= done.acked.last
              /\ \A x, y \in loki' : x.ts = y.ts => x.line = y.line
              /\ BoxEntries(mem) \subseteq loki
  <2>1. Stamped(done) /\ done.acked = mem.box.next
    BY CommittedStamped
  <2>2. BoxEntries(mem) \subseteq loki /\ (mem = disk \/ Delivered)
    BY <1>12, SentBatch
  <2>3. CASE Delivered
    <3>1. disk = done /\ BoxEntries(disk) = {}
      BY <2>3, CommittedStamped DEF Delivered
    <3> QED
      BY <1>12, <2>1, <2>2, <3>1 DEF OutboxInv, Arrived, Stamped
  <2>4. CASE mem = disk
    <3>1. /\ mem \in States /\ mem.full /\ loki \subseteq Entries
      BY <1>12 DEF OutboxInv, TypeOK, Copies
    <3>2. /\ BoxEntries(mem) = {mem.box.entries[i] : i \in 1..Len(mem.box.entries)}
          /\ mem.acked.last \in Nat /\ mem.box.next.last \in Nat
      BY <3>1, EntriesOf
    <3>3. mem.acked.last <= mem.box.next.last /\ \A e \in BoxEntries(mem) : e.ts <= mem.box.next.last
      BY <3>1, <3>2 DEF OutboxInv, Stamped
    <3>4. \A e \in loki : e.ts \in Nat
      BY <3>1 DEF Entries
    <3>5. \A e \in loki : e.ts <= mem.box.next.last
      BY <2>4, <3>2, <3>3, <3>4 DEF OutboxInv, Arrived
    <3>6. Stamped(disk)'
      BY <1>12, <2>1, Zenon DEF Stamped
    <3>7. \A x, y \in loki' : x.ts = y.ts => x.line = y.line
      BY <1>12 DEF OutboxInv, Arrived
    <3> QED
      BY <2>1, <2>2, <3>5, <3>6, <3>7
  <2> QED
    BY <2>2, <2>3, <2>4
<1>13. CASE Commit
  <2>1. /\ pc = "push" /\ AllPushed(mem.box.entries, pushed) /\ mem' = done /\ disk' = done
        /\ UNCHANGED <<loaded, loki>> /\ pc' = "wait" /\ pushed' = 0
    BY <1>13, Zenon DEF Commit, Saved, EndPoll
  <2>2. /\ Stamped(disk)'
        /\ \A e \in loki : e.ts <= done.acked.last
        /\ \A x, y \in loki' : x.ts = y.ts => x.line = y.line
    BY <1>12, <2>1
  <2> HIDE DEF done
  <2>3. Stamped(mem)'
    BY <2>1, <2>2, Zenon DEF Stamped
  <2>4. loaded /\ Copies' /\ Sent'
    BY <2>1 DEF OutboxInv, Copies, Sent
  <2>5. Arrived'
    BY <2>1, <2>2 DEF Arrived
  <2> QED
    BY <2>2, <2>3, <2>4, <2>5 DEF OutboxInv
<1>14. CASE CommitNotSaved
  <2>1. /\ pc = "push" /\ AllPushed(mem.box.entries, pushed) /\ disk' \in {disk, done}
        /\ UNCHANGED <<loaded, loki, mem>> /\ pc' = "wait" /\ pushed' = 0
    BY <1>14, Zenon DEF CommitNotSaved, SaveFailed, EndPoll
  <2>2. CASE disk' = disk
    BY <1>5, <2>1, <2>2
  <2>3. CASE disk' = done
    <3>1. /\ Stamped(disk)'
          /\ \A e \in loki : e.ts <= done.acked.last
          /\ \A x, y \in loki' : x.ts = y.ts => x.line = y.line
          /\ BoxEntries(mem) \subseteq loki
      BY <1>12, <2>1, <2>3
    <3>2. Stamped(mem)'
      BY <2>1, Zenon DEF OutboxInv, Stamped
    <3>3. mem.full /\ loaded
      BY <2>1 DEF OutboxInv, Copies
    <3>4. Committed(mem)' = done /\ BoxEntries(mem)' = BoxEntries(mem)
      BY <2>1 DEF Committed, BoxEntries
    <3>5. Delivered'
      BY <2>1, <2>3, <3>1, <3>3, <3>4, Zenon DEF Delivered
    <3>6. Copies' /\ Sent'
      BY <2>1, <3>3, <3>5 DEF Copies, Sent
    <3>7. Arrived'
      BY <2>1, <2>3, <3>1, <3>3 DEF Arrived
    <3> QED
      BY <3>1, <3>2, <3>6, <3>7 DEF OutboxInv
  <2> QED
    BY <2>1, <2>2, <2>3
<1>15. CASE Crash
  <2>1. /\ mem' = InitialState /\ ~loaded' /\ pc' = "wait" /\ pushed' = 0
        /\ UNCHANGED <<disk, loki>>
    BY <1>15 DEF Crash, EndPoll
  <2>2. Stamped(disk)'
    BY <2>1, Zenon DEF OutboxInv, Stamped
  <2>3. Stamped(mem)'
    BY <2>1, InitialStateStamped, Zenon DEF Stamped
  <2>4. BoxEntries(disk)' = BoxEntries(disk)
    BY <2>1 DEF BoxEntries
  <2>5. Copies' /\ Sent'
    BY <2>1 DEF Copies, Sent
  <2>6. Arrived'
    BY <2>1, <2>4 DEF OutboxInv, Arrived
  <2> QED
    BY <2>2, <2>3, <2>5, <2>6 DEF OutboxInv
<1>16. CASE UNCHANGED vars
  BY <1>1, <1>16 DEF vars
<1> QED
  BY <1>2, <1>3, <1>4, <1>6, <1>7, <1>8, <1>10, <1>11, <1>13, <1>14, <1>15, <1>16
     DEF Next, Progress, Failure

LEMMA OutboxInvariant == Spec => []OutboxInv
<1>1. Init => OutboxInv
  BY InitOutbox
<1>2. OutboxInv /\ [Next]_vars => OutboxInv'
  BY NextType, OutboxStep DEF OutboxInv
<1> QED
  BY <1>1, <1>2, PTL DEF Spec

\* No two lines are ever stamped alike, in memory, on disk or at Loki: prepare()
\* stamps past the last stamp acknowledged, an outbox that was once on disk is sent
\* before another one is computed, and one that was written by a save reported as
\* failed has not left when it is replaced.
THEOREM StampsApart == Spec => []StampsDistinct
<1>1. OutboxInv => StampsDistinct
  BY StampsFollow
<1> QED
  BY <1>1, OutboxInvariant, PTL

\* A step of the collector is a step of the durable outbox, or none.
LEMMA OutboxRefined ==
    ASSUME OutboxInv, TypeOK', [Next]_vars
    PROVE  Outbox!Next \/ (BoxEntries(disk)' = BoxEntries(disk) /\ loki' = loki)
<1> DEFINE box == BoxEntries(disk)
<1>0. disk \in States /\ disk' \in States /\ loki' \subseteq Entries /\ box \subseteq Entries
      /\ BoxEntries(disk') \subseteq Entries
  BY EntriesOf DEF OutboxInv, TypeOK
<1>1. CASE UNCHANGED <<disk, loki>>
  BY <1>1 DEF BoxEntries
<1>2. ASSUME pc = "snap", NEW now \in Clocks, Len(snap) = Depth,
             disk' = Candidate(mem, snap, now), loki' = loki
      PROVE  Outbox!Put
  <2> DEFINE new == Candidate(mem, snap, now)
  <2>1. snap \in Seq(Generations) /\ snap # <<>>
    BY <1>2, SnapshotType DEF OutboxInv
  <2>2. new \in States /\ Stamped(new) /\ new.full /\ new.acked = mem.acked
    BY <2>1, CandidateStamped DEF OutboxInv, TypeOK
  <2> HIDE DEF new
  <2>3. box \cap loki = {}
    BY <1>2, <2>2, PrepareOutbox
  <2>4. BoxEntries(disk)' \subseteq Entries
    BY <1>0 DEF BoxEntries
  <2> QED
    BY <1>2, <2>3, <2>4 DEF Outbox!Put
<1>3. ASSUME pc = "push", disk' = disk, loki' \in {loki, loki \cup Batch(mem.box.entries, pushed)}
      PROVE  Outbox!Arrive
  <2>1. loki' \subseteq loki \cup box /\ loki \subseteq loki'
    BY <1>3, SentBatch
  <2>2. BoxEntries(disk)' = box
    BY <1>3 DEF BoxEntries
  <2> QED
    BY <1>0, <2>1, <2>2 DEF Outbox!Arrive
<1>4. ASSUME pc = "push", AllPushed(mem.box.entries, pushed), disk' = Committed(mem), loki' = loki
      PROVE  Outbox!Acknowledge
  <2>1. BoxEntries(mem) \subseteq loki /\ (mem = disk \/ Delivered)
    BY <1>4, SentBatch
  <2>2. BoxEntries(Committed(mem)) = {}
    BY CommittedStamped
  <2>3. box \subseteq loki
    BY <2>1, <2>2 DEF Delivered
  <2>4. BoxEntries(disk)' = {}
    BY <1>4, <2>2 DEF BoxEntries
  <2> QED
    BY <1>4, <2>3, <2>4 DEF Outbox!Acknowledge
<1>5. CASE Nas \/ StartPoll \/ ReadGeneration \/ FetchFails \/ Crash \/ UNCHANGED vars
  <2>1. UNCHANGED <<disk, loki>>
    BY <1>5 DEF Nas, WriteLine, FinishLine, Rotate, StartPoll, ReadGeneration, FetchFails, Crash, vars
  <2> QED
    BY <1>1, <2>1
<1>6. ASSUME NEW now \in Clocks, Prepare(now) PROVE Outbox!Put
  <2>1. pc = "snap" /\ Len(snap) = Depth /\ disk' = Candidate(mem, snap, now) /\ loki' = loki
    BY <1>6, Zenon DEF Prepare, Saved
  <2> QED
    BY <1>2, <2>1
<1>7. ASSUME NEW now \in Clocks, PrepareNotSaved(now)
      PROVE  Outbox!Put \/ UNCHANGED <<disk, loki>>
  <2>1. pc = "snap" /\ Len(snap) = Depth /\ disk' \in {disk, Candidate(mem, snap, now)} /\ loki' = loki
    BY <1>7, Zenon DEF PrepareNotSaved, SaveFailed
  <2> QED
    BY <1>2, <2>1
<1>8. CASE Push
  BY <1>3, <1>8 DEF Push, Outbox!Next
<1>9. CASE PushFails
  BY <1>3, <1>9 DEF PushFails, Outbox!Next
<1>10. CASE Commit
  <2>1. pc = "push" /\ AllPushed(mem.box.entries, pushed) /\ disk' = Committed(mem) /\ loki' = loki
    BY <1>10, Zenon DEF Commit, Saved
  <2> QED
    BY <1>4, <2>1 DEF Outbox!Next
<1>11. CASE CommitNotSaved
  <2>1. pc = "push" /\ AllPushed(mem.box.entries, pushed) /\ disk' \in {disk, Committed(mem)} /\ loki' = loki
    BY <1>11, Zenon DEF CommitNotSaved, SaveFailed
  <2> QED
    BY <1>1, <1>4, <2>1 DEF Outbox!Next
<1> QED
  BY <1>1, <1>5, <1>6, <1>7, <1>8, <1>9, <1>10, <1>11
     DEF Next, Nas, Progress, Failure, Outbox!Next

\* The collector implements the durable outbox: whatever order of crashes, failed
\* saves and failed pushes, the entries on disk go only when Loki has them all, and
\* others take their place only while none of them has left.
THEOREM OutboxImplemented == Spec => OutboxSpec
<1>1. Init => Outbox!Init
  BY InitialStateStamped DEF Init, Outbox!Init
<1>2. OutboxInv /\ TypeOK' /\ [Next]_vars => [Outbox!Next]_<<BoxEntries(disk), loki>>
  BY OutboxRefined
<1>3. OutboxInv => TypeOK
  BY DEF OutboxInv
<1> QED
  BY <1>1, <1>2, <1>3, OutboxInvariant, PTL DEF Spec, OutboxSpec, Outbox!Spec

-----------------------------------------------------------------------------
(* The lines in the files and in the snapshot under way.                    *)

Has(f, l) == \E i \in 1..Len(f.lines) : f.lines[i] = l

Ascending(f) == \A i, j \in 1..Len(f.lines) : i < j => f.lines[i] < f.lines[j]

\* The files hold the lines in order, none missing behind the first one they hold.
NasOrder ==
    /\ \A k \in 1..Len(nas) : Ascending(nas[k])
    /\ \A k \in 1..Len(nas) : \A x \in Lines : Has(nas[k], x) => x <= written
    /\ \A k \in 1..Len(nas) : \A x \in Lines : Has(nas[k], x) =>
          \A l \in x..written : \E j \in 1..k : Has(nas[j], l)

\* So does the snapshot, up to the line that was the last when its current file was
\* read: the files that have been read move to higher places, where they may be read
\* again, and never to lower ones.
SnapOrder ==
    /\ upto <= written
    /\ \A k \in 1..Len(snap) : Ascending(snap[k])
    /\ \A k \in 1..Len(snap) : \A x \in Lines : Has(snap[k], x) =>
          \A l \in x..upto : \E j \in 1..k : Has(snap[j], l)
    /\ \A k \in 1..Len(snap) : k <= Len(nas) =>
          \A l \in Lines : l <= upto /\ Has(nas[k], l) => \E j \in 1..k : Has(snap[j], l)

OrderInv == TypeOK /\ NasOrder /\ SnapOrder

LEMMA InitOrder == Init => OrderInv
<1> SUFFICES ASSUME Init PROVE OrderInv
  OBVIOUS
<1>1. TypeOK
  BY InitType
<1>2. Len(nas) = 1 /\ nas[1].lines = <<>> /\ snap = <<>> /\ upto = 0 /\ written = 0
  BY DEF Init
<1>3. Len(<<>>) = 0 /\ 1..0 = {}
  OBVIOUS
<1>4. \A k \in 1..1 : Len(nas[k].lines) = 0
  BY <1>2, <1>3
<1> QED
  BY <1>1, <1>2, <1>3, <1>4 DEF OrderInv, NasOrder, SnapOrder, Ascending, Has

LEMMA LinesNat == MaxLines \in Nat /\ \A l : l \in Lines <=> l \in Nat /\ 1 <= l /\ l <= MaxLines
  BY NasAssumption DEF Lines

LEMMA WriteLineOrder ==
    ASSUME OrderInv, NEW part \in BOOLEAN, WriteLine(part)
    PROVE  NasOrder' /\ SnapOrder'
<1> DEFINE f == nas[1]
           g == nas'[1]
<1>0. /\ nas \in Seq(Files) /\ Len(nas) \in Nat /\ 1 \in 1..Len(nas)
      /\ written \in Nat /\ written + 1 \in Lines /\ f.lines \in Seq(Lines) /\ Len(f.lines) \in Nat
  <2>1. nas \in Seq(Files) /\ Len(nas) \in Nat /\ 1 \in 1..Len(nas) /\ f \in Files
    BY NasAssumption DEF OrderInv, TypeOK
  <2>2. f.lines \in Seq(Lines)
    BY <2>1 DEF Files
  <2>3. written \in Nat /\ written < MaxLines
    BY NasAssumption DEF OrderInv, TypeOK, WriteLine
  <2>4. written + 1 \in Lines
    BY <2>3, LinesNat
  <2> QED
    BY <2>1, <2>2, <2>3, <2>4
<1>1. /\ nas' = [nas EXCEPT ![1] = [ino |-> f.ino, lines |-> Append(f.lines, written + 1), open |-> part]]
      /\ written' = written + 1 /\ snap' = snap /\ upto' = upto
  BY Zenon DEF WriteLine
<1>2. /\ Len(nas') = Len(nas) /\ g.lines = Append(f.lines, written + 1)
      /\ \A k \in 1..Len(nas) : k # 1 => nas'[k] = nas[k]
  BY <1>0, <1>1
<1>3. /\ Len(g.lines) = Len(f.lines) + 1 /\ g.lines[Len(f.lines) + 1] = written + 1
      /\ \A i \in 1..Len(f.lines) : g.lines[i] = f.lines[i]
  BY <1>0, <1>2, AppendProperties
<1>4. \A l \in Lines : Has(g, l) <=> Has(f, l) \/ l = written + 1
  <2>1. ASSUME NEW l \in Lines, Has(g, l) PROVE Has(f, l) \/ l = written + 1
    <3>1. PICK i \in 1..Len(g.lines) : g.lines[i] = l
      BY <2>1 DEF Has
    <3>2. i \in 1..Len(f.lines) \/ i = Len(f.lines) + 1
      BY <1>0, <1>3
    <3> QED
      BY <1>3, <3>1, <3>2 DEF Has
  <2>2. ASSUME NEW l \in Lines, Has(f, l) PROVE Has(g, l)
    <3>1. PICK i \in 1..Len(f.lines) : f.lines[i] = l
      BY <2>2 DEF Has
    <3>2. i \in 1..Len(g.lines)
      BY <1>0, <1>3
    <3> QED
      BY <1>3, <3>1, <3>2 DEF Has
  <2>3. Has(g, written + 1)
    <3>1. Len(f.lines) + 1 \in 1..Len(g.lines)
      BY <1>0, <1>3
    <3> QED
      BY <1>3, <3>1 DEF Has
  <2> QED
    BY <2>1, <2>2, <2>3
<1> HIDE DEF g
<1>5. \A k \in 1..Len(nas) : \A l \in Lines : Has(nas'[k], l) <=> Has(nas[k], l) \/ (k = 1 /\ l = written + 1)
  <2> SUFFICES ASSUME NEW k \in 1..Len(nas), NEW l \in Lines
               PROVE  Has(nas'[k], l) <=> Has(nas[k], l) \/ (k = 1 /\ l = written + 1)
    OBVIOUS
  <2>1. CASE k = 1
    BY <1>4, <2>1 DEF g
  <2>2. CASE k # 1
    BY <1>2, <2>2
  <2> QED
    BY <2>1, <2>2
<1>6. \A i \in 1..Len(f.lines) : f.lines[i] \in Lines /\ f.lines[i] <= written
  BY <1>0 DEF OrderInv, NasOrder, Has
<1>7. ASSUME NEW k \in 1..Len(nas) PROVE Ascending(nas'[k])
  <2>1. CASE k # 1
    BY <1>2, <2>1 DEF OrderInv, NasOrder
  <2>2. CASE k = 1
    <3>1. \A i, j \in 1..Len(f.lines) : i < j => f.lines[i] < f.lines[j]
      BY <1>0 DEF OrderInv, NasOrder, Ascending
    <3>2. ASSUME NEW i \in 1..Len(g.lines), NEW j \in 1..Len(g.lines), i < j
          PROVE  g.lines[i] < g.lines[j]
      <4>1. i \in 1..Len(f.lines)
        BY <1>0, <1>3, <3>2 DEF g
      <4>2. CASE j = Len(f.lines) + 1
        <5>1. g.lines[j] = written + 1 /\ g.lines[i] = f.lines[i]
          BY <1>3, <4>1, <4>2 DEF g
        <5>2. f.lines[i] \in Nat /\ f.lines[i] <= written
          <6>1. f.lines[i] \in Lines /\ f.lines[i] <= written
            BY <1>6, <4>1, Zenon
          <6> QED
            BY <6>1, LinesNat
        <5>3. f.lines[i] < written + 1
          BY <1>0, <5>2
        <5> QED
          BY <5>1, <5>3
      <4>3. CASE j # Len(f.lines) + 1
        <5>1. j \in 1..Len(f.lines)
          BY <1>0, <1>3, <4>3 DEF g
        <5> QED
          BY <1>3, <3>1, <3>2, <4>1, <5>1 DEF g
      <4> QED
        BY <4>2, <4>3
    <3> QED
      BY <2>2, <3>2 DEF g, Ascending
  <2> QED
    BY <2>1, <2>2
<1>8. ASSUME NEW k \in 1..Len(nas), NEW x \in Lines, Has(nas'[k], x) PROVE x <= written + 1
  <2>1. CASE x = written + 1
    BY <1>0, <2>1
  <2>2. CASE x # written + 1
    <3>1. x <= written /\ x \in Nat
      BY <1>5, <1>8, <2>2, LinesNat DEF OrderInv, NasOrder
    <3> QED
      BY <1>0, <3>1
  <2> QED
    BY <2>1, <2>2
<1>9. ASSUME NEW k \in 1..Len(nas), NEW x \in Lines, Has(nas'[k], x), NEW l \in x..(written + 1)
      PROVE  \E j \in 1..k : Has(nas'[j], l)
  <2>0. l \in Lines /\ 1 \in 1..k
    <3>1. x \in Nat /\ 1 <= x /\ written + 1 \in Nat /\ written + 1 <= MaxLines
      BY <1>0, LinesNat
    <3> QED
      BY <3>1, LinesNat
  <2>1. CASE l = written + 1
    BY <1>0, <1>5, <2>0, <2>1
  <2>2. CASE l # written + 1
    <3>1. l \in x..written
      BY <1>0, <2>2 DEF Lines
    <3>2. Has(nas[k], x)
      BY <1>0, <1>5, <1>9, <3>1 DEF Lines
    <3>3. PICK j \in 1..k : Has(nas[j], l)
      BY <3>1, <3>2 DEF OrderInv, NasOrder
    <3>4. j \in 1..Len(nas)
      BY <1>0
    <3> QED
      BY <1>5, <2>0, <3>3, <3>4
  <2> QED
    BY <2>1, <2>2
<1>10. NasOrder'
  BY <1>1, <1>2, <1>7, <1>8, <1>9 DEF NasOrder
<1>11. ASSUME NEW k \in 1..Len(snap), k <= Len(nas), NEW l \in Lines, l <= upto, Has(nas'[k], l)
       PROVE  \E j \in 1..k : Has(snap[j], l)
  <2>1. upto <= written /\ upto \in Nat
    BY DEF OrderInv, SnapOrder, TypeOK
  <2>2. k \in 1..Len(nas) /\ l # written + 1
    BY <1>0, <1>11, <2>1 DEF Lines
  <2>3. Has(nas[k], l)
    BY <1>5, <1>11, <2>2
  <2> QED
    BY <1>11, <2>3 DEF OrderInv, SnapOrder
<1>12. upto <= written + 1
  BY <1>0 DEF OrderInv, SnapOrder, TypeOK
<1>13. SnapOrder'
  BY <1>1, <1>2, <1>11, <1>12 DEF OrderInv, SnapOrder
<1> QED
  BY <1>10, <1>13

LEMMA FinishLineOrder ==
    ASSUME OrderInv, FinishLine PROVE NasOrder' /\ SnapOrder'
<1>0. nas \in Seq(Files) /\ Len(nas) \in Nat /\ 1 \in 1..Len(nas) /\ nas[1] \in Files
  BY NasAssumption DEF OrderInv, TypeOK
<1>1. nas' = [nas EXCEPT ![1] = [nas[1] EXCEPT !.open = FALSE]] /\ UNCHANGED <<written, snap, upto>>
  BY Zenon DEF FinishLine
<1>2. [nas[1] EXCEPT !.open = FALSE].lines = nas[1].lines
  BY <1>0 DEF Files
<1>3. Len(nas') = Len(nas) /\ \A k \in 1..Len(nas) : nas'[k].lines = nas[k].lines
  BY <1>0, <1>1, <1>2
<1>4. /\ \A k \in 1..Len(nas) : \A l : Has(nas'[k], l) <=> Has(nas[k], l)
      /\ \A k \in 1..Len(nas) : Ascending(nas[k]) => Ascending(nas'[k])
  BY <1>3 DEF Has, Ascending
<1>5. NasOrder'
  <2>1. \A k \in 1..Len(nas) : \A j \in 1..k : j \in 1..Len(nas)
    BY <1>0
  <2> QED
    BY <1>1, <1>3, <1>4, <2>1 DEF OrderInv, NasOrder
<1>6. SnapOrder'
  <2>1. \A k \in 1..Len(snap) : k <= Len(nas) => k \in 1..Len(nas)
    BY <1>0
  <2> QED
    BY <1>1, <1>3, <1>4, <2>1 DEF OrderInv, SnapOrder
<1> QED
  BY <1>5, <1>6

LEMMA RotateOrder ==
    ASSUME OrderInv, NEW style, Rotate(style) PROVE NasOrder' /\ SnapOrder'
<1>0. nas \in Seq(Files) /\ Len(nas) \in Nat /\ 1 <= Len(nas) /\ Depth \in Nat /\ Len(nas) <= Depth
      /\ Len(snap) \in Nat
  BY NasAssumption DEF OrderInv, TypeOK
<1>1. UNCHANGED <<written, snap, upto>>
  BY Zenon DEF Rotate
<1>2. /\ Len(nas') = IF Len(nas) < Depth THEN Len(nas) + 1 ELSE Depth
      /\ nas'[1].lines = <<>>
      /\ 2 <= Len(nas') => nas'[2].lines = nas[1].lines
      /\ \A k \in 3..Len(nas') : nas'[k] = nas[k - 1]
  BY RotateProperties DEF OrderInv
<1>3. \A l : ~Has(nas'[1], l)
  BY <1>2 DEF Has
<1>4. \A k \in 2..Len(nas') : nas'[k].lines = nas[k - 1].lines /\ k - 1 \in 1..Len(nas)
  <2> SUFFICES ASSUME NEW k \in 2..Len(nas')
               PROVE  nas'[k].lines = nas[k - 1].lines /\ k - 1 \in 1..Len(nas)
    OBVIOUS
  <2>1. k - 1 \in 1..Len(nas)
    BY <1>0, <1>2
  <2>2. CASE k = 2
    BY <1>2, <2>1, <2>2
  <2>3. CASE k # 2
    <3>1. k \in 3..Len(nas')
      BY <2>3
    <3> QED
      BY <1>2, <2>1, <3>1
  <2> QED
    BY <2>1, <2>2, <2>3
<1>5. /\ \A k \in 2..Len(nas') : \A l : Has(nas'[k], l) <=> Has(nas[k - 1], l)
      /\ \A k \in 2..Len(nas') : Ascending(nas'[k]) <=> Ascending(nas[k - 1])
  BY <1>4 DEF Has, Ascending
<1>6. ASSUME NEW k \in 1..Len(nas'), NEW l, Has(nas'[k], l)
      PROVE  k \in 2..Len(nas') /\ k - 1 \in 1..Len(nas) /\ Has(nas[k - 1], l)
  <2>1. k # 1
    BY <1>3, <1>6
  <2>2. k \in 2..Len(nas')
    BY <2>1
  <2> QED
    BY <1>4, <1>5, <1>6, <2>2
<1>7. ASSUME NEW k \in 1..Len(nas') PROVE Ascending(nas'[k])
  <2>1. CASE k = 1
    BY <1>2, <2>1 DEF Ascending
  <2>2. CASE k # 1
    BY <1>4, <1>5, <2>2 DEF OrderInv, NasOrder
  <2> QED
    BY <2>1, <2>2
<1>8. ASSUME NEW k \in 1..Len(nas'), NEW x \in Lines, Has(nas'[k], x) PROVE x <= written
  BY <1>6, <1>8 DEF OrderInv, NasOrder
<1>9. ASSUME NEW k \in 1..Len(nas'), NEW x \in Lines, Has(nas'[k], x), NEW l \in x..written
      PROVE  \E j \in 1..k : Has(nas'[j], l)
  <2>1. k \in 2..Len(nas') /\ k - 1 \in 1..Len(nas) /\ Has(nas[k - 1], x)
    BY <1>6, <1>9
  <2>2. PICK j \in 1..(k - 1) : Has(nas[j], l)
    BY <2>1 DEF OrderInv, NasOrder
  <2>3. j + 1 \in 2..Len(nas') /\ (j + 1) - 1 = j /\ j + 1 \in 1..k
    BY <2>1
  <2>4. Has(nas'[j + 1], l)
    BY <1>5, <2>2, <2>3
  <2> QED
    BY <2>3, <2>4
<1>10. NasOrder'
  BY <1>1, <1>7, <1>8, <1>9 DEF NasOrder
<1>11. ASSUME NEW k \in 1..Len(snap), k <= Len(nas'), NEW l \in Lines, l <= upto, Has(nas'[k], l)
       PROVE  \E j \in 1..k : Has(snap[j], l)
  <2>1. k \in 1..Len(nas')
    BY <1>0, <1>11
  <2>2. k \in 2..Len(nas') /\ k - 1 \in 1..Len(nas) /\ Has(nas[k - 1], l)
    BY <1>6, <1>11, <2>1
  <2>3. k - 1 \in 1..Len(snap) /\ k - 1 <= Len(nas)
    BY <1>0, <2>2
  <2>4. PICK j \in 1..(k - 1) : Has(snap[j], l)
    BY <1>11, <2>2, <2>3 DEF OrderInv, SnapOrder
  <2>5. j \in 1..k
    OBVIOUS
  <2> QED
    BY <2>4, <2>5
<1>12. SnapOrder'
  BY <1>1, <1>11 DEF OrderInv, SnapOrder
<1> QED
  BY <1>10, <1>12

LEMMA ReadGenerationOrder ==
    ASSUME OrderInv, ReadGeneration PROVE NasOrder' /\ SnapOrder'
<1> DEFINE n == Len(snap)
           g == IF n < Len(nas) THEN nas[n + 1] ELSE Missing
<1>0. /\ n \in Nat /\ Len(nas) \in Nat /\ 1 <= Len(nas) /\ snap \in Seq(Generations) /\ nas \in Seq(Files)
      /\ written \in Nat /\ upto \in Nat
  BY NasAssumption DEF OrderInv, TypeOK, Generations
<1>1. /\ snap' = Append(snap, g) /\ UNCHANGED <<nas, written>>
      /\ upto' = IF snap = <<>> THEN written ELSE upto
  BY DEF ReadGeneration, nasVars
<1>2. g \in Generations
  BY <1>0 DEF Generations
<1>3. \A l : ~Has(Missing, l)
  BY DEF Missing, Has
<1>4. Ascending(Missing)
  BY DEF Missing, Ascending
<1>5. \A l : Has(g, l) => n + 1 \in 1..Len(nas) /\ g = nas[n + 1]
  BY <1>0, <1>3
<1>6. Ascending(g)
  <2>1. CASE n < Len(nas)
    <3>1. n + 1 \in 1..Len(nas)
      BY <1>0, <2>1
    <3> QED
      BY <2>1, <3>1 DEF OrderInv, NasOrder
  <2>2. CASE ~(n < Len(nas))
    BY <1>4, <2>2
  <2> QED
    BY <2>1, <2>2
<1>a. n + 1 <= Len(nas) => g = nas[n + 1]
  BY <1>0
<1> HIDE DEF g
<1>7. Len(snap') = n + 1 /\ snap'[n + 1] = g /\ \A k \in 1..n : snap'[k] = snap[k]
  BY <1>0, <1>1, <1>2, AppendProperties
<1>8. NasOrder'
  BY <1>1 DEF OrderInv, NasOrder
<1>9. snap = <<>> <=> n = 0
  BY <1>0
<1> HIDE DEF n
<1>10. \A k \in 1..(n + 1) : k # n + 1 => k \in 1..n
  BY <1>0
<1>11. upto' <= written'
  BY <1>0, <1>1 DEF OrderInv, SnapOrder
<1>12. \A k \in 1..(n + 1) : Ascending(snap'[k])
  <2>1. \A k \in 1..n : Ascending(snap'[k])
    BY <1>7 DEF OrderInv, SnapOrder, n
  <2> QED
    BY <1>6, <1>7, <1>10, <2>1
\* A line of the files at places already read is in the snapshot.
<1>13. ASSUME NEW j \in 1..(n + 1), j <= Len(nas), NEW l \in Lines, l <= upto', Has(nas[j], l)
       PROVE  \E i \in 1..j : Has(snap'[i], l)
  <2>1. CASE j = n + 1
    BY <1>7, <1>13, <1>a, <2>1
  <2>2. CASE j # n + 1
    <3>1. j \in 1..n /\ upto' = upto
      BY <1>0, <1>1, <1>9, <1>10, <2>2
    <3>2. PICK i \in 1..j : Has(snap[i], l)
      BY <1>13, <3>1 DEF OrderInv, SnapOrder, n
    <3>3. i \in 1..n
      BY <1>0, <3>1
    <3> QED
      BY <1>7, <3>2, <3>3
  <2> QED
    BY <2>1, <2>2
<1>14. ASSUME NEW k \in 1..(n + 1), NEW x \in Lines, Has(snap'[k], x), NEW l \in x..upto'
       PROVE  \E j \in 1..k : Has(snap'[j], l)
  <2>1. CASE k = n + 1
    <3>1. n + 1 \in 1..Len(nas) /\ Has(nas[n + 1], x)
      BY <1>5, <1>7, <1>14, <2>1 DEF n
    <3>2. l \in x..written /\ l \in Lines /\ l <= upto'
      <4>1. upto' \in Nat /\ upto' <= written /\ written <= MaxLines
        BY <1>0, <1>1, <1>11 DEF OrderInv, TypeOK
      <4> QED
        BY <1>0, <4>1, LinesNat
    <3>3. PICK j \in 1..(n + 1) : Has(nas[j], l)
      BY <3>1, <3>2 DEF OrderInv, NasOrder
    <3>4. j <= Len(nas)
      BY <1>0, <3>1
    <3>5. PICK i \in 1..j : Has(snap'[i], l)
      BY <1>13, <3>2, <3>3, <3>4
    <3>6. i \in 1..k
      BY <1>0, <2>1
    <3> QED
      BY <3>5, <3>6
  <2>2. CASE k # n + 1
    <3>1. k \in 1..n /\ upto' = upto /\ Has(snap[k], x)
      BY <1>0, <1>1, <1>7, <1>9, <1>10, <1>14, <2>2
    <3>2. PICK j \in 1..k : Has(snap[j], l)
      BY <3>1 DEF OrderInv, SnapOrder, n
    <3>3. j \in 1..n
      BY <1>0, <3>1
    <3> QED
      BY <1>7, <3>2, <3>3
  <2> QED
    BY <2>1, <2>2
<1>15. SnapOrder'
  BY <1>1, <1>7, <1>11, <1>12, <1>13, <1>14 DEF SnapOrder
<1> QED
  BY <1>8, <1>15

LEMMA OrderStep == OrderInv /\ TypeOK' /\ [Next]_vars => OrderInv'
<1> SUFFICES ASSUME OrderInv, TypeOK', [Next]_vars PROVE NasOrder' /\ SnapOrder'
  BY DEF OrderInv
<1>1. CASE Nas
  BY <1>1, WriteLineOrder, FinishLineOrder, RotateOrder DEF Nas
<1>2. CASE ReadGeneration
  BY <1>2, ReadGenerationOrder
<1>3. ASSUME UNCHANGED nasVars, snap' = <<>>, upto' = 0 PROVE NasOrder' /\ SnapOrder'
  <2>1. NasOrder'
    BY <1>3 DEF OrderInv, NasOrder, nasVars
  <2>2. Len(snap') = 0 /\ upto' <= written'
    BY <1>3 DEF OrderInv, TypeOK, nasVars
  <2> QED
    BY <2>1, <2>2 DEF SnapOrder
<1>4. ASSUME UNCHANGED <<nasVars, snap, upto>> PROVE NasOrder' /\ SnapOrder'
  BY <1>4 DEF OrderInv, NasOrder, SnapOrder, nasVars
<1>5. CASE StartPoll
  BY <1>3, <1>5 DEF StartPoll
<1>6. ASSUME NEW now \in Clocks, Prepare(now) PROVE NasOrder' /\ SnapOrder'
  BY <1>3, <1>6, Zenon DEF Prepare
<1>7. ASSUME NEW now \in Clocks, PrepareNotSaved(now) PROVE NasOrder' /\ SnapOrder'
  BY <1>3, <1>7, Zenon DEF PrepareNotSaved, EndPoll
<1>8. CASE Push
  BY <1>4, <1>8 DEF Push
<1>9. CASE FetchFails \/ PushFails \/ Commit \/ CommitNotSaved \/ Crash
  BY <1>3, <1>9, Zenon DEF FetchFails, PushFails, Commit, CommitNotSaved, Crash, EndPoll
<1>10. CASE UNCHANGED vars
  BY <1>4, <1>10 DEF vars, nasVars
<1> QED
  BY <1>1, <1>2, <1>5, <1>6, <1>7, <1>8, <1>9, <1>10 DEF Next, Progress, Failure

LEMMA OrderInvariant == Spec => []OrderInv
<1>1. Init => OrderInv
  BY InitOrder
<1>2. OrderInv /\ [Next]_vars => OrderInv'
  BY NextType, OrderStep DEF OrderInv
<1> QED
  BY <1>1, <1>2, PTL DEF Spec

\* Where a line is read from: behind the offset in the generation the cursor points
\* into, anywhere in a younger one; of the current file, up to where the cursor goes.
Reads(s, oldest, offset, seen, k, i) ==
    /\ k = oldest => i > offset
    /\ k = 1 => i <= ReadTo(s[1], IF oldest = 1 THEN offset ELSE 0, seen, FALSE)

IsRead(s, oldest, offset, seen, l) ==
    \E j \in 1..Len(ReadLines(s, oldest, offset, seen)) : ReadLines(s, oldest, offset, seen)[j] = l

LEMMA LineRead ==
    ASSUME NEW s \in Seq(Generations), NEW oldest \in 1..Len(s),
           NEW offset \in 0..Len(s[oldest].lines), NEW seen, NEW k \in 1..oldest,
           NEW i \in 1..Len(s[k].lines), Reads(s, oldest, offset, seen, k, i)
    PROVE  IsRead(s, oldest, offset, seen, s[k].lines[i])
<1> DEFINE from == IF k = oldest THEN offset ELSE 0
           to == ReadTo(s[k], from, seen, k # 1)
           part == Part(s, oldest, offset, seen, k)
<1>0. s[k] \in Generations /\ oldest \in Nat /\ k \in 1..Len(s)
  <2>1. k \in 1..Len(s) /\ oldest \in Nat
    OBVIOUS
  <2> QED
    BY <2>1, ElementOfSeq
<1>1. s[k].lines \in Seq(Lines) /\ Len(s[k].lines) \in Nat /\ s[k].open \in BOOLEAN
  BY <1>0, GenerationType
<1>2. from \in 0..Len(s[k].lines) /\ from < i
  BY <1>1 DEF Reads
<1>3. to \in from..Len(s[k].lines)
  <2> HIDE DEF from
  <2> QED
    BY <1>0, <1>2, ReadToBounds
<1>4. i <= to
  <2>1. CASE k = 1
    <3>1. from = (IF oldest = 1 THEN offset ELSE 0) /\ (k # 1) = FALSE
      BY <2>1
    <3> QED
      BY <2>1, <3>1 DEF Reads
  <2>2. CASE k # 1
    <3>1. (k # 1) = TRUE
      BY <2>2
    <3> HIDE DEF from
    <3>2. to = Len(s[k].lines)
      BY <1>1, <1>2, <3>1 DEF ReadTo
    <3> QED
      BY <1>1, <3>2
  <2> QED
    BY <2>1, <2>2
<1>5. part = SubSeq(s[k].lines, from + 1, to)
  BY Zenon DEF Part
<1>6. \A m \in 1..oldest : Part(s, oldest, offset, seen, m) \in Seq(Lines)
  BY PartType
<1> HIDE DEF from, to
<1>7. Len(part) = to - from /\ \A m \in 1..(to - from) : part[m] = s[k].lines[from + m]
  BY <1>1, <1>2, <1>3, <1>5, SubSeqType
<1>8. i - from \in 1..(to - from) /\ from + (i - from) = i
  BY <1>1, <1>2, <1>3, <1>4
<1>9. i - from \in 1..Len(part) /\ part[i - from] = s[k].lines[i]
  BY <1>7, <1>8
<1> HIDE DEF part
<1>10. \A m \in 1..Len(part) : \E j \in 1..Len(ReadLines(s, oldest, offset, seen)) :
          ReadLines(s, oldest, offset, seen)[j] = part[m]
  BY <1>0, <1>6, ReadLinesProperties DEF part
<1> QED
  BY <1>9, <1>10 DEF IsRead

\* No line behind the cursor's prefix is passed over when the prefix is found again.
LEMMA NothingPassedOver ==
    ASSUME OrderInv, NEW now \in Clocks, Prepare(now),
           mem.acked.cursor # NoCursor, Offset(mem.acked.cursor) > 0,
           mem'.box.next.gaps = mem.acked.gaps,
           NEW l \in (mem.acked.cursor.prefix[Offset(mem.acked.cursor)] + 1 .. upto) \ Normal
    PROVE  ~PassedOver(l)
<1> DEFINE a == mem.acked
           c == a.cursor
           new == Candidate(mem, snap, now)
           w == Work(a, snap)
           kf == Found(snap, c)
           off == Offset(c)
           read == ReadLines(snap, kf, off, c.seen)
           from == IF kf = 1 THEN off ELSE 0
           to == ReadTo(snap[1], from, c.seen, FALSE)
<1>0. /\ snap \in Seq(Generations) /\ snap # <<>> /\ mem \in States
      /\ Len(snap) \in Nat /\ 1 \in 1..Len(snap) /\ upto \in Nat /\ upto <= MaxLines
  <2>1. snap \in Seq(Generations) /\ snap # <<>>
    BY SnapshotType DEF Prepare, OrderInv
  <2> QED
    BY <2>1, LinesNat DEF OrderInv, TypeOK
<1>1. mem' = new
  BY Zenon DEF Prepare
<1>2. /\ w \in Seq(Lines) /\ Len(new.box.entries) = Len(w)
      /\ \A i \in 1..Len(w) : new.box.entries[i].line = w[i]
      /\ new.box.next.cursor = CursorAfter(a, snap)
      /\ new \in States
  BY <1>0, CandidateProperties
<1>3. kf # 0
  <2>1. new.box.next.gaps = IF c # NoCursor /\ kf = 0 THEN a.gaps + 1 ELSE a.gaps
    <3>1. new = [mem EXCEPT !.full = TRUE, !.box = new.box]
      BY <1>0 DEF Candidate, States
    <3> QED
      BY <1>0 DEF Candidate, States
  <2>2. a.gaps \in Nat
    BY <1>0 DEF States, Acked
  <2> QED
    BY <1>1, <2>1, <2>2
<1>4. /\ kf \in 1..Len(snap) /\ snap[kf] \in Generations /\ MatchesPrefix(snap[kf], c)
      /\ snap[1] \in Generations
  <2>1. kf \in 1..Len(snap) /\ MatchesPrefix(snap[kf], c)
    BY <1>0, <1>3, FoundIn
  <2> HIDE DEF kf
  <2> QED
    BY <1>0, <2>1, ElementOfSeq
<1> HIDE DEF w, new, read, kf
<1> DEFINE f == snap[kf].lines
           q == c.prefix[off]
<1>5. /\ c \in Cursors /\ c.prefix \in Seq(Lines) /\ off = Len(c.prefix) /\ off \in Nat /\ off > 0
      /\ f \in Seq(Lines) /\ Len(f) \in Nat
  <2>1. c \in Cursors
    BY <1>0 DEF States, Acked
  <2> QED
    BY <1>4, <2>1, GenerationType DEF Cursors, Offset
<1>6. off \in 1..Len(f) /\ f[off] = q /\ q \in Lines
  <2>1. Len(f) >= off /\ SubSeq(f, 1, off) = c.prefix
    BY <1>4 DEF MatchesPrefix
  <2>2. 0 \in 0..Len(f) /\ off \in 0..Len(f) /\ 0 + 1 = 1 /\ off - 0 = off /\ 0 + off = off
    BY <1>5, <2>1
  <2>3. \A i \in 1..(off - 0) : SubSeq(f, 0 + 1, off)[i] = f[0 + i]
    BY <1>5, <2>2, SubSeqType
  <2>4. off \in 1..off
    BY <1>5
  <2>5. c.prefix[off] = f[off]
    BY <2>1, <2>2, <2>3, <2>4
  <2> HIDE DEF f
  <2>6. off \in 1..Len(f)
    BY <1>5, <2>1
  <2> QED
    BY <1>5, <2>5, <2>6
<1>7. l \in Lines /\ q < l /\ l \in q..upto /\ l \notin Normal
  <2>1. l \in (q + 1)..upto /\ l \notin Normal
    OBVIOUS
  <2> HIDE DEF q
  <2>2. q \in Nat /\ 1 <= q
    BY <1>6, LinesNat
  <2> QED
    BY <1>0, <2>1, <2>2, LinesNat
<1>8. PICK k \in 1..kf : Has(snap[k], l)
  <2>1. Has(snap[kf], q)
    BY <1>6 DEF Has
  <2> QED
    BY <1>4, <1>6, <1>7, <2>1 DEF OrderInv, SnapOrder
<1>9. PICK i \in 1..Len(snap[k].lines) : snap[k].lines[i] = l
  BY <1>8 DEF Has
<1>10. ASSUME k = kf PROVE i > off
  <2>1. Ascending(snap[kf])
    BY <1>4 DEF OrderInv, SnapOrder
  <2>2. i \in 1..Len(f) /\ f[i] = l
    BY <1>9, <1>10
  <2>3. i < off => f[i] < f[off]
    BY <1>6, <2>1, <2>2 DEF Ascending
  <2> HIDE DEF f, q
  <2>4. q \in Nat /\ l \in Nat
    BY <1>6, <1>7, LinesNat
  <2>5. i # off
    BY <1>6, <1>7, <2>2, <2>4
  <2>6. ~(i < off)
    BY <1>6, <1>7, <2>2, <2>3, <2>4
  <2> QED
    BY <1>5, <2>2, <2>5, <2>6
<1>13. from \in 0..Len(snap[1].lines)
  <2>1. Len(snap[1].lines) \in Nat
    BY <1>4, GenerationType
  <2>2. CASE kf = 1
    <3>1. f = snap[1].lines /\ from = off
      BY <2>2
    <3> HIDE DEF f, from, off
    <3>2. off \in 1..Len(snap[1].lines)
      BY <1>6, <3>1
    <3> QED
      BY <2>1, <3>1, <3>2
  <2>3. CASE kf # 1
    BY <2>1, <2>3
  <2> QED
    BY <2>2, <2>3
<1>11. CASE k = 1 /\ i > to
  <2>1. CursorAfter(a, snap).prefix = SubSeq(snap[1].lines, 1, to)
    BY Zenon DEF CursorAfter, kf
  <2>2. to \in from..Len(snap[1].lines) /\ from \in 0..Len(snap[1].lines)
    <3>1. from \in 0..Len(snap[1].lines)
      BY <1>13
    <3> HIDE DEF from
    <3> QED
      BY <1>4, <3>1, ReadToBounds
  <2>3. snap[1].lines \in Seq(Lines) /\ Len(snap[1].lines) \in Nat
    BY <1>4, GenerationType
  <2> HIDE DEF to
  <2>4. Len(SubSeq(snap[1].lines, 1, to)) = to
    <3>1. 0 \in 0..Len(snap[1].lines) /\ to \in 0..Len(snap[1].lines) /\ 0 + 1 = 1 /\ to - 0 = to
      BY <2>2, <2>3
    <3> QED
      BY <2>3, <3>1, SubSeqType
  <2>5. Offset(mem'.box.next.cursor) = to
    BY <1>1, <1>2, <2>1, <2>4 DEF Offset
  <2>6. i \in DOMAIN snap[1].lines /\ snap[1].lines[i] = l
    BY <1>9, <1>11, <2>3
  <2>7. ~(i <= to)
    BY <1>11, <2>2, <2>3
  <2> QED
    BY <2>5, <2>6, <2>7, Zenon DEF PassedOver
<1>12. CASE ~(k = 1 /\ i > to)
  <2>1. k = 1 => i <= to
    <3>1. from \in 0..Len(snap[1].lines)
      BY <1>13
    <3>2. k = 1 => i \in Nat
      BY <1>9
    <3>3. to \in Nat
      <4> HIDE DEF from
      <4>1. to \in from..Len(snap[1].lines)
        BY <1>4, <3>1, ReadToBounds
      <4>2. Len(snap[1].lines) \in Nat
        BY <1>4, GenerationType
      <4> HIDE DEF to
      <4> QED
        BY <3>1, <4>1, <4>2
    <3> HIDE DEF to
    <3> QED
      BY <1>12, <3>2, <3>3
  <2>2. \E j \in 1..Len(read) : read[j] = l
    <3>1. off \in 0..Len(snap[kf].lines)
      BY <1>5, <1>6
    <3>2. \E j \in 1..Len(ReadLines(snap, kf, off, c.seen)) :
             ReadLines(snap, kf, off, c.seen)[j] = snap[k].lines[i]
      <4>1. k = 1 => i <= ReadTo(snap[1], IF kf = 1 THEN off ELSE 0, c.seen, FALSE)
        BY <2>1
      <4>2. k = kf => i > off
        BY <1>10
      <4>3. /\ snap \in Seq(Generations) /\ kf \in 1..Len(snap) /\ k \in 1..kf
            /\ i \in 1..Len(snap[k].lines)
        BY <1>0, <1>4
      <4> DEFINE seen == c.seen
      <4> HIDE DEF off, seen
      <4>4. Reads(snap, kf, off, seen, k, i) /\ off \in 0..Len(snap[kf].lines)
        BY <3>1, <4>1, <4>2 DEF seen, Reads
      <4>5. IsRead(snap, kf, off, seen, snap[k].lines[i])
        BY <4>3, <4>4, LineRead
      <4> QED
        BY <4>5, Zenon DEF seen, IsRead
    <3> QED
      BY <1>9, <3>2, Zenon DEF read
  <2>3. w = Unfiltered(read) /\ read \in Seq(Lines)
    <3>1. w = Unfiltered(read)
      <4> DEFINE lines == CASE c = NoCursor -> LastOf(ReadLines(snap, 1, 0, c.seen), BootTail)
                 [] c # NoCursor /\ Found(snap, c) = 0 -> ReadLines(snap, 1, 0, c.seen)
                 [] OTHER -> ReadLines(snap, Found(snap, c), Offset(c), c.seen)
      <4>1. w = Unfiltered(lines)
        BY Zenon DEF w, Work
      <4>2. c # NoCursor /\ Found(snap, c) # 0
        BY <1>3 DEF kf
      <4> DEFINE bootlines == LastOf(ReadLines(snap, 1, 0, c.seen), BootTail)
                 all == ReadLines(snap, 1, 0, c.seen)
                 rest == ReadLines(snap, Found(snap, c), Offset(c), c.seen)
                 unknown == c = NoCursor
                 lost == c # NoCursor /\ Found(snap, c) = 0
      <4>3. lines = CASE unknown -> bootlines [] lost -> all [] OTHER -> rest
        BY Zenon
      <4>4. ~unknown /\ ~lost
        BY <4>2
      <4> HIDE DEF bootlines, all, rest, unknown, lost, lines
      <4>5. lines = rest
        BY <4>3, <4>4
      <4> QED
        BY <4>1, <4>5, Zenon DEF rest, read, kf
    <3>2. \A m \in 1..kf : Part(snap, kf, off, c.seen, m) \in Seq(Lines)
      BY <1>0, <1>4, <1>5, <1>6, PartType
    <3>3. kf \in Nat
      BY <1>0, <1>4
    <3> QED
      BY <3>1, <3>2, <3>3, ReadLinesProperties DEF read
  <2>4. Filtered(w, read, Len(read))
    BY <2>3, UnfilteredProperties
  <2>5. PICK m \in 1..Len(w) : w[m] = l
    <3>1. PICK j \in 1..Len(read) : read[j] = l
      BY <2>2
    <3>2. read[j] \notin Normal
      BY <1>7, <3>1
    <3>3. \E m \in 1..Len(w) : w[m] = read[j]
      BY <2>4, <3>1, <3>2, Zenon DEF Filtered
    <3> QED
      BY <3>1, <3>3
  <2>6. m \in DOMAIN new.box.entries /\ new.box.entries[m].line = l
    <3>1. new.box.entries \in Seq(Entries)
      BY <1>2, EntriesOf
    <3>2. DOMAIN new.box.entries = 1..Len(w)
      BY <1>2, <3>1, LenProperties
    <3> QED
      BY <1>2, <2>5, <3>2
  <2> QED
    BY <1>1, <2>6, Zenon DEF PassedOver
<1> QED
  BY <1>11, <1>12

\* A line that rotation took out of reach is never passed over in silence: whatever
\* the NAS does between the reads of one snapshot, every line behind a prefix that
\* is found again is in the outbox or still ahead of the new cursor.
THEOREM NoSilentSkips == Spec => SkipsAreCounted
<1> DEFINE A == LET c == mem.acked.cursor
                IN Preparing /\ Offset(c) > 0 /\ mem'.box.next.gaps = mem.acked.gaps =>
                     \A l \in (c.prefix[Offset(c)] + 1 .. upto) \ Normal : ~PassedOver(l)
<1>1. OrderInv /\ [Next]_vars => [A]_vars
  <2> SUFFICES ASSUME OrderInv, Next, Preparing PROVE \E now \in Clocks : Prepare(now)
    BY NothingPassedOver DEF Preparing
  <2>1. pc = "snap" /\ pc' = "push"
    BY DEF Preparing
  <2>2. ~Nas /\ ~Failure /\ ~Crash
    BY <2>1 DEF Nas, WriteLine, FinishLine, Rotate, Failure, FetchFails, PrepareNotSaved,
                PushFails, CommitNotSaved, Crash, EndPoll
  <2>3. ~StartPoll /\ ~ReadGeneration /\ ~Push /\ ~Commit
    BY <2>1 DEF StartPoll, ReadGeneration, Push, Commit
  <2> QED
    BY <2>2, <2>3 DEF Next, Progress
<1> QED
  BY <1>1, OrderInvariant, PTL DEF Spec, SkipsAreCounted
-----------------------------------------------------------------------------
(* A source with one generation: what is read of it and what is kept of it. *)

\* u holds lines of f's places lo + 1 to hi, in their order.
Slice(u, f, lo, hi) ==
    /\ u \in Seq(Lines)
    /\ \A i \in 1..Len(u) : \E j \in (lo + 1)..hi : u[i] = f[j]
    /\ \A i, j \in 1..Len(u) : i < j => u[i] < u[j]

\* The tail of a slice is one.
LEMMA LastOfSlice ==
    ASSUME NEW q, NEW f, NEW lo, NEW hi, Slice(q, f, lo, hi), NEW n \in Nat
    PROVE  Slice(LastOf(q, n), f, lo, hi)
<1>0. q \in Seq(Lines) /\ Len(q) \in Nat
  BY DEF Slice
<1>1. CASE Len(q) <= n
  BY <1>1 DEF LastOf
<1>2. CASE ~(Len(q) <= n)
  <2> DEFINE d == Len(q) - n
             u == SubSeq(q, d + 1, Len(q))
  <2>1. d \in 0..Len(q) /\ Len(q) \in d..Len(q) /\ Len(q) - d = n
    BY <1>0, <1>2
  <2>2. LastOf(q, n) = u
    BY <1>2, Zenon DEF LastOf
  <2> HIDE DEF d
  <2>3. u \in Seq(Lines) /\ Len(u) = n /\ \A k \in 1..n : u[k] = q[d + k]
    BY <1>0, <2>1, SubSeqType
  <2> HIDE DEF u
  <2>4. \A k \in 1..n : d + k \in 1..Len(q)
    BY <1>0, <2>1
  <2>5. \A i \in 1..Len(u) : \E j \in (lo + 1)..hi : u[i] = f[j]
    BY <2>3, <2>4 DEF Slice
  <2>6. ASSUME NEW i \in 1..Len(u), NEW j \in 1..Len(u), i < j PROVE u[i] < u[j]
    <3>1. d + i \in 1..Len(q) /\ d + j \in 1..Len(q) /\ u[i] = q[d + i] /\ u[j] = q[d + j]
      BY <2>3, <2>4
    <3>2. d + i < d + j
      BY <1>0, <2>1, <2>3, <2>6
    <3> QED
      BY <3>1, <3>2 DEF Slice
  <2> QED
    BY <2>2, <2>3, <2>5, <2>6 DEF Slice
<1> QED
  BY <1>1, <1>2

\* So is what the filter leaves of it.
LEMMA UnfilteredSlice ==
    ASSUME NEW q, NEW f, NEW lo, NEW hi, Slice(q, f, lo, hi)
    PROVE  Slice(Unfiltered(q), f, lo, hi)
<1> DEFINE u == Unfiltered(q)
<1>1. q \in Seq(Lines) /\ Filtered(u, q, Len(q))
  BY UnfilteredProperties DEF Slice
<1> HIDE DEF u
<1>2. \A i \in 1..Len(u) : \E j \in (lo + 1)..hi : u[i] = f[j]
  <2> SUFFICES ASSUME NEW i \in 1..Len(u) PROVE \E j \in (lo + 1)..hi : u[i] = f[j]
    OBVIOUS
  <2>1. PICK m \in 1..Len(q) : q[m] = u[i]
    BY <1>1 DEF Filtered
  <2>2. \E j \in (lo + 1)..hi : q[m] = f[j]
    BY DEF Slice
  <2> QED
    BY <2>1, <2>2
<1>3. ASSUME NEW i \in 1..Len(u), NEW j \in 1..Len(u), i < j PROVE u[i] < u[j]
  <2>1. PICK m \in 1..Len(q), n \in 1..Len(q) : m < n /\ q[m] = u[i] /\ q[n] = u[j]
    BY <1>1, <1>3 DEF Filtered
  <2>2. q[m] < q[n]
    BY <2>1 DEF Slice
  <2> QED
    BY <2>1, <2>2
<1> QED
  BY <1>1, <1>2, <1>3 DEF Slice, Filtered, u

\* Where the reading of a single file begins, and where it ends.
Begin(s, c)  == IF c # NoCursor /\ Found(s, c) = 1 THEN Offset(c) ELSE 0
Finish(s, c) == ReadTo(s[1], Begin(s, c), c.seen, FALSE)

LEMMA SingleBounds ==
    ASSUME NEW a \in Acked, NEW s \in Seq(Generations), Len(s) = 1
    PROVE  /\ s[1] \in Generations /\ s[1].lines \in Seq(Lines) /\ Len(s[1].lines) \in Nat
           /\ Begin(s, a.cursor) \in 0..Len(s[1].lines)
           /\ Finish(s, a.cursor) \in 0..Len(s[1].lines)
           /\ Begin(s, a.cursor) <= Finish(s, a.cursor)
           /\ Finish(s, a.cursor) \in Begin(s, a.cursor)..Len(s[1].lines)
<1> DEFINE c == a.cursor
           from == Begin(s, c)
           to == Finish(s, c)
<1>0. s[1] \in Generations
  <2>1. 1 \in 1..Len(s)
    OBVIOUS
  <2> QED
    BY <2>1, ElementOfSeq
<1>1. s[1].lines \in Seq(Lines) /\ Len(s[1].lines) \in Nat
  BY <1>0, GenerationType
<1>2. from \in 0..Len(s[1].lines)
  <2>1. CASE c # NoCursor /\ Found(s, c) = 1
    <3>1. MatchesPrefix(s[1], c)
      BY <2>1, FoundIn
    <3>2. Offset(c) \in Nat
      BY DEF Acked, Cursors, Offset
    <3> QED
      BY <1>1, <2>1, <3>1, <3>2 DEF MatchesPrefix, Begin
  <2>2. CASE ~(c # NoCursor /\ Found(s, c) = 1)
    BY <1>1, <2>2 DEF Begin
  <2> QED
    BY <2>1, <2>2
<1> HIDE DEF from
<1>3. to \in from..Len(s[1].lines)
  <2>1. ReadTo(s[1], from, c.seen, FALSE) \in from..Len(s[1].lines)
    BY <1>0, <1>2, ReadToBounds
  <2> QED
    BY <2>1, Zenon DEF Finish, from
<1> HIDE DEF to
<1>4. to \in 0..Len(s[1].lines) /\ from <= to
  BY <1>1, <1>2, <1>3
<1> QED
  BY <1>0, <1>1, <1>2, <1>3, <1>4, Zenon DEF from, to

\* What prepare() reads of a single file, and the cursor it leaves.
LEMMA WorkOfOne ==
    ASSUME NEW a \in Acked, NEW s \in Seq(Generations), Len(s) = 1, Ascending(s[1])
    PROVE  /\ Slice(Work(a, s), s[1].lines, Begin(s, a.cursor), Finish(s, a.cursor))
           /\ CursorAfter(a, s).ino = s[1].ino
           /\ CursorAfter(a, s).prefix = SubSeq(s[1].lines, 1, Finish(s, a.cursor))
<1> DEFINE c == a.cursor
           f == s[1].lines
           from == Begin(s, c)
           to == Finish(s, c)
           whole == ReadLines(s, 1, 0, c.seen)
           rest == ReadLines(s, Found(s, c), Offset(c), c.seen)
           lines == CASE c = NoCursor -> LastOf(whole, BootTail)
                      [] c # NoCursor /\ Found(s, c) = 0 -> whole
                      [] OTHER -> rest
<1>0. /\ s[1] \in Generations /\ f \in Seq(Lines) /\ Len(f) \in Nat
      /\ from \in 0..Len(f) /\ to \in from..Len(f) /\ to \in 0..Len(f) /\ from <= to
  BY SingleBounds
<1>1. ASSUME NEW o \in 0..Len(f), NEW e, e = ReadTo(s[1], o, c.seen, FALSE)
      PROVE  Slice(ReadLines(s, 1, o, c.seen), f, o, e)
  <2> DEFINE q == SubSeq(f, o + 1, e)
  <2>1. e \in o..Len(f)
    BY <1>0, <1>1, ReadToBounds
  <2>2. Part(s, 1, o, c.seen, 1) = q
    <3>1. Part(s, 1, o, c.seen, 1) = SubSeq(s[1].lines, o + 1, ReadTo(s[1], o, c.seen, FALSE))
      BY DEF Part
    <3> QED
      BY <1>1, <3>1, Zenon
  <2> HIDE DEF f
  <2>3. /\ q \in Seq(Lines) /\ Len(q) = e - o
        /\ \A k \in 1..(e - o) : q[k] = f[o + k]
    BY <1>0, <2>1, SubSeqType
  <2> HIDE DEF q
  <2>4. ReadLines(s, 1, o, c.seen) = q
    <3>1. \A k \in 1..1 : Part(s, 1, o, c.seen, k) \in Seq(Lines)
      BY <2>2, <2>3
    <3> QED
      BY <2>2, <3>1, ReadLinesProperties
  <2>5. \A k \in 1..(e - o) : o + k \in (o + 1)..e /\ o + k \in 1..Len(f)
    BY <1>0, <2>1
  <2>6. \A i \in 1..Len(q) : \E j \in (o + 1)..e : q[i] = f[j]
    BY <2>3, <2>5
  <2>7. ASSUME NEW i \in 1..Len(q), NEW j \in 1..Len(q), i < j PROVE q[i] < q[j]
    <3>1. o + i < o + j /\ o + i \in 1..Len(f) /\ o + j \in 1..Len(f)
      BY <1>0, <2>3, <2>5, <2>7
    <3>2. f[o + i] < f[o + j]
      BY <3>1 DEF Ascending, f
    <3> QED
      BY <2>3, <3>2
  <2> QED
    BY <2>3, <2>4, <2>6, <2>7 DEF Slice
<1>2. Found(s, c) \in {0, 1}
  <2>1. Found(s, c) # 0 => Found(s, c) \in 1..1
    BY FoundIn
  <2> QED
    BY <2>1
<1>3. Work(a, s) = Unfiltered(lines)
  BY Zenon DEF Work, whole, rest
<1>4. Slice(lines, f, from, to)
  <2>1. CASE c # NoCursor /\ Found(s, c) = 1
    <3>1. from = Offset(c) /\ to = ReadTo(s[1], Offset(c), c.seen, FALSE)
      BY <2>1 DEF Begin, Finish
    <3>2. rest = ReadLines(s, 1, Offset(c), c.seen)
      BY <2>1
    <3> HIDE DEF f, from, to, rest, whole
    <3>3. lines = rest
      BY <2>1
    <3>4. Offset(c) \in 0..Len(f)
      BY <1>0, <3>1
    <3>5. Slice(ReadLines(s, 1, Offset(c), c.seen), f, Offset(c), to)
      BY <1>1, <3>1, <3>4
    <3> QED
      BY <3>1, <3>2, <3>3, <3>5, Zenon
  <2>2. CASE ~(c # NoCursor /\ Found(s, c) = 1)
    <3>1. from = 0 /\ to = ReadTo(s[1], 0, c.seen, FALSE)
      BY <2>2 DEF Begin, Finish
    <3> HIDE DEF f, from, to, rest
    <3>2. 0 \in 0..Len(f)
      BY <1>0
    <3>3. Slice(whole, f, 0, to)
      BY <1>1, <3>1, <3>2
    <3> HIDE DEF whole
    <3>4. BootTail \in Nat
      BY NasAssumption
    <3>5. Slice(LastOf(whole, BootTail), f, 0, to)
      BY <3>3, <3>4, LastOfSlice
    <3>6. lines = whole \/ lines = LastOf(whole, BootTail)
      BY <1>2, <2>2
    <3> QED
      BY <3>1, <3>3, <3>5, <3>6, Zenon
  <2> QED
    BY <2>1, <2>2
<1>5. Slice(Work(a, s), f, from, to)
  <2> HIDE DEF lines, f, from, to
  <2> QED
    BY <1>3, <1>4, UnfilteredSlice
<1>6. /\ CursorAfter(a, s).ino = s[1].ino
      /\ CursorAfter(a, s).prefix = SubSeq(s[1].lines, 1, Finish(s, c))
  BY Zenon DEF CursorAfter, Begin, Finish
<1> QED
  BY <1>5, <1>6
-----------------------------------------------------------------------------
(* One timestamp to a line.                                                 *)

\* The line l is behind the cursor c in the file f: within the prefix that is found
\* again, or older than everything the file still has.
Behind(f, c, l) ==
    /\ c # NoCursor
    /\ \/ MatchesPrefix(f, c) /\ \E i \in 1..Offset(c) : c.prefix[i] = l
       \/ \A i \in 1..Len(f.lines) : f.lines[i] > l

\* With the state d on disk, what Loki has is behind the cursor acknowledged or in
\* the outbox, and all of it is behind the cursor that the outbox leads to.
Passed(f, d, arrived) ==
    /\ \A e \in arrived : e \in BoxEntries(d) \/ Behind(f, d.acked.cursor, e.line)
    /\ d.full => \A e \in arrived \cup BoxEntries(d) : Behind(f, d.box.next.cursor, e.line)

Single(d, arrived, last) ==
    /\ \A x, y \in arrived \cup BoxEntries(d) : x.line = y.line => x.ts = y.ts
    /\ \A e \in arrived \cup BoxEntries(d) : e.line <= last

\* Since f was read, g has grown from it or was rotated.
Later(f, g, last) ==
    \/ /\ Len(f.lines) <= Len(g.lines)
       /\ \A i \in 1..Len(f.lines) : g.lines[i] = f.lines[i]
       /\ \A i \in 1..Len(g.lines) : i > Len(f.lines) => g.lines[i] > last
    \/ \A i \in 1..Len(g.lines) : g.lines[i] > last

Read ==
    /\ pc = "snap" /\ snap[1] \in Files /\ Passed(snap[1], disk, loki)
    /\ \A e \in loki : e.line <= upto
    /\ \A i \in 1..Len(snap[1].lines) : snap[1].lines[i] <= upto
    /\ Later(snap[1], nas[1], upto)

Once ==
    /\ Passed(nas[1], disk, loki)
    /\ Single(disk, loki, written)
    /\ snap # <<>> => Read

OnceInv == OutboxInv /\ OrderInv /\ Once

\* A prefix matches place by place.
LEMMA MatchesPointwise ==
    ASSUME NEW f, f.lines \in Seq(Lines), NEW c, c.prefix \in Seq(Lines)
    PROVE  MatchesPrefix(f, c) <=>
             /\ Len(f.lines) >= Offset(c)
             /\ \A i \in 1..Offset(c) : f.lines[i] = c.prefix[i]
<1> DEFINE k == Len(c.prefix)
           q == f.lines
<1>1. k \in Nat /\ Len(q) \in Nat /\ Offset(c) = k /\ q \in Seq(Lines)
  BY DEF Offset
<1>2. ASSUME Len(q) >= k
      PROVE  SubSeq(q, 1, k) = c.prefix <=> \A i \in 1..k : q[i] = c.prefix[i]
  <2> HIDE DEF q
  <2> DEFINE u == SubSeq(q, 1, k)
  <2>1. u \in Seq(Lines) /\ Len(u) = k /\ \A i \in 1..k : u[i] = q[i]
    <3>1. 0 \in 0..Len(q) /\ k \in 0..Len(q) /\ 0 + 1 = 1 /\ k - 0 = k
      BY <1>1, <1>2
    <3>2. \A i \in 1..k : 0 + i = i
      OBVIOUS
    <3>3. /\ SubSeq(q, 0 + 1, k) \in Seq(Lines) /\ Len(SubSeq(q, 0 + 1, k)) = k - 0
          /\ \A i \in 1..(k - 0) : SubSeq(q, 0 + 1, k)[i] = q[0 + i]
      BY <1>1, <3>1, SubSeqType
    <3> QED
      BY <3>1, <3>2, <3>3
  <2> HIDE DEF u
  <2>2. u = c.prefix <=> \A i \in 1..k : u[i] = c.prefix[i]
    BY <2>1, SeqEqual
  <2> QED
    BY <2>1, <2>2 DEF u
<1> HIDE DEF k, q
<1>3. MatchesPrefix(f, c) <=> Len(q) >= k /\ SubSeq(q, 1, k) = c.prefix
  BY <1>1, Zenon DEF MatchesPrefix, q
<1> QED
  BY <1>1, <1>2, <1>3 DEF q

\* What is behind a cursor stays there when the file grows by newer lines.
LEMMA BehindGrows ==
    ASSUME NEW f, f.lines \in Seq(Lines), NEW g, g.lines \in Seq(Lines),
           NEW c, c.prefix \in Seq(Lines), NEW l, Behind(f, c, l),
           Len(f.lines) <= Len(g.lines), \A i \in 1..Len(f.lines) : g.lines[i] = f.lines[i],
           \A i \in 1..Len(g.lines) : i > Len(f.lines) => g.lines[i] > l
    PROVE  Behind(g, c, l)
<1>0. Len(f.lines) \in Nat /\ Len(g.lines) \in Nat /\ Offset(c) \in Nat
  BY DEF Offset
<1>1. CASE MatchesPrefix(f, c) /\ \E i \in 1..Offset(c) : c.prefix[i] = l
  <2>1. Len(f.lines) >= Offset(c) /\ \A i \in 1..Offset(c) : f.lines[i] = c.prefix[i]
    BY <1>1, MatchesPointwise
  <2>2. Len(g.lines) >= Offset(c)
    BY <1>0, <2>1
  <2>3. \A i \in 1..Offset(c) : i \in 1..Len(f.lines)
    BY <1>0, <2>1
  <2>4. \A i \in 1..Offset(c) : g.lines[i] = c.prefix[i]
    BY <2>1, <2>3
  <2>5. MatchesPrefix(g, c)
    BY <2>2, <2>4, MatchesPointwise
  <2> QED
    BY <1>1, <2>5 DEF Behind
<1>2. CASE \A i \in 1..Len(f.lines) : f.lines[i] > l
  <2>1. ASSUME NEW i \in 1..Len(g.lines) PROVE g.lines[i] > l
    <3>1. CASE i > Len(f.lines)
      BY <3>1
    <3>2. CASE ~(i > Len(f.lines))
      <4>1. i \in 1..Len(f.lines)
        BY <1>0, <3>2
      <4> QED
        BY <1>2, <4>1
    <3> QED
      BY <3>1, <3>2
  <2> QED
    BY <2>1 DEF Behind
<1> QED
  BY <1>1, <1>2 DEF Behind

\* A new cursor into the file read leaves behind it, in the file as it is by now,
\* what is within its prefix and what is older than the file.
LEMMA CursorPasses ==
    ASSUME NEW f, f.lines \in Seq(Lines), NEW g, g.lines \in Seq(Lines),
           NEW to \in 0..Len(f.lines),
           NEW c, c # NoCursor, c.prefix = SubSeq(f.lines, 1, to),
           NEW last \in Nat, Later(f, g, last), NEW l \in Nat, l <= last,
           (\E j \in 1..to : f.lines[j] = l) \/ (\A i \in 1..Len(f.lines) : f.lines[i] > l)
    PROVE  Behind(g, c, l)
<1>0. Len(f.lines) \in Nat /\ Len(g.lines) \in Nat /\ to \in Nat
      /\ \A i \in 1..Len(g.lines) : g.lines[i] \in Nat
  <2>1. \A i \in 1..Len(g.lines) : g.lines[i] \in Lines
    OBVIOUS
  <2> QED
    BY <2>1, LinesNat
<1>1. /\ c.prefix \in Seq(Lines) /\ Len(c.prefix) = to
      /\ \A i \in 1..to : c.prefix[i] = f.lines[i]
  <2> DEFINE q == f.lines
  <2>1. 0 \in 0..Len(q) /\ to \in 0..Len(q) /\ 0 + 1 = 1 /\ to - 0 = to /\ q \in Seq(Lines)
    BY <1>0
  <2>2. c.prefix = SubSeq(q, 1, to)
    OBVIOUS
  <2> HIDE DEF q
  <2>3. /\ SubSeq(q, 0 + 1, to) \in Seq(Lines) /\ Len(SubSeq(q, 0 + 1, to)) = to - 0
        /\ \A i \in 1..(to - 0) : SubSeq(q, 0 + 1, to)[i] = q[0 + i]
    BY <2>1, SubSeqType
  <2>4. \A i \in 1..to : 0 + i = i
    OBVIOUS
  <2> QED
    BY <2>1, <2>2, <2>3, <2>4 DEF q
<1>2. CASE \A i \in 1..Len(g.lines) : g.lines[i] > last
  <2>1. \A i \in 1..Len(g.lines) : g.lines[i] > l
    BY <1>0, <1>2
  <2> QED
    BY <2>1 DEF Behind
<1>3. CASE /\ Len(f.lines) <= Len(g.lines)
           /\ \A i \in 1..Len(f.lines) : g.lines[i] = f.lines[i]
           /\ \A i \in 1..Len(g.lines) : i > Len(f.lines) => g.lines[i] > last
  <2>1. ASSUME NEW j \in 1..to, f.lines[j] = l PROVE Behind(g, c, l)
    <3>1. \A i \in 1..to : i \in 1..Len(f.lines) /\ i \in 1..Len(g.lines)
      BY <1>0, <1>3
    <3>2. Offset(c) = to /\ Len(g.lines) >= to
      BY <1>0, <1>1, <1>3 DEF Offset
    <3>3. \A i \in 1..to : g.lines[i] = c.prefix[i]
      BY <1>1, <1>3, <3>1
    <3>4. MatchesPrefix(g, c)
      BY <1>1, <3>2, <3>3, MatchesPointwise
    <3>5. c.prefix[j] = l
      BY <1>1, <2>1
    <3> QED
      BY <3>2, <3>4, <3>5 DEF Behind
  <2>2. ASSUME \A i \in 1..Len(f.lines) : f.lines[i] > l PROVE Behind(g, c, l)
    <3>1. ASSUME NEW i \in 1..Len(g.lines) PROVE g.lines[i] > l
      <4>1. CASE i > Len(f.lines)
        BY <1>0, <1>3, <4>1
      <4>2. CASE ~(i > Len(f.lines))
        <5>1. i \in 1..Len(f.lines)
          BY <1>0, <4>2
        <5> QED
          BY <1>3, <2>2, <5>1
      <4> QED
        BY <4>1, <4>2
    <3> QED
      BY <3>1 DEF Behind
  <2> QED
    BY <2>1, <2>2
<1> QED
  BY <1>2, <1>3 DEF Later

\* What is behind the old cursor in the file read is not read again.
LEMMA BehindNotRead ==
    ASSUME NEW a \in Acked, NEW s \in Seq(Generations), Len(s) = 1, s[1] \in Files,
           Ascending(s[1]), NEW l \in Nat, Behind(s[1], a.cursor, l)
    PROVE  /\ \A j \in (Begin(s, a.cursor) + 1)..Finish(s, a.cursor) : s[1].lines[j] # l
           /\ \/ \E j \in 1..Finish(s, a.cursor) : s[1].lines[j] = l
              \/ \A i \in 1..Len(s[1].lines) : s[1].lines[i] > l
<1> DEFINE c == a.cursor
           f == s[1].lines
           from == Begin(s, c)
           to == Finish(s, c)
<1>0. /\ f \in Seq(Lines) /\ Len(f) \in Nat /\ from \in Nat
      /\ to \in 0..Len(f) /\ to \in Nat /\ from <= to
  <2>1. f \in Seq(Lines) /\ Len(f) \in Nat /\ from \in 0..Len(f) /\ to \in 0..Len(f) /\ from <= to
    BY SingleBounds
  <2> HIDE DEF f, from, to
  <2> QED
    BY <2>1
<1>1. c.prefix \in Seq(Lines) /\ Offset(c) \in Nat
  BY DEF Acked, Cursors, Offset
<1>2. CASE MatchesPrefix(s[1], c) /\ \E i \in 1..Offset(c) : c.prefix[i] = l
  <2>1. Found(s, c) = 1
    <3> DEFINE prefixed == {k \in Present(s) : MatchesPrefix(s[k], c)}
               same == {k \in prefixed : s[k].ino = c.ino}
    <3>1. s[1] # Missing
      BY DEF Files, Missing, Inodes
    <3>2. DOMAIN s = {1}
      OBVIOUS
    <3>3. Present(s) = {1}
      BY <3>1, <3>2 DEF Present
    <3>4. prefixed = {1}
      BY <1>2, <3>3
    <3>5. Found(s, c) = IF same # {} THEN Oldest(same) ELSE IF prefixed # {} THEN Oldest(prefixed) ELSE 0
      BY Zenon DEF Found
    <3>6. same \subseteq prefixed
      OBVIOUS
    <3> HIDE DEF prefixed, same
    <3>7. Oldest({1}) = 1
      BY DEF Oldest
    <3>8. same = {} \/ same = {1}
      BY <3>4, <3>6
    <3> QED
      BY <3>4, <3>5, <3>7, <3>8
  <2>2. from = Offset(c)
    BY <2>1 DEF Behind, Begin
  <2>3. PICK i \in 1..Offset(c) : c.prefix[i] = l
    BY <1>2
  <2>4. f[i] = l /\ Len(f) >= Offset(c)
    <3>1. Len(f) >= Offset(c) /\ \A k \in 1..Offset(c) : f[k] = c.prefix[k]
      BY <1>0, <1>1, <1>2, MatchesPointwise
    <3> QED
      BY <2>3, <3>1
  <2> HIDE DEF from, to
  <2>5. i \in 1..from /\ i \in 1..to /\ i \in 1..Len(f)
    BY <1>0, <1>1, <2>2, <2>4
  <2>6. ASSUME NEW j \in (from + 1)..to PROVE f[j] # l
    <3>1. j \in 1..Len(f) /\ i < j
      BY <1>0, <2>5
    <3>2. f[i] < f[j]
      BY <2>5, <3>1 DEF Ascending
    <3> HIDE DEF f
    <3> QED
      BY <2>4, <3>2
  <2> HIDE DEF f
  <2> QED
    BY <2>4, <2>5, <2>6 DEF f, from, to
<1>3. CASE \A i \in 1..Len(f) : f[i] > l
  <2> HIDE DEF from, to
  <2>1. ASSUME NEW j \in (from + 1)..to PROVE f[j] # l
    <3>1. j \in 1..Len(f)
      BY <1>0
    <3>2. f[j] > l
      BY <1>3, <3>1
    <3> HIDE DEF f
    <3> QED
      BY <3>2
  <2> HIDE DEF f
  <2> QED
    BY <1>3, <2>1 DEF from, to, f
<1> QED
  BY <1>2, <1>3 DEF Behind
\* A new outbox has no line that Loki has, none twice, and leaves them all behind.
LEMMA PrepareOnce ==
    ASSUME Depth = 1, OnceInv, pc = "snap", Len(snap) = Depth, NEW now \in Clocks
    PROVE  LET new == Candidate(mem, snap, now)
           IN  Passed(nas[1], new, loki) /\ Single(new, loki, written)
<1> DEFINE a == mem.acked
           new == Candidate(mem, snap, now)
           w == Work(a, snap)
           t == FirstStamp(a, now)
           f == snap[1].lines
           g == nas[1].lines
           from == Begin(snap, a.cursor)
           to == Finish(snap, a.cursor)
           n == new.box.next.cursor
<1>1. /\ snap \in Seq(Generations) /\ snap # <<>> /\ Len(snap) = 1 /\ mem \in States /\ a \in Acked
      /\ disk \in States /\ loki \subseteq Entries
  <2>1. TypeOK
    BY DEF OnceInv, OrderInv
  <2> QED
    BY <2>1, SnapshotType DEF TypeOK, States
<1>2. Read /\ Ascending(snap[1]) /\ upto <= written /\ upto \in Nat /\ written \in Nat
  BY <1>1 DEF OnceInv, Once, OrderInv, SnapOrder, TypeOK
<1>3. /\ new \in States /\ new.full /\ new.acked = a /\ t \in Nat
      /\ w \in Seq(Lines) /\ Len(new.box.entries) = Len(w)
      /\ \A i \in 1..Len(w) : /\ new.box.entries[i].ts = t + i - 1
                              /\ new.box.entries[i].line = w[i]
      /\ n = CursorAfter(a, snap)
  BY <1>1, CandidateProperties
<1>4. Stamped(new)
  BY <1>1, CandidateStamped
<1>5. /\ Slice(w, f, from, to)
      /\ CursorAfter(a, snap).ino = snap[1].ino /\ CursorAfter(a, snap).prefix = SubSeq(f, 1, to)
  BY <1>1, <1>2, WorkOfOne
<1>6. /\ f \in Seq(Lines) /\ Len(f) \in Nat /\ from \in 0..Len(f) /\ to \in 0..Len(f) /\ from <= to
  BY <1>1, SingleBounds
<1>7. g \in Seq(Lines)
  <2>1. nas[1] \in Files
    BY NasAssumption DEF OnceInv, OrderInv, TypeOK
  <2> QED
    BY <2>1 DEF Files
<1> HIDE DEF new, w, t, from, to, n, g
<1>8. /\ BoxEntries(disk) \cap loki = {} /\ new.acked = disk.acked
  BY <1>3, <1>4, PrepareOutbox DEF OnceInv
<1>9. ASSUME NEW e \in loki
      PROVE  /\ e.line \in Nat /\ e.line <= upto
             /\ Behind(nas[1], new.acked.cursor, e.line)
             /\ \A j \in (from + 1)..to : f[j] # e.line
             /\ (\E j \in 1..to : f[j] = e.line) \/ (\A i \in 1..Len(f) : f[i] > e.line)
  <2>1. e \in Entries /\ e \notin BoxEntries(disk)
    BY <1>1, <1>8
  <2>2. e.line \in Nat /\ e.line <= upto
    BY <1>2, <2>1, LinesNat DEF Read, Entries
  <2>3. Behind(nas[1], disk.acked.cursor, e.line) /\ Behind(snap[1], disk.acked.cursor, e.line)
    BY <1>2, <2>1 DEF OnceInv, Once, Read, Passed
  <2>4. Behind(snap[1], a.cursor, e.line) /\ Behind(nas[1], new.acked.cursor, e.line)
    BY <1>3, <1>8, <2>3
  <2>5. snap[1] \in Files
    BY <1>2 DEF Read
  <2> HIDE DEF f, a
  <2>6. /\ \A j \in (Begin(snap, a.cursor) + 1)..Finish(snap, a.cursor) : snap[1].lines[j] # e.line
        /\ \/ \E j \in 1..Finish(snap, a.cursor) : snap[1].lines[j] = e.line
           \/ \A i \in 1..Len(snap[1].lines) : snap[1].lines[i] > e.line
    BY <1>1, <1>2, <2>2, <2>4, <2>5, BehindNotRead
  <2> QED
    BY <2>2, <2>4, <2>6, Zenon DEF f, from, to
<1>10. ASSUME NEW i \in 1..Len(w)
       PROVE  /\ \E j \in (from + 1)..to : w[i] = f[j]
              /\ \E j \in 1..to : f[j] = w[i]
              /\ w[i] \in Nat /\ w[i] <= upto
  <2>1. PICK j \in (from + 1)..to : w[i] = f[j]
    BY <1>5 DEF Slice
  <2>2. j \in 1..to /\ j \in 1..Len(f)
    BY <1>6
  <2>3. f[j] <= upto /\ f[j] \in Lines
    BY <1>2, <1>6, <2>2 DEF Read
  <2> QED
    BY <2>1, <2>2, <2>3, LinesNat
<1>11. ASSUME NEW l \in Nat, l <= upto,
              (\E j \in 1..to : f[j] = l) \/ (\A i \in 1..Len(f) : f[i] > l)
       PROVE  Behind(nas[1], n, l)
  <2>1. n.prefix = SubSeq(f, 1, to)
    BY <1>3, <1>5
  <2>2. n # NoCursor
    <3>1. snap[1].ino \in Inodes /\ n.ino = snap[1].ino
      BY <1>2, <1>3, <1>5 DEF Read, Files
    <3>2. NoCursor.ino = 0 /\ 0 \notin Inodes
      BY DEF NoCursor, Inodes
    <3> QED
      BY <3>1, <3>2
  <2>3. Later(snap[1], nas[1], upto)
    BY <1>2 DEF Read
  <2> QED
    BY <1>2, <1>6, <1>7, <1>11, <2>1, <2>2, <2>3, CursorPasses DEF g
<1>12. BoxEntries(new) = {new.box.entries[i] : i \in 1..Len(w)}
  BY <1>3, EntriesOf
<1>13. Passed(nas[1], new, loki)
  <2>1. \A e \in loki : Behind(nas[1], n, e.line)
    BY <1>9, <1>11
  <2>2. \A i \in 1..Len(w) : Behind(nas[1], n, w[i])
    BY <1>10, <1>11
  <2>3. \A e \in BoxEntries(new) : Behind(nas[1], n, e.line)
    BY <1>3, <1>12, <2>2
  <2>4. \A e \in loki : Behind(nas[1], new.acked.cursor, e.line)
    BY <1>9
  <2> QED
    BY <2>1, <2>3, <2>4, Zenon DEF Passed, n
<1>14. \A i, j \in 1..Len(w) : w[i] = w[j] => i = j
  <2>1. ASSUME NEW i \in 1..Len(w), NEW j \in 1..Len(w), w[i] = w[j] PROVE i = j
    <3>1. w[i] \in Nat /\ ~(w[i] < w[j]) /\ ~(w[j] < w[i])
      BY <1>10, <2>1
    <3>2. ~(i < j) /\ ~(j < i)
      BY <1>5, <3>1 DEF Slice
    <3> QED
      BY <1>3, <3>2
  <2> QED
    BY <2>1
<1>15. \A x \in loki, y \in BoxEntries(new) : x.line # y.line
  <2>1. ASSUME NEW x \in loki, NEW i \in 1..Len(w) PROVE x.line # w[i]
    BY <1>9, <1>10
  <2> QED
    BY <1>3, <1>12, <2>1
<1>16. \A x, y \in BoxEntries(new) : x.line = y.line => x.ts = y.ts
  BY <1>3, <1>12, <1>14
<1>17. \A x, y \in loki : x.line = y.line => x.ts = y.ts
  BY DEF OnceInv, Once, Single
<1>18. \A e \in loki \cup BoxEntries(new) : e.line <= written
  <2>1. \A e \in loki : e.line <= written
    BY DEF OnceInv, Once, Single
  <2>2. \A i \in 1..Len(w) : w[i] <= written
    BY <1>2, <1>10
  <2> QED
    BY <1>3, <1>12, <2>1, <2>2
<1>19. Single(new, loki, written)
  BY <1>15, <1>16, <1>17, <1>18, Zenon DEF Single
<1> QED
  BY <1>13, <1>19 DEF new

\* A delivered outbox leaves everything behind the cursor acknowledged.
LEMMA CommitOnce ==
    ASSUME NEW f, NEW d, NEW arrived, NEW last, d.full, BoxEntries(d) \subseteq arrived,
           Passed(f, d, arrived), Single(d, arrived, last)
    PROVE  Passed(f, Committed(d), arrived) /\ Single(Committed(d), arrived, last)
<1>1. /\ BoxEntries(Committed(d)) = {} /\ ~Committed(d).full
      /\ Committed(d).acked = d.box.next
  BY CommittedStamped
<1> QED
  BY <1>1 DEF Passed, Single

\* A batch of the outbox on disk arrives.
LEMMA PushOnce ==
    ASSUME NEW f, NEW d, NEW arrived, NEW more, NEW last,
           arrived \subseteq more, more \subseteq arrived \cup BoxEntries(d),
           Passed(f, d, arrived), Single(d, arrived, last)
    PROVE  Passed(f, d, more) /\ Single(d, more, last)
  BY DEF Passed, Single

\* The file grows.
LEMMA GrowOnce ==
    ASSUME NEW d \in States, NEW arrived, NEW last \in Nat, Single(d, arrived, last),
           NEW f, f.lines \in Seq(Lines), NEW g, g.lines \in Seq(Lines),
           Len(f.lines) <= Len(g.lines), \A i \in 1..Len(f.lines) : g.lines[i] = f.lines[i],
           \A i \in 1..Len(g.lines) : i > Len(f.lines) => g.lines[i] > last,
           arrived \subseteq Entries, Passed(f, d, arrived)
    PROVE  Passed(g, d, arrived)
<1>1. /\ d.acked.cursor \in Cursors /\ d.acked.cursor.prefix \in Seq(Lines)
      /\ d.box.next.cursor \in Cursors /\ d.box.next.cursor.prefix \in Seq(Lines)
  <2>1. d.acked \in Acked /\ d.box.next \in Acked
    BY DEF States
  <2> QED
    BY <2>1 DEF Acked, Cursors
<1>2. BoxEntries(d) \subseteq Entries
  BY EntriesOf
<1>3. ASSUME NEW e \in arrived \cup BoxEntries(d), NEW c, c.prefix \in Seq(Lines), Behind(f, c, e.line)
      PROVE  Behind(g, c, e.line)
  <2>1. e.line <= last /\ e.line \in Nat
    BY <1>2, LinesNat DEF Single, Entries
  <2>2. \A i \in 1..Len(g.lines) : i > Len(f.lines) => g.lines[i] > e.line
    <3>1. \A i \in 1..Len(g.lines) : g.lines[i] \in Nat
      BY LinesNat
    <3> QED
      BY <2>1, <3>1
  <2> QED
    BY <1>3, <2>2, BehindGrows
<1> QED
  BY <1>1, <1>3 DEF Passed
\* The one file there is.
LEMMA SingleFile ==
    ASSUME Depth = 1, TypeOK
    PROVE  /\ nas \in Seq(Files) /\ Len(nas) = 1 /\ nas[1] \in Files
           /\ nas[1].lines \in Seq(Lines) /\ Len(nas[1].lines) \in Nat
<1>1. nas \in Seq(Files) /\ Len(nas) \in 1..1
  BY DEF TypeOK
<1>2. Len(nas) = 1
  BY <1>1
<1>3. nas[1] \in Files
  BY <1>1, <1>2, ElementOfSeq
<1> QED
  BY <1>1, <1>2, <1>3 DEF Files

\* What the NAS does to its file leaves behind the cursors what is behind them.
LEMMA WriteLineOnce ==
    ASSUME Depth = 1, OnceInv, NEW part \in BOOLEAN, WriteLine(part) PROVE Once'
<1> DEFINE f == nas[1]
           g == nas'[1]
<1>0. /\ nas \in Seq(Files) /\ Len(nas) = 1 /\ f \in Files /\ written \in Nat /\ written + 1 \in Lines
      /\ f.lines \in Seq(Lines) /\ Len(f.lines) \in Nat /\ disk \in States /\ loki \subseteq Entries
      /\ upto \in Nat /\ upto <= written
  <2>1. TypeOK /\ upto <= written
    BY DEF OnceInv, OrderInv, SnapOrder
  <2>2. nas \in Seq(Files) /\ Len(nas) = 1 /\ f \in Files
    BY <2>1, SingleFile
  <2>3. written \in Nat /\ written < MaxLines /\ upto \in Nat /\ disk \in States
        /\ loki \subseteq Entries
    BY <2>1, NasAssumption DEF TypeOK, WriteLine
  <2>4. written + 1 \in Lines
    BY <2>3, LinesNat
  <2> QED
    BY <2>1, <2>2, <2>3, <2>4 DEF Files
<1>1. /\ nas' = [nas EXCEPT ![1] = [ino |-> f.ino, lines |-> Append(f.lines, written + 1), open |-> part]]
      /\ written' = written + 1 /\ UNCHANGED <<snap, upto, pc, disk, loki>>
  BY Zenon DEF WriteLine
<1>2. g.lines = Append(f.lines, written + 1)
  BY <1>0, <1>1
<1>3. /\ g.lines \in Seq(Lines) /\ Len(g.lines) = Len(f.lines) + 1
      /\ g.lines[Len(f.lines) + 1] = written + 1
      /\ \A i \in 1..Len(f.lines) : g.lines[i] = f.lines[i]
  BY <1>0, <1>2, AppendProperties
<1> HIDE DEF f, g
<1>4. Passed(f, disk, loki) /\ Single(disk, loki, written)
  BY DEF OnceInv, Once, f
<1>5. \A i \in 1..Len(g.lines) : i > Len(f.lines) => i = Len(f.lines) + 1
  BY <1>0, <1>3
<1>6. \A i \in 1..Len(g.lines) : i > Len(f.lines) => g.lines[i] > written
  BY <1>0, <1>3, <1>5
<1>7. Len(f.lines) <= Len(g.lines)
  BY <1>0, <1>3
<1>8. Passed(g, disk, loki)
  BY <1>0, <1>3, <1>4, <1>6, <1>7, GrowOnce
<1>9. Single(disk, loki, written + 1)
  <2>1. BoxEntries(disk) \subseteq Entries
    BY <1>0, EntriesOf
  <2>2. \A e \in loki \cup BoxEntries(disk) : e.line \in Nat
    BY <1>0, <2>1, LinesNat DEF Entries
  <2>3. \A e \in loki \cup BoxEntries(disk) : e.line <= written + 1
    BY <1>0, <1>4, <2>2 DEF Single
  <2> QED
    BY <1>4, <2>3 DEF Single
<1>10. ASSUME snap # <<>> PROVE Later(snap[1], g, upto)
  <2> DEFINE s == snap[1]
  <2>1. Later(s, f, upto) /\ s \in Files
    BY <1>10 DEF OnceInv, Once, Read, f
  <2>2. Len(s.lines) \in Nat
    BY <2>1 DEF Files
  <2>3. written + 1 > upto
    BY <1>0
  <2> HIDE DEF s
  <2>4. CASE /\ Len(s.lines) <= Len(f.lines)
             /\ \A i \in 1..Len(s.lines) : f.lines[i] = s.lines[i]
             /\ \A i \in 1..Len(f.lines) : i > Len(s.lines) => f.lines[i] > upto
    <3>1. Len(s.lines) <= Len(g.lines)
      BY <1>0, <1>3, <2>2, <2>4
    <3>2. ASSUME NEW i \in 1..Len(s.lines) PROVE g.lines[i] = s.lines[i]
      <4>1. i \in 1..Len(f.lines)
        BY <1>0, <2>2, <2>4
      <4> QED
        BY <1>3, <2>4, <4>1
    <3>3. ASSUME NEW i \in 1..Len(g.lines), i > Len(s.lines) PROVE g.lines[i] > upto
      <4>1. CASE i = Len(f.lines) + 1
        BY <1>3, <2>3, <4>1
      <4>2. CASE i # Len(f.lines) + 1
        <5>1. i \in 1..Len(f.lines)
          <6>1. i \in 1..(Len(f.lines) + 1)
            BY <1>3
          <6> QED
            BY <1>0, <4>2, <6>1
        <5> QED
          BY <1>3, <2>4, <3>3, <5>1
      <4> QED
        BY <4>1, <4>2
    <3> QED
      BY <3>1, <3>2, <3>3 DEF Later, s
  <2>5. CASE \A i \in 1..Len(f.lines) : f.lines[i] > upto
    <3>1. ASSUME NEW i \in 1..Len(g.lines) PROVE g.lines[i] > upto
      <4>1. CASE i = Len(f.lines) + 1
        BY <1>3, <2>3, <4>1
      <4>2. CASE i # Len(f.lines) + 1
        <5>1. i \in 1..Len(f.lines)
          BY <1>0, <1>3, <4>2
        <5> QED
          BY <1>3, <2>5, <5>1
      <4> QED
        BY <4>1, <4>2
    <3> QED
      BY <3>1 DEF Later
  <2> QED
    BY <2>1, <2>4, <2>5 DEF Later, s
<1>11. snap' # <<>> => Read'
  <2> SUFFICES ASSUME snap # <<>> PROVE Read'
    BY <1>1
  <2>1. Read
    BY DEF OnceInv, Once
  <2> QED
    BY <1>1, <1>10, <2>1 DEF Read, g
<1> QED
  BY <1>1, <1>8, <1>9, <1>11 DEF Once, g

\* Only the lines of a file matter.
LEMMA SameLines ==
    ASSUME NEW f, NEW g, g.lines = f.lines
    PROVE  /\ \A d, arrived : Passed(f, d, arrived) => Passed(g, d, arrived)
           /\ \A s, last : Later(s, f, last) => Later(s, g, last)
<1>1. \A c, l : Behind(f, c, l) => Behind(g, c, l)
  BY DEF Behind, MatchesPrefix
<1> QED
  BY <1>1 DEF Passed, Later

LEMMA FinishLineOnce ==
    ASSUME Depth = 1, OnceInv, FinishLine PROVE Once'
<1>1. nas \in Seq(Files) /\ Len(nas) = 1 /\ nas[1] \in Files
  BY SingleFile DEF OnceInv, OrderInv
<1>2. /\ nas' = [nas EXCEPT ![1] = [nas[1] EXCEPT !.open = FALSE]]
      /\ UNCHANGED <<written, snap, upto, pc, disk, loki>>
  BY Zenon DEF FinishLine
<1>3. nas'[1].lines = nas[1].lines
  BY <1>1, <1>2 DEF Files
<1>4. Passed(nas'[1], disk, loki)
  BY <1>3, SameLines DEF OnceInv, Once
<1>5. snap # <<>> => Later(snap[1], nas'[1], upto)
  BY <1>3, SameLines DEF OnceInv, Once, Read
<1> QED
  BY <1>2, <1>4, <1>5 DEF OnceInv, Once, Read

LEMMA RotateOnce ==
    ASSUME Depth = 1, OnceInv, NEW style, Rotate(style) PROVE Once'
<1>1. nas'[1].lines = <<>>
  BY RotateProperties DEF OnceInv, OrderInv
<1>2. UNCHANGED <<written, snap, upto, pc, disk, loki>>
  BY Zenon DEF Rotate
<1> DEFINE g == nas'[1]
<1>3. 1..Len(g.lines) = {}
  BY <1>1
<1> HIDE DEF g
<1>4. /\ \A f, c, l : Behind(f, c, l) => Behind(g, c, l)
      /\ \A s, last : Later(s, g, last)
  BY <1>3 DEF Behind, Later
<1>5. Passed(g, disk, loki)
  BY <1>4 DEF OnceInv, Once, Passed
<1> QED
  BY <1>2, <1>4, <1>5 DEF OnceInv, Once, Read, g

LEMMA ReadGenerationOnce ==
    ASSUME Depth = 1, OnceInv, ReadGeneration PROVE Once'
<1>1. /\ nas \in Seq(Files) /\ Len(nas) = 1 /\ nas[1] \in Files
      /\ nas[1].lines \in Seq(Lines) /\ Len(nas[1].lines) \in Nat
  BY SingleFile DEF OnceInv, OrderInv
<1>2. snap = <<>> /\ Len(snap) = 0
  <2>1. snap \in Seq(Files \cup {Missing}) /\ Len(snap) < 1
    BY DEF OnceInv, OrderInv, TypeOK, ReadGeneration
  <2> QED
    BY <2>1
<1>3. snap' = <<nas[1]>> /\ upto' = written /\ pc' = "snap" /\ UNCHANGED <<nas, disk, loki, written>>
  <2>1. /\ snap' = Append(snap, IF Len(snap) < Len(nas) THEN nas[Len(snap) + 1] ELSE Missing)
        /\ upto' = (IF snap = <<>> THEN written ELSE upto)
        /\ pc' = "snap" /\ UNCHANGED <<nas, disk, loki, written>>
    BY Zenon DEF ReadGeneration, nasVars
  <2>2. snap' = Append(snap, nas[1])
    BY <1>1, <1>2, <2>1
  <2>3. Append(snap, nas[1]) = <<nas[1]>>
    BY <1>2
  <2> QED
    BY <1>2, <2>1, <2>2, <2>3
<1>4. snap'[1] = nas[1]
  BY <1>3
<1>5. \A i \in 1..Len(nas[1].lines) : nas[1].lines[i] <= written
  <2> SUFFICES ASSUME NEW i \in 1..Len(nas[1].lines) PROVE nas[1].lines[i] <= written
    OBVIOUS
  <2>1. nas[1].lines[i] \in Lines /\ Has(nas[1], nas[1].lines[i]) /\ 1 \in 1..Len(nas)
    BY <1>1 DEF Has
  <2> QED
    BY <2>1 DEF OnceInv, OrderInv, NasOrder
<1>6. Later(nas[1], nas[1], written)
  <2>1. \A i \in 1..Len(nas[1].lines) : ~(i > Len(nas[1].lines))
    BY <1>1
  <2> QED
    BY <1>1, <2>1 DEF Later
<1>7. /\ Passed(nas[1], disk, loki) /\ Single(disk, loki, written)
      /\ \A e \in loki : e.line <= written
  BY DEF OnceInv, Once, Single
<1>8. Read'
  BY <1>1, <1>3, <1>4, <1>5, <1>6, <1>7 DEF Read
<1> QED
  BY <1>3, <1>7, <1>8 DEF Once

LEMMA OnceStep ==
    ASSUME Depth = 1, OnceInv, [Next]_vars PROVE Once'
<1>1. ASSUME UNCHANGED <<nas, written, disk, loki>>, snap' = <<>> PROVE Once'
  BY <1>1 DEF OnceInv, Once
<1>2. CASE UNCHANGED vars
  <2>1. UNCHANGED <<nas, written, disk, loki, snap, upto, pc>>
    BY <1>2 DEF vars
  <2> QED
    BY <2>1 DEF OnceInv, Once, Read
<1>3. CASE Nas
  BY <1>3, WriteLineOnce, FinishLineOnce, RotateOnce DEF Nas
<1>4. CASE StartPoll \/ FetchFails \/ Crash
  BY <1>1, <1>4, Zenon DEF StartPoll, FetchFails, Crash, EndPoll, nasVars
<1>5. CASE ReadGeneration
  BY <1>5, ReadGenerationOnce
<1>6. ASSUME NEW now \in Clocks, pc = "snap", Len(snap) = Depth,
             disk' \in {disk, Candidate(mem, snap, now)},
             UNCHANGED <<nas, written, loki>>, snap' = <<>>
      PROVE  Once'
  <2>1. CASE disk' = disk
    BY <1>1, <1>6, <2>1
  <2>2. CASE disk' = Candidate(mem, snap, now)
    <3>1. Passed(nas[1], disk', loki) /\ Single(disk', loki, written)
      BY <1>6, <2>2, PrepareOnce
    <3> QED
      BY <1>6, <3>1 DEF Once
  <2> QED
    BY <1>6, <2>1, <2>2
<1>7. ASSUME NEW now \in Clocks, Prepare(now) \/ PrepareNotSaved(now) PROVE Once'
  <2>1. /\ pc = "snap" /\ Len(snap) = Depth /\ disk' \in {disk, Candidate(mem, snap, now)}
        /\ UNCHANGED <<nas, written, loki>> /\ snap' = <<>>
    <3>1. CASE Prepare(now)
      BY <3>1, Zenon DEF Prepare, Saved, nasVars
    <3>2. CASE PrepareNotSaved(now)
      BY <3>2, Zenon DEF PrepareNotSaved, SaveFailed, EndPoll, nasVars
    <3> QED
      BY <1>7, <3>1, <3>2
  <2> QED
    BY <1>6, <2>1
<1>8. pc = "push" => snap = <<>>
  BY DEF OnceInv, Once, Read
<1>9. CASE Push \/ PushFails
  <2>1. /\ pc = "push" /\ UNCHANGED <<nas, written, disk>> /\ snap' = <<>>
        /\ loki' \in {loki, loki \cup Batch(mem.box.entries, pushed)}
    BY <1>8, <1>9 DEF Push, PushFails, EndPoll, nasVars
  <2>2. Batch(mem.box.entries, pushed) \subseteq BoxEntries(disk) \cup loki
    BY <2>1, SentBatch DEF OnceInv
  <2>3. loki \subseteq loki' /\ loki' \subseteq loki \cup BoxEntries(disk)
    BY <2>1, <2>2
  <2>4. Passed(nas[1], disk, loki') /\ Single(disk, loki', written)
    BY <2>3, PushOnce DEF OnceInv, Once
  <2> QED
    BY <2>1, <2>4 DEF Once
<1>10. CASE Commit \/ CommitNotSaved
  <2>1. /\ pc = "push" /\ AllPushed(mem.box.entries, pushed) /\ disk' \in {disk, Committed(mem)}
        /\ UNCHANGED <<nas, written, loki>> /\ snap' = <<>>
    <3>1. CASE Commit
      BY <3>1, Zenon DEF Commit, Saved, EndPoll, nasVars
    <3>2. CASE CommitNotSaved
      BY <3>2, Zenon DEF CommitNotSaved, SaveFailed, EndPoll, nasVars
    <3> QED
      BY <1>10, <3>1, <3>2
  <2>2. CASE disk' = disk
    BY <1>1, <2>1, <2>2
  <2>3. CASE disk' = Committed(mem)
    <3>1. BoxEntries(mem) \subseteq loki /\ (mem = disk \/ Delivered)
      BY <2>1, SentBatch DEF OnceInv
    <3>2. CASE Delivered
      BY <1>1, <2>1, <2>3, <3>2 DEF Delivered
    <3>3. CASE mem = disk
      <4>1. mem.full
        BY <2>1 DEF OnceInv, OutboxInv, Copies
      <4>2. Passed(nas[1], disk, loki) /\ Single(disk, loki, written)
        BY DEF OnceInv, Once
      <4>3. Passed(nas[1], Committed(disk), loki) /\ Single(Committed(disk), loki, written)
        BY <3>1, <3>3, <4>1, <4>2, CommitOnce
      <4>4. Passed(nas[1], disk', loki) /\ Single(disk', loki, written)
        BY <2>3, <3>3, <4>3
      <4> QED
        BY <2>1, <4>4 DEF Once
    <3> QED
      BY <3>1, <3>2, <3>3
  <2> QED
    BY <2>1, <2>2, <2>3
<1> QED
  BY <1>2, <1>3, <1>4, <1>5, <1>7, <1>9, <1>10 DEF Next, Progress, Failure

LEMMA InitOnce == Init => Once
  BY InitialStateStamped DEF Init, Once, Passed, Single

\* Of a source with one file, no line is ever sent under two timestamps, for any
\* number of lines, rotations, failed saves and restarts: a retry resends the outbox
\* on disk, and what has left is behind every cursor from which another is computed.
THEOREM LinesSentOnce == Depth = 1 => (Spec => []OneStampPerLine)
<1> SUFFICES ASSUME Depth = 1 PROVE Spec => []OneStampPerLine
  OBVIOUS
<1>1. Init => OnceInv
  BY InitOutbox, InitOrder, InitOnce DEF OnceInv
<1>2. OnceInv /\ OutboxInv' /\ OrderInv' /\ [Next]_vars => OnceInv'
  BY OnceStep DEF OnceInv
<1>3. OnceInv => OneStampPerLine
  BY DEF OnceInv, Once, Single, OneStampPerLine
<1> QED
  BY <1>1, <1>2, <1>3, OutboxInvariant, OrderInvariant, PTL DEF Spec
=============================================================================
