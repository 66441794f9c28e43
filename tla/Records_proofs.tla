------------------------------ MODULE Records_proofs ------------------------------
(***************************************************************************)
(* Invariants of the programs that draw up a record of what they read,     *)
(* proved of Operations for every value of its constants: the receipt of   *)
(* the PXE producer, the canonical networks of the banIP feed proof and    *)
(* the client catalog of the PXE router.                                   *)
(*                                                                         *)
(* A receipt describes every tree as it was at one moment.  First the      *)
(* order in which the producer reads, a list that recursion puts together: *)
(* every file is visited, then its tree is snapped, then every file is     *)
(* visited again and compared.  Then an invariant of the records that the  *)
(* visits leave, and of the stamps of the files.                           *)
(*                                                                         *)
(* Canonical networks decide a set of addresses because they are the       *)
(* maximal networks inside it: joining siblings from the longest prefix to *)
(* the shortest one keeps the cover and ends with every network of it.     *)
(*                                                                         *)
(* The catalog's rows are those of the roles that the inventory gives, so  *)
(* that what a host declares, or a legacy item, is in a row or refused.    *)
(***************************************************************************)
EXTENDS Operations, Recursion, SequenceTheorems

-----------------------------------------------------------------------------
(* Producer receipt: the order of what is read.                            *)

Appends(f, n, V, parts) ==
    /\ f \in [0..n -> Seq(V)]
    /\ f[0] = <<>>
    /\ \A i \in 1..n : f[i] = f[i - 1] \o parts[i]

(* One after the other, sequences are what appending them gives.           *)
LEMMA Flattened ==
    ASSUME NEW V, NEW n \in Nat, n # 0, NEW parts \in Seq(Seq(V)), Len(parts) = n
    PROVE  \E f : Appends(f, n, V, parts) /\ ProducerReceipt!FlattenSeq(parts) = f[n]
<1> DEFINE body(f) == [i \in 1..n |-> IF i = 1 THEN parts[i] ELSE f[i - 1] \o parts[i]]
           flatten == CHOOSE f : f = body(f)
           step == [i \in 1..n |-> [v \in Seq(V) |-> v \o parts[i]]]
<1>1. \A i \in 1..n : parts[i] \in Seq(V)
  OBVIOUS
<1>2. <<>> \in Seq(V) /\ \A u \in Seq(V) : <<>> \o u = u
  OBVIOUS
<1>3. ProducerReceipt!FlattenSeq(parts) = flatten[n]
  BY DEF ProducerReceipt!FlattenSeq
<1>4. step \in [1..n -> [Seq(V) -> Seq(V)]]
  BY <1>1
<1> HIDE DEF step
<1>5. PICK f : Recursive(f, n, Seq(V), <<>>, step)
  BY <1>2, <1>4, RecursionTo
<1>6. /\ f \in [0..n -> Seq(V)] /\ f[0] = <<>>
      /\ \A i \in 1..n : f[i] = f[i - 1] \o parts[i]
  <2>1. f \in [0..n -> Seq(V)] /\ f[0] = <<>> /\ \A i \in 1..n : f[i] = step[i][f[i - 1]]
    BY <1>5 DEF Recursive
  <2>2. ASSUME NEW i \in 1..n
        PROVE  f[i] = f[i - 1] \o parts[i]
    <3>1. i - 1 \in 0..n /\ f[i - 1] \in Seq(V)
      BY <2>1
    <3>2. step[i][f[i - 1]] = f[i - 1] \o parts[i]
      BY <3>1 DEF step
    <3> QED BY <2>1, <3>2
  <2> QED BY <2>1, <2>2
<1>61. f[1] = f[0] \o parts[1] /\ f[0] = <<>> /\ parts[1] \in Seq(V)
  <2>1. 1 \in 1..n /\ 1 - 1 = 0
    OBVIOUS
  <2>2. f[1] = f[1 - 1] \o parts[1]
    BY <1>6, <2>1, Zenon
  <2> QED BY <1>1, <1>6, <2>1, <2>2
<1> DEFINE g == [i \in 1..n |-> f[i]]
<1>7. g = body(g)
  <2>1. ASSUME NEW i \in 1..n
        PROVE  g[i] = IF i = 1 THEN parts[i] ELSE g[i - 1] \o parts[i]
    <3>1. CASE i = 1
      <4>1. f[1] = parts[1]
        BY <1>2, <1>61
      <4> QED BY <3>1, <4>1
    <3>2. CASE i # 1
      <4>1. i - 1 \in 1..n
        BY <3>2
      <4> QED BY <1>6, <3>2, <4>1
    <3> QED BY <3>1, <3>2
  <2> QED BY <2>1
<1> HIDE DEF g, body
<1>8. flatten = body(flatten)
  BY <1>7
<1> HIDE DEF flatten
<1>9. /\ flatten[1] = parts[1]
      /\ \A i \in 2..n : flatten[i] = flatten[i - 1] \o parts[i]
  <2>1. flatten = [i \in 1..n |-> IF i = 1 THEN parts[i] ELSE flatten[i - 1] \o parts[i]]
    BY <1>8 DEF body
  <2>2. ASSUME NEW i \in 1..n
        PROVE  flatten[i] = IF i = 1 THEN parts[i] ELSE flatten[i - 1] \o parts[i]
    BY <2>1, Zenon
  <2>3. 1 \in 1..n /\ \A i \in 2..n : i \in 1..n /\ i # 1
    OBVIOUS
  <2> QED BY <2>2, <2>3
<1> DEFINE S == {i \in 0..n : i = 0 \/ flatten[i] = f[i]}
<1>10. 0 \in S
  OBVIOUS
<1>11. ASSUME NEW i \in 1..n, i - 1 \in S
       PROVE  i \in S
  <2>1. CASE i = 1
    <3>1. f[1] = parts[1]
      BY <1>2, <1>61
    <3> QED BY <1>9, <2>1, <3>1
  <2>2. CASE i # 1
    <3>1. i \in 2..n /\ i - 1 # 0 /\ i \in 0..n
      BY <2>2
    <3>2. flatten[i - 1] = f[i - 1] /\ f[i] = f[i - 1] \o parts[i]
      BY <1>6, <1>11, <3>1
    <3>3. flatten[i] = f[i]
      BY <1>9, <3>1, <3>2
    <3> QED BY <3>1, <3>3
  <2> QED BY <2>1, <2>2
<1>12. flatten[n] = f[n]
  <2> HIDE DEF S
  <2>1. \A i \in 0..n : i \in S
    BY <1>10, <1>11, InductionTo
  <2> QED BY <2>1 DEF S
<1> QED BY <1>3, <1>6, <1>12 DEF Appends

FileNames == ProducerReceipt!ToSet(NameOrder)
StepTrees == (STRING \X {"rootfs", "tftp"}) \cup {<<>>}
PlanSteps == [what : {"visit", "snap", "declaration", "required", "manifest", "existing", "link"},
              tree : StepTrees, name : FileNames \cup {"none"}, again : BOOLEAN]
Visits(s, tree, n) == s.what = "visit" /\ s.tree = tree /\ s.name = n
Snaps(p, tree) == \E i \in 1..Len(p) : p[i].what = "snap" /\ p[i].tree = tree

(* The steps of p that visit or snap are about the trees of T; none links. *)
About(p, T) ==
    \A i \in 1..Len(p) :
        /\ p[i].what \in {"visit", "snap"} => p[i].tree \in T
        /\ p[i].what = "visit" => p[i].name \in FileNames
        /\ p[i].what # "link"

(* Every file of a tree is visited before its snap, and visited once more  *)
(* after it, and what is visited after it is compared.                     *)
Twice(p) ==
    \A i \in 1..Len(p) : p[i].what = "snap" =>
        /\ \A n \in FileNames : /\ \E j \in 1..(i - 1) : Visits(p[j], p[i].tree, n)
                                /\ \E j \in (i + 1)..Len(p) : Visits(p[j], p[i].tree, n)
        /\ \A j \in (i + 1)..Len(p) :
               p[j].what = "visit" /\ p[j].tree = p[i].tree => p[j].again

(* A list of steps of the trees of T, each of them read as it should be.   *)
Reads(p, T) == p \in Seq(PlanSteps) /\ About(p, T) /\ Twice(p) /\ \A tree \in T : Snaps(p, tree)

(* Two lists about different trees.                                        *)
LEMMA ReadsConcat ==
    ASSUME NEW T, NEW U, T \cap U = {}, NEW p, NEW q, Reads(p, T), Reads(q, U)
    PROVE  Reads(p \o q, T \cup U)
<1> DEFINE r == p \o q
           k == Len(p)
           m == Len(q)
<1>1. /\ r \in Seq(PlanSteps) /\ k \in Nat /\ m \in Nat /\ Len(r) = k + m
      /\ \A i \in 1..k : r[i] = p[i]
      /\ \A i \in 1..m : r[k + i] = q[i]
      /\ \A i \in 1..Len(r) : i \in 1..k \/ (i - k \in 1..m /\ r[i] = q[i - k])
  BY DEF Reads
<1>2. /\ About(p, T) /\ About(q, U) /\ Twice(p) /\ Twice(q)
      /\ \A tree \in T : Snaps(p, tree)
      /\ \A tree \in U : Snaps(q, tree)
  BY DEF Reads
<1> HIDE DEF r, k, m
<1>3. About(r, T \cup U)
  BY <1>1, <1>2 DEF About, k, m
<1>4. ASSUME NEW tree \in T \cup U
      PROVE  Snaps(r, tree)
  <2>1. CASE tree \in T
    BY <1>1, <1>2, <2>1 DEF Snaps, k
  <2>2. CASE tree \in U
    <3>1. PICK i \in 1..m : q[i].what = "snap" /\ q[i].tree = tree
      BY <1>2, <2>2 DEF Snaps, m
    <3>2. k + i \in 1..Len(r)
      BY <1>1
    <3> QED BY <1>1, <3>1, <3>2 DEF Snaps
  <2> QED BY <2>1, <2>2
<1>5. ASSUME NEW i \in 1..Len(r), r[i].what = "snap"
      PROVE  /\ \A n \in FileNames : /\ \E j \in 1..(i - 1) : Visits(r[j], r[i].tree, n)
                                     /\ \E j \in (i + 1)..Len(r) : Visits(r[j], r[i].tree, n)
             /\ \A j \in (i + 1)..Len(r) :
                    r[j].what = "visit" /\ r[j].tree = r[i].tree => r[j].again
  <2>1. CASE i \in 1..k
    <3>1. r[i] = p[i] /\ r[i].tree \in T
      BY <1>1, <1>2, <1>5, <2>1 DEF About, k
    <3>2. ASSUME NEW n \in FileNames
          PROVE  /\ \E j \in 1..(i - 1) : Visits(r[j], r[i].tree, n)
                 /\ \E j \in (i + 1)..Len(r) : Visits(r[j], r[i].tree, n)
      <4>1. PICK j \in 1..(i - 1) : Visits(p[j], p[i].tree, n)
        BY <1>2, <1>5, <2>1, <3>1 DEF Twice, k
      <4>2. PICK j2 \in (i + 1)..k : Visits(p[j2], p[i].tree, n)
        BY <1>2, <1>5, <2>1, <3>1 DEF Twice, k
      <4>3. r[j] = p[j] /\ r[j2] = p[j2] /\ j2 \in (i + 1)..Len(r)
        BY <1>1, <2>1
      <4> QED BY <3>1, <4>1, <4>2, <4>3
    <3>3. ASSUME NEW j \in (i + 1)..Len(r), r[j].what = "visit", r[j].tree = r[i].tree
          PROVE  r[j].again
      <4>1. CASE j \in 1..k
        BY <1>1, <1>2, <1>5, <2>1, <3>1, <3>3, <4>1 DEF Twice, k
      <4>2. CASE j \notin 1..k
        <5>1. j \in 1..Len(r)
          BY <1>1
        <5>2. j - k \in 1..m /\ r[j] = q[j - k]
          BY <1>1, <4>2, <5>1
        <5>3. r[j].tree \in U
          BY <1>2, <3>3, <5>2 DEF About, m
        <5> QED BY <3>1, <3>3, <5>3
      <4> QED BY <4>1, <4>2
    <3> QED BY <3>2, <3>3
  <2>2. CASE i \notin 1..k
    <3> DEFINE h == i - k
    <3>1. h \in 1..m /\ r[i] = q[h] /\ i = k + h
      BY <1>1, <2>2
    <3> HIDE DEF h
    <3>2. ASSUME NEW n \in FileNames
          PROVE  /\ \E j \in 1..(i - 1) : Visits(r[j], r[i].tree, n)
                 /\ \E j \in (i + 1)..Len(r) : Visits(r[j], r[i].tree, n)
      <4>1. PICK j \in 1..(h - 1) : Visits(q[j], q[h].tree, n)
        BY <1>2, <1>5, <3>1 DEF Twice, m
      <4>2. PICK j2 \in (h + 1)..m : Visits(q[j2], q[h].tree, n)
        BY <1>2, <1>5, <3>1 DEF Twice, m
      <4>3. /\ r[k + j] = q[j] /\ k + j \in 1..(i - 1)
            /\ r[k + j2] = q[j2] /\ k + j2 \in (i + 1)..Len(r)
        <5>1. j \in 1..m /\ j2 \in 1..m
          BY <1>1, <3>1
        <5>2. k + j \in 1..(i - 1) /\ k + j2 \in (i + 1)..Len(r)
          BY <1>1, <3>1
        <5> QED BY <1>1, <5>1, <5>2
      <4> QED BY <3>1, <4>1, <4>2, <4>3
    <3>3. ASSUME NEW j \in (i + 1)..Len(r), r[j].what = "visit", r[j].tree = r[i].tree
          PROVE  r[j].again
      <4>1. j \in 1..Len(r) /\ j \notin 1..k
        BY <1>1, <3>1
      <4>2. j - k \in 1..m /\ r[j] = q[j - k]
        BY <1>1, <4>1
      <4>3. j - k \in (h + 1)..m
        BY <1>1, <3>1, <4>2
      <4> QED BY <1>2, <1>5, <3>1, <3>3, <4>2, <4>3 DEF Twice, m
    <3> QED BY <3>2, <3>3
  <2> QED BY <2>1, <2>2
<1>6. Twice(r)
  BY <1>5 DEF Twice
<1> QED BY <1>1, <1>3, <1>4, <1>6 DEF Reads, r

(* One walk: the files of the tree, and its directory once more.           *)
LEMMA WalkVisits ==
    ASSUME NEW tree \in STRING \X {"rootfs", "tftp"}, NEW again \in BOOLEAN
    PROVE  LET w == ProducerReceipt!Walk(tree, again) IN
           /\ w \in Seq(PlanSteps)
           /\ \A i \in 1..Len(w) : /\ w[i].what = "visit" /\ w[i].tree = tree
                                   /\ w[i].name \in FileNames
                                   /\ again => w[i].again
           /\ \A n \in FileNames : \E i \in 1..Len(w) : Visits(w[i], tree, n)
<1> DEFINE M == Len(NameOrder)
           files == [i \in 1..M |-> ProducerReceipt!Step("visit", tree, NameOrder[i], again)]
           last == ProducerReceipt!Step("visit", tree, NameOrder[1], TRUE)
           w == ProducerReceipt!Walk(tree, again)
<1>1. /\ M \in Nat /\ M >= 2 /\ 1 \in 1..M
      /\ \A i \in 1..M : NameOrder[i] \in STRING /\ NameOrder[i] \in FileNames
      /\ \A n \in FileNames : \E i \in 1..M : n = NameOrder[i]
  BY ListingAssumption DEF FileNames, ProducerReceipt!ToSet
<1>2. /\ \A i \in 1..M : files[i] = ProducerReceipt!Step("visit", tree, NameOrder[i], again)
      /\ w = files \o <<last>>
  BY DEF ProducerReceipt!Walk
<1>21. tree \in StepTrees
  BY DEF StepTrees
<1>22. /\ last \in PlanSteps
       /\ last.what = "visit" /\ last.tree = tree /\ last.name = NameOrder[1] /\ last.again
  BY <1>1, <1>21 DEF ProducerReceipt!Step, PlanSteps
<1>3. ASSUME NEW i \in 1..M
      PROVE  /\ files[i] \in PlanSteps
             /\ files[i].what = "visit" /\ files[i].tree = tree
             /\ files[i].name = NameOrder[i] /\ files[i].again = again
  <2>1. NameOrder[i] \in FileNames
    BY <1>1
  <2>2. files[i] = [what |-> "visit", tree |-> tree, name |-> NameOrder[i], again |-> again]
    BY <1>2 DEF ProducerReceipt!Step
  <2> HIDE DEF files
  <2>3. files[i] \in PlanSteps
    BY <1>21, <2>1, <2>2 DEF PlanSteps
  <2>4. /\ files[i].what = "visit" /\ files[i].tree = tree
        /\ files[i].name = NameOrder[i]
    BY <2>2
  <2>5. files[i].again = again
    BY <2>2
  <2> QED BY <2>3, <2>4, <2>5
<1> HIDE DEF last
<1>31. files = [i \in 1..M |-> files[i]]
  OBVIOUS
<1> HIDE DEF files
<1>4. /\ files \in Seq(PlanSteps) /\ Len(files) = M
      /\ <<last>> \in Seq(PlanSteps) /\ Len(<<last>>) = 1 /\ <<last>>[1] = last
  BY <1>1, <1>22, <1>3, <1>31
<1> HIDE DEF M, w
<1>5. /\ w \in Seq(PlanSteps) /\ Len(w) = M + 1
      /\ \A i \in 1..M : w[i] = files[i]
      /\ w[M + 1] = last
  BY <1>1, <1>2, <1>4
<1>6. ASSUME NEW i \in 1..Len(w)
      PROVE  /\ w[i].what = "visit" /\ w[i].tree = tree
             /\ w[i].name \in FileNames
             /\ again => w[i].again
  <2>1. CASE i \in 1..M
    BY <1>1, <1>3, <1>5, <2>1
  <2>2. CASE i \notin 1..M
    <3>1. i = M + 1
      BY <1>1, <1>5, <2>2
    <3> QED BY <1>1, <1>22, <1>5, <3>1
  <2> QED BY <2>1, <2>2
<1>7. ASSUME NEW n \in FileNames
      PROVE  \E i \in 1..Len(w) : Visits(w[i], tree, n)
  <2>1. PICK i \in 1..M : n = NameOrder[i]
    BY <1>1
  <2>2. i \in 1..Len(w)
    BY <1>1, <1>5
  <2>3. Visits(w[i], tree, n)
    BY <1>3, <1>5, <2>1 DEF Visits
  <2> QED BY <2>2, <2>3
<1> QED BY <1>5, <1>6, <1>7 DEF w

(* Two walks around a snap.                                                *)
LEMMA FingerprintReads ==
    ASSUME NEW tree \in STRING \X {"rootfs", "tftp"}
    PROVE  Reads(ProducerReceipt!Fingerprint(tree), {tree})
<1> DEFINE w == ProducerReceipt!Walk(tree, FALSE)
           v == ProducerReceipt!Walk(tree, TRUE)
           s == ProducerReceipt!Step("snap", tree, "none", FALSE)
           p == ProducerReceipt!Fingerprint(tree)
           a == Len(w)
           b == Len(v)
<1>1. p = w \o <<s>> \o v
  BY DEF ProducerReceipt!Fingerprint
<1>2. /\ w \in Seq(PlanSteps)
      /\ \A i \in 1..a : w[i].what = "visit" /\ w[i].tree = tree /\ w[i].name \in FileNames
      /\ \A n \in FileNames : \E i \in 1..a : Visits(w[i], tree, n)
  BY WalkVisits
<1>3. /\ v \in Seq(PlanSteps)
      /\ \A i \in 1..b : /\ v[i].what = "visit" /\ v[i].tree = tree
                         /\ v[i].name \in FileNames /\ v[i].again
      /\ \A n \in FileNames : \E i \in 1..b : Visits(v[i], tree, n)
  BY WalkVisits
<1>31. tree \in StepTrees
  BY DEF StepTrees
<1>4. s \in PlanSteps /\ s.what = "snap" /\ s.tree = tree
  <2>1. s = [what |-> "snap", tree |-> tree, name |-> "none", again |-> FALSE]
    BY DEF ProducerReceipt!Step
  <2> HIDE DEF s
  <2>2. s \in PlanSteps
    BY <1>31, <2>1 DEF PlanSteps
  <2>3. s.what = "snap" /\ s.tree = tree
    BY <2>1
  <2> QED BY <2>2, <2>3
<1> HIDE DEF w, v, s, p
<1>5. /\ p \in Seq(PlanSteps) /\ a \in Nat /\ b \in Nat /\ Len(p) = a + 1 + b
      /\ \A i \in 1..a : p[i] = w[i]
      /\ p[a + 1] = s
      /\ \A i \in 1..b : p[a + 1 + i] = v[i]
  BY <1>1, <1>2, <1>3, <1>4
<1> HIDE DEF a, b
<1>6. \A i \in 1..Len(p) : i \in 1..a \/ i = a + 1 \/ i - a - 1 \in 1..b
  BY <1>5
<1>7. \A i \in (a + 2)..Len(p) : i - a - 1 \in 1..b /\ p[i] = v[i - a - 1]
  BY <1>5
<1>8. ASSUME NEW i \in 1..Len(p), i # a + 1
      PROVE  p[i].what = "visit" /\ p[i].tree = tree /\ p[i].name \in FileNames
  <2>1. CASE i \in 1..a
    BY <1>2, <1>5, <2>1
  <2>2. CASE i \notin 1..a
    <3>1. i \in (a + 2)..Len(p)
      BY <1>5, <1>8, <2>2
    <3> QED BY <1>3, <1>7, <3>1
  <2> QED BY <2>1, <2>2
<1>9. About(p, {tree})
  BY <1>4, <1>5, <1>8 DEF About
<1>10. Snaps(p, tree)
  BY <1>4, <1>5 DEF Snaps
<1>11. Twice(p)
  <2> SUFFICES ASSUME NEW i \in 1..Len(p), p[i].what = "snap"
               PROVE  /\ \A n \in FileNames :
                             /\ \E j \in 1..(i - 1) : Visits(p[j], p[i].tree, n)
                             /\ \E j \in (i + 1)..Len(p) : Visits(p[j], p[i].tree, n)
                      /\ \A j \in (i + 1)..Len(p) :
                             p[j].what = "visit" /\ p[j].tree = p[i].tree => p[j].again
    BY DEF Twice
  <2>1. i = a + 1 /\ p[i].tree = tree
    BY <1>4, <1>5, <1>8
  <2>2. ASSUME NEW n \in FileNames
        PROVE  /\ \E j \in 1..(i - 1) : Visits(p[j], tree, n)
               /\ \E j \in (i + 1)..Len(p) : Visits(p[j], tree, n)
    <3>1. PICK j \in 1..a : Visits(w[j], tree, n)
      BY <1>2
    <3>2. PICK j2 \in 1..b : Visits(v[j2], tree, n)
      BY <1>3
    <3>3. j \in 1..(i - 1) /\ p[j] = w[j]
      BY <1>5, <2>1
    <3>4. a + 1 + j2 \in (i + 1)..Len(p) /\ p[a + 1 + j2] = v[j2]
      BY <1>5, <2>1
    <3> QED BY <3>1, <3>2, <3>3, <3>4
  <2>3. \A j \in (i + 1)..Len(p) : p[j].again
    <3>1. ASSUME NEW j \in (i + 1)..Len(p)
          PROVE  j \in (a + 2)..Len(p)
      BY <1>5, <2>1
    <3> QED BY <1>3, <1>7, <3>1
  <2> QED BY <2>1, <2>2, <2>3
<1> QED BY <1>5, <1>9, <1>10, <1>11 DEF Reads, p

(* A list that visits nothing.                                             *)
LEMMA ReadsNoTree ==
    ASSUME NEW s \in PlanSteps, s.what \notin {"visit", "snap", "link"}
    PROVE  Reads(<<s>>, {})
<1> DEFINE p == <<s>>
<1>1. p \in Seq(PlanSteps) /\ Len(p) = 1 /\ \A i \in 1..1 : p[i] = s
  OBVIOUS
<1> HIDE DEF p
<1> QED BY <1>1 DEF Reads, About, Twice, p

(* The empty list.                                                         *)
LEMMA ReadsNothing == Reads(<<>>, {})
BY DEF Reads, About, Twice

(* The declaration and the required files of a generation; the manifest.   *)
LEMMA PlainReads ==
    ASSUME NEW again \in BOOLEAN
    PROVE  /\ \A g \in STRING : /\ Reads(ProducerReceipt!Declaration(g, again), {})
                                /\ Reads(ProducerReceipt!RequiredFiles(g, again), {})
           /\ Reads(ProducerReceipt!Manifest(again), {})
<1>1. NameOrder[2] \in FileNames
  BY ListingAssumption DEF FileNames, ProducerReceipt!ToSet
<1>2. ASSUME NEW what \in {"declaration", "required", "manifest"},
             NEW tree \in StepTrees, NEW name \in FileNames \cup {"none"}
      PROVE  Reads(<<ProducerReceipt!Step(what, tree, name, again)>>, {})
  <2> DEFINE s == ProducerReceipt!Step(what, tree, name, again)
  <2>1. s = [what |-> what, tree |-> tree, name |-> name, again |-> again]
    BY DEF ProducerReceipt!Step
  <2> HIDE DEF s
  <2>2. s \in PlanSteps
    BY <2>1 DEF PlanSteps
  <2>3. s.what \notin {"visit", "snap", "link"}
    BY <2>1
  <2>4. Reads(<<s>>, {})
    BY <2>2, <2>3, ReadsNoTree
  <2> QED BY <2>4 DEF s
<1>3. ASSUME NEW g \in STRING
      PROVE  /\ Reads(ProducerReceipt!Declaration(g, again), {})
             /\ Reads(ProducerReceipt!RequiredFiles(g, again), {})
  <2>1. <<g, "rootfs">> \in StepTrees /\ <<g, "tftp">> \in StepTrees
    BY DEF StepTrees
  <2>2. Reads(<<ProducerReceipt!Step("declaration", <<g, "rootfs">>, NameOrder[2], again)>>, {})
    BY <1>1, <1>2, <2>1
  <2>3. Reads(<<ProducerReceipt!Step("required", <<g, "tftp">>, NameOrder[2], again)>>, {})
    BY <1>1, <1>2, <2>1
  <2> QED BY <2>2, <2>3 DEF ProducerReceipt!Declaration, ProducerReceipt!RequiredFiles
<1>4. Reads(ProducerReceipt!Manifest(again), {})
  <2>1. <<>> \in StepTrees
    BY DEF StepTrees
  <2>2. Reads(<<ProducerReceipt!Step("manifest", <<>>, "none", again)>>, {})
    BY <1>2, <2>1
  <2> QED BY <2>2 DEF ProducerReceipt!Manifest
<1> QED BY <1>3, <1>4

(* What a list visits nothing of, it may be put before or behind.          *)
LEMMA ReadsBeside ==
    ASSUME NEW T, NEW p, NEW q, Reads(p, T), Reads(q, {})
    PROVE  Reads(p \o q, T) /\ Reads(q \o p, T)
<1>1. T \cap {} = {} /\ {} \cap T = {} /\ T \cup {} = T /\ {} \cup T = T
  OBVIOUS
<1>2. Reads(p \o q, T \cup {}) /\ Reads(q \o p, {} \cup T)
  BY <1>1, ReadsConcat
<1> QED BY <1>1, <1>2

TreesOf(g) == {<<g, "rootfs">>, <<g, "tftp">>}

(* A generation: its two trees.                                            *)
LEMMA MeasureReads ==
    ASSUME NEW g \in STRING
    PROVE  Reads(ProducerReceipt!Measure(g), TreesOf(g))
<1> DEFINE d == ProducerReceipt!Declaration(g, FALSE)
           r1 == ProducerReceipt!RequiredFiles(g, FALSE)
           r2 == ProducerReceipt!RequiredFiles(g, TRUE)
           f1 == ProducerReceipt!Fingerprint(<<g, "rootfs">>)
           f2 == ProducerReceipt!Fingerprint(<<g, "tftp">>)
<1>1. Reads(d, {}) /\ Reads(r1, {}) /\ Reads(r2, {})
  BY PlainReads
<1>2. Reads(f1, {<<g, "rootfs">>}) /\ Reads(f2, {<<g, "tftp">>})
  <2>1. <<g, "rootfs">> \in STRING \X {"rootfs", "tftp"} /\ <<g, "tftp">> \in STRING \X {"rootfs", "tftp"}
    OBVIOUS
  <2> QED BY <2>1, FingerprintReads
<1>3. ProducerReceipt!Measure(g) = d \o r1 \o f1 \o f2 \o r2
  BY DEF ProducerReceipt!Measure
<1> HIDE DEF d, r1, r2, f1, f2
<1>4. Reads(d \o r1, {})
  BY <1>1, ReadsBeside
<1>5. Reads(d \o r1 \o f1, {<<g, "rootfs">>})
  BY <1>2, <1>4, ReadsBeside
<1>6. Reads(d \o r1 \o f1 \o f2, {<<g, "rootfs">>} \cup {<<g, "tftp">>})
  <2>1. {<<g, "rootfs">>} \cap {<<g, "tftp">>} = {}
    OBVIOUS
  <2> QED BY <1>2, <1>5, <2>1, ReadsConcat
<1>7. Reads(d \o r1 \o f1 \o f2 \o r2, {<<g, "rootfs">>} \cup {<<g, "tftp">>})
  BY <1>1, <1>6, ReadsBeside
<1>8. TreesOf(g) = {<<g, "rootfs">>} \cup {<<g, "tftp">>}
  BY DEF TreesOf
<1> QED BY <1>3, <1>7, <1>8

(* Of several lists, the trees of the i-th beside those of the others.     *)
LEMMA FlattenReads ==
    ASSUME NEW n \in Nat, n # 0, NEW parts, parts = [i \in 1..n |-> parts[i]],
           NEW trees, \A i \in 1..n : Reads(parts[i], trees[i]),
           \A i, j \in 1..n : i # j => trees[i] \cap trees[j] = {}
    PROVE  Reads(ProducerReceipt!FlattenSeq(parts), UNION {trees[i] : i \in 1..n})
<1> DEFINE before == [i \in 0..n |-> UNION {trees[j] : j \in 1..i}]
<1>1. parts \in Seq(Seq(PlanSteps)) /\ Len(parts) = n
  BY DEF Reads
<1>11. PICK f : Appends(f, n, PlanSteps, parts) /\ ProducerReceipt!FlattenSeq(parts) = f[n]
  BY <1>1, Flattened
<1>2. /\ f \in [0..n -> Seq(PlanSteps)] /\ f[0] = <<>>
      /\ \A i \in 1..n : f[i] = f[i - 1] \o parts[i]
  BY <1>11 DEF Appends
<1> DEFINE S == {i \in 0..n : Reads(f[i], before[i])}
<1>3. 0 \in S
  <2>1. before[0] = {}
    OBVIOUS
  <2> HIDE DEF before
  <2>2. 0 \in 0..n
    OBVIOUS
  <2>3. Reads(f[0], before[0])
    BY <1>2, <2>1, ReadsNothing, Zenon
  <2> QED BY <2>2, <2>3, Zenon
<1>4. ASSUME NEW i \in 1..n, i - 1 \in S
      PROVE  i \in S
  <2>1. before[i - 1] \cap trees[i] = {}
    <3>1. \A j \in 1..(i - 1) : j \in 1..n /\ j # i
      OBVIOUS
    <3> QED BY <3>1
  <2>2. before[i] = before[i - 1] \cup trees[i]
    <3>1. \A j : j \in 1..i <=> (j \in 1..(i - 1) \/ j = i)
      OBVIOUS
    <3>2. /\ before[i] = UNION {trees[j] : j \in 1..i}
          /\ before[i - 1] = UNION {trees[j] : j \in 1..(i - 1)}
      OBVIOUS
    <3> HIDE DEF before
    <3> QED BY <3>1, <3>2
  <2> HIDE DEF before
  <2>3. Reads(f[i - 1], before[i - 1])
    BY <1>4
  <2>4. Reads(f[i - 1] \o parts[i], before[i - 1] \cup trees[i])
    BY <2>1, <2>3, ReadsConcat
  <2>5. i \in 0..n
    OBVIOUS
  <2>6. Reads(f[i], before[i])
    BY <1>2, <2>2, <2>4, Zenon
  <2> QED BY <2>5, <2>6, Zenon
<1>5. n \in S
  <2> HIDE DEF S, before
  <2>1. \A i \in 0..n : i \in S
    BY <1>3, <1>4, InductionTo
  <2> QED BY <2>1
<1>6. before[n] = UNION {trees[i] : i \in 1..n}
  OBVIOUS
<1> HIDE DEF before
<1> QED BY <1>11, <1>5, <1>6

(* All of it, up to the publication.                                       *)
LEMMA PlanReads ==
    /\ ProducerReceipt!Plan \in Seq(PlanSteps)
    /\ \E q : /\ Reads(q, ProducerReceipt!Trees)
              /\ ProducerReceipt!Plan = q \o <<ProducerReceipt!Step("link", <<>>, "none", FALSE)>>
<1> DEFINE n == Len(GenerationOrder)
           measures == [i \in 1..n |-> ProducerReceipt!Measure(GenerationOrder[i])]
           declarations == [i \in 1..n |-> ProducerReceipt!Declaration(GenerationOrder[i], TRUE)]
           trees == [i \in 1..n |-> TreesOf(GenerationOrder[i])]
           none == [i \in 1..n |-> {}]
           T == ProducerReceipt!Trees
           e == ProducerReceipt!Step("existing", <<>>, "none", FALSE)
           l == ProducerReceipt!Step("link", <<>>, "none", FALSE)
           m1 == ProducerReceipt!Manifest(FALSE)
           m2 == ProducerReceipt!Manifest(TRUE)
           A == ProducerReceipt!FlattenSeq(measures)
           B == ProducerReceipt!FlattenSeq(declarations)
<1>1. /\ n \in Nat /\ n # 0
      /\ \A i \in 1..n : GenerationOrder[i] \in STRING
      /\ \A i, j \in 1..n : GenerationOrder[i] = GenerationOrder[j] => i = j
      /\ \A g : g \in ProducerReceipt!Generations <=> \E i \in 1..n : g = GenerationOrder[i]
  BY ListingAssumption DEF ProducerReceipt!Generations, ProducerReceipt!ToSet
<1>2. ProducerReceipt!Plan = m1 \o A \o B \o m2 \o <<e, l>>
  BY DEF ProducerReceipt!Plan
<1>3. Reads(A, T)
  <2>1. /\ measures = [i \in 1..n |-> measures[i]]
        /\ \A i \in 1..n : Reads(measures[i], trees[i])
    BY <1>1, MeasureReads
  <2>2. ASSUME NEW i \in 1..n, NEW j \in 1..n, i # j
        PROVE  trees[i] \cap trees[j] = {}
    <3>1. GenerationOrder[i] # GenerationOrder[j]
      BY <1>1, <2>2
    <3> QED BY <3>1 DEF TreesOf
  <2>3. T = UNION {trees[i] : i \in 1..n}
    <3>1. ASSUME NEW t
          PROVE  t \in T <=> \E i \in 1..n : t \in trees[i]
      <4>1. t \in T <=> \E g \in ProducerReceipt!Generations : t \in TreesOf(g)
        BY DEF ProducerReceipt!Trees, TreesOf
      <4>2. \A i \in 1..n : trees[i] = TreesOf(GenerationOrder[i])
        OBVIOUS
      <4> HIDE DEF trees, T, n
      <4> QED BY <1>1, <4>1, <4>2
    <3> HIDE DEF trees, T, n
    <3> QED BY <3>1
  <2> HIDE DEF measures, trees, T, n
  <2>4. Reads(A, UNION {trees[i] : i \in 1..n})
    BY <1>1, <2>1, <2>2, FlattenReads
  <2> QED BY <2>3, <2>4
<1>4. Reads(B, {})
  <2>1. /\ declarations = [i \in 1..n |-> declarations[i]]
        /\ \A i \in 1..n : Reads(declarations[i], none[i])
    BY <1>1, PlainReads
  <2>2. /\ \A i, j \in 1..n : i # j => none[i] \cap none[j] = {}
        /\ UNION {none[i] : i \in 1..n} = {}
    OBVIOUS
  <2> HIDE DEF declarations, none, n
  <2>3. Reads(B, UNION {none[i] : i \in 1..n})
    BY <1>1, <2>1, <2>2, FlattenReads
  <2> QED BY <2>2, <2>3
<1>5. Reads(m1, {}) /\ Reads(m2, {})
  BY PlainReads
<1>6. e \in PlanSteps /\ l \in PlanSteps /\ e.what = "existing"
  <2> DEFINE none0 == <<>>
  <2>1. none0 \in StepTrees
    BY DEF StepTrees
  <2>2. /\ e = [what |-> "existing", tree |-> none0, name |-> "none", again |-> FALSE]
        /\ l = [what |-> "link", tree |-> none0, name |-> "none", again |-> FALSE]
    BY DEF ProducerReceipt!Step
  <2> HIDE DEF none0, e, l
  <2> QED BY <2>1, <2>2 DEF PlanSteps
<1>7. Reads(<<e>>, {})
  <2> HIDE DEF e
  <2> QED BY <1>6, ReadsNoTree
<1> HIDE DEF n, T, e, l, m1, m2, A, B
<1>8. Reads(m1 \o A, T)
  BY <1>3, <1>5, ReadsBeside
<1>9. Reads(m1 \o A \o B, T)
  BY <1>4, <1>8, ReadsBeside
<1>10. Reads(m1 \o A \o B \o m2, T)
  BY <1>5, <1>9, ReadsBeside
<1>11. Reads(m1 \o A \o B \o m2 \o <<e>>, T)
  BY <1>7, <1>10, ReadsBeside
<1> DEFINE r == m1 \o A \o B \o m2
<1>12. r \o <<e, l>> = r \o <<e>> \o <<l>>
  <2>1. r \in Seq(PlanSteps)
    BY <1>10 DEF Reads
  <2> HIDE DEF r
  <2> DEFINE x == r \o <<e, l>>
             y == r \o <<e>> \o <<l>>
             k == Len(r)
  <2>2. /\ x \in Seq(PlanSteps) /\ Len(x) = k + 2
        /\ \A i \in 1..k : x[i] = r[i]
        /\ x[k + 1] = e /\ x[k + 2] = l
    BY <1>6, <2>1
  <2>3. /\ y \in Seq(PlanSteps) /\ Len(y) = k + 2
        /\ \A i \in 1..k : y[i] = r[i]
        /\ y[k + 1] = e /\ y[k + 2] = l
    BY <1>6, <2>1
  <2>4. k \in Nat
    BY <2>1
  <2> HIDE DEF x, y, k
  <2>5. \A i \in 1..(k + 2) : i \in 1..k \/ i = k + 1 \/ i = k + 2
    BY <2>4
  <2>6. \A i \in 1..Len(x) : x[i] = y[i]
    BY <2>2, <2>3, <2>5
  <2>7. x = y
    BY <2>2, <2>3, <2>6, SeqEqual
  <2> QED BY <2>7 DEF x, y
<1> HIDE DEF r
<1>13. ProducerReceipt!Plan = r \o <<e>> \o <<l>>
  BY <1>2, <1>12 DEF r
<1>14. Reads(r \o <<e>>, T)
  BY <1>11 DEF r
<1>15. ProducerReceipt!Plan \in Seq(PlanSteps)
  <2> DEFINE q == r \o <<e>>
  <2>1. q \in Seq(PlanSteps)
    BY <1>14 DEF Reads
  <2>2. ProducerReceipt!Plan = q \o <<l>>
    BY <1>13
  <2> HIDE DEF q
  <2> QED BY <1>6, <2>1, <2>2
<1> QED BY <1>13, <1>14, <1>15 DEF T, l

(* The steps before the publication, and the publication.                  *)
PlanOrder ==
    LET P == ProducerReceipt!Plan
        L == Len(ProducerReceipt!Plan) IN
    /\ L \in Nat \ {0} /\ P[L].what = "link"
    /\ \A tree \in ProducerReceipt!Trees :
           \E i \in 1..(L - 1) : P[i].what = "snap" /\ P[i].tree = tree
    /\ \A i \in 1..(L - 1) :
           /\ P[i].what # "link"
           /\ P[i].what \in {"visit", "snap"} => P[i].tree \in ProducerReceipt!Trees
           /\ P[i].what = "visit" => P[i].name \in FileNames
           /\ P[i].what = "snap" =>
                  /\ \A n \in FileNames :
                         /\ \E j \in 1..(i - 1) : Visits(P[j], P[i].tree, n)
                         /\ \E j \in (i + 1)..(L - 1) : Visits(P[j], P[i].tree, n)
                  /\ \A j \in (i + 1)..(L - 1) :
                         P[j].what = "visit" /\ P[j].tree = P[i].tree => P[j].again

(* The plan is such a list.                                                *)
LEMMA PlanOrdered == PlanOrder
<1> DEFINE P == ProducerReceipt!Plan
           l == ProducerReceipt!Step("link", <<>>, "none", FALSE)
           L == Len(P)
<1>1. PICK q : Reads(q, ProducerReceipt!Trees) /\ P = q \o <<l>>
  BY PlanReads
<1>2. l.what = "link"
  BY DEF ProducerReceipt!Step
<1> HIDE DEF l, P
<1>3. q \in Seq(PlanSteps)
  BY <1>1 DEF Reads
<1>4. /\ L \in Nat \ {0} /\ L = Len(q) + 1 /\ P[L] = l
      /\ \A i \in 1..(L - 1) : i \in 1..Len(q) /\ P[i] = q[i]
      /\ L - 1 = Len(q)
  BY <1>1, <1>3
<1> HIDE DEF L
<1>5. ASSUME NEW i \in 1..(L - 1)
      PROVE  /\ P[i].what # "link"
             /\ P[i].what \in {"visit", "snap"} => P[i].tree \in ProducerReceipt!Trees
             /\ P[i].what = "visit" => P[i].name \in FileNames
  BY <1>1, <1>4 DEF Reads, About
<1>6. ASSUME NEW i \in 1..(L - 1), P[i].what = "snap"
      PROVE  /\ \A n \in FileNames :
                    /\ \E j \in 1..(i - 1) : Visits(P[j], P[i].tree, n)
                    /\ \E j \in (i + 1)..(L - 1) : Visits(P[j], P[i].tree, n)
             /\ \A j \in (i + 1)..(L - 1) :
                    P[j].what = "visit" /\ P[j].tree = P[i].tree => P[j].again
  <2>1. i \in 1..Len(q) /\ P[i] = q[i]
    BY <1>4
  <2>2. /\ \A n \in FileNames : /\ \E j \in 1..(i - 1) : Visits(q[j], q[i].tree, n)
                                /\ \E j \in (i + 1)..Len(q) : Visits(q[j], q[i].tree, n)
        /\ \A j \in (i + 1)..Len(q) :
               q[j].what = "visit" /\ q[j].tree = q[i].tree => q[j].again
    BY <1>1, <1>6, <2>1 DEF Reads, Twice
  <2>3. \A j : j \in 1..(i - 1) \/ j \in (i + 1)..(L - 1) => j \in 1..(L - 1) /\ P[j] = q[j]
    BY <1>4
  <2>4. \A j : j \in (i + 1)..Len(q) <=> j \in (i + 1)..(L - 1)
    BY <1>4
  <2> QED BY <2>1, <2>2, <2>3, <2>4
<1>7. \A tree \in ProducerReceipt!Trees :
          \E i \in 1..(L - 1) : P[i].what = "snap" /\ P[i].tree = tree
  <2>1. \A tree \in ProducerReceipt!Trees :
            \E i \in 1..Len(q) : q[i].what = "snap" /\ q[i].tree = tree
    BY <1>1 DEF Reads, Snaps
  <2> QED BY <1>4, <2>1
<1> QED BY <1>2, <1>4, <1>5, <1>6, <1>7 DEF PlanOrder, L, P

-----------------------------------------------------------------------------
(* Producer receipt: what it knows of a file, and when.                    *)

Steps == ProducerReceipt!Plan
FileKey(tree, n) == <<"visit", tree, n>>

ReceiptTyped ==
    /\ changes \in Nat /\ at \in 0..Len(Steps)
    /\ disk \in [ProducerReceipt!Trees -> [FileNames -> [data : Contents, stamp : 0..changes]]]

\* What was visited is known.
VisitedIsKnown ==
    \A j \in 1..(at - 1) : Steps[j].what = "visit" =>
        \E r \in seen : r.key = FileKey(Steps[j].tree, Steps[j].name)

\* What is known of a file is how it was, at a stamp that it had.
KnownIsOld ==
    \A r \in seen, tree \in ProducerReceipt!Trees, n \in FileNames : r.key = FileKey(tree, n) =>
        /\ r = [key |-> r.key, value |-> <<r.value[1], r.value[2]>>]
        /\ r.value[2] \in 0..disk[tree][n].stamp
        /\ r.value[2] = disk[tree][n].stamp => r.value[1] = disk[tree][n].data

\* A record of a file of a snap is no younger than the snap, and no older if it
\* was visited again after the snap at position i.
Around(s, i) ==
    /\ Steps[i].what = "snap" /\ Steps[i].tree = s.tree
    /\ \A n \in FileNames :
           /\ s.files[n].stamp \in 0..disk[s.tree][n].stamp
           /\ s.files[n].stamp = disk[s.tree][n].stamp => s.files[n].data = disk[s.tree][n].data
           /\ \A r \in seen : r.key = FileKey(s.tree, n) =>
                  /\ r.value[2] <= s.files[n].stamp
                  /\ r.value[2] = s.files[n].stamp => r.value[1] = s.files[n].data
                  /\ (\E j \in (i + 1)..(at - 1) : Visits(Steps[j], s.tree, n)) =>
                         s.files[n].stamp <= r.value[2]

SnapsAreBetween == \A s \in snap : \E i \in 1..(at - 1) : Around(s, i)

PublishedOnce ==
    /\ published # <<>> =>
           published = <<published[1]>> /\ ProducerReceipt!SnapshotIn(published[1])
    /\ \A r \in reported : published = <<r>>

ReceiptInv ==
    ReceiptTyped /\ VisitedIsKnown /\ KnownIsOld /\ SnapsAreBetween /\ PublishedOnce

(* Two names of the files of a tree.                                       *)
LEMMA FilesAre == ProducerReceipt!ToSet(NameOrder) = FileNames
BY DEF FileNames

(* Nothing is published by a step that reads.                              *)
LEMMA PublishedStays ==
    ASSUME PublishedOnce, UNCHANGED <<published, reported>>
    PROVE  PublishedOnce'
BY DEF PublishedOnce, ProducerReceipt!SnapshotIn

(* A producer that gives up forgets what it knew.                          *)
LEMMA GiveUpKeeps ==
    ASSUME ReceiptTyped, ProducerReceipt!GiveUp, UNCHANGED <<disk, changes>>
    PROVE  (ReceiptTyped /\ VisitedIsKnown /\ KnownIsOld /\ SnapsAreBetween)'
<1>1. at' = 0 /\ seen' = {} /\ snap' = {}
  BY DEF ProducerReceipt!GiveUp
<1>2. ReceiptTyped'
  BY <1>1, PlanOrdered DEF ReceiptTyped, PlanOrder, Steps
<1>3. VisitedIsKnown'
  BY <1>1 DEF VisitedIsKnown
<1>4. KnownIsOld'
  BY <1>1 DEF KnownIsOld
<1>5. SnapsAreBetween'
  BY <1>1 DEF SnapsAreBetween
<1> QED BY <1>2, <1>3, <1>4, <1>5

(* At first nobody knows or has published anything.                        *)
LEMMA ReceiptInitial == ProducerReceipt!Init => ReceiptInv
<1> SUFFICES ASSUME ProducerReceipt!Init PROVE ReceiptInv
  OBVIOUS
<1> DEFINE c0 == CHOOSE c \in Contents : c \notin Unfit
<1>1. /\ disk \in [ProducerReceipt!Trees -> [FileNames -> [data : {c0}, stamp : {0}]]]
      /\ changes = 0 /\ at = 0 /\ seen = {} /\ snap = {} /\ reported = {}
      /\ published = <<>>
  BY FilesAre DEF ProducerReceipt!Init, ProducerReceipt!Nothing
<1>2. c0 \in Contents
  BY ListingAssumption
<1> HIDE DEF c0
<1>3. ReceiptTyped
  BY <1>1, <1>2, PlanOrdered DEF ReceiptTyped, PlanOrder, Steps
<1>4. VisitedIsKnown /\ KnownIsOld /\ SnapsAreBetween /\ PublishedOnce
  BY <1>1 DEF VisitedIsKnown, KnownIsOld, SnapsAreBetween, PublishedOnce
<1> QED BY <1>3, <1>4 DEF ReceiptInv

(* Where the producer is before the publication.                           *)
LEMMA BeforeLink ==
    ASSUME ReceiptTyped, at # 0
    PROVE  /\ Len(Steps) \in Nat \ {0} /\ at \in 1..Len(Steps)
           /\ Steps[at].what # "link" => at \in 1..(Len(Steps) - 1) /\ at + 1 \in 0..Len(Steps)
           /\ Steps[at].what = "link" => at = Len(Steps)
<1>1. Len(Steps) \in Nat \ {0} /\ at \in 1..Len(Steps)
  BY PlanOrdered DEF PlanOrder, ReceiptTyped, Steps
<1>2. Steps[Len(Steps)].what = "link" /\ \A i \in 1..(Len(Steps) - 1) : Steps[i].what # "link"
  BY PlanOrdered DEF PlanOrder, Steps
<1> QED BY <1>1, <1>2

(* Others write: a file is as it was, or has a stamp that is new.          *)
LEMMA WriteKeeps ==
    ASSUME ReceiptInv, ProducerReceipt!Write
    PROVE  ReceiptInv'
<1>1. UNCHANGED <<at, seen, snap, published, reported>> /\ changes' = changes + 1 /\ changes \in Nat
  BY DEF ProducerReceipt!Write, ReceiptInv, ReceiptTyped
<1>2. /\ ReceiptTyped'
      /\ \A tree \in ProducerReceipt!Trees, n \in FileNames :
             disk'[tree][n] = disk[tree][n] \/ disk'[tree][n].stamp = changes + 1
  <2>1. CASE UNCHANGED disk
    BY <1>1, <2>1 DEF ReceiptInv, ReceiptTyped
  <2>2. CASE \E t \in ProducerReceipt!Trees, n \in FileNames, c \in Contents :
                disk' = [disk EXCEPT ![t][n] = [data |-> c, stamp |-> changes + 1]]
    <3>1. PICK t \in ProducerReceipt!Trees, n \in FileNames, c \in Contents :
                disk' = [disk EXCEPT ![t][n] = [data |-> c, stamp |-> changes + 1]]
      BY <2>2
    <3>2. disk \in [ProducerReceipt!Trees -> [FileNames -> [data : Contents, stamp : 0..changes]]]
      BY DEF ReceiptInv, ReceiptTyped
    <3> DEFINE File == [data : Contents, stamp : 0..(changes + 1)]
               new == [data |-> c, stamp |-> changes + 1]
    <3>3. new \in File /\ new.stamp = changes + 1
      BY <1>1
    <3>4. \A f \in [data : Contents, stamp : 0..changes] : f \in File
      BY <1>1
    <3>5. disk \in [ProducerReceipt!Trees -> [FileNames -> File]]
      BY <3>2, <3>4
    <3> HIDE DEF File, new
    <3>6. disk' = [disk EXCEPT ![t][n] = new]
      BY <3>1 DEF new
    <3>7. disk' \in [ProducerReceipt!Trees -> [FileNames -> File]]
      BY <3>3, <3>5, <3>6
    <3>8. \A tree \in ProducerReceipt!Trees, m \in FileNames :
             disk'[tree][m] = disk[tree][m] \/ disk'[tree][m].stamp = changes + 1
      BY <3>3, <3>5, <3>6
    <3>9. ReceiptTyped'
      BY <1>1, <3>7 DEF ReceiptInv, ReceiptTyped, File
    <3> QED BY <3>8, <3>9
  <2> QED BY <2>1, <2>2, FilesAre DEF ProducerReceipt!Write
<1>3. \A tree \in ProducerReceipt!Trees, n \in FileNames :
          /\ disk[tree][n].stamp \in Nat /\ disk'[tree][n].stamp \in Nat
          /\ disk[tree][n].stamp <= changes
  BY <1>2, <1>1 DEF ReceiptInv, ReceiptTyped
<1>4. \A tree \in ProducerReceipt!Trees, n \in FileNames :
          disk'[tree][n] = disk[tree][n] \/ disk[tree][n].stamp < disk'[tree][n].stamp
  BY <1>1, <1>2, <1>3
<1>5. VisitedIsKnown'
  BY <1>1 DEF ReceiptInv, VisitedIsKnown
<1>6. KnownIsOld'
  BY <1>1, <1>3, <1>4 DEF ReceiptInv, KnownIsOld
<1>7. SnapsAreBetween'
  <2> SUFFICES ASSUME NEW s \in snap PROVE \E i \in 1..(at - 1) : Around(s, i)'
    BY <1>1 DEF SnapsAreBetween
  <2>1. PICK i \in 1..(at - 1) : Around(s, i)
    BY DEF ReceiptInv, SnapsAreBetween
  <2>2. s.tree \in ProducerReceipt!Trees
    BY <2>1, PlanOrdered DEF Around, PlanOrder, ReceiptInv, ReceiptTyped, Steps
  <2>3. Around(s, i)'
    BY <1>1, <1>3, <1>4, <2>1, <2>2 DEF Around
  <2> QED BY <2>3
<1>8. PublishedOnce'
  BY <1>1, PublishedStays DEF ReceiptInv
<1> QED BY <1>2, <1>5, <1>6, <1>7, <1>8 DEF ReceiptInv

(* A step that reads nothing new.                                          *)
LEMMA PassKeeps ==
    ASSUME ReceiptInv, at # 0, Steps[at].what \notin {"visit", "link"}, at' = at + 1,
           UNCHANGED <<disk, changes, seen>>, NEW k, k = at,
           \A s \in snap' : s \in snap \/ Around(s, k)'
    PROVE  (ReceiptTyped /\ VisitedIsKnown /\ KnownIsOld /\ SnapsAreBetween)'
<1>1. at \in 1..(Len(Steps) - 1) /\ at + 1 \in 0..Len(Steps) /\ at \in Nat
  BY BeforeLink DEF ReceiptInv
<1>2. ReceiptTyped'
  BY <1>1 DEF ReceiptInv, ReceiptTyped
<1>3. KnownIsOld'
  BY DEF ReceiptInv, KnownIsOld
<1>4. \A j \in 1..((at + 1) - 1) : j \in 1..(at - 1) \/ j = at
  BY <1>1
<1>5. VisitedIsKnown'
  BY <1>4 DEF ReceiptInv, VisitedIsKnown
<1>6. ASSUME NEW s \in snap'
      PROVE  \E i \in 1..((at + 1) - 1) : Around(s, i)'
  <2>1. CASE s \in snap
    <3>1. PICK i \in 1..(at - 1) : Around(s, i)
      BY <2>1 DEF ReceiptInv, SnapsAreBetween
    <3>2. \A j \in (i + 1)..((at + 1) - 1) : j \in (i + 1)..(at - 1) \/ j = at
      BY <1>1
    <3>3. ASSUME NEW n, \E j \in (i + 1)..((at + 1) - 1) : Visits(Steps[j], s.tree, n)
          PROVE  \E j \in (i + 1)..(at - 1) : Visits(Steps[j], s.tree, n)
      BY <3>2, <3>3 DEF Visits
    <3>4. Around(s, i)'
      BY <3>1, <3>3 DEF Around
    <3>5. i \in 1..((at + 1) - 1)
      BY <1>1
    <3> QED BY <3>4, <3>5
  <2>2. CASE Around(s, k)'
    <3>1. k \in 1..((at + 1) - 1)
      BY <1>1
    <3> QED BY <2>2, <3>1
  <2> QED BY <2>1, <2>2
<1>7. SnapsAreBetween'
  BY <1>6 DEF SnapsAreBetween
<1> QED BY <1>2, <1>3, <1>5, <1>7

(* A snap is of files that were visited before it, and not after it.       *)
LEMMA BetweenKeeps ==
    ASSUME ReceiptInv, ProducerReceipt!Between
    PROVE  ReceiptInv'
<1>1. /\ at # 0 /\ Steps[at].what = "snap" /\ at' = at + 1
      /\ snap' = snap \cup {[tree |-> Steps[at].tree, files |-> disk[Steps[at].tree]]}
      /\ UNCHANGED <<disk, changes, seen, published, reported>>
  BY DEF ProducerReceipt!Between, Steps
<1>2. PICK k, t, s : k = at /\ t = Steps[k].tree /\ s = [tree |-> t, files |-> disk[t]]
  OBVIOUS
<1>3. k \in 1..(Len(Steps) - 1) /\ k \in Nat /\ t \in ProducerReceipt!Trees
  BY <1>1, <1>2, BeforeLink, PlanOrdered DEF ReceiptInv, PlanOrder, Steps
<1>4. s.tree = t /\ s.files = disk[t] /\ snap' = snap \cup {s}
  BY <1>1, <1>2
<1>5. Around(s, k)'
  <2>1. \A n \in FileNames : disk[t][n].stamp \in 0..disk[t][n].stamp
    BY <1>3 DEF ReceiptInv, ReceiptTyped
  <2>2. ASSUME NEW n \in FileNames, NEW r \in seen, r.key = FileKey(t, n)
        PROVE  /\ r.value[2] <= disk[t][n].stamp
               /\ r.value[2] = disk[t][n].stamp => r.value[1] = disk[t][n].data
    BY <1>3, <2>1, <2>2 DEF ReceiptInv, KnownIsOld
  <2>3. (k + 1)..(at' - 1) = {} /\ Steps[k].what = "snap" /\ Steps[k].tree = t
    BY <1>1, <1>2, <1>3
  <2> QED BY <1>1, <1>4, <2>1, <2>2, <2>3 DEF Around
<1>6. \A u \in snap' : u \in snap \/ Around(u, k)'
  BY <1>4, <1>5
<1>7. (ReceiptTyped /\ VisitedIsKnown /\ KnownIsOld /\ SnapsAreBetween)'
  <2>1. Steps[at].what \notin {"visit", "link"}
    BY <1>1
  <2> QED BY <1>1, <1>2, <1>6, <2>1, PassKeeps
<1>8. PublishedOnce'
  BY <1>1, PublishedStays DEF ReceiptInv
<1> QED BY <1>7, <1>8 DEF ReceiptInv

(* A look at the stored receipt reads no file.                             *)
LEMMA CheckExistingKeeps ==
    ASSUME ReceiptInv, ProducerReceipt!CheckExisting
    PROVE  ReceiptInv'
<1>1. /\ at # 0 /\ Steps[at].what = "existing"
      /\ UNCHANGED <<disk, changes, published, reported>>
  BY DEF ProducerReceipt!CheckExisting, Steps
<1>2. CASE at' = at + 1 /\ UNCHANGED <<seen, snap>>
  <2>1. (ReceiptTyped /\ VisitedIsKnown /\ KnownIsOld /\ SnapsAreBetween)'
    BY <1>1, <1>2, PassKeeps
  <2> QED BY <1>1, <2>1, PublishedStays DEF ReceiptInv
<1>3. CASE ProducerReceipt!GiveUp
  BY <1>1, <1>3, GiveUpKeeps, PublishedStays DEF ReceiptInv
<1> QED BY <1>2, <1>3 DEF ProducerReceipt!CheckExisting

(* A producer begins with nothing.                                         *)
LEMMA BeginKeeps ==
    ASSUME ReceiptInv, ProducerReceipt!Begin
    PROVE  ReceiptInv'
<1>1. /\ at' = 1 /\ seen' = {} /\ snap' = {}
      /\ UNCHANGED <<disk, changes, published, reported>>
  BY DEF ProducerReceipt!Begin
<1>2. ReceiptTyped'
  BY <1>1, PlanOrdered DEF ReceiptInv, ReceiptTyped, PlanOrder, Steps
<1>3. VisitedIsKnown' /\ KnownIsOld' /\ SnapsAreBetween'
  BY <1>1 DEF VisitedIsKnown, KnownIsOld, SnapsAreBetween
<1> QED BY <1>1, <1>2, <1>3, PublishedStays DEF ReceiptInv

(* A visit finds a new file, or what its tree's snap lies around.          *)
LEMMA ReadKeeps ==
    ASSUME ReceiptInv, ProducerReceipt!Read
    PROVE  ReceiptInv'
<1> DEFINE s == Steps[at]
           value == ProducerReceipt!Reading(s)
           key == ProducerReceipt!Key(s)
           new == [key |-> key, value |-> value]
<1>1. /\ at # 0 /\ s.what \in {"visit", "declaration", "required", "manifest"}
      /\ UNCHANGED <<disk, changes, published, reported>>
      /\ \/ /\ s.again => ProducerReceipt!SameAgain(s)
            /\ at' = at + 1 /\ seen' = seen \cup {new} /\ UNCHANGED snap
         \/ ProducerReceipt!GiveUp
  BY DEF ProducerReceipt!Read, Steps
<1>2. PublishedOnce'
  BY <1>1, PublishedStays DEF ReceiptInv
<1>3. CASE ProducerReceipt!GiveUp
  BY <1>1, <1>2, <1>3, GiveUpKeeps DEF ReceiptInv
<1>4. CASE /\ s.again => ProducerReceipt!SameAgain(s)
           /\ at' = at + 1 /\ seen' = seen \cup {new} /\ UNCHANGED snap
  <2>1. /\ at \in 1..(Len(Steps) - 1) /\ at + 1 \in 0..Len(Steps) /\ at \in Nat
        /\ \A j \in 1..((at + 1) - 1) : j \in 1..(at - 1) \/ j = at
    <3>1. at \in 1..(Len(Steps) - 1) /\ at + 1 \in 0..Len(Steps) /\ at \in Nat
      BY <1>1, BeforeLink DEF ReceiptInv
    <3> QED BY <3>1
  <2>2. ASSUME s.what = "visit"
        PROVE  /\ s.tree \in ProducerReceipt!Trees /\ s.name \in FileNames
               /\ key = FileKey(s.tree, s.name)
               /\ value = <<disk[s.tree][s.name].data, disk[s.tree][s.name].stamp>>
    BY <2>1, <2>2, PlanOrdered
    DEF PlanOrder, Steps, FileKey, ProducerReceipt!Key, ProducerReceipt!Reading
  <2>3. ASSUME NEW tree, NEW n, key = FileKey(tree, n)
        PROVE  s.what = "visit" /\ s.tree = tree /\ s.name = n
    BY <2>3 DEF FileKey, ProducerReceipt!Key
  <2>4. ASSUME s.again, NEW r \in seen, r.key = key
        PROVE  r.value = value
    BY <1>4, <2>4 DEF ProducerReceipt!SameAgain, ProducerReceipt!Known
  <2>5. new.key = key /\ new.value = value
    OBVIOUS
  <2>51. new = [key |-> new.key, value |-> new.value]
    OBVIOUS
  <2> HIDE DEF new, key, value, s
  <2>6. ReceiptTyped'
    BY <1>1, <1>4, <2>1 DEF ReceiptInv, ReceiptTyped
  <2>7. VisitedIsKnown'
    <3> SUFFICES ASSUME NEW j \in 1..((at + 1) - 1), Steps[j].what = "visit"
                 PROVE  \E r \in seen' : r.key = FileKey(Steps[j].tree, Steps[j].name)
      BY <1>4 DEF VisitedIsKnown
    <3>1. CASE j \in 1..(at - 1)
      BY <1>4, <3>1 DEF ReceiptInv, VisitedIsKnown
    <3>2. CASE j = at
      BY <1>4, <2>2, <2>5, <3>2 DEF s
    <3> QED BY <2>1, <3>1, <3>2
  <2>8. KnownIsOld'
    <3> SUFFICES ASSUME NEW r \in seen', NEW tree \in ProducerReceipt!Trees, NEW n \in FileNames,
                        r.key = FileKey(tree, n)
                 PROVE  /\ r = [key |-> r.key, value |-> <<r.value[1], r.value[2]>>]
                        /\ r.value[2] \in 0..disk[tree][n].stamp
                        /\ r.value[2] = disk[tree][n].stamp => r.value[1] = disk[tree][n].data
      BY <1>1 DEF KnownIsOld
    <3>1. CASE r \in seen
      BY <3>1 DEF ReceiptInv, KnownIsOld
    <3>2. CASE r = new
      <4>1. s.what = "visit" /\ s.tree = tree /\ s.name = n
        BY <2>3, <2>5, <3>2
      <4>2. value = <<disk[tree][n].data, disk[tree][n].stamp>>
        BY <2>2, <4>1
      <4>3. value = <<value[1], value[2]>> /\ value[1] = disk[tree][n].data /\ value[2] = disk[tree][n].stamp
        BY <4>2
      <4>4. disk[tree][n].stamp \in Nat
        BY DEF ReceiptInv, ReceiptTyped
      <4> QED BY <2>5, <2>51, <3>2, <4>3, <4>4
    <3> QED BY <1>4, <3>1, <3>2
  <2>9. SnapsAreBetween'
    <3> SUFFICES ASSUME NEW u \in snap PROVE \E i \in 1..((at + 1) - 1) : Around(u, i)'
      BY <1>4 DEF SnapsAreBetween
    <3>1. PICK i \in 1..(at - 1) : Around(u, i)
      BY DEF ReceiptInv, SnapsAreBetween
    <3>2. /\ i \in 1..(Len(Steps) - 1) /\ i \in 1..((at + 1) - 1)
          /\ at \in (i + 1)..(Len(Steps) - 1)
          /\ \A j \in (i + 1)..((at + 1) - 1) : j \in (i + 1)..(at - 1) \/ j = at
          /\ \A j \in 1..(i - 1) : j \in 1..(at - 1)
      BY <2>1
    <3>3. Steps[i].what = "snap" /\ Steps[i].tree = u.tree /\ u.tree \in ProducerReceipt!Trees
      BY <3>1, <3>2, PlanOrdered DEF Around, PlanOrder, Steps
    <3>4. ASSUME s.what = "visit", s.tree = u.tree
          PROVE  /\ s.again
                 /\ \E r \in seen : r.key = key
      <4>1. s.again
        BY <3>2, <3>3, <3>4, PlanOrdered DEF PlanOrder, Steps, s
      <4>2. s.name \in FileNames
        BY <2>2, <3>4
      <4>3. PICK j \in 1..(i - 1) : Visits(Steps[j], u.tree, s.name)
        BY <3>2, <3>3, <4>2, PlanOrdered DEF PlanOrder, Steps
      <4>4. PICK r \in seen : r.key = FileKey(u.tree, s.name)
        BY <3>2, <4>3 DEF ReceiptInv, VisitedIsKnown, Visits
      <4> QED BY <2>2, <3>4, <4>1, <4>4
    <3>5. ASSUME NEW n \in FileNames, NEW r \in seen', r.key = FileKey(u.tree, n)
          PROVE  /\ r.value[2] <= u.files[n].stamp
                 /\ r.value[2] = u.files[n].stamp => r.value[1] = u.files[n].data
                 /\ (\E j \in (i + 1)..((at + 1) - 1) : Visits(Steps[j], u.tree, n)) =>
                        u.files[n].stamp <= r.value[2]
      <4>1. PICK q \in seen : q.key = r.key /\ q.value = r.value
        <5>1. CASE r \in seen
          BY <5>1
        <5>2. CASE r = new
          <6>1. s.what = "visit" /\ s.tree = u.tree
            BY <2>3, <2>5, <3>5, <5>2
          <6>2. PICK q \in seen : q.key = key
            BY <3>4, <6>1
          <6> QED BY <2>4, <2>5, <3>4, <5>2, <6>1, <6>2
        <5> QED BY <1>4, <5>1, <5>2
      <4>2. /\ q.value[2] <= u.files[n].stamp
            /\ q.value[2] = u.files[n].stamp => q.value[1] = u.files[n].data
            /\ (\E j \in (i + 1)..(at - 1) : Visits(Steps[j], u.tree, n)) =>
                   u.files[n].stamp <= q.value[2]
        BY <3>1, <3>5, <4>1 DEF Around
      <4>3. ASSUME Visits(Steps[at], u.tree, n)
            PROVE  u.files[n].stamp <= q.value[2]
        <5>1. s.what = "visit" /\ s.tree = u.tree /\ s.name = n
          BY <4>3 DEF Visits, s
        <5>2. q.value = <<disk[u.tree][n].data, disk[u.tree][n].stamp>>
          BY <2>2, <2>4, <3>4, <3>5, <4>1, <5>1
        <5>3. u.files[n].stamp <= disk[u.tree][n].stamp
          BY <3>1, <3>3 DEF Around, ReceiptInv, ReceiptTyped
        <5> QED BY <5>2, <5>3
      <4> QED BY <3>2, <4>1, <4>2, <4>3
    <3>6. Around(u, i)'
      BY <1>1, <1>4, <3>1, <3>5 DEF Around
    <3> QED BY <3>2, <3>6
  <2> QED BY <1>2, <2>6, <2>7, <2>8, <2>9 DEF ReceiptInv
<1> QED BY <1>1, <1>3, <1>4

(* What is published has its records of the snapped files.                 *)
LEMMA LinkKeeps ==
    ASSUME ReceiptInv, ProducerReceipt!Link
    PROVE  ReceiptInv'
<1> DEFINE r == ProducerReceipt!Receipt
<1>1. /\ at # 0 /\ Steps[at].what = "link"
      /\ published' = IF published = <<>> THEN <<r>> ELSE published
      /\ ProducerReceipt!GiveUp
      /\ UNCHANGED <<disk, changes, reported>>
  BY DEF ProducerReceipt!Link, ProducerReceipt!Publish, ProducerReceipt!Nothing, Steps
<1>2. at = Len(Steps) /\ at \in Nat
  BY <1>1, BeforeLink DEF ReceiptInv
<1>3. ProducerReceipt!SnapshotIn(r)
  <2>1. r.snap = snap /\ r.measured = seen
    BY DEF ProducerReceipt!Receipt
  <2> SUFFICES ASSUME NEW s \in snap, NEW n \in FileNames
               PROVE  [key |-> FileKey(s.tree, n),
                       value |-> <<s.files[n].data, s.files[n].stamp>>] \in seen
    BY <2>1, FilesAre DEF ProducerReceipt!SnapshotIn, FileKey
  <2>2. PICK i \in 1..(at - 1) : Around(s, i)
    BY DEF ReceiptInv, SnapsAreBetween
  <2>3. Steps[i].what = "snap" /\ Steps[i].tree = s.tree /\ i \in 1..(Len(Steps) - 1)
    BY <1>2, <2>2 DEF Around
  <2>4. /\ s.tree \in ProducerReceipt!Trees
        /\ \E j \in 1..(i - 1) : Visits(Steps[j], s.tree, n)
        /\ \E j \in (i + 1)..(at - 1) : Visits(Steps[j], s.tree, n)
    BY <1>2, <2>3, PlanOrdered DEF PlanOrder, Steps
  <2>5. PICK j \in 1..(i - 1) : Visits(Steps[j], s.tree, n)
    BY <2>4
  <2>6. j \in 1..(at - 1)
    BY <1>2, <2>2
  <2>7. PICK q \in seen : q.key = FileKey(s.tree, n)
    BY <2>5, <2>6 DEF ReceiptInv, VisitedIsKnown, Visits
  <2>8. q = [key |-> q.key, value |-> <<q.value[1], q.value[2]>>] /\ q.value[2] \in Int
    <3>1. disk[s.tree][n].stamp \in Nat
      BY <2>4 DEF ReceiptInv, ReceiptTyped
    <3> QED BY <2>4, <2>7, <3>1 DEF ReceiptInv, KnownIsOld
  <2>9. /\ q.value[2] <= s.files[n].stamp /\ s.files[n].stamp <= q.value[2]
        /\ q.value[2] = s.files[n].stamp => q.value[1] = s.files[n].data
        /\ s.files[n].stamp \in Int
    <3>1. disk[s.tree][n].stamp \in Nat
      BY <2>4 DEF ReceiptInv, ReceiptTyped
    <3> QED BY <2>2, <2>4, <2>7, <3>1 DEF Around
  <2>10. q.value[2] = s.files[n].stamp /\ q.value[1] = s.files[n].data
    BY <2>8, <2>9
  <2> QED BY <2>7, <2>8, <2>10
<1>4. (ReceiptTyped /\ VisitedIsKnown /\ KnownIsOld /\ SnapsAreBetween)'
  BY <1>1, GiveUpKeeps DEF ReceiptInv
<1>5. PublishedOnce'
  <2> HIDE DEF r
  <2>1. CASE published = <<>>
    <3>1. reported = {}
      BY <2>1 DEF ReceiptInv, PublishedOnce
    <3>2. published' = <<r>> /\ published'[1] = r
      BY <1>1, <2>1
    <3>3. ProducerReceipt!SnapshotIn(published[1])'
      BY <1>3, <3>2 DEF ProducerReceipt!SnapshotIn
    <3> QED BY <1>1, <3>1, <3>2, <3>3 DEF PublishedOnce
  <2>2. CASE published # <<>>
    BY <1>1, <2>2, PublishedStays DEF ReceiptInv
  <2> QED BY <2>1, <2>2
<1> QED BY <1>4, <1>5 DEF ReceiptInv

(* A rival measures the trees in one step.                                 *)
LEMMA RivalKeeps ==
    ASSUME ReceiptInv, ProducerReceipt!RivalPublishes
    PROVE  ReceiptInv'
<1> DEFINE measured == {[key |-> ProducerReceipt!Key(s), value |-> ProducerReceipt!Reading(s)] :
                          s \in ProducerReceipt!Measured}
           snaps == {[tree |-> t, files |-> disk[t]] : t \in ProducerReceipt!Trees}
           r == [measured |-> measured, snap |-> snaps]
<1>1. /\ published = <<>> /\ published' = <<r>>
      /\ UNCHANGED <<disk, changes, at, seen, snap, reported>>
  BY DEF ProducerReceipt!RivalPublishes, ProducerReceipt!Nothing
<1>2. ASSUME NEW t \in ProducerReceipt!Trees, NEW n \in FileNames
      PROVE  [key |-> FileKey(t, n), value |-> <<disk[t][n].data, disk[t][n].stamp>>] \in measured
  <2>1. PICK i \in 1..(Len(Steps) - 1) : Steps[i].what = "snap" /\ Steps[i].tree = t
    BY PlanOrdered DEF PlanOrder, Steps
  <2>2. PICK j \in 1..(i - 1) : Visits(Steps[j], t, n)
    BY <2>1, PlanOrdered DEF PlanOrder, Steps
  <2> DEFINE s == Steps[j]
  <2>3. s.what = "visit" /\ s.tree = t /\ s.name = n
    BY <2>2 DEF Visits
  <2>4. Steps \in Seq(PlanSteps)
    BY PlanReads DEF Steps
  <2>5. j \in DOMAIN Steps
    BY <2>1, <2>2, <2>4
  <2>6. s \in ProducerReceipt!Measured
    BY <2>3, <2>5 DEF ProducerReceipt!Measured, ProducerReceipt!ToSet, Steps
  <2>7. /\ ProducerReceipt!Key(s) = FileKey(t, n)
        /\ ProducerReceipt!Reading(s) = <<disk[t][n].data, disk[t][n].stamp>>
    BY <2>3 DEF ProducerReceipt!Key, ProducerReceipt!Reading, FileKey
  <2> HIDE DEF s
  <2> QED BY <2>6, <2>7
<1> HIDE DEF measured
<1>3. ProducerReceipt!SnapshotIn(r)
  <2>1. r.snap = snaps /\ r.measured = measured
    OBVIOUS
  <2> HIDE DEF r
  <2> SUFFICES ASSUME NEW s \in snaps, NEW n \in FileNames
               PROVE  [key |-> FileKey(s.tree, n),
                       value |-> <<s.files[n].data, s.files[n].stamp>>] \in measured
    BY <2>1, FilesAre DEF ProducerReceipt!SnapshotIn, FileKey
  <2>2. PICK t \in ProducerReceipt!Trees : s.tree = t /\ s.files = disk[t]
    OBVIOUS
  <2> QED BY <1>2, <2>2
<1> HIDE DEF r
<1>4. (ReceiptTyped /\ VisitedIsKnown /\ KnownIsOld /\ SnapsAreBetween)'
  <2>1. ReceiptTyped' /\ VisitedIsKnown' /\ KnownIsOld'
    BY <1>1 DEF ReceiptInv, ReceiptTyped, VisitedIsKnown, KnownIsOld
  <2>2. SnapsAreBetween'
    BY <1>1 DEF ReceiptInv, SnapsAreBetween, Around
  <2> QED BY <2>1, <2>2
<1>5. PublishedOnce'
  <2>1. reported = {}
    BY <1>1 DEF ReceiptInv, PublishedOnce
  <2>2. published' = <<r>> /\ published'[1] = r
    BY <1>1
  <2>3. ProducerReceipt!SnapshotIn(published[1])'
    BY <1>3, <2>2 DEF ProducerReceipt!SnapshotIn
  <2> QED BY <1>1, <2>1, <2>2, <2>3 DEF PublishedOnce
<1> QED BY <1>4, <1>5 DEF ReceiptInv

(* A reader reports what is published.                                     *)
LEMMA ReceiptUnmoved ==
    ASSUME ReceiptInv, UNCHANGED <<disk, changes, at, seen, snap, published>>,
           reported' = reported \/ (published # <<>> /\ reported' = reported \cup {published[1]})
    PROVE  ReceiptInv'
<1>1. ReceiptTyped' /\ VisitedIsKnown' /\ KnownIsOld'
  BY DEF ReceiptInv, ReceiptTyped, VisitedIsKnown, KnownIsOld
<1>2. SnapsAreBetween'
  BY DEF ReceiptInv, SnapsAreBetween, Around
<1>3. PublishedOnce'
  BY DEF ReceiptInv, PublishedOnce, ProducerReceipt!SnapshotIn
<1> QED BY <1>1, <1>2, <1>3 DEF ReceiptInv

(* Each action in turn.                                                    *)
LEMMA ReceiptStep == ReceiptInv /\ ProducerReceipt!Next => ReceiptInv'
<1> SUFFICES ASSUME ReceiptInv, ProducerReceipt!Next PROVE ReceiptInv'
  OBVIOUS
<1>1. CASE ProducerReceipt!Begin
  BY <1>1, BeginKeeps
<1>2. CASE ProducerReceipt!Read
  BY <1>2, ReadKeeps
<1>3. CASE ProducerReceipt!Between
  BY <1>3, BetweenKeeps
<1>4. CASE ProducerReceipt!CheckExisting
  BY <1>4, CheckExistingKeeps
<1>5. CASE ProducerReceipt!Link
  BY <1>5, LinkKeeps
<1>6. CASE ProducerReceipt!Crash
  <2>1. ProducerReceipt!GiveUp /\ UNCHANGED <<disk, changes, published, reported>>
    BY <1>6 DEF ProducerReceipt!Crash
  <2> QED BY <2>1, GiveUpKeeps, PublishedStays DEF ReceiptInv
<1>7. CASE ProducerReceipt!ReadReceipt
  BY <1>7, ReceiptUnmoved DEF ProducerReceipt!ReadReceipt, ProducerReceipt!Nothing
<1>8. CASE ProducerReceipt!RivalPublishes
  BY <1>8, RivalKeeps
<1>9. CASE ProducerReceipt!Write
  BY <1>9, WriteKeeps
<1> QED BY <1>1, <1>2, <1>3, <1>4, <1>5, <1>6, <1>7, <1>8, <1>9 DEF ProducerReceipt!Next

(* What is published is what is reported.                                  *)
LEMMA ReceiptIsSnapshot == ReceiptInv => ProducerReceipt!ReceiptIsASnapshot
<1> SUFFICES ASSUME ReceiptInv PROVE ProducerReceipt!ReceiptIsASnapshot
  OBVIOUS
<1>1. \A r \in reported : published = <<r>>
  BY DEF ReceiptInv, PublishedOnce
<1>2. ASSUME NEW r, published = <<r>>
      PROVE  ProducerReceipt!SnapshotIn(r)
  <2>1. published # <<>> /\ published[1] = r
    BY <1>2
  <2> QED BY <2>1 DEF ReceiptInv, PublishedOnce
<1>3. ASSUME NEW r \in ProducerReceipt!ToSet(published)
      PROVE  published = <<r>>
  <2>1. CASE published = <<>>
    BY <1>3, <2>1 DEF ProducerReceipt!ToSet
  <2>2. CASE published # <<>>
    <3>1. PICK q : published = <<q>>
      BY <2>2 DEF ReceiptInv, PublishedOnce
    <3>2. DOMAIN published = {1} /\ published[1] = q
      BY <3>1
    <3> QED BY <1>3, <3>1, <3>2 DEF ProducerReceipt!ToSet
  <2> QED BY <2>1, <2>2
<1> QED BY <1>1, <1>2, <1>3 DEF ProducerReceipt!ReceiptIsASnapshot

\* pxe_producer_receipt.py: every receipt that was published or reported, of any
\* trees, describes each tree as it was at one moment between its two walks,
\* however others write, publish and kill in between, and no receipt that was
\* reported is replaced.
THEOREM ReceiptsAreSnapshots == Spec => []ReceiptIsASnapshot
<1> DEFINE I == Is("ProducerReceipt") => ReceiptInv
<1>1. Init => I
  BY ReceiptInitial DEF Init, Is
<1>2. I /\ [Next]_vars => I'
  <2> SUFFICES ASSUME I, [Next]_vars, Is("ProducerReceipt")' PROVE ReceiptInv'
    OBVIOUS
  <2>1. CASE UNCHANGED vars
    BY <2>1, ReceiptUnmoved DEF vars, receiptVars, Is
  <2>2. CASE Next
    BY <2>2, ReceiptStep DEF Next, Others, Is
  <2> QED
    BY <2>1, <2>2
<1>3. I => ReceiptIsASnapshot
  BY ReceiptIsSnapshot DEF ReceiptIsASnapshot
<1> QED
  BY <1>1, <1>2, <1>3, PTL DEF Spec

-----------------------------------------------------------------------------
(* CanonicalNets                                                           *)

(* Sizes.                                                                  *)
Sizes ==
    /\ \A l \in 0..AddressBits : CanonicalNets!Size(l) \in Nat \ {0}
    /\ CanonicalNets!Size(AddressBits) = 1
    /\ \A l \in 0..AddressBits : l < AddressBits => CanonicalNets!Size(l) = 2 * CanonicalNets!Size(l + 1)

\* A prefix one bit shorter has twice the addresses.
LEMMA SizesDouble == Sizes
<1> DEFINE bits == AddressBits
           body(f) == [n \in 0..bits |-> IF n = 0 THEN 1 ELSE 2 * f[n - 1]]
           power == CHOOSE f : f = body(f)
           step == [n \in 1..bits |-> [p \in Nat \ {0} |-> 2 * p]]
<1>1. bits \in Nat
  BY NetsAssumption
<1>2. \A l \in 0..bits : CanonicalNets!Size(l) = power[bits - l]
  BY DEF CanonicalNets!Size
<1>3. step \in [1..bits -> [Nat \ {0} -> Nat \ {0}]]
  OBVIOUS
<1> HIDE DEF step
<1>4. PICK f : Recursive(f, bits, Nat \ {0}, 1, step)
  BY <1>1, <1>3, 1 \in Nat \ {0}, RecursionTo
<1>5. f = body(f)
  <2>1. f \in [0..bits -> Nat \ {0}] /\ f[0] = 1 /\ \A n \in 1..bits : f[n] = step[n][f[n - 1]]
    BY <1>4 DEF Recursive
  <2>2. ASSUME NEW n \in 1..bits
        PROVE  f[n] = 2 * f[n - 1]
    <3>1. n - 1 \in 0..bits
      BY <1>1
    <3>2. f[n - 1] \in Nat \ {0}
      BY <2>1, <3>1
    <3> QED BY <2>1, <3>2 DEF step
  <2>3. \A n \in 0..bits : n = 0 \/ n \in 1..bits
    BY <1>1
  <2>4. \A n \in 0..bits : f[n] = IF n = 0 THEN 1 ELSE 2 * f[n - 1]
    BY <2>1, <2>2, <2>3
  <2> QED BY <2>1, <2>4
<1> HIDE DEF body
<1>6. power = body(power)
  BY <1>5
<1> HIDE DEF power
<1>7. power[0] = 1 /\ \A n \in 1..bits : power[n] = 2 * power[n - 1]
  <2>1. power = [n \in 0..bits |-> IF n = 0 THEN 1 ELSE 2 * power[n - 1]]
    BY <1>6 DEF body
  <2>2. 0 \in 0..bits /\ \A n \in 1..bits : n \in 0..bits /\ n # 0
    BY <1>1
  <2> QED BY <2>1, <2>2
<1>8. \A n \in 0..bits : n \in {k \in 0..bits : power[k] \in Nat \ {0}}
  <2> DEFINE S == {k \in 0..bits : power[k] \in Nat \ {0}}
  <2>1. 0 \in S
    BY <1>1, <1>7
  <2>2. ASSUME NEW n \in 1..bits, n - 1 \in S
        PROVE  n \in S
    BY <1>1, <1>7, <2>2
  <2> HIDE DEF S
  <2>3. \A n \in 0..bits : n \in S
    BY <1>1, <2>1, <2>2, InductionTo
  <2> QED BY <2>3 DEF S
<1>9. \A l \in 0..bits : bits - l \in 0..bits
  BY <1>1
<1>10. \A l \in 0..bits : CanonicalNets!Size(l) \in Nat \ {0}
  BY <1>2, <1>8, <1>9
<1>11. CanonicalNets!Size(bits) = 1
  <2>1. bits \in 0..bits /\ bits - bits = 0
    BY <1>1
  <2> QED BY <1>2, <1>7, <2>1
<1>12. ASSUME NEW l \in 0..bits, l < bits
       PROVE  CanonicalNets!Size(l) = 2 * CanonicalNets!Size(l + 1)
  <2>1. /\ bits - l \in 1..bits /\ l + 1 \in 0..bits /\ (bits - l) - 1 = bits - (l + 1)
    BY <1>1, <1>12
  <2>2. CanonicalNets!Size(l) = power[bits - l] /\ CanonicalNets!Size(l + 1) = power[bits - (l + 1)]
    BY <1>2, <2>1
  <2>3. power[bits - l] = 2 * power[(bits - l) - 1]
    BY <1>7, <2>1
  <2> QED BY <2>1, <2>2, <2>3
<1> HIDE DEF bits
<1>13. bits = AddressBits
  BY DEF bits
<1> QED BY <1>10, <1>11, <1>12, <1>13 DEF Sizes

(* Arithmetic.                                                             *)

LEMMA Quotient ==
    ASSUME NEW x \in Nat, NEW s \in Nat \ {0}, x % s = 0
    PROVE  \E k \in Nat : x = k * s
<1>1. x \div s \in Nat /\ x = s * (x \div s) + (x % s)
  OBVIOUS
<1>2. x = (x \div s) * s
  BY <1>1
<1> QED BY <1>1, <1>2

LEMMA Multiple ==
    ASSUME NEW k \in Nat, NEW s \in Nat \ {0}
    PROVE  k * s \in Nat /\ (k * s) % s = 0
  OBVIOUS

\* Between two multiples of a step lies at least a step.
LEMMA StepOf ==
    ASSUME NEW a \in Nat, NEW b \in Nat, NEW s \in Nat \ {0},
           a % s = 0, b % s = 0, a < b
    PROVE  a + s <= b
<1>1. PICK j \in Nat : a = j * s
  BY Quotient
<1>2. PICK k \in Nat : b = k * s
  BY Quotient
<1>3. j < k
  <2> SUFFICES ASSUME k <= j PROVE FALSE
    BY <1>1
  <2>1. PICK d \in Nat : j = k + d
    <3>1. j - k \in Nat /\ j = k + (j - k)
      OBVIOUS
    <3> QED BY <3>1
  <2>2. j * s = k * s + d * s
    BY <2>1
  <2>3. d * s \in Nat
    OBVIOUS
  <2> QED BY <1>1, <1>2, <2>2, <2>3
<1>4. PICK d \in Nat : k = j + 1 + d
  <2>1. k - j - 1 \in Nat /\ k = j + 1 + (k - j - 1)
    BY <1>3
  <2> QED BY <2>1
<1>5. k * s = j * s + s + d * s
  BY <1>4
<1>6. d * s \in Nat
  OBVIOUS
<1> QED BY <1>1, <1>2, <1>5, <1>6

LEMMA SumOf ==
    ASSUME NEW a \in Nat, NEW b \in Nat, NEW s \in Nat \ {0}, a % s = 0, b % s = 0
    PROVE  (a + b) % s = 0
<1>1. PICK j \in Nat : a = j * s
  BY Quotient
<1>2. PICK k \in Nat : b = k * s
  BY Quotient
<1>3. a + b = (j + k) * s /\ j + k \in Nat
  BY <1>1, <1>2
<1> QED BY <1>3, Multiple

LEMMA MultipleOf ==
    ASSUME NEW a \in Nat, NEW s \in Nat \ {0}, NEW t \in Nat \ {0}, a % t = 0, t % s = 0
    PROVE  a % s = 0
<1>1. PICK j \in Nat : a = j * t
  BY Quotient
<1>2. PICK k \in Nat : t = k * s
  BY Quotient
<1>3. a = (j * k) * s /\ j * k \in Nat
  BY <1>1, <1>2
<1> QED BY <1>3, Multiple

\* A shorter prefix has a larger size, a multiple of the longer one's.
LEMMA SizesOrdered ==
    ASSUME NEW i \in 0..AddressBits, NEW j \in 0..AddressBits
    PROVE  /\ i <= j => CanonicalNets!Size(i) % CanonicalNets!Size(j) = 0
           /\ i < j <=> CanonicalNets!Size(j) < CanonicalNets!Size(i)
<1> DEFINE bits == AddressBits
           size(l) == CanonicalNets!Size(l)
           Fine(d) == \A l \in 0..bits : l + d <= bits =>
                          /\ size(l) % size(l + d) = 0
                          /\ d > 0 => size(l + d) < size(l)
           S == {d \in 0..bits : Fine(d)}
<1>1. /\ bits \in Nat
      /\ \A l \in 0..bits : size(l) \in Nat \ {0}
      /\ \A l \in 0..bits : l < bits => size(l) = 2 * size(l + 1)
  BY SizesDouble, NetsAssumption DEF Sizes
<1> HIDE DEF size, bits
<1>2. 0 \in S
  <2>1. \A l \in 0..bits : size(l) % size(l + 0) = 0
    BY <1>1
  <2> QED BY <1>1, <2>1
<1>3. ASSUME NEW d \in 1..bits, d - 1 \in S
      PROVE  d \in S
  <2> SUFFICES ASSUME NEW l \in 0..bits, l + d <= bits
               PROVE  size(l) % size(l + d) = 0 /\ size(l + d) < size(l)
    BY <1>1
  <2>1. /\ l + 1 \in 0..bits /\ (l + 1) + (d - 1) = l + d /\ l < bits /\ l + d \in 0..bits
        /\ d - 1 \in 0..bits /\ (l + 1) + (d - 1) <= bits
    BY <1>1
  <2>2. size(l + 1) % size(l + d) = 0 /\ (d - 1 > 0 => size(l + d) < size(l + 1))
    BY <1>3, <2>1
  <2>3. /\ size(l) \in Nat \ {0} /\ size(l + 1) \in Nat \ {0} /\ size(l + d) \in Nat \ {0}
        /\ size(l) = 2 * size(l + 1)
    BY <1>1, <2>1
  <2>4. size(l + 1) + size(l + 1) = size(l)
    BY <2>3
  <2>5. size(l) % size(l + d) = 0
    <3>1. (size(l + 1) + size(l + 1)) % size(l + d) = 0
      BY <2>2, <2>3, SumOf
    <3> QED BY <2>4, <3>1
  <2>6. CASE d = 1
    BY <2>3, <2>4, <2>5, <2>6
  <2>7. CASE d # 1
    <3>1. d - 1 > 0
      BY <2>7, <1>1
    <3> QED BY <2>2, <2>3, <2>4, <2>5, <3>1
  <2> QED BY <2>6, <2>7
<1> HIDE DEF S
<1>4. \A d \in 0..bits : d \in S
  BY <1>1, <1>2, <1>3, InductionTo
<1>5. ASSUME NEW a \in 0..bits, NEW b \in 0..bits, a <= b
      PROVE  size(a) % size(b) = 0 /\ (a < b => size(b) < size(a))
  <2>1. b - a \in 0..bits /\ a + (b - a) = b /\ (a < b => b - a > 0) /\ a + (b - a) <= bits
    BY <1>1, <1>5
  <2>2. Fine(b - a)
    BY <1>4, <2>1 DEF S
  <2> QED BY <2>1, <2>2
<1>6. i \in 0..bits /\ j \in 0..bits
  BY DEF bits
<1>7. i <= j => size(i) % size(j) = 0
  BY <1>5, <1>6
<1>8. i < j <=> size(j) < size(i)
  <2>1. size(i) \in Nat /\ size(j) \in Nat
    BY <1>1, <1>6
  <2>2. CASE i < j
    BY <1>5, <1>6, <2>2
  <2>3. CASE i = j
    BY <2>1, <2>3
  <2>4. CASE j < i
    <3>1. size(i) < size(j)
      BY <1>5, <1>6, <2>4
    <3> QED BY <2>1, <2>4, <3>1, <1>6, <1>1
  <2> QED BY <1>1, <1>6, <2>2, <2>3, <2>4
<1> QED BY <1>7, <1>8 DEF size

-----------------------------------------------------------------------------
(* Networks.                                                               *)

\* What is used of a network.
LEMMA NetworkFields ==
    ASSUME NEW n \in CanonicalNets!Networks
    PROVE  /\ n.base \in Nat /\ n.base < CanonicalNets!Size(0) /\ n.len \in 0..AddressBits
           /\ CanonicalNets!Size(n.len) \in Nat \ {0} /\ n.base % CanonicalNets!Size(n.len) = 0
           /\ n = [base |-> n.base, len |-> n.len]
           /\ \A x : x \in CanonicalNets!Block(n) <=>
                  x \in Nat /\ n.base <= x /\ x < n.base + CanonicalNets!Size(n.len)
<1>1. /\ n \in [base : CanonicalNets!Addresses, len : 0..AddressBits]
      /\ n.base % CanonicalNets!Size(n.len) = 0
  BY DEF CanonicalNets!Networks
<1>2. AddressBits \in Nat /\ 0 \in 0..AddressBits
  BY NetsAssumption
<1>3. CanonicalNets!Size(0) \in Nat /\ CanonicalNets!Size(n.len) \in Nat \ {0}
  BY <1>1, <1>2, SizesDouble DEF Sizes
<1>4. n.base \in 0..(CanonicalNets!Size(0) - 1)
  BY <1>1 DEF CanonicalNets!Addresses
<1> QED BY <1>1, <1>3, <1>4 DEF CanonicalNets!Block

LEMMA NetworkOf ==
    ASSUME NEW b \in Nat, NEW l \in 0..AddressBits,
           b % CanonicalNets!Size(l) = 0, b < CanonicalNets!Size(0)
    PROVE  [base |-> b, len |-> l] \in CanonicalNets!Networks
<1>1. AddressBits \in Nat /\ 0 \in 0..AddressBits
  BY NetsAssumption
<1>2. CanonicalNets!Size(0) \in Nat
  BY <1>1, SizesDouble DEF Sizes
<1>3. b \in CanonicalNets!Addresses
  BY <1>2 DEF CanonicalNets!Addresses
<1> QED BY <1>3 DEF CanonicalNets!Networks

\* Two networks that share an address lie in one another.
LEMMA Nested ==
    ASSUME NEW n \in CanonicalNets!Networks, NEW m \in CanonicalNets!Networks, m.len <= n.len,
           NEW x, x \in CanonicalNets!Block(n), x \in CanonicalNets!Block(m)
    PROVE  /\ CanonicalNets!Block(n) \subseteq CanonicalNets!Block(m)
           /\ m.len = n.len => m = n
<1> DEFINE s == CanonicalNets!Size(n.len)
           t == CanonicalNets!Size(m.len)
           a == n.base
           b == m.base
<1>1. /\ a \in Nat /\ b \in Nat /\ s \in Nat \ {0} /\ t \in Nat \ {0}
      /\ a % s = 0 /\ b % t = 0 /\ n.len \in 0..AddressBits /\ m.len \in 0..AddressBits
      /\ n = [base |-> a, len |-> n.len] /\ m = [base |-> b, len |-> m.len]
  BY NetworkFields
<1>2. \A y : y \in CanonicalNets!Block(n) <=> y \in Nat /\ a <= y /\ y < a + s
  BY NetworkFields
<1>3. \A y : y \in CanonicalNets!Block(m) <=> y \in Nat /\ b <= y /\ y < b + t
  BY NetworkFields
<1>4. t % s = 0
  BY <1>1, SizesOrdered
<1> HIDE DEF a, b, s, t
<1>5. b % s = 0 /\ (b + t) % s = 0
  BY <1>1, <1>4, MultipleOf, SumOf
<1>6. x \in Nat /\ a <= x /\ x < a + s /\ b <= x /\ x < b + t
  BY <1>2, <1>3
<1>7. b <= a
  <2>1. a < b => a + s <= b
    BY <1>1, <1>5, StepOf
  <2> QED BY <1>1, <1>6, <2>1
<1>8. a + s <= b + t
  <2>1. a < b + t
    BY <1>1, <1>6
  <2>2. b + t \in Nat
    BY <1>1
  <2> QED BY <1>1, <1>5, <2>1, <2>2, StepOf
<1>9. CanonicalNets!Block(n) \subseteq CanonicalNets!Block(m)
  BY <1>1, <1>2, <1>3, <1>7, <1>8
<1>10. ASSUME m.len = n.len
       PROVE  m = n
  <2>1. s = t
    BY <1>10 DEF s, t
  <2>2. a = b
    BY <1>1, <1>7, <1>8, <2>1
  <2> QED BY <1>1, <1>10, <2>2
<1> QED BY <1>9, <1>10

\* The larger block belongs to the shorter prefix; equal blocks are one network.
LEMMA WithinIsLonger ==
    ASSUME NEW n \in CanonicalNets!Networks, NEW m \in CanonicalNets!Networks,
           CanonicalNets!Block(n) \subseteq CanonicalNets!Block(m)
    PROVE  m.len <= n.len /\ n.base \in CanonicalNets!Block(n)
<1> DEFINE s == CanonicalNets!Size(n.len)
           t == CanonicalNets!Size(m.len)
           a == n.base
           b == m.base
<1>1. /\ a \in Nat /\ b \in Nat /\ s \in Nat \ {0} /\ t \in Nat \ {0}
      /\ n.len \in 0..AddressBits /\ m.len \in 0..AddressBits
  BY NetworkFields
<1>2. \A y : y \in CanonicalNets!Block(n) <=> y \in Nat /\ a <= y /\ y < a + s
  BY NetworkFields
<1>3. \A y : y \in CanonicalNets!Block(m) <=> y \in Nat /\ b <= y /\ y < b + t
  BY NetworkFields
<1>4. n.len < m.len <=> t < s
  BY <1>1, SizesOrdered
<1>5. n.len < m.len \/ m.len <= n.len
  BY <1>1
<1> HIDE DEF a, b, s, t
<1>6. a \in CanonicalNets!Block(n) /\ a + s - 1 \in CanonicalNets!Block(n)
  <2>1. a + s - 1 \in Nat /\ a <= a + s - 1 /\ a + s - 1 < a + s /\ a < a + s
    BY <1>1
  <2> QED BY <1>1, <1>2, <2>1
<1>7. b <= a /\ a + s - 1 < b + t
  BY <1>3, <1>6
<1>8. ~ t < s
  BY <1>1, <1>7
<1> QED BY <1>4, <1>5, <1>6, <1>8 DEF a

\* A network holds its first address and lies in the address space.
LEMMA BlockHasBase ==
    ASSUME NEW n \in CanonicalNets!Networks
    PROVE  n.base \in CanonicalNets!Block(n) /\ CanonicalNets!Block(n) \subseteq CanonicalNets!Addresses
<1> DEFINE s == CanonicalNets!Size(n.len)
           z == CanonicalNets!Size(0)
           a == n.base
<1>1. /\ a \in Nat /\ s \in Nat \ {0} /\ a < z /\ a % s = 0 /\ n.len \in 0..AddressBits
  BY NetworkFields
<1>2. \A y : y \in CanonicalNets!Block(n) <=> y \in Nat /\ a <= y /\ y < a + s
  BY NetworkFields
<1>3. AddressBits \in Nat /\ 0 \in 0..AddressBits /\ 0 <= n.len
  BY <1>1, NetsAssumption
<1>4. z \in Nat \ {0} /\ z % s = 0
  BY <1>1, <1>3, SizesDouble, SizesOrdered DEF Sizes
<1>5. CanonicalNets!Addresses = 0..(z - 1)
  BY DEF CanonicalNets!Addresses
<1> HIDE DEF a, s, z
<1>6. a + s <= z
  BY <1>1, <1>4, StepOf
<1>7. a \in CanonicalNets!Block(n)
  BY <1>1, <1>2
<1>8. CanonicalNets!Block(n) \subseteq CanonicalNets!Addresses
  BY <1>1, <1>2, <1>4, <1>5, <1>6
<1> QED BY <1>7, <1>8 DEF a

\* The network one bit shorter.
LEMMA ParentContains ==
    ASSUME NEW m \in CanonicalNets!Networks, m.len # 0
    PROVE  /\ CanonicalNets!Parent(m) \in CanonicalNets!Networks
           /\ CanonicalNets!Parent(m).len = m.len - 1
           /\ CanonicalNets!Block(m) \subseteq CanonicalNets!Block(CanonicalNets!Parent(m))
<1> DEFINE l == m.len - 1
           t == CanonicalNets!Size(l)
           a == m.base
           b == a - (a % t)
           p == [base |-> b, len |-> l]
<1>1. /\ a \in Nat /\ a < CanonicalNets!Size(0) /\ m.len \in 0..AddressBits
      /\ a \in CanonicalNets!Block(m)
  BY NetworkFields, BlockHasBase
<1>2. l \in 0..AddressBits /\ l <= m.len
  BY <1>1, NetsAssumption
<1>3. t \in Nat \ {0}
  BY <1>2, SizesDouble DEF Sizes
<1>4. CanonicalNets!Size(0) \in Nat
  BY <1>2, NetsAssumption, SizesDouble DEF Sizes
<1> HIDE DEF a, l, t
<1>5. a % t \in 0..(t - 1) /\ a = t * (a \div t) + (a % t) /\ a \div t \in Nat
  BY <1>1, <1>3
<1>6. b = (a \div t) * t /\ b \in Nat /\ b <= a /\ a < b + t
  BY <1>1, <1>3, <1>5
<1>7. b % t = 0
  BY <1>3, <1>5, <1>6, Multiple
<1> HIDE DEF b
<1>8. b < CanonicalNets!Size(0)
  BY <1>1, <1>4, <1>6
<1>9. p \in CanonicalNets!Networks
  BY <1>2, <1>6, <1>7, <1>8, NetworkOf DEF t
<1>10. p.len = l /\ p.base = b
  OBVIOUS
<1>11. a \in CanonicalNets!Block(p)
  <2> HIDE DEF p
  <2>1. a \in CanonicalNets!Block(p) <=> a \in Nat /\ p.base <= a /\ a < p.base + CanonicalNets!Size(p.len)
    BY <1>9, NetworkFields
  <2> QED BY <1>1, <1>6, <1>10, <2>1 DEF t
<1>12. CanonicalNets!Parent(m) = p
  BY DEF CanonicalNets!Parent, a, b, l, t
<1>13. CanonicalNets!Block(m) \subseteq CanonicalNets!Block(p)
  <2> HIDE DEF p
  <2> QED BY <1>1, <1>2, <1>9, <1>10, <1>11, Nested
<1> HIDE DEF p
<1> QED BY <1>9, <1>10, <1>12, <1>13 DEF l

\* The two halves of a network are the networks it is the parent of.
HalvesOf(n, low, high) ==
    /\ {low, high} \subseteq CanonicalNets!Networks
    /\ low.len = n.len + 1 /\ high.len = n.len + 1
    /\ CanonicalNets!Parent(low) = n /\ CanonicalNets!Parent(high) = n
    /\ CanonicalNets!Block(n) = CanonicalNets!Block(low) \cup CanonicalNets!Block(high)
    /\ \A m \in CanonicalNets!Networks :
           m.len = n.len + 1 /\ CanonicalNets!Parent(m) = n => m \in {low, high}

\* A network is the union of its two halves.
LEMMA Halves ==
    ASSUME NEW n \in CanonicalNets!Networks, n.len < AddressBits
    PROVE  \E low, high : HalvesOf(n, low, high)
<1> DEFINE l == n.len + 1
           s == CanonicalNets!Size(l)
           t == CanonicalNets!Size(n.len)
           z == CanonicalNets!Size(0)
           a == n.base
           low == [base |-> a, len |-> l]
           high == [base |-> a + s, len |-> l]
<1>1. /\ a \in Nat /\ a < z /\ t \in Nat \ {0} /\ a % t = 0 /\ n.len \in 0..AddressBits
  BY NetworkFields
<1>2. \A y : y \in CanonicalNets!Block(n) <=> y \in Nat /\ a <= y /\ y < a + t
  BY NetworkFields
<1>3. /\ l \in 0..AddressBits /\ n.len <= l /\ l # 0 /\ l - 1 = n.len
      /\ 0 \in 0..AddressBits /\ 0 <= n.len /\ AddressBits \in Nat
  BY <1>1, NetsAssumption
<1>4. s \in Nat \ {0} /\ z \in Nat \ {0} /\ t = 2 * s /\ t % s = 0 /\ z % t = 0
  BY <1>1, <1>3, SizesDouble, SizesOrdered DEF Sizes
<1> HIDE DEF a, l, s, t, z
<1>5. a + s < z
  <2>1. a + t <= z
    BY <1>1, <1>4, StepOf
  <2> QED BY <1>1, <1>4, <2>1
<1>6. a % s = 0 /\ (a + s) % s = 0 /\ a + s \in Nat
  <2>1. s % s = 0
    BY <1>4
  <2>2. a % s = 0
    BY <1>1, <1>4, MultipleOf
  <2>3. s \in Nat /\ a + s \in Nat
    BY <1>1, <1>4
  <2>4. (a + s) % s = 0
    BY <1>1, <1>4, <2>1, <2>2, <2>3, SumOf
  <2> QED BY <2>2, <2>3, <2>4
<1>7. low \in CanonicalNets!Networks /\ high \in CanonicalNets!Networks
  BY <1>1, <1>3, <1>5, <1>6, NetworkOf DEF s, z
<1>8. low.len = l /\ high.len = l /\ low.base = a /\ high.base = a + s
  OBVIOUS
<1> HIDE DEF low, high
<1>9. \A y : y \in CanonicalNets!Block(low) <=> y \in Nat /\ a <= y /\ y < a + s
  BY <1>7, <1>8, NetworkFields DEF s
<1>10. \A y : y \in CanonicalNets!Block(high) <=> y \in Nat /\ a + s <= y /\ y < a + s + s
  BY <1>7, <1>8, NetworkFields DEF s
<1>11. CanonicalNets!Block(n) = CanonicalNets!Block(low) \cup CanonicalNets!Block(high)
  <2>1. \A y : y \in CanonicalNets!Block(n) <=> y \in CanonicalNets!Block(low) \/ y \in CanonicalNets!Block(high)
    <3>1. \A y \in Nat : a <= y /\ y < a + t <=> (a <= y /\ y < a + s) \/ (a + s <= y /\ y < a + s + s)
      BY <1>1, <1>4
    <3> QED BY <1>2, <1>9, <1>10, <3>1
  <2> QED BY <2>1
<1>12. ASSUME NEW h \in CanonicalNets!Networks, h.len = l, h.base \in CanonicalNets!Block(n)
       PROVE  CanonicalNets!Parent(h) = n
  <2>1. /\ CanonicalNets!Parent(h) \in CanonicalNets!Networks
        /\ CanonicalNets!Parent(h).len = n.len
        /\ CanonicalNets!Block(h) \subseteq CanonicalNets!Block(CanonicalNets!Parent(h))
    BY <1>3, <1>12, ParentContains
  <2>2. h.base \in CanonicalNets!Block(h)
    BY BlockHasBase
  <2>3. n.len <= n.len
    BY <1>1
  <2> QED BY <1>12, <2>1, <2>2, <2>3, Nested
<1>13. CanonicalNets!Parent(low) = n /\ CanonicalNets!Parent(high) = n
  <2>1. low.base \in CanonicalNets!Block(low) /\ high.base \in CanonicalNets!Block(high)
    BY <1>7, BlockHasBase
  <2> QED BY <1>7, <1>8, <1>11, <1>12, <2>1
<1>14. ASSUME NEW m \in CanonicalNets!Networks, m.len = l, CanonicalNets!Parent(m) = n
       PROVE  m \in {low, high}
  <2>1. m.base \in CanonicalNets!Block(m) /\ m.base \in CanonicalNets!Block(n)
    BY <1>3, <1>14, BlockHasBase, ParentContains
  <2>2. l <= l
    BY <1>3
  <2>3. CASE m.base \in CanonicalNets!Block(low)
    BY <1>7, <1>8, <1>14, <2>1, <2>2, <2>3, Nested
  <2>4. CASE m.base \in CanonicalNets!Block(high)
    BY <1>7, <1>8, <1>14, <2>1, <2>2, <2>4, Nested
  <2> QED BY <1>11, <2>1, <2>3, <2>4
<1>15. HalvesOf(n, low, high)
  BY <1>7, <1>8, <1>11, <1>13, <1>14 DEF HalvesOf, l
<1> QED BY <1>15

-----------------------------------------------------------------------------
(* Collapsing keeps the cover and leaves its largest networks.             *)

Inside(n, A) == n \in CanonicalNets!Networks /\ CanonicalNets!Block(n) \subseteq A
InOne(n, nets) == \E e \in nets : CanonicalNets!Block(n) \subseteq CanonicalNets!Block(e)

\* A set of networks with the cover A that has every network of A from a
\* length on, or a larger one.
Folded(nets, A, len) ==
    /\ nets \subseteq CanonicalNets!Networks
    /\ CanonicalNets!Cover(nets) = A
    /\ \A n : Inside(n, A) /\ len <= n.len => InOne(n, nets)

LEMMA CoverOf ==
    ASSUME NEW nets, NEW x
    PROVE  x \in CanonicalNets!Cover(nets) <=> \E n \in nets : x \in CanonicalNets!Block(n)
  BY DEF CanonicalNets!Cover

\* Before anything is joined.
LEMMA FoldedAtFirst ==
    ASSUME NEW nets, nets \subseteq CanonicalNets!Networks
    PROVE  Folded(nets, CanonicalNets!Cover(nets), AddressBits)
<1> SUFFICES ASSUME NEW n, Inside(n, CanonicalNets!Cover(nets)), AddressBits <= n.len
             PROVE  InOne(n, nets)
  BY DEF Folded
<1>1. n \in CanonicalNets!Networks /\ CanonicalNets!Block(n) \subseteq CanonicalNets!Cover(nets)
  BY DEF Inside
<1>2. n.base \in CanonicalNets!Block(n) /\ n.len \in 0..AddressBits
  BY <1>1, BlockHasBase, NetworkFields
<1>3. PICK e \in nets : n.base \in CanonicalNets!Block(e)
  BY <1>1, <1>2, CoverOf
<1>4. e.len \in 0..AddressBits /\ e \in CanonicalNets!Networks
  BY <1>3, NetworkFields
<1>5. e.len <= n.len
  BY <1>2, <1>4, NetsAssumption
<1> QED BY <1>1, <1>2, <1>3, <1>4, <1>5, Nested DEF InOne

\* Joining siblings into networks of one length.
LEMMA JoinedFolds ==
    ASSUME NEW nets, NEW A, NEW len \in 0..AddressBits, len < AddressBits,
           Folded(nets, A, len + 1)
    PROVE  Folded(CanonicalNets!Joined(nets, len), A, len)
<1> DEFINE wholes == CanonicalNets!Wholes(nets, len)
           joined == CanonicalNets!Joined(nets, len)
<1>1. /\ nets \subseteq CanonicalNets!Networks
      /\ CanonicalNets!Cover(nets) = A
      /\ \A n : Inside(n, A) /\ len + 1 <= n.len => InOne(n, nets)
  BY DEF Folded
<1>2. \A n : n \in wholes <=> /\ n \in CanonicalNets!Networks /\ n.len = len
                              /\ \E m \in nets : /\ m.len = len + 1 /\ CanonicalNets!Parent(m) = n
                                                 /\ CanonicalNets!Siblings(m) \subseteq nets
  BY DEF CanonicalNets!Wholes
<1>3. \A n : n \in joined <=> n \in wholes \/ (n \in nets /\ (n.len # len + 1 \/ CanonicalNets!Parent(n) \notin wholes))
  BY DEF CanonicalNets!Joined
<1>4. AddressBits \in Nat /\ len \in Nat
  BY NetsAssumption
<1> HIDE DEF wholes, joined
\* A whole's halves were there.
<1>5. ASSUME NEW n \in wholes, NEW low, NEW high, HalvesOf(n, low, high)
      PROVE  low \in nets /\ high \in nets
  <2>1. PICK m \in nets : /\ m.len = len + 1 /\ CanonicalNets!Parent(m) = n
                          /\ CanonicalNets!Siblings(m) \subseteq nets
    BY <1>2
  <2>2. n.len = len
    BY <1>2
  <2>3. low \in CanonicalNets!Siblings(m) /\ high \in CanonicalNets!Siblings(m)
    BY <1>5, <2>1, <2>2 DEF HalvesOf, CanonicalNets!Siblings
  <2> QED BY <2>1, <2>3
<1>6. ASSUME NEW n \in wholes
      PROVE  Inside(n, A)
  <2>1. n \in CanonicalNets!Networks /\ n.len < AddressBits
    BY <1>2
  <2>2. PICK low, high : HalvesOf(n, low, high)
    BY <2>1, Halves
  <2>3. low \in nets /\ high \in nets
    BY <1>5, <2>2
  <2>4. \A x \in CanonicalNets!Block(n) : x \in CanonicalNets!Block(low) \/ x \in CanonicalNets!Block(high)
    BY <2>2 DEF HalvesOf
  <2> QED BY <1>1, <2>1, <2>3, <2>4, CoverOf DEF Inside
<1>7. joined \subseteq CanonicalNets!Networks
  BY <1>1, <1>2, <1>3
\* What was there lies in what is there now.
<1>8. ASSUME NEW m \in nets
      PROVE  InOne(m, joined)
  <2>1. CASE m \in joined
    BY <2>1 DEF InOne
  <2>2. CASE m \notin joined
    <3>1. m.len = len + 1 /\ CanonicalNets!Parent(m) \in wholes
      BY <1>3, <2>2
    <3>2. m.len # 0
      BY <1>4, <3>1
    <3>3. CanonicalNets!Block(m) \subseteq CanonicalNets!Block(CanonicalNets!Parent(m))
      BY <1>1, <3>2, ParentContains
    <3> QED BY <1>3, <3>1, <3>3 DEF InOne
  <2> QED BY <2>1, <2>2
<1>9. CanonicalNets!Cover(joined) = A
  <2>1. ASSUME NEW x \in A
        PROVE  x \in CanonicalNets!Cover(joined)
    <3>1. PICK m \in nets : x \in CanonicalNets!Block(m)
      BY <1>1, <2>1, CoverOf
    <3>2. PICK e \in joined : CanonicalNets!Block(m) \subseteq CanonicalNets!Block(e)
      BY <1>8 DEF InOne
    <3> QED BY <3>1, <3>2, CoverOf
  <2>2. ASSUME NEW x \in CanonicalNets!Cover(joined)
        PROVE  x \in A
    <3>1. PICK m \in joined : x \in CanonicalNets!Block(m)
      BY <2>2, CoverOf
    <3>2. CASE m \in wholes
      BY <1>6, <3>1, <3>2 DEF Inside
    <3>3. CASE m \in nets
      BY <1>1, <3>1, <3>3, CoverOf
    <3> QED BY <1>3, <3>2, <3>3
  <2> QED BY <2>1, <2>2
<1>10. ASSUME NEW n, Inside(n, A), len <= n.len
       PROVE  InOne(n, joined)
  <2>1. n \in CanonicalNets!Networks /\ n.len \in 0..AddressBits /\ CanonicalNets!Block(n) \subseteq A
    BY <1>10, NetworkFields DEF Inside
  <2>2. ASSUME NEW m, InOne(m, nets), CanonicalNets!Block(n) \subseteq CanonicalNets!Block(m)
        PROVE  InOne(n, joined)
    <3>1. PICK e \in nets : CanonicalNets!Block(m) \subseteq CanonicalNets!Block(e)
      BY <2>2 DEF InOne
    <3>2. PICK d \in joined : CanonicalNets!Block(e) \subseteq CanonicalNets!Block(d)
      BY <1>8 DEF InOne
    <3> QED BY <2>2, <3>1, <3>2 DEF InOne
  <2>3. CASE len + 1 <= n.len
    BY <1>1, <1>10, <2>2, <2>3
  <2>4. CASE n.len = len
    <3>1. PICK low, high : HalvesOf(n, low, high)
      BY <2>1, <2>4, Halves
    <3>2. /\ low \in CanonicalNets!Networks /\ high \in CanonicalNets!Networks
          /\ low.len = len + 1 /\ high.len = len + 1
          /\ CanonicalNets!Parent(low) = n /\ CanonicalNets!Parent(high) = n
          /\ CanonicalNets!Block(n) = CanonicalNets!Block(low) \cup CanonicalNets!Block(high)
      BY <2>4, <3>1 DEF HalvesOf
    <3>3. ASSUME NEW h \in {low, high}
          PROVE  h \in nets \/ InOne(n, joined)
      <4>1. h \in CanonicalNets!Networks /\ h.len = len + 1 /\ CanonicalNets!Block(h) \subseteq CanonicalNets!Block(n)
        BY <3>2
      <4>2. len + 1 <= h.len /\ Inside(h, A)
        BY <1>4, <2>1, <4>1 DEF Inside
      <4>3. PICK e \in nets : CanonicalNets!Block(h) \subseteq CanonicalNets!Block(e)
        BY <1>1, <4>2 DEF InOne
      <4>4. e \in CanonicalNets!Networks /\ e.len \in 0..AddressBits
        BY <1>1, NetworkFields
      <4>5. e.len <= h.len /\ h.base \in CanonicalNets!Block(h)
        BY <4>1, <4>3, <4>4, WithinIsLonger
      <4>6. CASE e.len = len + 1
        <5>1. e = h
          BY <4>1, <4>3, <4>4, <4>5, <4>6, Nested
        <5> QED BY <5>1
      <4>7. CASE e.len <= len
        <5>1. h.base \in CanonicalNets!Block(n) /\ h.base \in CanonicalNets!Block(e)
          BY <4>1, <4>3, <4>5
        <5>2. CanonicalNets!Block(n) \subseteq CanonicalNets!Block(e)
          BY <2>1, <2>4, <4>4, <4>7, <5>1, Nested
        <5>3. InOne(e, nets)
          BY DEF InOne
        <5> QED BY <2>2, <5>2, <5>3
      <4> QED BY <1>4, <4>1, <4>4, <4>5, <4>6, <4>7
    <3>4. CASE low \in nets /\ high \in nets
      <4>1. CanonicalNets!Siblings(low) \subseteq {low, high}
        <5>1. ASSUME NEW m \in CanonicalNets!Siblings(low)
              PROVE  m \in {low, high}
          <6>1. m \in CanonicalNets!Networks /\ m.len = n.len + 1 /\ CanonicalNets!Parent(m) = n
            BY <2>4, <3>2, <5>1 DEF CanonicalNets!Siblings
          <6> QED BY <3>1, <6>1 DEF HalvesOf
        <5> QED BY <5>1
      <4>2. n \in wholes
        BY <1>2, <2>1, <2>4, <3>2, <3>4, <4>1
      <4> QED BY <1>3, <4>2 DEF InOne
    <3> QED BY <3>3, <3>4
  <2> QED BY <1>4, <1>10, <2>1, <2>3, <2>4
<1> QED BY <1>7, <1>9, <1>10 DEF Folded, joined

\* The whole merge.
LEMMA MergedFolds ==
    ASSUME NEW nets, nets \subseteq CanonicalNets!Networks
    PROVE  Folded(CanonicalNets!Merged(nets), CanonicalNets!Cover(nets), 0)
<1> DEFINE bits == AddressBits
           A == CanonicalNets!Cover(nets)
           joined(some, len) == CanonicalNets!Joined(some, len)
           body(f) == [len \in 0..bits |-> IF len = bits THEN nets ELSE joined(f[len + 1], len)]
           folded == CHOOSE f : f = body(f)
           V == SUBSET CanonicalNets!Networks
           step == [n \in 1..bits |-> [some \in V |-> joined(some, bits - n)]]
<1>1. bits \in Nat
  BY NetsAssumption
<1>2. CanonicalNets!Merged(nets) = folded[0]
  BY DEF CanonicalNets!Merged
<1>3. step \in [1..bits -> [V -> V]]
  <2>1. ASSUME NEW some \in V, NEW len
        PROVE  joined(some, len) \in V
    BY <2>1 DEF CanonicalNets!Joined, CanonicalNets!Wholes
  <2> HIDE DEF V, joined
  <2> QED BY <2>1
<1> HIDE DEF step, joined
<1>4. nets \in V
  OBVIOUS
<1> HIDE DEF V
<1>5. PICK g : Recursive(g, bits, V, nets, step)
  BY <1>1, <1>3, <1>4, RecursionTo
<1>6. /\ g \in [0..bits -> V] /\ g[0] = nets
      /\ \A n \in 1..bits : g[n] = joined(g[n - 1], bits - n)
  <2>1. g \in [0..bits -> V] /\ g[0] = nets /\ \A n \in 1..bits : g[n] = step[n][g[n - 1]]
    BY <1>5 DEF Recursive
  <2>2. ASSUME NEW n \in 1..bits
        PROVE  g[n] = joined(g[n - 1], bits - n)
    <3>1. n - 1 \in 0..bits
      BY <1>1
    <3>2. g[n - 1] \in V
      BY <2>1, <3>1
    <3> QED BY <2>1, <3>2 DEF step
  <2> QED BY <2>1, <2>2
<1> DEFINE f == [len \in 0..bits |-> g[bits - len]]
<1>7. f = body(f)
  <2>1. ASSUME NEW len \in 0..bits
        PROVE  f[len] = IF len = bits THEN nets ELSE joined(f[len + 1], len)
    <3>1. CASE len = bits
      BY <1>1, <1>6, <3>1
    <3>2. CASE len # bits
      <4>1. /\ bits - len \in 1..bits /\ bits - (bits - len) = len /\ len + 1 \in 0..bits
            /\ bits - (len + 1) = (bits - len) - 1
        BY <1>1, <3>2
      <4>2. f[len] = g[bits - len] /\ f[len + 1] = g[(bits - len) - 1]
        BY <4>1
      <4>3. g[bits - len] = joined(g[(bits - len) - 1], bits - (bits - len))
        BY <1>6, <4>1
      <4> HIDE DEF f
      <4> QED BY <3>2, <4>1, <4>2, <4>3
    <3> QED BY <3>1, <3>2
  <2>2. DOMAIN f = 0..bits /\ f = [len \in 0..bits |-> f[len]]
    OBVIOUS
  <2> HIDE DEF f
  <2> QED BY <2>1, <2>2
<1> HIDE DEF body, f
<1>8. folded = body(folded)
  BY <1>7
<1> HIDE DEF folded
<1>9. \A len \in 0..bits : folded[len] = IF len = bits THEN nets ELSE joined(folded[len + 1], len)
  <2>1. folded = [len \in 0..bits |-> IF len = bits THEN nets ELSE joined(folded[len + 1], len)]
    BY <1>8 DEF body
  <2> QED BY <2>1
<1> DEFINE S == {n \in 0..bits : Folded(folded[bits - n], A, bits - n)}
<1>10. 0 \in S
  <2>1. Folded(nets, A, AddressBits)
    BY FoldedAtFirst
  <2>2. bits \in 0..bits /\ bits - 0 = bits /\ 0 \in 0..bits /\ bits = AddressBits
    BY <1>1
  <2>3. folded[bits] = nets
    BY <1>9, <2>2
  <2> HIDE DEF A, bits
  <2> QED BY <2>1, <2>2, <2>3
<1>11. ASSUME NEW n \in 1..bits, n - 1 \in S
       PROVE  n \in S
  <2>1. /\ bits - n \in 0..bits /\ bits - n # bits /\ bits - (n - 1) = (bits - n) + 1 /\ n \in 0..bits
        /\ bits - n < bits
    BY <1>1
  <2>2. Folded(folded[(bits - n) + 1], A, (bits - n) + 1)
    BY <1>11, <2>1
  <2>3. folded[bits - n] = joined(folded[(bits - n) + 1], bits - n)
    BY <1>9, <2>1
  <2>4. bits = AddressBits
    OBVIOUS
  <2> HIDE DEF A, bits
  <2>5. Folded(joined(folded[(bits - n) + 1], bits - n), A, bits - n)
    BY <2>1, <2>2, <2>4, JoinedFolds DEF joined
  <2> QED BY <2>1, <2>3, <2>5
<1> HIDE DEF S
<1>12. \A n \in 0..bits : n \in S
  BY <1>1, <1>10, <1>11, InductionTo
<1>13. bits \in 0..bits /\ bits - bits = 0
  BY <1>1
<1>14. Folded(folded[0], A, 0)
  <2>1. bits \in S
    BY <1>12, <1>13
  <2> HIDE DEF A, bits
  <2> QED BY <1>13, <2>1 DEF S
<1> QED BY <1>2, <1>14

\* The networks inside a set of addresses that lie in no other.
Maximal(A) == CanonicalNets!Largest({n \in CanonicalNets!Networks : CanonicalNets!Block(n) \subseteq A})

LEMMA InLargest ==
    ASSUME NEW nets, NEW n
    PROVE  n \in CanonicalNets!Largest(nets) <=>
               /\ n \in nets
               /\ \A m \in nets : CanonicalNets!Block(n) \subseteq CanonicalNets!Block(m) => m = n
  BY DEF CanonicalNets!Largest

\* What is left are the largest networks inside the addresses.
LEMMA FoldedIsMaximal ==
    ASSUME NEW nets, NEW A, Folded(nets, A, 0)
    PROVE  CanonicalNets!Largest(nets) = Maximal(A)
<1>1. /\ nets \subseteq CanonicalNets!Networks
      /\ \A n \in nets : CanonicalNets!Block(n) \subseteq A
      /\ \A n : Inside(n, A) => InOne(n, nets)
  <2>1. \A n : Inside(n, A) => 0 <= n.len
    BY NetworkFields DEF Inside
  <2> QED BY <2>1, CoverOf DEF Folded
<1> DEFINE within == {n \in CanonicalNets!Networks : CanonicalNets!Block(n) \subseteq A}
<1>2. \A n : n \in within <=> Inside(n, A)
  BY DEF Inside
<1>3. Maximal(A) = CanonicalNets!Largest(within)
  BY DEF Maximal
<1> HIDE DEF within
<1>4. nets \subseteq within
  BY <1>1, <1>2 DEF Inside
<1>5. ASSUME NEW n \in CanonicalNets!Largest(nets), NEW m \in within,
             CanonicalNets!Block(n) \subseteq CanonicalNets!Block(m)
      PROVE  m = n
  <2>1. n \in nets /\ \A e \in nets : CanonicalNets!Block(n) \subseteq CanonicalNets!Block(e) => e = n
    BY InLargest
  <2>2. PICK e \in nets : CanonicalNets!Block(m) \subseteq CanonicalNets!Block(e)
    BY <1>1, <1>2 DEF InOne
  <2>3. e = n
    BY <1>5, <2>1, <2>2
  <2>4. n \in CanonicalNets!Networks /\ m \in CanonicalNets!Networks
    BY <1>1, <1>2, <2>1 DEF Inside
  <2>5. n.len <= m.len /\ m.len <= n.len /\ n.base \in CanonicalNets!Block(n) /\ n.base \in CanonicalNets!Block(m)
    BY <1>5, <2>2, <2>3, <2>4, WithinIsLonger
  <2>6. n.len \in Nat /\ m.len \in Nat
    BY <2>4, NetworkFields
  <2> QED BY <2>4, <2>5, <2>6, Nested
<1>6. ASSUME NEW n \in CanonicalNets!Largest(nets)
      PROVE  n \in CanonicalNets!Largest(within)
  BY <1>4, <1>5, InLargest
<1>7. ASSUME NEW n \in CanonicalNets!Largest(within)
      PROVE  n \in CanonicalNets!Largest(nets)
  <2>1. n \in within /\ \A m \in within : CanonicalNets!Block(n) \subseteq CanonicalNets!Block(m) => m = n
    BY InLargest
  <2>2. PICK e \in nets : CanonicalNets!Block(n) \subseteq CanonicalNets!Block(e)
    BY <1>1, <1>2, <2>1 DEF InOne
  <2>3. e = n
    BY <1>4, <2>1, <2>2
  <2> QED BY <1>4, <2>1, <2>2, <2>3, InLargest
<1> QED BY <1>3, <1>6, <1>7

\* The maximal networks inside a cover cover it.
LEMMA MaximalCovers ==
    ASSUME NEW A, NEW nets, nets \subseteq CanonicalNets!Networks, A = CanonicalNets!Cover(nets)
    PROVE  CanonicalNets!Cover(Maximal(A)) = A
<1>1. ASSUME NEW x \in A
      PROVE  x \in CanonicalNets!Cover(Maximal(A))
  <2> DEFINE Lens == {l \in 0..AddressBits : \E n : Inside(n, A) /\ x \in CanonicalNets!Block(n) /\ n.len = l}
  <2>1. AddressBits \in Nat
    BY NetsAssumption
  <2>2. Lens # {}
    <3>1. PICK n \in nets : x \in CanonicalNets!Block(n)
      BY <1>1, CoverOf
    <3>2. Inside(n, A) /\ n.len \in 0..AddressBits
      BY <3>1, CoverOf, NetworkFields DEF Inside
    <3> QED BY <3>1, <3>2
  <2>3. PICK l \in Lens : \A k \in Lens : l <= k
    <3>1. Lens \subseteq Nat
      OBVIOUS
    <3> HIDE DEF Lens
    <3>2. PICK l \in Lens : \A k \in Lens : <<k, l>> \notin OpToRel(<, Nat)
      BY <2>2, <3>1, NatLessThanWellFounded, WFMin, Zenon
    <3>3. \A k \in Lens : ~(k < l)
      BY <3>1, <3>2 DEF OpToRel
    <3> QED BY <3>1, <3>3
  <2>4. PICK n : Inside(n, A) /\ x \in CanonicalNets!Block(n) /\ n.len = l
    OBVIOUS
  <2>5. n \in CanonicalNets!Networks /\ CanonicalNets!Block(n) \subseteq A /\ n.len \in 0..AddressBits
    BY <2>4, NetworkFields DEF Inside
  <2>6. ASSUME NEW m \in CanonicalNets!Networks, CanonicalNets!Block(m) \subseteq A,
               CanonicalNets!Block(n) \subseteq CanonicalNets!Block(m)
        PROVE  m = n
    <3>1. m.len \in 0..AddressBits /\ m.len <= n.len
      BY <2>5, <2>6, NetworkFields, WithinIsLonger
    <3>2. x \in CanonicalNets!Block(m)
      BY <2>4, <2>6
    <3>3. m.len \in Lens
      BY <2>6, <3>1, <3>2 DEF Inside
    <3> HIDE DEF Lens
    <3>4. m.len = n.len
      BY <2>3, <2>4, <2>5, <3>1, <3>3
    <3> QED BY <2>4, <2>5, <3>1, <3>2, <3>4, Nested
  <2>7. n \in Maximal(A)
    BY <2>5, <2>6, InLargest DEF Maximal
  <2> QED BY <2>4, <2>7, CoverOf
<1>2. ASSUME NEW x \in CanonicalNets!Cover(Maximal(A))
      PROVE  x \in A
  <2>1. PICK n \in Maximal(A) : x \in CanonicalNets!Block(n)
    BY <1>2, CoverOf
  <2> QED BY <2>1, InLargest DEF Maximal
<1> QED BY <1>1, <1>2

\* Collapsed networks are the maximal ones of the cover: the cover decides them
\* and they decide the cover.
LEMMA CollapsedDecides ==
    ASSUME NEW nets, nets \subseteq CanonicalNets!Networks,
           NEW other, other \subseteq CanonicalNets!Networks
    PROVE  CanonicalNets!Collapsed(nets) = CanonicalNets!Collapsed(other)
               <=> CanonicalNets!Cover(nets) = CanonicalNets!Cover(other)
<1>1. CanonicalNets!Collapsed(nets) = Maximal(CanonicalNets!Cover(nets))
  BY MergedFolds, FoldedIsMaximal DEF CanonicalNets!Collapsed
<1>2. CanonicalNets!Collapsed(other) = Maximal(CanonicalNets!Cover(other))
  BY MergedFolds, FoldedIsMaximal DEF CanonicalNets!Collapsed
<1>3. /\ CanonicalNets!Cover(Maximal(CanonicalNets!Cover(nets))) = CanonicalNets!Cover(nets)
      /\ CanonicalNets!Cover(Maximal(CanonicalNets!Cover(other))) = CanonicalNets!Cover(other)
  BY MaximalCovers
<1> QED BY <1>1, <1>2, <1>3

-----------------------------------------------------------------------------
(* Rows and elements.                                                      *)

\* A range is covered by the largest networks in it.
LEMMA SummarizedCovers ==
    ASSUME NEW a \in CanonicalNets!Addresses, NEW b \in CanonicalNets!Addresses
    PROVE  /\ CanonicalNets!Summarized(a, b) \subseteq CanonicalNets!Networks
           /\ CanonicalNets!Cover(CanonicalNets!Summarized(a, b)) = a..b
<1> DEFINE A == a..b
           single(x) == [base |-> x, len |-> AddressBits]
           nets == {single(x) : x \in A}
<1>1. AddressBits \in Nat /\ CanonicalNets!Size(0) \in Nat /\ CanonicalNets!Size(AddressBits) = 1
  BY NetsAssumption, SizesDouble DEF Sizes
<1>2. A \subseteq Nat /\ \A x \in A : x < CanonicalNets!Size(0)
  BY <1>1 DEF CanonicalNets!Addresses
<1>3. ASSUME NEW x \in A
      PROVE  single(x) \in CanonicalNets!Networks /\ CanonicalNets!Block(single(x)) = {x}
  <2>1. x \in Nat /\ x % CanonicalNets!Size(AddressBits) = 0
    BY <1>1, <1>2
  <2>2. single(x) \in CanonicalNets!Networks
    BY <1>1, <1>2, <2>1, NetworkOf
  <2>3. single(x).base = x /\ single(x).len = AddressBits
    OBVIOUS
  <2> HIDE DEF single
  <2>4. \A y : y \in CanonicalNets!Block(single(x)) <=> y \in Nat /\ x <= y /\ y < x + 1
    BY <1>1, <2>2, <2>3, NetworkFields
  <2>5. \A y : y \in CanonicalNets!Block(single(x)) <=> y = x
    BY <2>1, <2>4
  <2> QED BY <2>2, <2>5
<1> HIDE DEF single
<1>4. nets \subseteq CanonicalNets!Networks
  BY <1>3
<1>5. A = CanonicalNets!Cover(nets)
  <2>1. ASSUME NEW x
        PROVE  x \in A <=> x \in CanonicalNets!Cover(nets)
    <3>1. x \in A => single(x) \in nets /\ x \in CanonicalNets!Block(single(x))
      BY <1>3
    <3>2. ASSUME NEW n \in nets, x \in CanonicalNets!Block(n)
          PROVE  x \in A
      BY <1>3, <3>2
    <3> HIDE DEF nets, A
    <3> QED BY <3>1, <3>2, CoverOf
  <2> QED BY <2>1
<1>6. CanonicalNets!Summarized(a, b) = Maximal(A)
  BY DEF CanonicalNets!Summarized, Maximal
<1> HIDE DEF nets, A
<1>7. Maximal(A) \subseteq CanonicalNets!Networks
  BY InLargest DEF Maximal
<1> QED BY <1>4, <1>5, <1>6, <1>7, MaximalCovers DEF A

\* What an element stands for.
Span(e) == e.a .. (IF e.kind = "range" THEN e.b ELSE e.a + CanonicalNets!Size(e.b) - 1)

LEMMA ElementCovers ==
    ASSUME NEW set \in KernelSets, NEW e \in set, CanonicalNets!ElementValid(e)
    PROVE  /\ CanonicalNets!ElementNets(e) \subseteq CanonicalNets!Networks
           /\ CanonicalNets!Cover(CanonicalNets!ElementNets(e)) = Span(e)
<1>1. \/ e \in [kind : {"prefix"}, a : CanonicalNets!Addresses, b : 0..AddressBits]
      \/ e \in [kind : {"range"}, a : CanonicalNets!Addresses, b : CanonicalNets!Addresses]
  BY NetsAssumption
<1>2. CASE e.kind = "range"
  <2>1. e.a \in CanonicalNets!Addresses /\ e.b \in CanonicalNets!Addresses
    BY <1>1, <1>2
  <2>2. CanonicalNets!ElementNets(e) = CanonicalNets!Summarized(e.a, e.b) /\ Span(e) = e.a .. e.b
    BY <1>2 DEF CanonicalNets!ElementNets, Span
  <2> QED BY <2>1, <2>2, SummarizedCovers
<1>3. CASE e.kind # "range"
  <2> DEFINE n == [base |-> e.a, len |-> e.b]
  <2>1. e.a \in CanonicalNets!Addresses /\ e.b \in 0..AddressBits
    BY <1>1, <1>3
  <2>2. e.a % CanonicalNets!Size(e.b) = 0
    BY <1>3 DEF CanonicalNets!ElementValid
  <2>3. n \in CanonicalNets!Networks
    BY <2>1, <2>2 DEF CanonicalNets!Networks
  <2>4. CanonicalNets!ElementNets(e) = {n} /\ Span(e) = e.a .. (e.a + CanonicalNets!Size(e.b) - 1)
    BY <1>3 DEF CanonicalNets!ElementNets, Span
  <2>5. CanonicalNets!Cover({n}) = CanonicalNets!Block(n)
    BY DEF CanonicalNets!Cover
  <2>6. CanonicalNets!Block(n) = e.a .. (e.a + CanonicalNets!Size(e.b) - 1)
    BY DEF CanonicalNets!Block
  <2> HIDE DEF n
  <2> QED BY <2>3, <2>4, <2>5, <2>6
<1> QED BY <1>2, <1>3

\* The networks of a kernel set cover what its elements span.
LEMMA ElementsCover ==
    ASSUME NEW set \in KernelSets, \A e \in set : CanonicalNets!ElementValid(e)
    PROVE  LET nets == UNION {CanonicalNets!ElementNets(e) : e \in set}
           IN  nets \subseteq CanonicalNets!Networks /\ CanonicalNets!Cover(nets) = UNION {Span(e) : e \in set}
<1> DEFINE nets == UNION {CanonicalNets!ElementNets(e) : e \in set}
<1>1. \A e \in set : /\ CanonicalNets!ElementNets(e) \subseteq CanonicalNets!Networks
                     /\ CanonicalNets!Cover(CanonicalNets!ElementNets(e)) = Span(e)
  BY ElementCovers
<1>2. nets \subseteq CanonicalNets!Networks
  BY <1>1
<1>3. ASSUME NEW x
      PROVE  x \in CanonicalNets!Cover(nets) <=> \E e \in set : x \in Span(e)
  <2>1. x \in CanonicalNets!Cover(nets) <=> \E n \in nets : x \in CanonicalNets!Block(n)
    BY CoverOf
  <2>2. \A n : n \in nets <=> \E e \in set : n \in CanonicalNets!ElementNets(e)
    OBVIOUS
  <2>3. \A e : x \in CanonicalNets!Cover(CanonicalNets!ElementNets(e))
               <=> \E n \in CanonicalNets!ElementNets(e) : x \in CanonicalNets!Block(n)
    BY CoverOf
  <2> HIDE DEF nets
  <2> QED BY <1>1, <2>1, <2>2, <2>3
<1>4. CanonicalNets!Cover(nets) = UNION {Span(e) : e \in set}
  <2> HIDE DEF nets
  <2> QED BY <1>3
<1> QED BY <1>2, <1>4

\* The networks of a table cover its rows.
LEMMA RowsCover ==
    ASSUME NEW table \in Tables, \A row \in table : CanonicalNets!RowValid(row)
    PROVE  LET nets == {[base |-> row.start, len |-> row.len] : row \in table}
           IN  nets \subseteq CanonicalNets!Networks
               /\ CanonicalNets!Cover(nets) = UNION {row.start .. row.end : row \in table}
<1> DEFINE net(row) == [base |-> row.start, len |-> row.len]
           nets == {net(row) : row \in table}
<1>1. ASSUME NEW row \in table
      PROVE  net(row) \in CanonicalNets!Networks /\ CanonicalNets!Block(net(row)) = row.start .. row.end
  <2>1. row \in [start : CanonicalNets!Addresses, end : Nat, len : 0..AddressBits]
    BY NetsAssumption
  <2>2. /\ row.start % CanonicalNets!Size(row.len) = 0
        /\ row.end = row.start + CanonicalNets!Size(row.len) - 1
    BY DEF CanonicalNets!RowValid
  <2> QED BY <2>1, <2>2 DEF CanonicalNets!Networks, CanonicalNets!Block
<1> HIDE DEF net
<1>2. nets \subseteq CanonicalNets!Networks
  BY <1>1
<1>3. CanonicalNets!Cover(nets) = UNION {row.start .. row.end : row \in table}
  <2>1. ASSUME NEW x
        PROVE  x \in CanonicalNets!Cover(nets) <=> \E row \in table : x \in row.start .. row.end
    <3>1. x \in CanonicalNets!Cover(nets) <=> \E n \in nets : x \in CanonicalNets!Block(n)
      BY CoverOf
    <3>2. \A n : n \in nets <=> \E row \in table : n = net(row)
      OBVIOUS
    <3> HIDE DEF nets
    <3> QED BY <1>1, <3>1, <3>2
  <2> HIDE DEF nets
  <2> QED BY <2>1
<1> QED BY <1>2, <1>3 DEF net

\* The digests decide, for every table and every kernel set.
LEMMA DecideForAll ==
    ASSUME NEW table \in Tables, NEW set \in KernelSets
    PROVE  CanonicalNets!DigestsDecideFor(table, set)
<1> DEFINE feed == CanonicalNets!ParseFeed(table)
           inKernel == CanonicalNets!NftSet(set)
           rowNets == {[base |-> row.start, len |-> row.len] : row \in table}
           setNets == UNION {CanonicalNets!ElementNets(e) : e \in set}
           rowCover == UNION {row.start .. row.end : row \in table}
           setCover == UNION {Span(e) : e \in set}
<1>1. SUFFICES ASSUME feed # CanonicalNets!Refused, inKernel # CanonicalNets!Refused
               PROVE  feed = inKernel <=> rowCover = setCover
  BY DEF CanonicalNets!DigestsDecideFor, Span
<1>2. (\A row \in table : CanonicalNets!RowValid(row)) /\ feed = CanonicalNets!Collapsed(rowNets)
  BY <1>1 DEF CanonicalNets!ParseFeed, CanonicalNets!Canonical
<1>3. (\A e \in set : CanonicalNets!ElementValid(e)) /\ inKernel = CanonicalNets!Collapsed(setNets)
  BY <1>1 DEF CanonicalNets!NftSet, CanonicalNets!Canonical
<1>4. rowNets \subseteq CanonicalNets!Networks /\ CanonicalNets!Cover(rowNets) = rowCover
  BY <1>2, RowsCover
<1>5. setNets \subseteq CanonicalNets!Networks /\ CanonicalNets!Cover(setNets) = setCover
  BY <1>3, ElementsCover
<1> HIDE DEF feed, inKernel, rowNets, setNets, rowCover, setCover
<1> QED BY <1>2, <1>3, <1>4, <1>5, CollapsedDecides

\* banip_feed_proof.py: for every number of address bits, the digest of a
\* provider's table and that of the kernel's set agree exactly when the two cover
\* the same addresses.
THEOREM DigestsAlwaysDecide == Spec => []DigestsDecide
<1> DEFINE I == Is("CanonicalNets") => rows \in Tables /\ elements \in KernelSets
<1>1. Init => I
  BY DEF Init, Is, NetsInit
<1>2. I /\ [Next]_vars => I'
  <2> SUFFICES ASSUME I, [Next]_vars, Is("CanonicalNets")' PROVE I'
    OBVIOUS
  <2>1. CASE UNCHANGED vars
    BY <2>1 DEF vars, netVars, Is
  <2>2. CASE Next
    BY <2>2 DEF Next, Others, Is, netVars
  <2> QED
    BY <2>1, <2>2
<1>3. I => DigestsDecide
  BY DecideForAll DEF DigestsDecide
<1> QED
  BY <1>1, <1>2, <1>3, PTL DEF Spec

-----------------------------------------------------------------------------
(* ClientCatalog                                                           *)

-----------------------------------------------------------------------------
(* Sequences.                                                              *)

LEMMA ListedFacts ==
    ASSUME NEW s, Listed(s)
    PROVE  Len(s) \in Nat /\ DOMAIN s = 1..Len(s) /\ ClientCatalog!Range(s) = {s[n] : n \in 1..Len(s)}
<1> DEFINE V == {s[n] : n \in DOMAIN s}
<1>1. s \in Seq(V)
  BY DEF Listed
<1> HIDE DEF V
<1>2. Len(s) \in Nat /\ DOMAIN s = 1..Len(s)
  BY <1>1
<1> QED BY <1>2 DEF ClientCatalog!Range

LEMMA ListedIn ==
    ASSUME NEW V, NEW s \in Seq(V)
    PROVE  Listed(s)
<1> DEFINE W == {s[n] : n \in DOMAIN s}
<1>1. \A n \in DOMAIN s : s[n] \in W
  OBVIOUS
<1>2. s \in [1..Len(s) -> V] /\ Len(s) \in Nat
  OBVIOUS
<1> HIDE DEF W
<1>3. s \in [1..Len(s) -> W]
  BY <1>1, <1>2
<1>4. s \in Seq(W)
  BY <1>2, <1>3
<1> QED BY <1>4 DEF Listed, W

LEMMA ListedConcat ==
    ASSUME NEW s, NEW t, Listed(s), Listed(t)
    PROVE  /\ Listed(s \o t)
           /\ \A x : x \in ClientCatalog!Range(s \o t)
                     <=> x \in ClientCatalog!Range(s) \/ x \in ClientCatalog!Range(t)
<1> DEFINE V == {s[n] : n \in DOMAIN s} \cup {t[n] : n \in DOMAIN t}
<1>1. s \in Seq({s[n] : n \in DOMAIN s}) /\ t \in Seq({t[n] : n \in DOMAIN t})
  BY DEF Listed
<1>2. s \in Seq(V) /\ t \in Seq(V)
  BY <1>1
<1> HIDE DEF V
<1>3. /\ s \o t \in Seq(V) /\ Len(s \o t) = Len(s) + Len(t) /\ Len(s) \in Nat /\ Len(t) \in Nat
      /\ \A n \in 1..Len(s) : (s \o t)[n] = s[n]
      /\ \A n \in 1..Len(t) : (s \o t)[n + Len(s)] = t[n]
  BY <1>2
<1>4. Listed(s \o t)
  BY <1>3, ListedIn
<1> DEFINE u == s \o t
<1>5. /\ ClientCatalog!Range(u) = {u[n] : n \in 1..Len(u)}
      /\ ClientCatalog!Range(s) = {s[n] : n \in 1..Len(s)}
      /\ ClientCatalog!Range(t) = {t[n] : n \in 1..Len(t)}
  BY <1>4, ListedFacts
<1> HIDE DEF u
<1>6. /\ Len(u) = Len(s) + Len(t)
      /\ \A n \in 1..Len(s) : u[n] = s[n]
      /\ \A n \in 1..Len(t) : u[n + Len(s)] = t[n]
  BY <1>3 DEF u
<1>7. ASSUME NEW x
      PROVE  x \in ClientCatalog!Range(u) <=> x \in ClientCatalog!Range(s) \/ x \in ClientCatalog!Range(t)
  <2>1. ASSUME NEW n \in 1..Len(u)
        PROVE  u[n] \in ClientCatalog!Range(s) \/ u[n] \in ClientCatalog!Range(t)
    <3>1. CASE n <= Len(s)
      <4>1. n \in 1..Len(s)
        BY <1>3, <3>1
      <4> QED BY <1>5, <1>6, <4>1
    <3>2. CASE n > Len(s)
      <4>1. n - Len(s) \in 1..Len(t) /\ (n - Len(s)) + Len(s) = n
        BY <1>3, <1>6, <3>2
      <4> QED BY <1>5, <1>6, <4>1
    <3> QED BY <1>3, <3>1, <3>2
  <2>2. \A n \in 1..Len(s) : n \in 1..Len(u)
    BY <1>3, <1>6
  <2>3. \A n \in 1..Len(t) : n + Len(s) \in 1..Len(u)
    BY <1>3, <1>6
  <2> QED BY <1>5, <1>6, <2>1, <2>2, <2>3
<1> QED BY <1>4, <1>7 DEF u

LEMMA ListedSingle ==
    ASSUME NEW x
    PROVE  Listed(<<x>>) /\ Listed(<<>>)
<1>1. <<x>> \in Seq({x}) /\ <<>> \in Seq({x})
  OBVIOUS
<1> QED BY <1>1, ListedIn

-----------------------------------------------------------------------------
(* Merging mappings.                                                       *)

Measured(f) == \A p \in DOMAIN f : Len(p) \in Nat

\* Every value of f is in the result, or a conflict names its path or one above.
KeptIn(f, result, conflicts) ==
    \A p \in DOMAIN f : \/ p \in DOMAIN result /\ result[p] = f[p]
                        \/ \E c \in conflicts : ClientCatalog!IsPrefix(c, p)

\* Merging loses no value of either mapping but under a conflict that it names.
LEMMA MergeKeeps ==
    ASSUME NEW base, NEW overlay, Measured(base), Measured(overlay)
    PROVE  LET result == ClientCatalog!MergeNested(base, overlay) IN
           /\ Measured(result)
           /\ \A p \in DOMAIN base : p \in DOMAIN result /\ result[p] = base[p]
           /\ KeptIn(overlay, result, ClientCatalog!MergeConflicts(base, overlay))
           /\ \A p \in DOMAIN overlay : \/ p \in DOMAIN result /\ result[p] = overlay[p]
                                        \/ \E q \in DOMAIN base : ClientCatalog!Related(p, q)
<1> DEFINE free == {p \in DOMAIN overlay : ClientCatalog!Clashes(base, p) = {}}
           added == [p \in free |-> overlay[p]]
           result == ClientCatalog!MergeNested(base, overlay)
           conflicts == ClientCatalog!MergeConflicts(base, overlay)
<1>1. result = ClientCatalog!++(base, added)
  BY DEF ClientCatalog!MergeNested
<1>2. DOMAIN added = free /\ \A p \in free : added[p] = overlay[p]
  OBVIOUS
<1> HIDE DEF added, result, free
<1>3. /\ DOMAIN result = DOMAIN base \cup free
      /\ \A p \in DOMAIN base : result[p] = base[p]
      /\ \A p \in free : p \notin DOMAIN base => result[p] = overlay[p]
  BY <1>1, <1>2 DEF ClientCatalog!++
<1> USE DEF free
<1>4. ASSUME NEW p \in DOMAIN overlay
      PROVE  \/ p \in DOMAIN result /\ result[p] = overlay[p]
             \/ \E c \in conflicts : ClientCatalog!IsPrefix(c, p)
  <2>1. Len(p) \in Nat
    BY DEF Measured
  <2>2. CASE p \in free
    <3>1. p \notin DOMAIN base
      <4>1. ClientCatalog!Related(p, p)
        BY <2>1 DEF ClientCatalog!Related, ClientCatalog!IsPrefix
      <4> QED BY <2>2, <4>1 DEF ClientCatalog!Clashes
    <3> QED BY <1>3, <2>2, <3>1
  <2>3. CASE p \notin free
    <3>1. PICK q \in DOMAIN base : ClientCatalog!Related(p, q)
      BY <2>3 DEF ClientCatalog!Clashes
    <3>2. CASE p = q /\ overlay[p] = base[q]
      BY <1>3, <3>1, <3>2
    <3>3. CASE ~ (p = q /\ overlay[p] = base[q])
      <4> DEFINE c == IF Len(p) < Len(q) THEN p ELSE q
      <4>1. c \in conflicts
        <5>1. <<p, q>> \in {x \in (DOMAIN overlay) \X (DOMAIN base) :
                  ClientCatalog!Related(x[1], x[2]) /\ ~(x[1] = x[2] /\ overlay[x[1]] = base[x[2]])}
          BY <3>1, <3>3
        <5>2. <<p, q>>[1] = p /\ <<p, q>>[2] = q
          OBVIOUS
        <5> QED BY <5>1, <5>2 DEF ClientCatalog!MergeConflicts
      <4>2. Len(q) \in Nat
        BY <3>1 DEF Measured
      <4>3. ClientCatalog!IsPrefix(c, p)
        <5>1. CASE Len(p) < Len(q)
          BY <2>1, <5>1 DEF ClientCatalog!IsPrefix
        <5>2. CASE ~ (Len(p) < Len(q))
          <6>1. Len(q) <= Len(p) /\ c = q
            BY <2>1, <4>2, <5>2
          <6>2. CASE ClientCatalog!IsPrefix(q, p)
            BY <6>1, <6>2
          <6>3. CASE ClientCatalog!IsPrefix(p, q)
            <7>1. Len(p) = Len(q)
              BY <2>1, <4>2, <6>1, <6>3 DEF ClientCatalog!IsPrefix
            <7>2. SubSeq(p, 1, Len(p)) = SubSeq(q, 1, Len(p))
              BY <6>3 DEF ClientCatalog!IsPrefix
            <7> QED BY <6>1, <7>1, <7>2 DEF ClientCatalog!IsPrefix
          <6> QED BY <3>1, <6>2, <6>3 DEF ClientCatalog!Related
        <5> QED BY <5>1, <5>2
      <4> QED BY <4>1, <4>3
    <3> QED BY <3>2, <3>3
  <2> QED BY <2>2, <2>3
<1>5. Measured(result)
  BY <1>3 DEF Measured
<1>6. ASSUME NEW p \in DOMAIN overlay, \A q \in DOMAIN base : ~ClientCatalog!Related(p, q)
      PROVE  p \in DOMAIN result /\ result[p] = overlay[p]
  <2>1. p \in free
    BY <1>6 DEF ClientCatalog!Clashes
  <2>2. ClientCatalog!Related(p, p)
    BY DEF Measured, ClientCatalog!Related, ClientCatalog!IsPrefix
  <2>3. p \notin DOMAIN base
    BY <1>6, <2>2
  <2> QED BY <1>3, <2>1, <2>3
<1> QED BY <1>3, <1>4, <1>5, <1>6 DEF KeptIn, result

\* What was kept stays kept: the base of a merge, and the overlay of one.
LEMMA KeptInBase ==
    ASSUME NEW f, NEW base, NEW overlay, NEW conflicts, Measured(base), Measured(overlay),
           KeptIn(f, base, conflicts)
    PROVE  KeptIn(f, ClientCatalog!MergeNested(base, overlay),
                  conflicts \cup ClientCatalog!MergeConflicts(base, overlay))
  BY MergeKeeps DEF KeptIn

\* Likewise of the overlay.
LEMMA KeptInOverlay ==
    ASSUME NEW f, NEW base, NEW overlay, NEW conflicts, Measured(base), Measured(overlay),
           KeptIn(f, overlay, conflicts)
    PROVE  KeptIn(f, ClientCatalog!MergeNested(base, overlay),
                  conflicts \cup ClientCatalog!MergeConflicts(base, overlay))
  BY MergeKeeps DEF KeptIn

\* What becomes of a host's own group variables: its Terraform settings stand,
\* and the others do unless a setting is in their place.
GroupVarsHold(h) ==
    /\ \A p \in DOMAIN ClientCatalog!TerraformSettings(h) :
           /\ p \in DOMAIN ClientCatalog!GroupVars(h)
           /\ ClientCatalog!GroupVars(h)[p] = ClientCatalog!TerraformSettings(h)[p]
    /\ \A p \in DOMAIN h.group_vars :
           \/ p \in DOMAIN ClientCatalog!GroupVars(h) /\ ClientCatalog!GroupVars(h)[p] = h.group_vars[p]
           \/ \E q \in DOMAIN ClientCatalog!TerraformSettings(h) : ClientCatalog!Related(p, q)

LEMMA GroupVarsFacts ==
    ASSUME NEW h, Measured(h.group_vars)
    PROVE  Measured(ClientCatalog!GroupVars(h)) /\ GroupVarsHold(h)
<1> DEFINE own == ClientCatalog!TerraformSettings(h)
           role == <<"role_terraform_stg">>
           rest == ClientCatalog!Only(h.group_vars, DOMAIN h.group_vars \ {role})
<1>1. own = ClientCatalog!Empty \/ own = ClientCatalog!TerraformVars(h.hv)
  BY Zenon DEF ClientCatalog!TerraformSettings
<1>2. \A q \in DOMAIN own : \E k : q = <<"role_terraform_stg", k>>
  BY <1>1 DEF ClientCatalog!TerraformVars, ClientCatalog!Empty
<1>3. Measured(own)
  BY <1>2 DEF Measured
<1>4. /\ DOMAIN rest = DOMAIN h.group_vars \ {role}
      /\ \A p \in DOMAIN rest : rest[p] = h.group_vars[p]
  BY DEF ClientCatalog!Only
<1>5. Measured(rest)
  BY <1>4 DEF Measured
<1>6. ClientCatalog!GroupVars(h) = IF own = ClientCatalog!Empty THEN h.group_vars
                                   ELSE ClientCatalog!MergeNested(own, rest)
  BY Zenon DEF ClientCatalog!GroupVars
<1>7. DOMAIN own = {} <=> own = ClientCatalog!Empty
  BY <1>1 DEF ClientCatalog!TerraformVars, ClientCatalog!Empty
<1>8. \A q \in DOMAIN own : ClientCatalog!Related(role, q)
  <2>1. ASSUME NEW k PROVE ClientCatalog!Related(role, <<"role_terraform_stg", k>>)
    BY DEF ClientCatalog!Related, ClientCatalog!IsPrefix
  <2> QED BY <1>2, <2>1
<1> HIDE DEF own, rest, role
<1>9. CASE own = ClientCatalog!Empty
  BY <1>6, <1>7, <1>9 DEF GroupVarsHold, own
<1>10. CASE own # ClientCatalog!Empty
  <2> DEFINE result == ClientCatalog!MergeNested(own, rest)
  <2>1. ClientCatalog!GroupVars(h) = result
    BY <1>6, <1>10
  <2>2. /\ Measured(result)
        /\ \A p \in DOMAIN own : p \in DOMAIN result /\ result[p] = own[p]
        /\ \A p \in DOMAIN rest : \/ p \in DOMAIN result /\ result[p] = rest[p]
                                  \/ \E q \in DOMAIN own : ClientCatalog!Related(p, q)
    BY <1>3, <1>5, MergeKeeps
  <2>3. \E q \in DOMAIN own : ClientCatalog!Related(role, q)
    BY <1>7, <1>8, <1>10
  <2> HIDE DEF result
  <2>4. \A p \in DOMAIN h.group_vars : \/ p \in DOMAIN result /\ result[p] = h.group_vars[p]
                                       \/ \E q \in DOMAIN own : ClientCatalog!Related(p, q)
    BY <1>4, <2>2, <2>3
  <2> QED BY <2>1, <2>2, <2>4 DEF GroupVarsHold, own
<1> QED BY <1>9, <1>10

\* Whatever extra_vars give a role is accounted for among its variables.
LEMMA ExtraVarsReach ==
    ASSUME NEW h, NEW role \in ClientCatalog!ExtraRoles(h)
    PROVE  /\ role \in DOMAIN ClientCatalog!RoleVars(h)
           /\ ClientCatalog!ExtraKept(h, role, ClientCatalog!RoleVars(h)[role])
<1> DEFINE made == IF role \in ClientCatalog!GeneratedRoles(h) THEN ClientCatalog!GeneratedVars(h, role)
                   ELSE ClientCatalog!Empty
           given == h.extra_vars[role]
           before == ClientCatalog!MergedVars(h)[role]
           values == ClientCatalog!RoleVars(h)[role]
           off == [k \in ClientCatalog!Destructive |-> "false"]
<1>1. role \in DOMAIN ClientCatalog!MergedVars(h) /\ before = ClientCatalog!++(made, given)
  BY DEF ClientCatalog!MergedVars
<1>2. /\ role \in DOMAIN ClientCatalog!RoleVars(h)
      /\ values = IF role \in ClientCatalog!GuardedRoles(h)
                  THEN ClientCatalog!FormatOff(ClientCatalog!VarsBeforeGuard(h, role)) ELSE before
  BY <1>1 DEF ClientCatalog!RoleVars
<1>3. ClientCatalog!VarsBeforeGuard(h, role) = before
  BY <1>1 DEF ClientCatalog!VarsBeforeGuard
<1>4. ClientCatalog!FormatOff(before) = ClientCatalog!++(off, before)
  BY DEF ClientCatalog!FormatOff
<1>5. DOMAIN off = ClientCatalog!Destructive /\ \A k \in ClientCatalog!Destructive : off[k] = "false"
  OBVIOUS
<1>6. DOMAIN made # {} => role \in ClientCatalog!GeneratedRoles(h) /\ made = ClientCatalog!GeneratedVars(h, role)
  BY DEF ClientCatalog!Empty
<1> HIDE DEF made, given, before, values, off
<1>7. ASSUME NEW k \in DOMAIN given
      PROVE  /\ k \in DOMAIN before
             /\ \/ before[k] = given[k]
                \/ /\ role \in ClientCatalog!GeneratedRoles(h)
                   /\ k \in DOMAIN ClientCatalog!GeneratedVars(h, role)
                   /\ before[k] = ClientCatalog!GeneratedVars(h, role)[k]
  <2>1. k \in DOMAIN before /\ before[k] = IF k \in DOMAIN made THEN made[k] ELSE given[k]
    BY <1>1 DEF ClientCatalog!++
  <2> QED BY <1>6, <2>1
<1>8. ASSUME NEW k \in DOMAIN given
      PROVE  /\ k \in DOMAIN values
             /\ \/ values[k] = before[k]
                \/ role \in ClientCatalog!GuardedRoles(h) /\ k \in ClientCatalog!Destructive /\ values[k] = "false"
  <2>1. CASE role \in ClientCatalog!GuardedRoles(h)
    <3>1. values = ClientCatalog!++(off, before)
      BY <1>2, <1>3, <1>4, <2>1
    <3>2. k \in DOMAIN values /\ values[k] = IF k \in DOMAIN off THEN off[k] ELSE before[k]
      BY <1>7, <3>1 DEF ClientCatalog!++
    <3> QED BY <1>5, <2>1, <3>2
  <2>2. CASE role \notin ClientCatalog!GuardedRoles(h)
    BY <1>2, <1>7, <2>2
  <2> QED BY <2>1, <2>2
<1>9. ClientCatalog!ExtraKept(h, role, values)
  BY <1>7, <1>8 DEF ClientCatalog!ExtraKept, given
<1> QED BY <1>2, <1>9 DEF values

-----------------------------------------------------------------------------
(* Legacy items.                                                           *)

\* Which legacy items are left, by induction over the list.
LEMMA NonShadowedKeeps ==
    ASSUME NEW legacy, NEW generated, NEW names, Listed(legacy)
    PROVE  /\ Listed(ClientCatalog!NonShadowed(legacy, generated, names))
           /\ \A n \in 1..Len(legacy) :
                  ClientCatalog!ItemKey(legacy[n], names) \notin ClientCatalog!Keys(generated, names)
                  => legacy[n] \in ClientCatalog!Range(ClientCatalog!NonShadowed(legacy, generated, names))
<1> DEFINE last == Len(legacy)
           V == {legacy[n] : n \in DOMAIN legacy}
           shadowed(n) == ClientCatalog!ItemKey(legacy[n], names) \in ClientCatalog!Keys(generated, names)
           body(f) == [n \in 0..last |-> IF n = 0 THEN <<>>
                                         ELSE IF shadowed(n) THEN f[n - 1] ELSE Append(f[n - 1], legacy[n])]
           kept == CHOOSE f : f = body(f)
           step == [n \in 1..last |-> [list \in Seq(V) |->
                       IF shadowed(n) THEN list ELSE Append(list, legacy[n])]]
<1>1. last \in Nat /\ DOMAIN legacy = 1..last /\ \A n \in 1..last : legacy[n] \in V
  BY ListedFacts
<1>2. ClientCatalog!NonShadowed(legacy, generated, names) = kept[last]
  BY DEF ClientCatalog!NonShadowed
<1> HIDE DEF V, shadowed
<1>3. step \in [1..last -> [Seq(V) -> Seq(V)]]
  <2>1. \A n \in 1..last : \A list \in Seq(V) : Append(list, legacy[n]) \in Seq(V)
    BY <1>1
  <2> QED BY <2>1
<1> HIDE DEF step
<1>4. PICK f : Recursive(f, last, Seq(V), <<>>, step)
  <2>1. <<>> \in Seq(V)
    OBVIOUS
  <2> QED BY <1>1, <1>3, <2>1, RecursionTo
<1>5. f = body(f)
  <2>1. f \in [0..last -> Seq(V)] /\ f[0] = <<>> /\ \A n \in 1..last : f[n] = step[n][f[n - 1]]
    BY <1>4 DEF Recursive
  <2>2. ASSUME NEW n \in 1..last
        PROVE  f[n] = IF shadowed(n) THEN f[n - 1] ELSE Append(f[n - 1], legacy[n])
    <3>1. n - 1 \in 0..last
      BY <1>1
    <3>2. f[n - 1] \in Seq(V)
      BY <2>1, <3>1
    <3> QED BY <2>1, <3>2 DEF step
  <2>3. \A n \in 0..last : n = 0 \/ n \in 1..last
    BY <1>1
  <2>4. \A n \in 0..last : f[n] = IF n = 0 THEN <<>>
                                  ELSE IF shadowed(n) THEN f[n - 1] ELSE Append(f[n - 1], legacy[n])
    BY <2>1, <2>2, <2>3
  <2> QED BY <2>1, <2>4
<1> HIDE DEF body
<1>6. kept = body(kept)
  BY <1>5
<1> HIDE DEF kept
<1>7. /\ kept[0] = <<>>
      /\ \A n \in 1..last : kept[n] = IF shadowed(n) THEN kept[n - 1] ELSE Append(kept[n - 1], legacy[n])
  <2>1. kept = [n \in 0..last |-> IF n = 0 THEN <<>>
                                  ELSE IF shadowed(n) THEN kept[n - 1] ELSE Append(kept[n - 1], legacy[n])]
    BY <1>6 DEF body
  <2>2. 0 \in 0..last /\ \A n \in 1..last : n \in 0..last /\ n # 0
    BY <1>1
  <2> QED BY <2>1, <2>2
<1> DEFINE Holds(m) == /\ kept[m] \in Seq(V)
                       /\ \A n \in 1..m : ~shadowed(n) => legacy[n] \in ClientCatalog!Range(kept[m])
           S == {m \in 0..last : Holds(m)}
<1>8. 0 \in S
  <2>1. 0 \in 0..last /\ <<>> \in Seq(V) /\ \A n \in 1..0 : FALSE
    BY <1>1
  <2>2. Holds(0)
    BY <1>7, <2>1
  <2> HIDE DEF Holds
  <2> QED BY <2>1, <2>2
<1>9. ASSUME NEW m \in 1..last, m - 1 \in S
      PROVE  m \in S
  <2>1. kept[m - 1] \in Seq(V) /\ \A n \in 1..(m - 1) : ~shadowed(n) => legacy[n] \in ClientCatalog!Range(kept[m - 1])
    BY <1>9
  <2>2. \A n \in 1..m : n = m \/ n \in 1..(m - 1)
    BY <1>1
  <2>3. CASE shadowed(m)
    <3>1. kept[m] = kept[m - 1]
      BY <1>7, <2>3
    <3>2. Holds(m)
      BY <2>1, <2>2, <2>3, <3>1
    <3> QED BY <3>2
  <2>4. CASE ~shadowed(m)
    <3>1. kept[m] = Append(kept[m - 1], legacy[m]) /\ legacy[m] \in V
      BY <1>1, <1>7, <2>4
    <3> DEFINE old == kept[m - 1]
               new == Append(old, legacy[m])
    <3>2. /\ new \in Seq(V) /\ Len(old) \in Nat /\ DOMAIN old = 1..Len(old)
          /\ DOMAIN new = 1..(Len(old) + 1) /\ new[Len(old) + 1] = legacy[m]
          /\ \A n \in 1..Len(old) : new[n] = old[n]
      BY <2>1, <3>1
    <3> HIDE DEF new, old
    <3>3. legacy[m] \in ClientCatalog!Range(new)
      <4>1. Len(old) + 1 \in DOMAIN new
        BY <3>2
      <4> QED BY <3>2, <4>1 DEF ClientCatalog!Range
    <3>4. ASSUME NEW x \in ClientCatalog!Range(old)
          PROVE  x \in ClientCatalog!Range(new)
      <4>1. PICK n \in 1..Len(old) : x = old[n]
        BY <3>2 DEF ClientCatalog!Range
      <4>2. n \in DOMAIN new /\ x = new[n]
        BY <3>2, <4>1
      <4> QED BY <4>2 DEF ClientCatalog!Range
    <3>5. kept[m] = new
      BY <3>1 DEF new, old
    <3>6. Holds(m)
      BY <2>1, <2>2, <3>2, <3>3, <3>4, <3>5 DEF old
    <3> QED BY <3>6
  <2> QED BY <2>3, <2>4
<1> HIDE DEF S
<1>10. \A m \in 0..last : m \in S
  BY <1>1, <1>8, <1>9, InductionTo
<1>11. last \in 0..last
  BY <1>1
<1>12. Holds(last)
  <2>1. last \in S
    BY <1>10, <1>11
  <2> HIDE DEF last
  <2> QED BY <2>1 DEF S
<1>13. Listed(kept[last])
  BY <1>12, ListedIn
<1> QED BY <1>2, <1>12, <1>13 DEF shadowed

\* What a legacy item becomes when its kind is written out.
LegacyKept(legacy, generated, fields, names, items, mismatches) ==
    \A n \in DOMAIN legacy :
        \/ legacy[n] \in ClientCatalog!Range(items)
        \/ \E m \in DOMAIN legacy \ {n} :
               ClientCatalog!ItemKey(legacy[m], names) = ClientCatalog!ItemKey(legacy[n], names)
        \/ \E g \in ClientCatalog!Range(generated) :
               /\ ClientCatalog!ItemKey(g, names) = ClientCatalog!ItemKey(legacy[n], names)
               /\ \/ ClientCatalog!ItemKey(legacy[n], names) \in mismatches
                  \/ \A f \in fields : ClientCatalog!Get(g, f) = ClientCatalog!Get(legacy[n], f)

\* The legacy items in the result.
LEMMA LegacyIsKept ==
    ASSUME NEW legacy, NEW generated, NEW fields, NEW names, Listed(legacy), Listed(generated)
    PROVE  LegacyKept(legacy, generated, fields, names,
               ClientCatalog!NonShadowed(legacy, generated, names) \o generated,
               ClientCatalog!LegacyMismatches(legacy, generated, fields, names))
<1> DEFINE kept == ClientCatalog!NonShadowed(legacy, generated, names)
           mismatches == ClientCatalog!LegacyMismatches(legacy, generated, fields, names)
           key(i) == ClientCatalog!ItemKey(i, names)
<1> SUFFICES ASSUME NEW n \in DOMAIN legacy,
                    legacy[n] \notin ClientCatalog!Range(kept \o generated),
                    \A m \in DOMAIN legacy \ {n} : key(legacy[m]) # key(legacy[n])
             PROVE  \E g \in ClientCatalog!Range(generated) :
                        /\ key(g) = key(legacy[n])
                        /\ \/ key(legacy[n]) \in mismatches
                           \/ \A f \in fields : ClientCatalog!Get(g, f) = ClientCatalog!Get(legacy[n], f)
  BY DEF LegacyKept
<1>1. Len(legacy) \in Nat /\ DOMAIN legacy = 1..Len(legacy)
  BY ListedFacts
<1>2. Listed(kept) /\ (key(legacy[n]) \notin ClientCatalog!Keys(generated, names)
                       => legacy[n] \in ClientCatalog!Range(kept))
  BY <1>1, NonShadowedKeeps
<1>3. key(legacy[n]) \in ClientCatalog!Keys(generated, names)
  BY <1>2, ListedConcat
<1>4. PICK g \in ClientCatalog!Range(generated) : key(g) = key(legacy[n]) /\ key(g) # ""
  BY <1>3, Zenon DEF ClientCatalog!Keys
<1>5. ASSUME NEW f \in fields, ClientCatalog!Get(g, f) # ClientCatalog!Get(legacy[n], f)
      PROVE  key(legacy[n]) \in mismatches
  <2>1. \A m \in n + 1 .. Len(legacy) : key(legacy[m]) # key(g)
    <3>1. \A m \in n + 1 .. Len(legacy) : m \in DOMAIN legacy \ {n}
      BY <1>1
    <3> QED BY <1>4, <3>1
  <2> HIDE DEF key
  <2>2. key(g) \in mismatches
    BY <1>4, <1>5, <2>1, Zenon DEF ClientCatalog!LegacyMismatches, key
  <2> QED BY <1>4, <2>2
<1> HIDE DEF key, mismatches
<1> QED BY <1>4, <1>5

-----------------------------------------------------------------------------
(* Storage variables.                                                      *)

\* What PersistentDataKept asks of the variables of one role of a host.
DiskKept(h, role, values) ==
    /\ role \in ClientCatalog!GuardedRoles(h) =>
           \A k \in ClientCatalog!Destructive : ClientCatalog!Get(values, k) = "false"
    /\ ClientCatalog!Tailscale(h) /\ role \in ClientCatalog!StorageRoles /\ values # ClientCatalog!Empty =>
           /\ \A k \in ClientCatalog!Destructive \ {"allow_format"} : ~ClientCatalog!AsBool(ClientCatalog!Get(values, k))
           /\ ClientCatalog!Clean(ClientCatalog!Get(values, "device"))
              = ClientCatalog!Clean(ClientCatalog!Get(h.hv, "device"))

\* The guard on formatting wins over every value.
LEMMA FormatIsOff ==
    ASSUME NEW values, NEW k \in ClientCatalog!Destructive
    PROVE  ClientCatalog!Get(ClientCatalog!FormatOff(values), k) = "false"
<1> DEFINE off == [d \in ClientCatalog!Destructive |-> "false"]
<1>1. DOMAIN off = ClientCatalog!Destructive /\ off[k] = "false"
  OBVIOUS
<1>2. ClientCatalog!FormatOff(values) = ClientCatalog!++(off, values)
  BY DEF ClientCatalog!FormatOff
<1> HIDE DEF off
<1>3. k \in DOMAIN ClientCatalog!++(off, values) /\ ClientCatalog!++(off, values)[k] = "false"
  BY <1>1 DEF ClientCatalog!++
<1> QED BY <1>2, <1>3 DEF ClientCatalog!Get

\* What is given to a role of a host that was not refused.
LEMMA AcceptedKeepsDisks ==
    ASSUME NEW h, ~ClientCatalog!Refused(h), NEW role \in DOMAIN ClientCatalog!RoleVars(h)
    PROVE  DiskKept(h, role, ClientCatalog!RoleVars(h)[role])
<1> DEFINE values == ClientCatalog!RoleVars(h)[role]
<1>1. ASSUME role \in ClientCatalog!GuardedRoles(h), NEW k \in ClientCatalog!Destructive
      PROVE  ClientCatalog!Get(values, k) = "false"
  <2>1. values = ClientCatalog!FormatOff(ClientCatalog!VarsBeforeGuard(h, role))
    BY <1>1 DEF ClientCatalog!RoleVars
  <2> QED BY <2>1, FormatIsOff
<1>2. ASSUME ClientCatalog!Tailscale(h), role \in ClientCatalog!StorageRoles, values # ClientCatalog!Empty
      PROVE  /\ \A k \in ClientCatalog!Destructive \ {"allow_format"} : ~ClientCatalog!AsBool(ClientCatalog!Get(values, k))
             /\ ClientCatalog!Clean(ClientCatalog!Get(values, "device"))
                = ClientCatalog!Clean(ClientCatalog!Get(h.hv, "device"))
  <2>1. role \in ClientCatalog!StorageRoles \cap DOMAIN ClientCatalog!RoleVars(h)
    BY <1>2
  <2> HIDE DEF ClientCatalog!RoleVars
  <2> QED BY <1>2, <2>1, Zenon DEF ClientCatalog!Refused
<1> QED BY <1>1, <1>2 DEF DiskKept

-----------------------------------------------------------------------------
(* The catalog.                                                            *)

CatalogFields ==
    catalog = [status |-> catalog.status, generated |-> catalog.generated, items |-> catalog.items,
               mismatches |-> catalog.mismatches, group_vars |-> catalog.group_vars,
               conflicts |-> catalog.conflicts, group_mismatches |-> catalog.group_mismatches,
               client_vars |-> catalog.client_vars]

GeneratedListed ==
    \A k \in DOMAIN ClientCatalog!Kinds : Listed(catalog.generated[k])

\* The variables collected are those of hosts whose flags were accepted.
FromAccepted ==
    \A c \in catalog.client_vars :
        /\ ~ClientCatalog!Refused(c.host) /\ c.role \in DOMAIN ClientCatalog!RoleVars(c.host)
        /\ c.vars = ClientCatalog!RoleVars(c.host)[c.role]

\* The group variables of the hosts before the next one are kept.
Chosen(i, h) == i.enabled /\ h.enabled /\ ClientCatalog!OrElse(h.router, Router) = Router
HostsKept(i, upto, result, conflicts) ==
    \A n \in 1..upto : Chosen(i, i.hosts[n]) =>
        KeptIn(ClientCatalog!GroupVars(i.hosts[n]), result, conflicts)

\* ... and so are the variables of their roles.
HostsCollected(i, upto, collected) ==
    \A n \in 1..upto : Chosen(i, i.hosts[n]) => ClientCatalog!ClientVars(i.hosts[n]) \subseteq collected

\* What the property asks of one host.
HostAccountedFor(h) ==
    /\ \A p \in DOMAIN ClientCatalog!TerraformSettings(h) :
           ClientCatalog!Kept(catalog, ClientCatalog!TerraformSettings(h), p)
    /\ \A p \in DOMAIN h.group_vars :
           \/ ClientCatalog!Kept(catalog, h.group_vars, p)
           \/ \E q \in DOMAIN ClientCatalog!TerraformSettings(h) : ClientCatalog!Related(p, q)
    /\ \A r \in ClientCatalog!ExtraRoles(h) :
           \E c \in catalog.client_vars :
               /\ c.overlay_id = ClientCatalog!OverlayId(h) /\ c.role = r
               /\ ClientCatalog!ExtraKept(h, r, c.vars)

CatalogInv ==
    /\ inventory \in Inventories /\ host \in 1..Len(inventory.hosts) + 1
    /\ CatalogFields /\ GeneratedListed /\ Measured(catalog.group_vars) /\ FromAccepted
    /\ catalog.status # "refused" =>
           /\ HostsKept(inventory, host - 1, catalog.group_vars, catalog.conflicts)
           /\ HostsCollected(inventory, host - 1, catalog.client_vars)
    /\ catalog.status = "built" => ClientCatalog!ValuesAccountedFor

\* What the assumption says of one inventory.
LEMMA InventoryFacts ==
    ASSUME NEW i \in Inventories
    PROVE  /\ Len(i.hosts) \in Nat /\ DOMAIN i.hosts = 1..Len(i.hosts)
           /\ \A k \in DOMAIN ClientCatalog!Kinds : Listed(i.legacy[k])
           /\ Measured(i.group_vars)
           /\ \A n \in 1..Len(i.hosts) :
                  Measured(ClientCatalog!GroupVars(i.hosts[n])) /\ GroupVarsHold(i.hosts[n])
<1>1. /\ Listed(i.hosts) /\ \A k \in {"hosts", "boots", "overlays"} : Listed(i.legacy[k])
      /\ \A p \in DOMAIN i.group_vars : Listed(p)
      /\ \A n \in DOMAIN i.hosts : \A p \in DOMAIN i.hosts[n].group_vars : Listed(p)
  BY InventoriesAssumption
<1>2. Len(i.hosts) \in Nat /\ DOMAIN i.hosts = 1..Len(i.hosts)
  BY <1>1, ListedFacts
<1>3. Measured(i.group_vars) /\ \A n \in 1..Len(i.hosts) : Measured(i.hosts[n].group_vars)
  BY <1>1, <1>2, ListedFacts DEF Measured
<1>4. DOMAIN ClientCatalog!Kinds = {"hosts", "boots", "overlays"}
  BY DEF ClientCatalog!Kinds
<1> QED BY <1>1, <1>2, <1>3, <1>4, GroupVarsFacts

\* Before the first host.
LEMMA CatalogInitial == ClientCatalog!Init => CatalogInv
<1> SUFFICES ASSUME ClientCatalog!Init PROVE CatalogInv
  OBVIOUS
<1>1. inventory \in Inventories /\ host = 1 /\ Len(inventory.hosts) \in Nat
  BY InventoryFacts DEF ClientCatalog!Init
<1>2. /\ CatalogFields /\ catalog.status = "building" /\ catalog.client_vars = {}
      /\ catalog.group_vars = <<>> /\ \A k \in DOMAIN ClientCatalog!Kinds : catalog.generated[k] = <<>>
  BY DEF ClientCatalog!Init, CatalogFields, ClientCatalog!Empty
<1>3. Measured(catalog.group_vars)
  BY <1>2 DEF Measured
<1>4. GeneratedListed
  BY <1>2, ListedSingle DEF GeneratedListed
<1> QED BY <1>1, <1>2, <1>3, <1>4 DEF CatalogInv, FromAccepted, HostsKept, HostsCollected

LEMMA GeneratedIsListed ==
    ASSUME NEW h, NEW k \in DOMAIN ClientCatalog!Kinds
    PROVE  Listed(ClientCatalog!Generated(h)[k])
<1>1. k \in {"hosts", "boots", "overlays"}
  BY DEF ClientCatalog!Kinds
<1>2. Listed(ClientCatalog!PxeBoot(h))
  <2>1. ClientCatalog!PxeBoot(h) = <<>> \/ \E x : ClientCatalog!PxeBoot(h) = <<x>>
    BY Zenon DEF ClientCatalog!PxeBoot
  <2> QED BY <2>1, ListedSingle
<1>3. Listed(ClientCatalog!OverlayClient(h))
  <2>1. ClientCatalog!OverlayClient(h) = <<>> \/ \E x : ClientCatalog!OverlayClient(h) = <<x>>
    BY Zenon DEF ClientCatalog!OverlayClient
  <2> QED BY <2>1, ListedSingle
<1> QED BY <1>1, <1>2, <1>3, ListedSingle DEF ClientCatalog!Generated

\* A host that is taken in.
LEMMA ClientStep ==
    ASSUME CatalogInv, ClientCatalog!BuildClient
    PROVE  CatalogInv'
<1> DEFINE h == inventory.hosts[host]
           client == ClientCatalog!Generated(h)
<1>1. /\ inventory \in Inventories /\ host \in 1..Len(inventory.hosts) + 1
      /\ CatalogFields /\ GeneratedListed /\ Measured(catalog.group_vars) /\ FromAccepted
      /\ catalog.status # "refused" =>
             /\ HostsKept(inventory, host - 1, catalog.group_vars, catalog.conflicts)
             /\ HostsCollected(inventory, host - 1, catalog.client_vars)
  BY DEF CatalogInv
<1>2. /\ catalog.status = "building" /\ host <= Len(inventory.hosts) /\ host' = host + 1
      /\ inventory' = inventory
      /\ catalog' = IF ~ClientCatalog!Selected(h) THEN catalog
                    ELSE IF ClientCatalog!Refused(h) THEN [catalog EXCEPT !.status = "refused"]
                    ELSE [catalog EXCEPT
                            !.generated = [k \in DOMAIN ClientCatalog!Kinds |-> catalog.generated[k] \o client[k]],
                            !.group_vars = ClientCatalog!MergeNested(catalog.group_vars, client.group_vars),
                            !.conflicts = catalog.conflicts \cup ClientCatalog!MergeConflicts(catalog.group_vars, client.group_vars),
                            !.client_vars = catalog.client_vars \cup client.client_vars]
  BY DEF ClientCatalog!BuildClient
<1>3. Len(inventory.hosts) \in Nat /\ host \in 1..Len(inventory.hosts)
  BY <1>1, <1>2, InventoryFacts
<1>4. inventory' \in Inventories /\ host' \in 1..Len(inventory'.hosts) + 1 /\ host' - 1 = host
  BY <1>1, <1>2, <1>3
<1>5. \A n \in 1..host : n = host \/ n \in 1..(host - 1)
  BY <1>3
<1>6. /\ HostsKept(inventory, host - 1, catalog.group_vars, catalog.conflicts)
      /\ HostsCollected(inventory, host - 1, catalog.client_vars)
  BY <1>1, <1>2
<1>7. ClientCatalog!Selected(h) <=> Chosen(inventory, h)
  BY DEF ClientCatalog!Selected, Chosen
<1>8. CASE ~ClientCatalog!Selected(h)
  <2>1. catalog' = catalog
    BY <1>2, <1>8
  <2>2. CatalogFields' /\ GeneratedListed' /\ Measured(catalog'.group_vars) /\ FromAccepted'
    BY <1>1, <2>1 DEF CatalogFields, GeneratedListed, FromAccepted
  <2>3. HostsKept(inventory, host, catalog.group_vars, catalog.conflicts)
    BY <1>5, <1>6, <1>7, <1>8 DEF HostsKept
  <2>4. HostsCollected(inventory, host, catalog.client_vars)
    BY <1>5, <1>6, <1>7, <1>8 DEF HostsCollected
  <2> QED BY <1>2, <1>4, <2>1, <2>2, <2>3, <2>4 DEF CatalogInv
<1>9. CASE ClientCatalog!Selected(h) /\ ClientCatalog!Refused(h)
  <2>1. catalog' = [catalog EXCEPT !.status = "refused"]
    BY <1>2, <1>9
  <2>2. /\ catalog'.status = "refused" /\ CatalogFields'
        /\ catalog'.generated = catalog.generated /\ catalog'.client_vars = catalog.client_vars
        /\ catalog'.group_vars = catalog.group_vars
    BY <1>1, <2>1 DEF CatalogFields
  <2>3. GeneratedListed' /\ Measured(catalog'.group_vars) /\ FromAccepted'
    BY <1>1, <2>2 DEF GeneratedListed, FromAccepted
  <2> QED BY <1>4, <2>2, <2>3 DEF CatalogInv
<1>10. CASE ClientCatalog!Selected(h) /\ ~ClientCatalog!Refused(h)
  <2> DEFINE merged == ClientCatalog!MergeNested(catalog.group_vars, client.group_vars)
             clashes == ClientCatalog!MergeConflicts(catalog.group_vars, client.group_vars)
             listed == [k \in DOMAIN ClientCatalog!Kinds |-> catalog.generated[k] \o client[k]]
             collected == catalog.client_vars \cup client.client_vars
  <2>1. catalog' = [catalog EXCEPT !.generated = listed, !.group_vars = merged,
                                   !.conflicts = catalog.conflicts \cup clashes, !.client_vars = collected]
    BY <1>2, <1>10
  <2>2. /\ client.group_vars = ClientCatalog!GroupVars(h) /\ client.client_vars = ClientCatalog!ClientVars(h)
    BY DEF ClientCatalog!Generated
  <2>3. \A k \in DOMAIN ClientCatalog!Kinds : Listed(client[k])
    BY GeneratedIsListed
  <2>4. \A k \in DOMAIN ClientCatalog!Kinds : listed[k] = catalog.generated[k] \o client[k]
    OBVIOUS
  <2> HIDE DEF client, listed, merged, clashes, collected
  <2>5. /\ catalog'.status = catalog.status /\ CatalogFields' /\ catalog'.generated = listed
        /\ catalog'.group_vars = merged /\ catalog'.conflicts = catalog.conflicts \cup clashes
        /\ catalog'.client_vars = collected
    BY <1>1, <2>1 DEF CatalogFields
  <2>6. GeneratedListed'
    <3>1. \A k \in DOMAIN ClientCatalog!Kinds : Listed(listed[k])
      BY <1>1, <2>3, <2>4, ListedConcat DEF GeneratedListed
    <3> QED BY <2>5, <3>1 DEF GeneratedListed
  <2>7. Measured(client.group_vars)
    BY <1>1, <1>3, <2>2, InventoryFacts
  <2>8. Measured(merged)
    BY <1>1, <2>7, MergeKeeps DEF merged
  <2>9. FromAccepted'
    <3>1. ASSUME NEW c \in ClientCatalog!ClientVars(h)
          PROVE  /\ ~ClientCatalog!Refused(c.host) /\ c.role \in DOMAIN ClientCatalog!RoleVars(c.host)
                 /\ c.vars = ClientCatalog!RoleVars(c.host)[c.role]
      <4>1. PICK r \in DOMAIN ClientCatalog!RoleVars(h) :
                c = [overlay_id |-> ClientCatalog!OverlayId(h), host |-> h, role |-> r,
                     vars |-> ClientCatalog!RoleVars(h)[r]]
        BY DEF ClientCatalog!ClientVars
      <4>2. c.host = h /\ c.role = r /\ c.vars = ClientCatalog!RoleVars(h)[r]
        BY <4>1
      <4> HIDE DEF h
      <4> QED BY <1>10, <4>1, <4>2
    <3>2. \A c : c \in collected => c \in catalog.client_vars \/ c \in ClientCatalog!ClientVars(h)
      BY <2>2 DEF collected
    <3> HIDE DEF h
    <3> QED BY <1>1, <2>5, <3>1, <3>2 DEF FromAccepted
  <2>10. HostsKept(inventory, host, merged, catalog.conflicts \cup clashes)
    <3>1. ASSUME NEW n \in 1..host, Chosen(inventory, inventory.hosts[n])
          PROVE  KeptIn(ClientCatalog!GroupVars(inventory.hosts[n]), merged, catalog.conflicts \cup clashes)
      <4>1. CASE n = host
        <5>1. KeptIn(client.group_vars, merged, clashes)
          BY <1>1, <2>7, MergeKeeps DEF merged, clashes
        <5>2. client.group_vars = ClientCatalog!GroupVars(inventory.hosts[n])
          BY <2>2, <4>1
        <5> QED BY <5>1, <5>2 DEF KeptIn
      <4>2. CASE n # host
        <5>1. KeptIn(ClientCatalog!GroupVars(inventory.hosts[n]), catalog.group_vars, catalog.conflicts)
          BY <1>5, <1>6, <3>1, <4>2 DEF HostsKept
        <5> QED BY <1>1, <2>7, <5>1, KeptInBase DEF merged, clashes
      <4> QED BY <4>1, <4>2
    <3> QED BY <3>1 DEF HostsKept
  <2>11. HostsCollected(inventory, host, collected)
    <3>1. client.client_vars \subseteq collected /\ catalog.client_vars \subseteq collected
      BY DEF collected
    <3>2. ASSUME NEW n \in 1..host, Chosen(inventory, inventory.hosts[n])
          PROVE  ClientCatalog!ClientVars(inventory.hosts[n]) \subseteq collected
      <4>1. CASE n = host
        BY <2>2, <3>1, <4>1
      <4>2. CASE n # host
        <5>1. ClientCatalog!ClientVars(inventory.hosts[n]) \subseteq catalog.client_vars
          BY <1>5, <1>6, <3>2, <4>2 DEF HostsCollected
        <5> QED BY <3>1, <5>1
      <4> QED BY <4>1, <4>2
    <3> QED BY <3>2 DEF HostsCollected
  <2> QED BY <1>2, <1>4, <2>5, <2>6, <2>8, <2>9, <2>10, <2>11 DEF CatalogInv
<1> QED BY <1>8, <1>9, <1>10

\* The legacy items and the inventory's own group variables come in.
LEMMA FinishStep ==
    ASSUME CatalogInv, ClientCatalog!Finish
    PROVE  CatalogInv'
<1> DEFINE kinds == DOMAIN ClientCatalog!Kinds
           own == inventory.group_vars
           items == [k \in kinds |->
                        ClientCatalog!NonShadowed(inventory.legacy[k], catalog.generated[k], ClientCatalog!Kinds[k].keys)
                        \o catalog.generated[k]]
           mismatches == [k \in kinds |->
                        ClientCatalog!LegacyMismatches(inventory.legacy[k], catalog.generated[k],
                                                       ClientCatalog!Kinds[k].fields, ClientCatalog!Kinds[k].keys)]
           differing == ClientCatalog!MappingLegacyMismatches(own, catalog.group_vars)
           merged == ClientCatalog!MergeNested(own, catalog.group_vars)
           clashes == ClientCatalog!MergeConflicts(own, catalog.group_vars)
<1>1. /\ inventory \in Inventories /\ host \in 1..Len(inventory.hosts) + 1
      /\ CatalogFields /\ GeneratedListed /\ Measured(catalog.group_vars) /\ FromAccepted
      /\ catalog.status # "refused" =>
             /\ HostsKept(inventory, host - 1, catalog.group_vars, catalog.conflicts)
             /\ HostsCollected(inventory, host - 1, catalog.client_vars)
  BY DEF CatalogInv
<1>2. /\ catalog.status = "building" /\ host > Len(inventory.hosts)
      /\ inventory' = inventory /\ host' = host
      /\ catalog' = [catalog EXCEPT !.status = "built", !.items = items, !.mismatches = mismatches,
                                    !.group_mismatches = differing, !.group_vars = merged,
                                    !.conflicts = catalog.conflicts \cup clashes]
  BY DEF ClientCatalog!Finish
<1>3. \A k \in kinds : LegacyKept(inventory.legacy[k], catalog.generated[k], ClientCatalog!Kinds[k].fields,
                                   ClientCatalog!Kinds[k].keys, items[k], mismatches[k])
  <2>1. \A k \in kinds : Listed(inventory.legacy[k]) /\ Listed(catalog.generated[k])
    BY <1>1, InventoryFacts DEF GeneratedListed
  <2> QED BY <2>1, LegacyIsKept
<1> HIDE DEF items, mismatches, differing, merged, clashes
<1>4. /\ catalog'.status = "built" /\ CatalogFields' /\ catalog'.generated = catalog.generated
      /\ catalog'.items = items /\ catalog'.mismatches = mismatches /\ catalog'.group_vars = merged
      /\ catalog'.conflicts = catalog.conflicts \cup clashes /\ catalog'.client_vars = catalog.client_vars
  BY <1>1, <1>2 DEF CatalogFields
<1>5. GeneratedListed' /\ FromAccepted'
  BY <1>1, <1>4 DEF GeneratedListed, FromAccepted
<1>6. /\ Len(inventory.hosts) \in Nat /\ DOMAIN inventory.hosts = 1..Len(inventory.hosts)
      /\ Measured(own) /\ host - 1 = Len(inventory.hosts)
  BY <1>1, <1>2, InventoryFacts
<1>7. /\ Measured(merged) /\ \A p \in DOMAIN own : p \in DOMAIN merged /\ merged[p] = own[p]
  BY <1>1, <1>6, MergeKeeps DEF merged
<1>8. /\ HostsKept(inventory, host - 1, catalog.group_vars, catalog.conflicts)
      /\ HostsCollected(inventory, host - 1, catalog.client_vars)
  BY <1>1, <1>2
<1>9. HostsKept(inventory, host - 1, merged, catalog.conflicts \cup clashes)
  BY <1>1, <1>6, <1>8, KeptInOverlay DEF HostsKept, merged, clashes
<1>10. \A p \in DOMAIN own : ClientCatalog!Kept(catalog', own, p)
  BY <1>4, <1>7 DEF ClientCatalog!Kept
<1>11. ASSUME NEW h \in ClientCatalog!Range(inventory.hosts), ClientCatalog!Selected(h)
       PROVE  /\ KeptIn(ClientCatalog!GroupVars(h), merged, catalog.conflicts \cup clashes)
              /\ GroupVarsHold(h) /\ ClientCatalog!ClientVars(h) \subseteq catalog'.client_vars
  <2>1. PICK n \in 1..Len(inventory.hosts) : h = inventory.hosts[n]
    BY <1>6 DEF ClientCatalog!Range
  <2>2. Chosen(inventory, inventory.hosts[n])
    BY <1>11, <2>1 DEF Chosen, ClientCatalog!Selected
  <2>3. GroupVarsHold(h)
    BY <1>1, <2>1, InventoryFacts
  <2>4. KeptIn(ClientCatalog!GroupVars(h), merged, catalog.conflicts \cup clashes)
    BY <1>6, <1>9, <2>1, <2>2 DEF HostsKept
  <2>5. ClientCatalog!ClientVars(h) \subseteq catalog'.client_vars
    BY <1>4, <1>6, <1>8, <2>1, <2>2 DEF HostsCollected
  <2> QED BY <2>3, <2>4, <2>5
<1>12. ASSUME NEW h \in ClientCatalog!Range(inventory.hosts), ClientCatalog!Selected(h)
       PROVE  HostAccountedFor(h)'
  <2> DEFINE settings == ClientCatalog!TerraformSettings(h)
  <2>1. \A p \in DOMAIN settings : ClientCatalog!Kept(catalog', settings, p)
    BY <1>4, <1>11, <1>12 DEF KeptIn, GroupVarsHold, ClientCatalog!Kept
  <2>2. \A p \in DOMAIN h.group_vars : \/ ClientCatalog!Kept(catalog', h.group_vars, p)
                                       \/ \E q \in DOMAIN settings : ClientCatalog!Related(p, q)
    BY <1>4, <1>11, <1>12 DEF KeptIn, GroupVarsHold, ClientCatalog!Kept
  <2>3. ASSUME NEW r \in ClientCatalog!ExtraRoles(h)
        PROVE  \E c \in catalog'.client_vars :
                   c.overlay_id = ClientCatalog!OverlayId(h) /\ c.role = r /\ ClientCatalog!ExtraKept(h, r, c.vars)
    <3> DEFINE c == [overlay_id |-> ClientCatalog!OverlayId(h), host |-> h, role |-> r,
                     vars |-> ClientCatalog!RoleVars(h)[r]]
    <3>1. r \in DOMAIN ClientCatalog!RoleVars(h) /\ ClientCatalog!ExtraKept(h, r, ClientCatalog!RoleVars(h)[r])
      BY ExtraVarsReach
    <3>2. c \in ClientCatalog!ClientVars(h)
      BY <3>1 DEF ClientCatalog!ClientVars
    <3>3. c.overlay_id = ClientCatalog!OverlayId(h) /\ c.role = r /\ c.vars = ClientCatalog!RoleVars(h)[r]
      OBVIOUS
    <3> HIDE DEF c
    <3> QED BY <1>11, <1>12, <3>1, <3>2, <3>3
  <2> QED BY <2>1, <2>2, <2>3 DEF HostAccountedFor
<1>13. ClientCatalog!ValuesAccountedFor'
  <2>1. inventory'.group_vars = own /\ inventory'.legacy = inventory.legacy /\ inventory'.hosts = inventory.hosts
    BY <1>2
  <2>2. \A h : ClientCatalog!Selected(h)' <=> ClientCatalog!Selected(h)
    BY <1>2 DEF ClientCatalog!Selected
  <2> HIDE DEF own
  <2>3. \A h \in {h \in ClientCatalog!Range(inventory'.hosts) : ClientCatalog!Selected(h)'} : HostAccountedFor(h)'
    BY <1>12, <2>1, <2>2
  <2> QED BY <1>3, <1>4, <1>10, <2>1, <2>3
          DEF ClientCatalog!ValuesAccountedFor, LegacyKept, HostAccountedFor
<1> QED BY <1>1, <1>2, <1>4, <1>5, <1>7, <1>9, <1>8, <1>13 DEF CatalogInv

\* One step per action.
LEMMA CatalogStep == CatalogInv /\ ClientCatalog!Next => CatalogInv'
  BY ClientStep, FinishStep DEF ClientCatalog!Next

LEMMA CatalogStays ==
    ASSUME CatalogInv, UNCHANGED <<inventory, host, catalog>>
    PROVE  CatalogInv'
<1>1. inventory' = inventory /\ host' = host /\ catalog' = catalog
  OBVIOUS
<1>2. ClientCatalog!ValuesAccountedFor' <=> ClientCatalog!ValuesAccountedFor
  <2>1. \A h : ClientCatalog!Selected(h)' <=> ClientCatalog!Selected(h)
    BY <1>1 DEF ClientCatalog!Selected
  <2> QED BY <1>1, <2>1 DEF ClientCatalog!ValuesAccountedFor
<1> QED BY <1>1, <1>2 DEF CatalogInv, CatalogFields, GeneratedListed, FromAccepted

\* The property is what the invariant says of a catalog that is built.
LEMMA CatalogInvKeeps == CatalogInv => ClientCatalog!CatalogKeeps
<1> SUFFICES ASSUME CatalogInv PROVE ClientCatalog!CatalogKeeps
  OBVIOUS
<1>1. ASSUME NEW c \in catalog.client_vars
      PROVE  DiskKept(c.host, c.role, c.vars)
  BY <1>1, AcceptedKeepsDisks DEF CatalogInv, FromAccepted
<1>2. ClientCatalog!PersistentDataKept
  BY <1>1 DEF ClientCatalog!PersistentDataKept, DiskKept
<1>3. ClientCatalog!ValuesAccountedFor
  <2>1. CASE catalog.status = "built"
    BY <2>1 DEF CatalogInv
  <2>2. CASE catalog.status # "built"
    BY <2>2 DEF ClientCatalog!ValuesAccountedFor
  <2> QED BY <2>1, <2>2
<1> QED BY <1>2, <1>3 DEF ClientCatalog!CatalogKeeps

\* openwrt_pxe_client_catalog.py: whatever the inventory, no disk of a persistent
\* node is given up, and no declared value but to a conflict that is named or to
\* what the catalog makes of the same host's settings.
THEOREM CatalogAlwaysKeeps == Spec => []CatalogKeeps
<1> DEFINE I == Is("ClientCatalog") => CatalogInv
<1>1. Init => I
  BY CatalogInitial DEF Init, Is
<1>2. I /\ [Next]_vars => I'
  <2> SUFFICES ASSUME I, [Next]_vars, Is("ClientCatalog")' PROVE CatalogInv'
    OBVIOUS
  <2>1. CASE UNCHANGED vars
    BY <2>1, CatalogStays DEF vars, catalogVars, Is
  <2>2. CASE Next
    BY <2>2, CatalogStep, CatalogStays DEF Next, Others, Is, catalogVars
  <2> QED
    BY <2>1, <2>2
<1>3. I => CatalogKeeps
  BY CatalogInvKeeps DEF CatalogKeeps
<1> QED
  BY <1>1, <1>2, <1>3, PTL DEF Spec
==================================================================================
