-------------------------- MODULE UploadNamesProofs --------------------------
(***************************************************************************)
(* Proofs about UploadNames: what path.Clean and objectName give for every *)
(* path and tree of files, and that a job's objects are its own.           *)
(***************************************************************************)
EXTENDS UploadNames, UploadProofs, SequenceTheorems, WellFoundedInduction

-----------------------------------------------------------------------------
(* Induction: a set of numbers has a least one.                            *)

LEMMA LeastNumber ==
  ASSUME NEW S \in SUBSET Nat, S # {}
  PROVE  \E k \in S : \A m \in S : k <= m
<1> DEFINE R == OpToRel(<, Nat)
<1>1. IsWellFoundedOn(R, Nat)
  BY NatLessThanWellFounded
<1>2. \A m, k \in Nat : m < k => <<m, k>> \in R
  BY DEF OpToRel
<1> HIDE DEF R
<1>3. PICK k \in S : \A m \in S : ~(<<m, k>> \in R)
  BY <1>1, WFMin
<1>4. \A m \in S : ~(m < k)
  BY <1>2, <1>3
<1>5. \A m \in S : k <= m
  BY <1>4
<1>6. QED
  BY <1>5

(* What holds of 0 and passes from each number to the next, up to n, holds *)
(* of n.                                                                   *)
LEMMA UpTo ==
  ASSUME NEW n0 \in Nat, NEW S, 0 \in S, \A k \in 1..n0 : k - 1 \in S => k \in S
  PROVE  \A k \in 0..n0 : k \in S
<1> SUFFICES ASSUME {k \in 0..n0 : k \notin S} # {} PROVE FALSE
  OBVIOUS
<1> DEFINE T == {k \in 0..n0 : k \notin S}
<1>1. PICK k \in T : \A m \in T : k <= m
  <2>1. T \in SUBSET Nat
    OBVIOUS
  <2>2. QED
    BY <2>1, LeastNumber
<1>2. k \in 1..n0
  BY <1>1
<1>3. k - 1 \notin T /\ k - 1 \in 0..n0
  BY <1>1, <1>2
<1>4. QED
  BY <1>1, <1>2, <1>3

-----------------------------------------------------------------------------
(* Sequences, one element after the other.                                 *)

LEMMA SubSeqAppend ==
  ASSUME NEW S, NEW s \in Seq(S), NEW k \in 1..Len(s)
  PROVE  SubSeq(s, 1, k) = Append(SubSeq(s, 1, k - 1), s[k]) /\ SubSeq(s, 1, k - 1) \in Seq(S)
<1>1. Len(s) \in Nat /\ 1 \in 1..Len(s) /\ k \in 1..Len(s) /\ s[k] \in S
  BY ElementOfSeq
<1>2. SubSeq(s, 1, k) = SubSeq(s, 1, k - 1) \o <<s[k]>>
  BY <1>1, SubSeqRecursiveSecond
<1>3. SubSeq(s, 1, k - 1) \in Seq(S)
  BY <1>1, ElementOfSeq, SubSeqProperties
<1>4. QED
  BY <1>1, <1>2, <1>3, AppendIsConcat

LEMMA SeqInduction ==
  ASSUME NEW S, NEW T, <<>> \in T,
         \A s \in Seq(S), e \in S : s \in T => Append(s, e) \in T
  PROVE  \A s \in Seq(S) : s \in T
<1> SUFFICES ASSUME NEW q \in Seq(S) PROVE q \in T
  OBVIOUS
<1>1. Len(q) \in Nat
  OBVIOUS
<1> DEFINE U == {k \in 0..Len(q) : SubSeq(q, 1, k) \in T}
<1>2. 0 \in U
  <2>1. SubSeq(q, 1, 0) = <<>>
    BY SubSeqEmpty
  <2>2. SubSeq(q, 1, 0) \in T
    BY <2>1, Zenon
  <2>3. 0 \in 0..Len(q)
    BY <1>1
  <2>4. QED
    BY <2>2, <2>3, Zenon
<1>3. ASSUME NEW k \in 1..Len(q), k - 1 \in U PROVE k \in U
  <2>1. SubSeq(q, 1, k) = Append(SubSeq(q, 1, k - 1), q[k]) /\ SubSeq(q, 1, k - 1) \in Seq(S)
    BY <1>1, SubSeqAppend
  <2>2. q[k] \in S
    BY ElementOfSeq
  <2>3. SubSeq(q, 1, k - 1) \in T
    BY <1>3
  <2>4. SubSeq(q, 1, k) \in T
    BY <2>1, <2>2, <2>3
  <2>5. QED
    BY <2>4
<1> HIDE DEF U
<1>4. Len(q) \in U
  <2>1. \A k \in 0..Len(q) : k \in U
    BY <1>1, <1>2, <1>3, UpTo
  <2>2. QED
    BY <1>1, <2>1
<1>5. SubSeq(q, 1, Len(q)) \in T
  BY <1>4 DEF U
<1>6. SubSeq(q, 1, Len(q)) = q
  BY SubSeqFull
<1>7. QED
  BY <1>5, <1>6, Zenon

LEMMA PrefixLength ==
  ASSUME NEW S, NEW s, NEW k \in Nat, \A i \in 1..k : s[i] \in S
  PROVE  Len(SubSeq(s, 1, k)) = k
<1>1. CASE k = 0
  <2>1. SubSeq(s, 1, 0) = <<>>
    BY SubSeqEmpty
  <2>2. QED
    BY <1>1, <2>1
<1>2. CASE k # 0
  <2>1. Len(SubSeq(s, 1, k)) = IF 1 <= k THEN k - 1 + 1 ELSE 0
    BY SubSeqProperties
  <2>2. 1 <= k /\ k - 1 + 1 = k
    BY <1>2
  <2> DEFINE l == Len(SubSeq(s, 1, k))
  <2> HIDE DEF l
  <2>3. l = k
    BY <2>1, <2>2 DEF l
  <2>4. QED
    BY <2>3 DEF l
<1>3. QED
  BY <1>1, <1>2

LEMMA FrontProperties ==
  ASSUME NEW S, NEW s \in Seq(S), s # <<>>
  PROVE  /\ Len(s) \in Nat \ {0} /\ Front(s) \in Seq(S) /\ Len(Front(s)) = Len(s) - 1
         /\ \A i \in 1..(Len(s) - 1) : Front(s)[i] = s[i]
<1>1. Len(s) \in Nat \ {0}
  BY EmptySeq
<1>2. \A i \in 1..(Len(s) - 1) : s[i] \in S
  BY <1>1, ElementOfSeq
<1>3. SubSeq(s, 1, Len(s) - 1) \in Seq(S)
  BY <1>1, <1>2, SubSeqProperties
<1>4. Len(SubSeq(s, 1, Len(s) - 1)) = Len(s) - 1
  <2>1. Len(s) - 1 \in Nat
    BY <1>1
  <2>2. QED
    BY <1>2, <2>1, PrefixLength, Zenon
<1>5. \A i \in 1..(Len(s) - 1) : SubSeq(s, 1, Len(s) - 1)[i] = s[i]
  BY <1>1, <1>2
<1>6. QED
  BY <1>1, <1>3, <1>4, <1>5, Zenon DEF Front

LEMMA PrefixElements ==
  ASSUME NEW S, NEW p \in Seq(S), NEW q \in Seq(S)
  PROVE  IsPrefix(p, q) <=> Len(p) <= Len(q) /\ \A i \in 1..Len(p) : p[i] = q[i]
<1>1. Len(p) \in Nat /\ Len(q) \in Nat
  OBVIOUS
<1>2. SubSeq(p, 1, Len(p)) = p
  BY SubSeqFull
<1>3. ASSUME Len(p) <= Len(q)
      PROVE  p = SubSeq(q, 1, Len(p)) <=> \A i \in 1..Len(p) : p[i] = q[i]
  <2> DEFINE r == SubSeq(q, 1, Len(p))
  <2>1. \A i \in 1..Len(p) : q[i] \in S
    BY <1>1, <1>3, ElementOfSeq
  <2>2. r \in Seq(S)
    BY <1>1, <2>1, SubSeqProperties
  <2>3. Len(r) = Len(p)
    BY <1>1, <2>1, PrefixLength, Zenon
  <2>4. \A i \in 1..Len(p) : r[i] = q[i]
    BY <1>1, <2>1, SubSeqProperties
  <2> HIDE DEF r
  <2>5. QED
    <3>1. p = r => \A i \in 1..Len(p) : p[i] = q[i]
      BY <2>4
    <3>2. (\A i \in 1..Len(p) : p[i] = q[i]) => p = r
      BY <2>2, <2>3, <2>4, SeqEqual
    <3>3. QED
      BY <3>1, <3>2 DEF r
<1>4. QED
  BY <1>2, <1>3, Zenon DEF IsPrefix

LEMMA ConcatPrefix ==
  ASSUME NEW S, NEW p \in Seq(S), NEW q \in Seq(S)
  PROVE  /\ IsPrefix(p, p \o q) /\ (q # <<>> => IsStrictPrefix(p, p \o q))
         /\ SubSeq(p \o q, Len(p) + 1, Len(p \o q)) = q
<1>1. /\ p \o q \in Seq(S) /\ Len(p \o q) = Len(p) + Len(q)
      /\ \A i \in 1..Len(p) + Len(q) :
           (p \o q)[i] = IF i <= Len(p) THEN p[i] ELSE q[i - Len(p)]
  BY ConcatProperties
<1>2. Len(p) \in Nat /\ Len(q) \in Nat
  OBVIOUS
<1> DEFINE r == p \o q
<1>3. r # p \/ q = <<>>
  BY ConcatEqualIffEmpty
<1> HIDE DEF r
<1>4. Len(p) <= Len(r) /\ \A i \in 1..Len(p) : p[i] = r[i]
  BY <1>1, <1>2 DEF r
<1>5. IsPrefix(p, r)
  <2>1. r \in Seq(S)
    BY <1>1 DEF r
  <2>2. QED
    BY <1>4, <2>1, PrefixElements
<1>6. q # <<>> => IsStrictPrefix(p, r)
  BY <1>3, <1>5 DEF IsStrictPrefix
<1>7. SubSeq(p \o q, Len(p) + 1, Len(p \o q)) = q
  BY <1>1, <1>2, SubSeqOfConcat2, SubSeqFull
<1>8. QED
  BY <1>5, <1>6, <1>7, Zenon DEF r

LEMMA CancelLeft ==
  ASSUME NEW S, NEW p \in Seq(S), NEW q \in Seq(S), NEW r \in Seq(S), p \o q = p \o r
  PROVE  q = r
<1>1. /\ SubSeq(p \o q, Len(p) + 1, Len(p \o q)) = q
      /\ SubSeq(p \o r, Len(p) + 1, Len(p \o r)) = r
  BY ConcatPrefix
<1>2. QED
  BY <1>1, Zenon

(* Two paths to the same place: one starts with the other.                 *)
LEMMA SameConcat ==
  ASSUME NEW S, NEW p \in Seq(S), NEW q \in Seq(S), NEW u \in Seq(S), NEW v \in Seq(S),
         p \o u = q \o v
  PROVE  IsPrefix(p, q) \/ IsPrefix(q, p)
<1> DEFINE r == p \o u
<1>1. Len(p) \in Nat /\ Len(q) \in Nat
  OBVIOUS
<1>2. r \in Seq(S) /\ IsPrefix(p, r) /\ IsPrefix(q, r)
  BY ConcatPrefix, ConcatProperties
<1> HIDE DEF r
<1>3. \A i \in 1..Len(p) : p[i] = r[i]
  BY <1>2, PrefixElements
<1>4. \A i \in 1..Len(q) : q[i] = r[i]
  BY <1>2, PrefixElements
<1>5. CASE Len(p) <= Len(q)
  <2>1. \A i \in 1..Len(p) : p[i] = q[i]
    BY <1>1, <1>3, <1>4, <1>5
  <2>2. QED
    BY <1>5, <2>1, PrefixElements
<1>6. CASE Len(q) <= Len(p)
  <2>1. \A i \in 1..Len(q) : q[i] = p[i]
    BY <1>1, <1>3, <1>4, <1>6
  <2>2. QED
    BY <1>6, <2>1, PrefixElements
<1>7. QED
  BY <1>1, <1>5, <1>6

LEMMA ConcatAppend ==
  ASSUME NEW S, NEW p \in Seq(S), NEW q \in Seq(S), NEW e \in S
  PROVE  p \o Append(q, e) = Append(p \o q, e) /\ p \o q \in Seq(S)
<1>1. p \o q \in Seq(S) /\ <<e>> \in Seq(S)
  BY ConcatProperties
<1>2. Append(q, e) = q \o <<e>> /\ Append(p \o q, e) = (p \o q) \o <<e>>
  BY <1>1, AppendIsConcat
<1>3. (p \o q) \o <<e>> = p \o (q \o <<e>>)
  BY <1>1, ConcatAssociative
<1>4. QED
  BY <1>1, <1>2, <1>3

-----------------------------------------------------------------------------
(* path.Clean.                                                             *)

Root(p) == IF Head(p) = "" THEN <<"">> ELSE <<>>

(* done is the run of the loop of Clean over the first k components of p.  *)
Runs(done, p, k) ==
  done = [i \in 0..k |-> IF i = 0 THEN Root(p) ELSE CleanStep(done[i - 1], p[i])]

LEMMA RunStep ==
  ASSUME NEW done, NEW p, NEW k \in Nat, Runs(done, p, k)
  PROVE  /\ done[0] = Root(p)
         /\ \A i \in 1..k : done[i] = CleanStep(done[i - 1], p[i])
BY DEF Runs

(* A path and its components.                                              *)
LEMMA PathType ==
  ASSUME NEW p \in Paths
  PROVE  /\ p \in Seq(Components) /\ Len(p) \in Nat \ {0} /\ Head(p) = p[1]
         /\ \A i \in 1..Len(p) : p[i] \in Components
BY DEF Paths

LEMMA PathAppend ==
  ASSUME NEW p \in Paths, NEW c \in Components
  PROVE  /\ Append(p, c) \in Paths /\ Len(Append(p, c)) = Len(p) + 1
         /\ Append(p, c)[Len(p) + 1] = c
         /\ \A i \in 1..Len(p) : Append(p, c)[i] = p[i]
         /\ Root(Append(p, c)) = Root(p)
<1>1. p \in Seq(Components) /\ Len(p) \in Nat \ {0} /\ Head(p) = p[1]
  BY PathType
<1> DEFINE q == Append(p, c)
<1>2. /\ q \in Seq(Components) /\ Len(q) = Len(p) + 1 /\ q[Len(p) + 1] = c
      /\ \A i \in 1..Len(p) : q[i] = p[i]
  BY <1>1, AppendProperties
<1> HIDE DEF q
<1>3. q \in Seq(Components) /\ Len(q) = Len(p) + 1
  BY <1>2
<1>4. q[Len(p) + 1] = c
  BY <1>2
<1>5. \A i \in 1..Len(p) : q[i] = p[i]
  BY <1>2
<1>6. q \in Paths
  <2>1. Len(q) # 0
    BY <1>1, <1>3
  <2>2. QED
    BY <1>3, <2>1, EmptySeq DEF Paths
<1>7. Root(q) = Root(p)
  <2>1. 1 \in 1..Len(p)
    BY <1>1
  <2>2. Head(q) = Head(p)
    BY <1>1, <1>5, <1>6, <2>1, PathType
  <2>3. QED
    BY <2>2 DEF Root
<1>8. QED
  BY <1>3, <1>4, <1>5, <1>6, <1>7 DEF q

LEMMA RunExists ==
  ASSUME NEW p \in Paths
  PROVE  \A k \in 0..Len(p) : \E done : Runs(done, p, k)
<1> DEFINE S == {k \in 0..Len(p) : \E done : Runs(done, p, k)}
<1>1. 0 \in S
  <2>1. Runs([i \in 0..0 |-> Root(p)], p, 0)
    BY DEF Runs
  <2>2. QED
    BY <2>1 DEF Paths
<1>2. ASSUME NEW k \in 1..Len(p), k - 1 \in S PROVE k \in S
  <2>1. PICK g : Runs(g, p, k - 1)
    BY <1>2
  <2> DEFINE h == [i \in 0..k |-> IF i = k THEN CleanStep(g[k - 1], p[k]) ELSE g[i]]
  <2>2. \A i \in 0..(k - 1) : g[i] = IF i = 0 THEN Root(p) ELSE CleanStep(g[i - 1], p[i])
    BY <2>1 DEF Runs
  <2>3. \A i \in 0..k : h[i] = IF i = 0 THEN Root(p) ELSE CleanStep(h[i - 1], p[i])
    <3> SUFFICES ASSUME NEW i \in 0..k
                 PROVE  h[i] = IF i = 0 THEN Root(p) ELSE CleanStep(h[i - 1], p[i])
      OBVIOUS
    <3>1. i # 0 => i - 1 \in 0..(k - 1) /\ h[i - 1] = g[i - 1]
      OBVIOUS
    <3> HIDE DEF h
    <3>2. i # k => h[i] = g[i] /\ i \in 0..(k - 1)
      BY DEF h
    <3>3. h[k] = CleanStep(g[k - 1], p[k])
      BY DEF h
    <3>4. QED
      BY <2>2, <3>1, <3>2, <3>3
  <2>4. DOMAIN h = 0..k /\ h = [i \in DOMAIN h |-> h[i]]
    OBVIOUS
  <2> HIDE DEF h
  <2>5. Runs(h, p, k)
    BY <2>3, <2>4 DEF Runs
  <2>6. QED
    BY <2>5
<1> HIDE DEF S
<1>3. \A k \in 0..Len(p) : k \in S
  BY <1>1, <1>2, UpTo, PathType
<1>4. QED
  BY <1>3 DEF S

(* Clean runs its loop to the end.                                         *)
LEMMA CleanRuns ==
  ASSUME NEW p \in Paths
  PROVE  \E done : Runs(done, p, Len(p)) /\ Clean(p) = done[Len(p)]
<1>1. \E done : Runs(done, p, Len(p))
  BY RunExists DEF Paths
<1> DEFINE run == CHOOSE done : Runs(done, p, Len(p))
<1>2. Runs(run, p, Len(p))
  BY <1>1
<1>3. Clean(p) = run[Len(p)]
  BY DEF Clean, Runs, Root
<1>4. QED
  BY <1>2, <1>3

(* The loop does not look ahead.                                           *)
LEMMA SameRun ==
  ASSUME NEW p \in Paths, NEW c \in Components, NEW f, NEW g,
         Runs(f, p, Len(p)), Runs(g, Append(p, c), Len(p) + 1)
  PROVE  g[Len(p)] = f[Len(p)]
<1> DEFINE S == {k \in 0..Len(p) : g[k] = f[k]}
<1>1. Len(p) \in Nat /\ Len(p) + 1 \in Nat
  BY PathType
<1> DEFINE q == Append(p, c)
<1>2. Root(q) = Root(p) /\ \A i \in 1..Len(p) : q[i] = p[i]
  BY PathAppend
<1>3. f[0] = Root(p) /\ \A i \in 1..Len(p) : f[i] = CleanStep(f[i - 1], p[i])
  BY <1>1, RunStep
<1> HIDE DEF q
<1>4. g[0] = Root(q) /\ \A i \in 1..(Len(p) + 1) : g[i] = CleanStep(g[i - 1], q[i])
  <2>1. Runs(g, q, Len(p) + 1)
    BY DEF q
  <2>2. QED
    BY <1>1, <2>1, RunStep
<1>5. 0 \in S
  BY <1>1, <1>2, <1>3, <1>4
<1>6. ASSUME NEW k \in 1..Len(p), k - 1 \in S PROVE k \in S
  <2>1. k \in 1..(Len(p) + 1) /\ k \in 0..Len(p)
    BY <1>1
  <2>2. f[k] = CleanStep(f[k - 1], p[k]) /\ g[k] = CleanStep(g[k - 1], p[k])
    BY <1>2, <1>3, <1>4, <2>1
  <2>3. QED
    BY <1>6, <2>1, <2>2
<1> HIDE DEF S
<1>7. \A k \in 0..Len(p) : k \in S
  BY <1>1, <1>5, <1>6, UpTo
<1>8. QED
  BY <1>1, <1>7 DEF S

LEMMA CleanAppend ==
  ASSUME NEW p \in Paths, NEW c \in Components
  PROVE  Append(p, c) \in Paths /\ Clean(Append(p, c)) = CleanStep(Clean(p), c)
<1>1. /\ Append(p, c) \in Paths /\ Len(Append(p, c)) = Len(p) + 1
      /\ Append(p, c)[Len(p) + 1] = c /\ Len(p) \in Nat
  BY PathAppend, PathType
<1>2. PICK f : Runs(f, p, Len(p)) /\ Clean(p) = f[Len(p)]
  BY CleanRuns
<1>3. PICK g : Runs(g, Append(p, c), Len(p) + 1) /\ Clean(Append(p, c)) = g[Len(p) + 1]
  BY <1>1, CleanRuns
<1>4. g[Len(p) + 1] = CleanStep(g[Len(p)], c)
  <2> DEFINE q == Append(p, c)
  <2> DEFINE k == Len(p) + 1
  <2>1. k \in Nat /\ k \in 1..k /\ k - 1 = Len(p) /\ q[k] = c
    BY <1>1
  <2>2. Runs(g, q, k)
    BY <1>3
  <2> HIDE DEF q, k
  <2>3. g[k] = CleanStep(g[k - 1], q[k])
    BY <2>1, <2>2, RunStep
  <2>4. QED
    BY <2>1, <2>3 DEF k
<1>5. g[Len(p)] = f[Len(p)]
  BY <1>2, <1>3, SameRun
<1>6. QED
  BY <1>1, <1>2, <1>3, <1>4, <1>5

LEMMA CleanOne ==
  ASSUME NEW c \in Components
  PROVE  /\ <<c>> \in Paths
         /\ Clean(<<c>>) = IF c \in {"", "."} THEN (IF c = "" THEN <<"">> ELSE <<>>) ELSE <<c>>
<1>1. <<c>> \in Paths /\ Len(<<c>>) = 1 /\ <<c>>[1] = c /\ Head(<<c>>) = c
  BY DEF Paths
<1>2. PICK f : Runs(f, <<c>>, 1) /\ Clean(<<c>>) = f[1]
  BY <1>1, CleanRuns
<1>3. f[0] = Root(<<c>>) /\ f[1] = CleanStep(f[0], c)
  <2>1. f[0] = Root(<<c>>) /\ \A i \in 1..1 : f[i] = CleanStep(f[i - 1], <<c>>[i])
    BY <1>2, RunStep
  <2>2. QED
    BY <1>1, <2>1
<1>4. Root(<<c>>) = IF c = "" THEN <<"">> ELSE <<>>
  BY <1>1 DEF Root
<1>5. CASE c \in {"", "."}
  <2>1. CleanStep(Root(<<c>>), c) = Root(<<c>>)
    BY <1>5, Zenon DEF CleanStep
  <2>2. QED
    BY <1>1, <1>2, <1>3, <1>4, <1>5, <2>1, Zenon
<1>6. CASE c \notin {"", "."}
  <2>1. c # "" /\ Root(<<c>>) = <<>>
    BY <1>4, <1>6
  <2>2. <<>> # <<"">> /\ Append(<<>>, c) = <<c>>
    OBVIOUS
  <2>3. CleanStep(<<>>, c) = Append(<<>>, c)
    BY <1>6, <2>2, Zenon DEF CleanStep
  <2>4. QED
    BY <1>1, <1>2, <1>3, <1>6, <2>1, <2>2, <2>3, Zenon
<1>7. QED
  BY <1>5, <1>6

(* What Clean returns.                                                     *)
Allowed(c, i) == c \in FileNames \cup {".."} \/ (i = 1 /\ c = "")

Cleaned(q) == q \in Seq(Components) /\ \A i \in 1..Len(q) : Allowed(q[i], i)

LEMMA CleanStepType ==
  ASSUME NEW q, Cleaned(q), NEW c \in Components
  PROVE  Cleaned(CleanStep(q, c))
<1>1. q \in Seq(Components) /\ \A i \in 1..Len(q) : Allowed(q[i], i)
  BY DEF Cleaned
<1> USE DEF Cleaned
<1>2. CASE CleanStep(q, c) = q
  BY <1>2
<1>3. CASE q # <<>> /\ CleanStep(q, c) = Front(q)
  <2>1. /\ Len(q) \in Nat \ {0} /\ Front(q) \in Seq(Components)
        /\ Len(Front(q)) = Len(q) - 1 /\ \A i \in 1..(Len(q) - 1) : Front(q)[i] = q[i]
    BY <1>1, <1>3, FrontProperties
  <2>2. \A i \in 1..Len(Front(q)) : Allowed(Front(q)[i], i)
    BY <1>1, <2>1
  <2>3. QED
    BY <1>3, <2>1, <2>2, Zenon
<1>4. CASE CleanStep(q, c) = Append(q, c) /\ c \notin {"", "."}
  <2>1. Len(q) \in Nat
    BY <1>1
  <2> DEFINE r == Append(q, c)
  <2>2. /\ r \in Seq(Components) /\ Len(r) = Len(q) + 1
        /\ r[Len(q) + 1] = c /\ \A i \in 1..Len(q) : r[i] = q[i]
    BY <1>1, AppendProperties
  <2> HIDE DEF r
  <2>3. \A i : Allowed(c, i)
    BY <1>4 DEF FileNames, Allowed
  <2>4. \A i \in 1..Len(r) : Allowed(r[i], i)
    BY <1>1, <2>1, <2>2, <2>3
  <2>5. CleanStep(q, c) = r
    BY <1>4 DEF r
  <2>6. QED
    BY <2>2, <2>4, <2>5, Zenon
<1>5. QED
  BY <1>2, <1>3, <1>4 DEF CleanStep

LEMMA CleanedSmall ==
  Cleaned(<<>>) /\ \A c \in Components : c # "." => Cleaned(<<c>>)
<1>1. ASSUME NEW c \in Components, Allowed(c, 1) PROVE Cleaned(<<c>>)
  <2>1. <<c>> \in Seq(Components) /\ Len(<<c>>) = 1 /\ <<c>>[1] = c
    OBVIOUS
  <2>2. \A i \in 1..1 : Allowed(<<c>>[i], i)
    BY <1>1, <2>1
  <2>3. QED
    BY <2>1, <2>2, Zenon DEF Cleaned
<1>2. \A c \in Components : c # "." => Allowed(c, 1)
  BY DEF Allowed, FileNames
<1>3. Cleaned(<<>>)
  <2>1. <<>> \in Seq(Components) /\ \A i \in 1..Len(<<>>) : FALSE
    OBVIOUS
  <2>2. QED
    BY <2>1, Zenon DEF Cleaned
<1>4. QED
  BY <1>1, <1>2, <1>3, Zenon

LEMMA CleanType == \A p \in Paths : Cleaned(Clean(p))
<1> DEFINE T == {p \in Seq(Components) : p # <<>> => Cleaned(Clean(p))}
<1>1. <<>> \in T
  OBVIOUS
<1>2. ASSUME NEW p \in Seq(Components), NEW c \in Components, p \in T PROVE Append(p, c) \in T
  <2>1. Append(p, c) \in Seq(Components)
    BY AppendProperties
  <2>2. CASE p = <<>>
    <3>1. Append(p, c) = <<c>>
      BY <2>2
    <3>2. Clean(<<c>>) \in {<<>>, <<c>>} /\ (c = "." => Clean(<<c>>) = <<>>)
      BY CleanOne
    <3>3. Cleaned(Clean(<<c>>))
      BY <3>2, CleanedSmall
    <3>4. QED
      BY <2>1, <3>1, <3>3
  <2>3. CASE p # <<>>
    <3>1. p \in Paths /\ Cleaned(Clean(p))
      BY <1>2, <2>3 DEF Paths
    <3>2. Clean(Append(p, c)) = CleanStep(Clean(p), c)
      BY <3>1, CleanAppend
    <3>3. QED
      BY <2>1, <3>1, <3>2, CleanStepType
  <2>4. QED
    BY <2>2, <2>3
<1> HIDE DEF T
<1>3. \A p \in Seq(Components) : p \in T
  BY <1>1, <1>2, SeqInduction
<1>4. QED
  BY <1>3 DEF T, Paths

-----------------------------------------------------------------------------
(* Names below a directory are what path.Clean leaves alone.               *)

LEMMA NamesAreComponents ==
  /\ Seq(FileNames) \subseteq Seq(Components)
  /\ FileNames \subseteq Components
  /\ Paths \subseteq Seq(Components)
<1>1. FileNames \subseteq Components
  BY DEF FileNames
<1>2. QED
  BY <1>1, SeqMonotonic DEF Paths

LEMMA ConcatPath ==
  ASSUME NEW p \in Paths, NEW q \in Seq(Components)
  PROVE  p \o q \in Paths /\ p \o q \in Seq(Components)
<1>1. p \in Seq(Components) /\ p # <<>>
  BY DEF Paths
<1>2. p \o q \in Seq(Components)
  BY <1>1, ConcatProperties
<1>3. p \o q # <<>>
  BY <1>1, ConcatEqualIffEmpty
<1>4. QED
  BY <1>2, <1>3 DEF Paths

LEMMA CleanConcat ==
  ASSUME NEW p \in Paths
  PROVE  \A q \in Seq(FileNames) : Clean(p \o q) = Clean(p) \o q
<1> DEFINE T == {q \in Seq(FileNames) : Clean(p \o q) = Clean(p) \o q}
<1>1. p \in Seq(Components) /\ Clean(p) \in Seq(Components)
  BY CleanType, NamesAreComponents DEF Cleaned
<1>2. <<>> \in T
  BY <1>1, ConcatEmptySeq
<1>3. ASSUME NEW q \in Seq(FileNames), NEW c \in FileNames, q \in T PROVE Append(q, c) \in T
  <2>1. q \in Seq(Components) /\ c \in Components /\ Append(q, c) \in Seq(FileNames)
    BY NamesAreComponents, AppendProperties
  <2>2. p \o q \in Paths
    BY <2>1, ConcatPath
  <2>3. Clean(Append(p \o q, c)) = CleanStep(Clean(p) \o q, c)
    BY <1>3, <2>1, <2>2, CleanAppend
  <2>4. CleanStep(Clean(p) \o q, c) = Append(Clean(p) \o q, c)
    BY DEF CleanStep, FileNames
  <2>5. p \o Append(q, c) = Append(p \o q, c)
    BY <1>1, <2>1, ConcatAppend
  <2>6. Clean(p) \o Append(q, c) = Append(Clean(p) \o q, c)
    BY <1>1, <2>1, ConcatAppend
  <2>7. QED
    BY <2>1, <2>3, <2>4, <2>5, <2>6
<1> HIDE DEF T
<1>4. \A q \in Seq(FileNames) : q \in T
  BY <1>2, <1>3, SeqInduction
<1>5. QED
  BY <1>4 DEF T

(* A path without anything to clean.                                       *)
Plain(p) == \A i \in 1..Len(p) : p[i] \in FileNames \/ (i = 1 /\ p[i] = "")

LEMMA PlainClean == \A p \in Paths : Plain(p) => Clean(p) = p
<1> DEFINE T == {p \in Seq(Components) : p # <<>> /\ Plain(p) => Clean(p) = p}
<1>1. <<>> \in T
  OBVIOUS
<1>2. ASSUME NEW p \in Seq(Components), NEW c \in Components, p \in T PROVE Append(p, c) \in T
  <2> DEFINE r == Append(p, c)
  <2>1. /\ r \in Seq(Components) /\ Len(r) = Len(p) + 1 /\ Len(p) \in Nat
        /\ r[Len(p) + 1] = c /\ \A i \in 1..Len(p) : r[i] = p[i]
    BY AppendProperties
  <2>2. p = <<>> => r = <<c>> /\ Len(p) = 0
    OBVIOUS
  <2>3. p # <<>> => p \in Paths /\ Clean(r) = CleanStep(Clean(p), c) /\ Len(p) # 0
    BY CleanAppend, EmptySeq DEF Paths
  <2>4. c \in FileNames => CleanStep(p, c) = r
    BY DEF CleanStep, FileNames
  <2> HIDE DEF r
  <2> SUFFICES ASSUME Plain(r) PROVE Clean(r) = r
    BY <2>1 DEF r
  <2>5. c \in FileNames \/ (Len(p) + 1 = 1 /\ c = "")
    <3>1. Len(p) + 1 \in 1..Len(r)
      BY <2>1
    <3>2. QED
      BY <2>1, <3>1, Zenon DEF Plain
  <2>6. CASE p = <<>>
    <3>1. c # "."
      BY <2>5 DEF FileNames
    <3>2. QED
      BY <2>2, <2>6, <3>1, CleanOne
  <2>7. CASE p # <<>>
    <3>1. Plain(p)
      <4>1. \A i \in 1..Len(p) : i \in 1..Len(r) /\ r[i] = p[i]
        BY <2>1
      <4>2. QED
        BY <4>1, Zenon DEF Plain
    <3>2. Clean(p) = p
      BY <1>2, <2>7, <3>1
    <3>3. c \in FileNames
      <4>1. Len(p) + 1 # 1
        BY <2>1, <2>3, <2>7
      <4>2. QED
        BY <2>5, <4>1, Zenon
    <3>4. QED
      BY <2>3, <2>4, <2>7, <3>2, <3>3
  <2>8. QED
    BY <2>6, <2>7
<1> HIDE DEF T
<1>3. \A p \in Seq(Components) : p \in T
  BY <1>1, <1>2, SeqInduction
<1>4. QED
  BY <1>3 DEF T, Paths

-----------------------------------------------------------------------------
(* The names of a job's objects.                                           *)

(* A localStoragePath that is clean, or that does not lead above the       *)
(* directory it starts from.                                               *)
Contained(store) ==
  Clean(store) = store \/ \A i \in 1..Len(Clean(store)) : Clean(store)[i] # ".."

(* An absolute path is contained: "/.." is "/".                            *)
IsRoot(c) == c = ""
IsUp(c) == c = ".."

Absolute(q) ==
  /\ q \in Seq(Components) /\ q # <<>> /\ IsRoot(q[1])
  /\ \A i \in 1..Len(q) : ~IsUp(q[i])

LEMMA AbsoluteStep ==
  ASSUME NEW q, Absolute(q), NEW c \in Components
  PROVE  Absolute(CleanStep(q, c))
<1>1. q \in Seq(Components) /\ q # <<>> /\ IsRoot(q[1]) /\ Len(q) \in Nat \ {0}
  BY EmptySeq DEF Absolute
<1>2. \A i \in 1..Len(q) : ~IsUp(q[i])
  BY DEF Absolute
<1>3. CASE c \in {"", "."} \/ (c = ".." /\ q = <<"">>)
  BY <1>3, Zenon DEF CleanStep
<1>4. CASE c = ".." /\ q # <<"">>
  <2>1. c \notin {"", "."}
    BY <1>4
  <2>2. CleanStep(q, c) = Front(q)
    <3>1. Len(q) \in 1..Len(q)
      BY <1>1
    <3>2. Last(q) # ".."
      BY <1>2, <3>1, Zenon DEF Last, IsUp
    <3>3. QED
      BY <1>1, <1>4, <2>1, <3>2, Zenon DEF CleanStep
  <2>3. /\ Front(q) \in Seq(Components) /\ Len(Front(q)) = Len(q) - 1
        /\ \A i \in 1..(Len(q) - 1) : Front(q)[i] = q[i]
    BY <1>1, FrontProperties
  <2>4. Len(q) # 1
    <3>1. ASSUME Len(q) = 1 PROVE q = <<q[1]>>
      BY <1>1, <3>1
    <3>2. <<q[1]>> = <<"">>
      BY <1>1, Zenon DEF IsRoot
    <3>3. QED
      BY <1>4, <3>1, <3>2, Zenon
  <2>5. 1 \in 1..(Len(q) - 1) /\ Len(q) - 1 # 0
    <3> DEFINE l == Len(q)
    <3>1. l \in Nat \ {0} /\ l # 1
      BY <1>1, <2>4
    <3> HIDE DEF l
    <3>2. 1 \in 1..(l - 1) /\ l - 1 # 0
      BY <3>1
    <3>3. QED
      BY <3>2 DEF l
  <2>6. Front(q) # <<>> /\ IsRoot(Front(q)[1])
    BY <1>1, <2>3, <2>5
  <2>7. \A i \in 1..Len(Front(q)) : ~IsUp(Front(q)[i])
    BY <1>1, <1>2, <2>3
  <2>8. QED
    BY <2>2, <2>3, <2>6, <2>7, Zenon DEF Absolute
<1>5. CASE c \notin {"", ".", ".."}
  <2> DEFINE r == Append(q, c)
  <2>1. /\ r \in Seq(Components) /\ Len(r) = Len(q) + 1
        /\ r[Len(q) + 1] = c /\ \A i \in 1..Len(q) : r[i] = q[i]
    BY <1>1, AppendProperties
  <2>2. CleanStep(q, c) = r
    BY <1>5, Zenon DEF CleanStep
  <2> HIDE DEF r
  <2>3. r # <<>> /\ IsRoot(r[1])
    BY <1>1, <2>1
  <2>4. ~IsUp(c)
    BY <1>5 DEF IsUp
  <2>5. \A i \in 1..Len(r) : ~IsUp(r[i])
    BY <1>1, <1>2, <2>1, <2>4
  <2>6. QED
    BY <2>1, <2>2, <2>3, <2>5, Zenon DEF Absolute
<1>6. QED
  BY <1>3, <1>4, <1>5

LEMMA AbsoluteContained == \A p \in Paths : Head(p) = "" => Contained(p)
<1> DEFINE T == {p \in Seq(Components) : p # <<>> /\ p[1] = "" => Absolute(Clean(p))}
<1>1. <<>> \in T
  OBVIOUS
<1>2. ASSUME NEW p \in Seq(Components), NEW c \in Components, p \in T PROVE Append(p, c) \in T
  <2> DEFINE r == Append(p, c)
  <2>1. r \in Seq(Components) /\ \A i \in 1..Len(p) : r[i] = p[i]
    BY AppendProperties
  <2>2. CASE p = <<>>
    <3>1. r = <<c>> /\ r[1] = c
      BY <2>2
    <3>2. c = "" => Clean(<<c>>) = <<c>>
      BY CleanOne
    <3>3. ASSUME c = "" PROVE Absolute(<<c>>)
      <4>1. <<c>> \in Seq(Components) /\ <<c>> # <<>> /\ <<c>>[1] = c /\ Len(<<c>>) = 1
        OBVIOUS
      <4>2. \A i \in 1..1 : <<c>>[i] = c
        BY <4>1
      <4>3. IsRoot(c) /\ ~IsUp(c)
        BY <3>3 DEF IsRoot, IsUp
      <4>4. QED
        BY <3>3, <4>1, <4>2, <4>3, Zenon DEF Absolute
    <3> HIDE DEF r
    <3>4. QED
      BY <2>1, <3>1, <3>2, <3>3 DEF r
  <2>3. CASE p # <<>>
    <3>1. p \in Paths /\ Clean(r) = CleanStep(Clean(p), c) /\ 1 \in 1..Len(p)
      BY <2>3, CleanAppend, EmptySeq DEF Paths
    <3> HIDE DEF r
    <3>2. r[1] = p[1]
      BY <2>1, <3>1
    <3>3. p[1] = "" => Absolute(Clean(r))
      BY <1>2, <2>3, <3>1, AbsoluteStep
    <3>4. r \in T
      BY <2>1, <3>2, <3>3
    <3>5. QED
      BY <3>4 DEF r
  <2>4. QED
    BY <2>2, <2>3
<1> HIDE DEF T
<1>3. \A p \in Seq(Components) : p \in T
  BY <1>1, <1>2, SeqInduction
<1>4. ASSUME NEW p \in Paths, Head(p) = "" PROVE Contained(p)
  <2>1. p \in Seq(Components) /\ p # <<>> /\ p[1] = ""
    BY <1>4, PathType DEF Paths
  <2>2. Absolute(Clean(p))
    BY <1>3, <2>1 DEF T
  <2>3. QED
    BY <2>2, Zenon DEF Absolute, Contained, IsUp
<1>5. QED
  BY <1>4

LEMMA PlainAppend ==
  ASSUME NEW q \in Seq(Components), NEW c \in Components, Plain(Append(q, c))
  PROVE  Plain(q) /\ (c \in FileNames \/ c = "")
<1> DEFINE r == Append(q, c)
<1>1. /\ Len(r) = Len(q) + 1 /\ Len(q) \in Nat
      /\ r[Len(q) + 1] = c /\ \A i \in 1..Len(q) : r[i] = q[i]
  BY AppendProperties
<1> HIDE DEF r
<1>2. Len(q) + 1 \in 1..Len(r) /\ \A i \in 1..Len(q) : i \in 1..Len(r)
  BY <1>1
<1>3. \A i \in 1..Len(r) : r[i] \in FileNames \/ (i = 1 /\ r[i] = "")
  BY Zenon DEF Plain, r
<1>4. Plain(q)
  BY <1>1, <1>2, <1>3, Zenon DEF Plain
<1>5. QED
  BY <1>1, <1>2, <1>3, <1>4, Zenon

(* Below any path, a plain one only adds names.                            *)
LEMMA CleanBelow ==
  ASSUME NEW p \in Paths
  PROVE  \A q \in Seq(Components) :
           Plain(q) => \E b \in Seq(FileNames) : Clean(p \o q) = Clean(p) \o b
<1> DEFINE T == {q \in Seq(Components) :
                   Plain(q) => \E b \in Seq(FileNames) : Clean(p \o q) = Clean(p) \o b}
<1>1. p \in Seq(Components) /\ Clean(p) \in Seq(Components)
  BY CleanType, NamesAreComponents DEF Cleaned
<1>2. <<>> \in T
  <2>1. Clean(p \o <<>>) = Clean(p) \o <<>> /\ <<>> \in Seq(FileNames)
    BY <1>1, ConcatEmptySeq
  <2>2. <<>> \in Seq(Components)
    OBVIOUS
  <2>3. QED
    BY <2>1, <2>2, Zenon
<1>3. ASSUME NEW q \in Seq(Components), NEW c \in Components, q \in T PROVE Append(q, c) \in T
  <2>1. Append(q, c) \in Seq(Components)
    BY AppendProperties
  <2> SUFFICES ASSUME Plain(Append(q, c))
               PROVE  \E b \in Seq(FileNames) : Clean(p \o Append(q, c)) = Clean(p) \o b
    BY <2>1
  <2>2. Plain(q) /\ (c \in FileNames \/ c = "")
    BY PlainAppend
  <2>3. PICK b \in Seq(FileNames) : Clean(p \o q) = Clean(p) \o b
    BY <1>3, <2>2
  <2>4. Clean(p \o Append(q, c)) = CleanStep(Clean(p) \o b, c)
    <3>1. p \o Append(q, c) = Append(p \o q, c)
      BY <1>1, ConcatAppend
    <3>2. p \o q \in Paths
      BY ConcatPath
    <3>3. QED
      BY <2>3, <3>1, <3>2, CleanAppend
  <2>5. CASE c \in FileNames
    <3>1. CleanStep(Clean(p) \o b, c) = Append(Clean(p) \o b, c)
      BY <2>5 DEF CleanStep, FileNames
    <3>2. b \in Seq(Components) /\ Append(b, c) \in Seq(FileNames)
      BY <2>5, NamesAreComponents, AppendProperties
    <3>3. Clean(p) \o Append(b, c) = Append(Clean(p) \o b, c)
      BY <1>1, <3>2, ConcatAppend
    <3>4. QED
      BY <2>4, <3>1, <3>2, <3>3
  <2>6. CASE c = ""
    <3>1. CleanStep(Clean(p) \o b, c) = Clean(p) \o b
      BY <2>6, Zenon DEF CleanStep
    <3>2. QED
      BY <2>4, <3>1
  <2>7. QED
    BY <2>2, <2>5, <2>6
<1> HIDE DEF T
<1>4. \A q \in Seq(Components) : q \in T
  BY <1>2, <1>3, SeqInduction
<1>5. QED
  BY <1>4 DEF T

LEMMA VideoPathType ==
  ASSUME NEW store \in Paths, NEW video \in FileNames
  PROVE  /\ VideoPath(store, video) \in Paths
         /\ Clean(VideoPath(store, video)) = Clean(store) \o <<video>>
         /\ Last(VideoPath(store, video)) = video
         /\ IsPrefix(store, VideoPath(store, video))
<1>1. store \in Seq(Components) /\ video \in Components
  BY NamesAreComponents
<1>2. <<video>> \in Seq(FileNames) /\ <<video>> \in Seq(Components)
  BY <1>1
<1>3. store \o <<video>> = Append(store, video)
  BY <1>1, AppendIsConcat
<1>4. Last(Append(store, video)) = video
  <2>1. /\ Len(Append(store, video)) = Len(store) + 1
        /\ Append(store, video)[Len(store) + 1] = video
    BY <1>1, AppendProperties
  <2>2. QED
    BY <2>1, Zenon DEF Last
<1>5. IsPrefix(store, store \o <<video>>)
  BY <1>1, <1>2, ConcatPrefix
<1>6. QED
  BY <1>1, <1>2, <1>3, <1>4, <1>5, ConcatPath, CleanConcat, Zenon DEF VideoPath

(* What the walk finds for a file.                                         *)
LEMMA LoadedPath ==
  ASSUME NEW store \in Paths, NEW video \in FileNames, NEW t \in Seq(FileNames)
  PROVE  /\ <<video>> \o t \in Seq(FileNames)
         /\ Clean(store) \in Seq(Components)
         /\ Join(VideoPath(store, video), t) = Clean(VideoPath(store, video)) \o t
         /\ Join(VideoPath(store, video), t) = Clean(store) \o (<<video>> \o t)
<1>1. Clean(store) \in Seq(Components) /\ video \in Components /\ t \in Seq(Components)
  BY CleanType, NamesAreComponents DEF Cleaned
<1>2. <<video>> \in Seq(FileNames) /\ <<video>> \in Seq(Components)
  BY <1>1
<1>3. Clean(VideoPath(store, video) \o t) = Clean(VideoPath(store, video)) \o t
  BY VideoPathType, CleanConcat
<1>4. (Clean(store) \o <<video>>) \o t = Clean(store) \o (<<video>> \o t)
  BY <1>1, <1>2, ConcatAssociative
<1>5. <<video>> \o t \in Seq(FileNames)
  BY <1>2, ConcatProperties
<1>6. QED
  BY <1>1, <1>3, <1>4, <1>5, VideoPathType, Zenon DEF Join

(* A clean path is trimmed.                                                *)
LEMMA Trimmed ==
  ASSUME NEW store \in Paths, Clean(store) = store,
         NEW video \in FileNames, NEW t \in Seq(FileNames), t # <<>>
  PROVE  TrimPrefix(Join(VideoPath(store, video), t), VideoPath(store, video)) = t
<1> DEFINE vp == VideoPath(store, video)
<1>1. vp \in Seq(Components) /\ t \in Seq(Components)
  BY VideoPathType, NamesAreComponents
<1>2. Clean(vp) = vp
  BY VideoPathType, Zenon DEF VideoPath
<1>3. Join(vp, t) = vp \o t
  <2>1. t \in Seq(FileNames)
    OBVIOUS
  <2>2. Join(vp, t) = Clean(vp) \o t
    BY <2>1, LoadedPath, Zenon
  <2>3. QED
    BY <1>2, <2>2, Zenon
<1> HIDE DEF vp
<1>4. IsStrictPrefix(vp, vp \o t) /\ SubSeq(vp \o t, Len(vp) + 1, Len(vp \o t)) = t
  BY <1>1, ConcatPrefix
<1>5. QED
  BY <1>3, <1>4, Zenon DEF TrimPrefix, vp

LEMMA PlainConcat ==
  ASSUME NEW q \in Seq(Components), Plain(q), NEW w \in Seq(FileNames)
  PROVE  Plain(q \o w)
<1> DEFINE r == q \o w
<1>1. w \in Seq(Components) /\ \A i \in 1..Len(w) : w[i] \in FileNames
  BY NamesAreComponents, ElementOfSeq
<1>2. /\ Len(q) \in Nat /\ Len(w) \in Nat /\ Len(r) = Len(q) + Len(w)
      /\ \A i \in 1..Len(q) + Len(w) : r[i] = IF i <= Len(q) THEN q[i] ELSE w[i - Len(q)]
  BY <1>1, ConcatProperties
<1> HIDE DEF r
<1>3. \A i \in 1..Len(r) :
        \/ i \in 1..Len(q) /\ r[i] = q[i]
        \/ i - Len(q) \in 1..Len(w) /\ r[i] = w[i - Len(q)]
  BY <1>2
<1>4. \A i \in 1..Len(q) : q[i] \in FileNames \/ (i = 1 /\ q[i] = "")
  BY Zenon DEF Plain
<1>5. \A i \in 1..Len(r) : r[i] \in FileNames \/ (i = 1 /\ r[i] = "")
  <2> SUFFICES ASSUME NEW i \in 1..Len(r)
               PROVE  r[i] \in FileNames \/ (i = 1 /\ r[i] = "")
    OBVIOUS
  <2>1. CASE i \in 1..Len(q) /\ r[i] = q[i]
    BY <1>4, <2>1, Zenon
  <2>2. CASE i - Len(q) \in 1..Len(w) /\ r[i] = w[i - Len(q)]
    BY <1>1, <2>2, Zenon
  <2>3. QED
    BY <1>3, <2>1, <2>2
<1>6. QED
  BY <1>5, Zenon DEF Plain, r

LEMMA PlainPrefix ==
  ASSUME NEW p \in Seq(Components), NEW q \in Seq(Components), IsPrefix(p, q), Plain(q)
  PROVE  Plain(p)
<1>1. Len(p) <= Len(q) /\ \A i \in 1..Len(p) : p[i] = q[i]
  BY PrefixElements
<1>2. \A i \in 1..Len(p) : i \in 1..Len(q)
  BY <1>1
<1>3. \A i \in 1..Len(q) : q[i] \in FileNames \/ (i = 1 /\ q[i] = "")
  BY Zenon DEF Plain
<1>4. \A i \in 1..Len(p) : p[i] \in FileNames \/ (i = 1 /\ p[i] = "")
  BY <1>1, <1>2, <1>3, Zenon
<1>5. QED
  BY <1>4, Zenon DEF Plain

(* What is cleaned and leads nowhere up is plain.                          *)
LEMMA CleanedPlain ==
  ASSUME NEW q, Cleaned(q), \A i \in 1..Len(q) : q[i] # ".."
  PROVE  Plain(q)
<1>1. \A i \in 1..Len(q) : q[i] \in FileNames \cup {".."} \/ (i = 1 /\ q[i] = "")
  BY Zenon DEF Cleaned, Allowed
<1>2. \A i \in 1..Len(q) : q[i] \in FileNames \/ (i = 1 /\ q[i] = "")
  BY <1>1, Zenon
<1>3. QED
  BY <1>2, Zenon DEF Plain

(* One that is not clean and leads nowhere up is never a prefix of what    *)
(* the walk finds, and the whole local path enters the name.               *)
LEMMA NotTrimmed ==
  ASSUME NEW store \in Paths, Contained(store), Clean(store) # store,
         NEW video \in FileNames, NEW t \in Seq(FileNames)
  PROVE  /\ Plain(Clean(store))
         /\ TrimPrefix(Join(VideoPath(store, video), t), VideoPath(store, video))
              = Join(VideoPath(store, video), t)
<1> DEFINE vp == VideoPath(store, video)
<1> DEFINE load == Join(vp, t)
<1>1. Plain(Clean(store))
  <2>1. \A i \in 1..Len(Clean(store)) : Clean(store)[i] # ".."
    BY Zenon DEF Contained
  <2>2. Cleaned(Clean(store))
    BY CleanType
  <2>3. QED
    BY <2>1, <2>2, CleanedPlain
<1>2. load \in Seq(Components) /\ Plain(load)
  <2>1. /\ load = Clean(store) \o (<<video>> \o t) /\ Clean(store) \in Seq(Components)
        /\ <<video>> \o t \in Seq(FileNames)
    BY LoadedPath
  <2>2. <<video>> \o t \in Seq(Components)
    BY <2>1, NamesAreComponents
  <2>3. Clean(store) \o (<<video>> \o t) \in Seq(Components)
    BY <2>1, <2>2, ConcatProperties
  <2>4. QED
    BY <1>1, <2>1, <2>3, PlainConcat
<1>3. vp \in Seq(Components) /\ store \in Seq(Components) /\ IsPrefix(store, vp)
  BY VideoPathType, NamesAreComponents
<1> HIDE DEF vp, load
<1>4. ~IsStrictPrefix(vp, load)
  <2> SUFFICES ASSUME IsStrictPrefix(vp, load) PROVE FALSE
    OBVIOUS
  <2>1. Plain(vp)
    BY <1>2, <1>3, PlainPrefix DEF IsStrictPrefix
  <2>2. Plain(store)
    BY <1>3, <2>1, PlainPrefix
  <2>3. QED
    BY <2>2, PlainClean
<1>5. QED
  BY <1>1, <1>4, Zenon DEF TrimPrefix, vp, load

(* The names of a job's objects: its output path, the same directory for   *)
(* all of them, and the path of each below VideoPath.                      *)
LEMMA NameShape ==
  ASSUME NEW store \in Paths, Contained(store), NEW video \in FileNames, NEW p \in Paths
  PROVE  \E base \in Seq(FileNames) : \A t \in Seq(FileNames) \ {<<>>} :
           Join(p, TrimPrefix(Join(VideoPath(store, video), t), VideoPath(store, video)))
             = Clean(p) \o (base \o t)
<1> DEFINE trimmed(t) == TrimPrefix(Join(VideoPath(store, video), t), VideoPath(store, video))
<1>1. p \in Seq(Components) /\ Clean(p) \in Seq(Components)
  BY CleanType, NamesAreComponents DEF Cleaned
<1>2. CASE Clean(store) = store
  <2>1. ASSUME NEW t \in Seq(FileNames) \ {<<>>}
        PROVE  Join(p, trimmed(t)) = Clean(p) \o (<<>> \o t)
    <3>1. trimmed(t) = t
      BY <1>2, Trimmed
    <3>2. Clean(p \o t) = Clean(p) \o t
      BY CleanConcat
    <3>3. <<>> \o t = t
      BY ConcatEmptySeq
    <3>4. QED
      BY <3>1, <3>2, <3>3, Zenon DEF Join
  <2>2. <<>> \in Seq(FileNames)
    OBVIOUS
  <2>3. QED
    BY <2>1, <2>2, Zenon
<1>3. CASE Clean(store) # store
  <2> DEFINE q == Clean(store)
  <2>1. q \in Seq(Components) /\ Plain(q)
    <3>1. <<>> \in Seq(FileNames)
      OBVIOUS
    <3>2. Cleaned(q)
      BY CleanType
    <3>3. Plain(q)
      BY <1>3, <3>1, NotTrimmed, Zenon
    <3>4. QED
      BY <3>2, <3>3, Zenon DEF Cleaned
  <2> HIDE DEF q
  <2>2. PICK b \in Seq(FileNames) : Clean(p \o q) = Clean(p) \o b
    BY <2>1, CleanBelow
  <2>3. b \o <<video>> \in Seq(FileNames)
    BY ConcatProperties
  <2>4. ASSUME NEW t \in Seq(FileNames) \ {<<>>}
        PROVE  Join(p, trimmed(t)) = Clean(p) \o ((b \o <<video>>) \o t)
    <3> DEFINE w == <<video>> \o t
    <3>1. /\ trimmed(t) = q \o w
          /\ w \in Seq(FileNames) /\ w \in Seq(Components)
      <4>1. t \in Seq(FileNames)
        OBVIOUS
      <4>2. trimmed(t) = Join(VideoPath(store, video), t)
        BY <1>3, <4>1, NotTrimmed, Zenon
      <4>3. Join(VideoPath(store, video), t) = q \o w /\ w \in Seq(FileNames)
        BY <4>1, LoadedPath, Zenon DEF q
      <4>4. QED
        BY <4>2, <4>3, NamesAreComponents, Zenon
    <3>2. /\ b \in Seq(Components) /\ t \in Seq(Components)
          /\ <<video>> \in Seq(Components)
      BY NamesAreComponents
    <3>3. b \o w = (b \o <<video>>) \o t
      BY <3>2, ConcatAssociative
    <3> HIDE DEF w
    <3>4. p \o (q \o w) = (p \o q) \o w /\ p \o q \in Paths
      <4>1. (p \o q) \o w = p \o (q \o w)
        <5>1. p \in Seq(Components) /\ q \in Seq(Components) /\ w \in Seq(Components)
          BY <1>1, <2>1, <3>1
        <5>2. QED
          BY <5>1, ConcatAssociative
      <4>2. p \o q \in Paths
        BY <2>1, ConcatPath
      <4>3. QED
        BY <4>1, <4>2
    <3>5. Clean((p \o q) \o w) = Clean(p \o q) \o w
      BY <3>1, <3>4, CleanConcat
    <3>6. (Clean(p) \o b) \o w = Clean(p) \o (b \o w)
      <4>1. Clean(p) \in Seq(Components) /\ b \in Seq(Components) /\ w \in Seq(Components)
        BY <1>1, <3>1, <3>2
      <4>2. QED
        BY <4>1, ConcatAssociative
    <3>7. QED
      BY <2>2, <3>1, <3>3, <3>4, <3>5, <3>6, Zenon DEF Join
  <2>5. QED
    BY <2>3, <2>4, Zenon
<1>4. QED
  BY <1>2, <1>3

LEMMA PrefixType ==
  ASSUME NEW store \in Stores, NEW video \in Videos, NEW output \in Outputs
  PROVE  /\ store \in Paths /\ video \in FileNames
         /\ Prefix(store, video, output) \in Paths
         /\ Clean(Prefix(store, video, output)) \in Seq(Components)
<1>1. store \in Paths /\ output \in Paths /\ video \in FileNames
  BY PathsAssumption, VideosAssumption
<1>2. Prefix(store, video, output) \in {<<video>>, output}
  BY <1>1, VideoPathType, Zenon DEF Prefix
<1>3. <<video>> \in Paths
  BY <1>1, NamesAreComponents, CleanOne
<1>4. Prefix(store, video, output) \in Paths
  BY <1>1, <1>2, <1>3
<1>5. QED
  BY <1>1, <1>4, CleanType, Zenon DEF Cleaned

LEMMA TreeType ==
  ASSUME n \in 0..MaxFiles, NEW f \in 1..n
  PROVE  f \in Files /\ Tree[f] \in Seq(FileNames) \ {<<>>} /\ Tree[f] \in Seq(Components)
<1>1. f \in Files
  BY MaxFilesAssumption DEF Files
<1>2. Tree[f] \in Seq(FileNames) \ {<<>>}
  BY <1>1, TreeAssumption
<1>3. QED
  BY <1>1, <1>2, NamesAreComponents

LEMMA NameOf ==
  ASSUME n \in 0..MaxFiles, NEW store, NEW video, NEW output, NEW f \in 1..n
  PROVE  Names(store, video, output)[f] =
           Join(Prefix(store, video, output),
                TrimPrefix(Join(VideoPath(store, video), Tree[f]), VideoPath(store, video)))
BY DEF Names, objectName, loadPaths

LEMMA NamesShape ==
  ASSUME n \in 0..MaxFiles, NEW store \in Stores, Contained(store),
         NEW video \in Videos, NEW output \in Outputs
  PROVE  \E base \in Seq(Components) : \A f \in 1..n :
           /\ Names(store, video, output)[f] =
                Clean(Prefix(store, video, output)) \o (base \o Tree[f])
           /\ base \o Tree[f] \in Seq(Components) /\ base \o Tree[f] # <<>>
<1>1. /\ store \in Paths /\ video \in FileNames
      /\ Prefix(store, video, output) \in Paths
  BY PrefixType
<1> DEFINE p == Prefix(store, video, output)
<1> HIDE DEF p
<1>2. p \in Paths
  BY <1>1 DEF p
<1>3. PICK base \in Seq(FileNames) : \A t \in Seq(FileNames) \ {<<>>} :
        Join(p, TrimPrefix(Join(VideoPath(store, video), t), VideoPath(store, video)))
          = Clean(p) \o (base \o t)
  BY <1>1, <1>2, NameShape
<1>4. base \in Seq(Components)
  BY NamesAreComponents
<1>5. ASSUME NEW f \in 1..n
      PROVE  /\ Names(store, video, output)[f] = Clean(p) \o (base \o Tree[f])
             /\ base \o Tree[f] \in Seq(Components) /\ base \o Tree[f] # <<>>
  <2>1. Tree[f] \in Seq(FileNames) \ {<<>>} /\ Tree[f] \in Seq(Components)
    BY TreeType
  <2>2. Names(store, video, output)[f] = Clean(p) \o (base \o Tree[f])
    BY <1>3, <2>1, NameOf, Zenon DEF p
  <2>3. base \o Tree[f] \in Seq(Components)
    BY <1>4, <2>1, ConcatProperties
  <2>4. base \o Tree[f] # <<>>
    BY <1>4, <2>1, ConcatEqualIffEmpty
  <2>5. QED
    BY <2>2, <2>3, <2>4
<1>6. QED
  BY <1>4, <1>5, Zenon DEF p

-----------------------------------------------------------------------------
(* The theorems.                                                           *)

(* What the comment of objectName says is true wherever localStoragePath   *)
(* is a clean path: every object is named by its file's path below         *)
(* VideoPath, under the job's output path.                                 *)
THEOREM CleanStoresAreNamedByRelativePath ==
  ASSUME \A store \in Stores : Clean(store) = store
  PROVE  Spec => []NamedByRelativePath
<1>1. TypeOK => NamedByRelativePath
  <2> SUFFICES ASSUME TypeOK, NEW store \in Stores, NEW video \in Videos,
                      NEW output \in Outputs, NEW f \in 1..n
               PROVE  Names(store, video, output)[f] =
                        Join(Prefix(store, video, output), Tree[f])
    BY DEF NamedByRelativePath
  <2>1. n \in 0..MaxFiles
    BY DEF TypeOK
  <2>2. store \in Paths /\ Clean(store) = store /\ video \in FileNames
    BY PrefixType
  <2>3. Tree[f] \in Seq(FileNames) /\ Tree[f] # <<>>
    BY <2>1, TreeType
  <2>4. TrimPrefix(Join(VideoPath(store, video), Tree[f]), VideoPath(store, video)) = Tree[f]
    BY <2>2, <2>3, Trimmed
  <2>5. QED
    BY <2>1, <2>4, NameOf
<1>2. QED
  BY <1>1, TypeCorrect, PTL

(* No two files of a call share an object, every object lies under the     *)
(* job's output path, and jobs whose output paths do not contain each      *)
(* other share none.                                                       *)
THEOREM ObjectsAreTheirOwn ==
  ASSUME \A store \in Stores : Contained(store)
  PROVE  Spec => []ObjectsAreItsOwn
<1>1. TypeOK /\ NilMeansAllStored => ObjectsAreItsOwn
  <2> SUFFICES ASSUME TypeOK, NilMeansAllStored, caller = "ok",
                      NEW store \in Stores, NEW video \in Videos, NEW output \in Outputs
               PROVE  LET name == Names(store, video, output)
                          home == Clean(Prefix(store, video, output))
                      IN
                      /\ Cardinality({name[f] : f \in {f \in 1..n : object[f] = "whole"}}) = n
                      /\ \A f \in 1..n : IsStrictPrefix(home, name[f])
                      /\ \A other \in Videos, output2 \in Outputs :
                           ~Nested(home, Clean(Prefix(store, other, output2))) =>
                             \A f, g \in 1..n : name[f] # Names(store, other, output2)[g]
    BY DEF ObjectsAreItsOwn
  <2> DEFINE name == Names(store, video, output)
             home == Clean(Prefix(store, video, output))
  <2>1. n \in 0..MaxFiles /\ n \in Nat /\ Contained(store)
    BY MaxFilesAssumption DEF TypeOK
  <2>2. home \in Seq(Components)
    BY PrefixType
  <2>3. PICK base \in Seq(Components) : \A f \in 1..n :
          /\ name[f] = home \o (base \o Tree[f])
          /\ base \o Tree[f] \in Seq(Components) /\ base \o Tree[f] # <<>>
    BY <2>1, NamesShape
  <2>4. DOMAIN name = 1..n
    BY DEF Names
  <2> HIDE DEF name, home
  <2>5. \A f \in 1..n : IsStrictPrefix(home, name[f])
    BY <2>2, <2>3, ConcatPrefix
  <2>6. \A f, g \in 1..n : name[f] = name[g] => f = g
    <3> SUFFICES ASSUME NEW f \in 1..n, NEW g \in 1..n, name[f] = name[g] PROVE f = g
      OBVIOUS
    <3>1. base \o Tree[f] = base \o Tree[g]
      BY <2>2, <2>3, CancelLeft
    <3>2. Tree[f] = Tree[g]
      BY <2>1, <3>1, TreeType, CancelLeft
    <3>3. f \in DOMAIN Tree /\ g \in DOMAIN Tree
      BY <2>1, TreeType, TreeAssumption
    <3>4. QED
      BY <3>2, <3>3, TreeAssumption DEF IsInjective
  <2>7. Cardinality({name[f] : f \in {f \in 1..n : object[f] = "whole"}}) = n
    <3>1. {f \in 1..n : object[f] = "whole"} = 1..n
      BY DEF NilMeansAllStored
    <3> DEFINE names == {name[f] : f \in 1..n}
               m == [f \in 1..n |-> name[f]]
    <3>2. m \in Bijection(1..n, names)
      BY <2>6 DEF Bijection, Injection, Surjection, IsInjective
    <3>3. ExistsBijection(1..n, names)
      BY <3>2, Zenon DEF ExistsBijection
    <3> HIDE DEF names
    <3>4. Cardinality(names) = n
      BY <2>1, <3>3, FS_CountingElements
    <3>5. QED
      BY <3>1, <3>4 DEF names
  <2>8. ASSUME NEW other \in Videos, NEW output2 \in Outputs,
               ~Nested(home, Clean(Prefix(store, other, output2))),
               NEW f \in 1..n, NEW g \in 1..n
        PROVE  name[f] # Names(store, other, output2)[g]
    <3> DEFINE home2 == Clean(Prefix(store, other, output2))
    <3>1. home2 \in Seq(Components)
      BY PrefixType
    <3>2. PICK base2 \in Seq(Components) : \A i \in 1..n :
            /\ Names(store, other, output2)[i] = home2 \o (base2 \o Tree[i])
            /\ base2 \o Tree[i] \in Seq(Components) /\ base2 \o Tree[i] # <<>>
      BY <2>1, NamesShape
    <3> HIDE DEF home2
    <3>3. ~Nested(home, home2)
      BY <2>8 DEF home2
    <3>4. home \o (base \o Tree[f]) # home2 \o (base2 \o Tree[g])
      BY <2>2, <2>3, <3>1, <3>2, <3>3, SameConcat DEF Nested
    <3>5. QED
      BY <2>3, <3>2, <3>4
  <2>9. QED
    BY <2>5, <2>7, <2>8 DEF name, home
<1>2. QED
  BY <1>1, TypeCorrect, NilMeansStored, PTL

(* So it is wherever localStoragePath is clean, or absolute, "/tmp/" and   *)
(* "/srv/../tmp" among them.                                               *)
THEOREM AbsoluteStoresKeepObjectsApart ==
  ASSUME \A store \in Stores : Clean(store) = store \/ Head(store) = ""
  PROVE  Spec => []ObjectsAreItsOwn
<1>1. \A store \in Stores : Contained(store)
  BY PathsAssumption, AbsoluteContained DEF Contained
<1>2. QED
  BY <1>1, ObjectsAreTheirOwn
=============================================================================
