---------------------------- MODULE ServiceProofs ----------------------------
(***************************************************************************)
(* Proofs about what surrounds the frame pipeline: what AFindPV keeps of a *)
(* sequence, which are candidates and the objects made of them, bad        *)
(* columns and doubtful pixels (Candidates, BadMarks); and a network       *)
(* client of DoProcess, its connection (TcpLink) and its sending           *)
(* (TcpSend).                                                              *)
(***************************************************************************)
EXTENDS Candidates, BadMarks, TcpLink, TcpSend, SequenceTheorems, FiniteSetTheorems,
        WellFoundedInduction, TLAPS

\* What LoadBadmark has after k columns of the file; Loops has the loop it is.
ReadSoFar(k, cols) == cols = SubSeq(file.cols, 1, k)

MarkLoop == INSTANCE Loops WITH Body <- add, Keeps <- ReadSoFar

\* A set of natural numbers has a least element.
LEMMA LeastOf ==
  ASSUME NEW S \in SUBSET Nat, S # {}
  PROVE  \E p \in S : \A q \in S : p <= q
BY MarkLoop!LeastOf

\* The greatest element that a fold takes off first.
LEMMA GreatestOf ==
  ASSUME NEW n \in Nat, NEW t \in SUBSET (1 .. n), t # {}
  PROVE  /\ Max(t) \in t
         /\ \A k \in t : k <= Max(t)
BY MarkLoop!GreatestOf DEF Max, MarkLoop!Max

\* What a fold takes next of 1 .. k, and what it leaves.
LEMMA TopOf ==
  ASSUME NEW N \in Nat, NEW k \in 1 .. N
  PROVE  /\ 1 .. k \in SUBSET (1 .. N) /\ 1 .. k # {}
         /\ Max(1 .. k) = k /\ (1 .. k) \ {k} = 1 .. (k - 1)
BY MarkLoop!TopOf DEF Max, MarkLoop!Max

(***************************************************************************)
(* Candidates.  A point is added to `related' as often as candidates and   *)
(* objects hold it, so the last holder of a point becomes an object only   *)
(* when no object has the point.                                           *)
(***************************************************************************)

\* The members of a sequence of candidates or objects that p was added to.
Holders(s, p) == {i \in DOMAIN s : p \in Tail3(s[i])}

\* Those of the candidates that are judged after the kth.
Ahead(k, p) == {i \in (k + 1) .. Len(cans_) : p \in Tail3(cans_[i])}

Track == Seq(Int \X Int)

Disjoint(s) == \A i, j \in DOMAIN s : i # j => Tail3(s[i]) \cap Tail3(s[j]) = {}

CNTypes == /\ fno \in 0 .. NumFrames
           /\ at \in {"idle", "recheck", "append", "create", "over"}
           /\ at # "idle" => fno > 0
           /\ related \in [Point -> Int]
           /\ cans_ \in Seq(Track) /\ objects \in Seq(Track)

Inside == /\ \A i \in DOMAIN cans_ : Tail3(cans_[i]) \subseteq Point
          /\ \A i \in DOMAIN objects : Tail3(objects[i]) \subseteq Point

Counted == \A p \in Point :
             related[p] >= Cardinality(Holders(cans_, p)) + Cardinality(Holders(objects, p))

CNInv == CNTypes /\ Inside /\ Counted /\ OneObjectPerPoint

\* Lemmas about the loops that judge: what complete_candidates and
\* recheck_candidates do is a run of single judgements.
Start == [left |-> << >>, rel |-> related, objs |-> objects]

Unfold(gone, steady, n, g) ==
  g = [t \in SUBSET (1 .. n) |->
         IF t = {} THEN Start ELSE JudgeOne(gone, steady, g[t \ {Max(t)}], Max(t))]

\* The fold over nothing is where it starts.
LEMMA UnfoldEmpty ==
  ASSUME NEW gone, NEW steady
  PROVE  \E g : Unfold(gone, steady, 0, g)
<1> DEFINE g == [t \in SUBSET (1 .. 0) |-> Start]
<1>1. SUBSET (1 .. 0) = {{}}
  OBVIOUS
<1>2. Unfold(gone, steady, 0, g)
  BY <1>1 DEF Unfold
<1> QED
  BY <1>2

\* A fold over n - 1 candidates gives one over n.
LEMMA UnfoldMore ==
  ASSUME NEW gone, NEW steady, NEW n \in Nat, n # 0, NEW g, Unfold(gone, steady, n - 1, g)
  PROVE  \E h : Unfold(gone, steady, n, h)
<1> DEFINE h == [t \in SUBSET (1 .. n) |->
                   IF n \in t THEN JudgeOne(gone, steady, g[t \ {n}], n) ELSE g[t]]
           Next1(t) == IF t = {} THEN Start
                       ELSE JudgeOne(gone, steady, h[t \ {Max(t)}], Max(t))
<1>1. 1 .. n = (1 .. (n - 1)) \cup {n} /\ n \notin 1 .. (n - 1) /\ n - 1 \in Nat
  OBVIOUS
<1>2. \A t \in SUBSET (1 .. n) : h[t] = Next1(t)
  <2> SUFFICES ASSUME NEW t \in SUBSET (1 .. n) PROVE h[t] = Next1(t)
    OBVIOUS
  <2>1. CASE n \in t
    <3>1. Max(t) = n
      <4>1. Max(t) \in t /\ n <= Max(t)
        BY <2>1, GreatestOf
      <4>2. Max(t) \in 1 .. n
        BY <4>1
      <4> QED
        BY <4>1, <4>2
    <3>2. t \ {n} \in SUBSET (1 .. (n - 1)) /\ t \ {n} \in SUBSET (1 .. n)
      BY <1>1
    <3>3. h[t \ {n}] = g[t \ {n}]
      BY <3>2
    <3>4. h[t] = JudgeOne(gone, steady, g[t \ {n}], n)
      BY <2>1
    <3> QED
      BY <2>1, <3>1, <3>3, <3>4
  <2>2. CASE n \notin t
    <3>1. t \in SUBSET (1 .. (n - 1))
      BY <1>1, <2>2
    <3>2. h[t] = g[t]
      BY <2>2
    <3>3. CASE t = {}
      BY <3>1, <3>2, <3>3 DEF Unfold
    <3>4. CASE t # {}
      <4>1. Max(t) \in t
        BY <3>4, GreatestOf
      <4>2. t \ {Max(t)} \in SUBSET (1 .. (n - 1)) /\ t \ {Max(t)} \in SUBSET (1 .. n)
        BY <3>1
      <4>3. h[t \ {Max(t)}] = g[t \ {Max(t)}]
        BY <2>2, <4>2
      <4>4. g[t] = JudgeOne(gone, steady, g[t \ {Max(t)}], Max(t))
        BY <3>1, <3>4 DEF Unfold
      <4> QED
        BY <3>2, <3>4, <4>3, <4>4
    <3> QED
      BY <3>3, <3>4
  <2> QED
    BY <2>1, <2>2
<1>3. h = [t \in SUBSET (1 .. n) |-> h[t]]
  OBVIOUS
<1> HIDE DEF h
<1>4. [t \in SUBSET (1 .. n) |-> h[t]] = [t \in SUBSET (1 .. n) |-> Next1(t)]
  BY <1>2
<1>5. Unfold(gone, steady, n, h)
  BY <1>3, <1>4, Zenon DEF Unfold
<1> QED
  BY <1>5

\* So there is a fold over any number of candidates.
LEMMA UnfoldAll ==
  ASSUME NEW gone, NEW steady, NEW N \in Nat
  PROVE  \E g : Unfold(gone, steady, N, g)
<1> DEFINE Bad == {n \in Nat : ~ \E g : Unfold(gone, steady, n, g)}
<1>1. Bad = {}
  <2> SUFFICES ASSUME Bad # {} PROVE FALSE
    OBVIOUS
  <2>1. Bad \in SUBSET Nat
    OBVIOUS
  <2>2. PICK n \in Bad : \A m \in Bad : n <= m
    BY <2>1, LeastOf
  <2>3. n \in Nat /\ ~ \E g : Unfold(gone, steady, n, g)
    OBVIOUS
  <2>4. n # 0
    BY <2>3, UnfoldEmpty
  <2>5. n - 1 \in Nat /\ ~ (n <= n - 1)
    BY <2>3, <2>4
  <2>6. n - 1 \notin Bad
    BY <2>2, <2>5
  <2>7. \E g : Unfold(gone, steady, n - 1, g)
    BY <2>5, <2>6
  <2> QED
    BY <2>3, <2>4, <2>7, UnfoldMore
<1> QED
  BY <1>1

\* Judge is the loop of recheck_candidates: one candidate after the other.
LEMMA JudgeRuns ==
  ASSUME NEW gone, NEW steady, Len(cans_) \in Nat, DOMAIN cans_ = 1 .. Len(cans_)
  PROVE  \E run : /\ run[0] = Start
                  /\ \A k \in 1 .. Len(cans_) : run[k] = JudgeOne(gone, steady, run[k - 1], k)
                  /\ Judge(gone, steady) = run[Len(cans_)]
<1> DEFINE N == Len(cans_)
           U(g) == g = [t \in SUBSET (1 .. N) |->
                         IF t = {} THEN Start
                         ELSE JudgeOne(gone, steady, g[t \ {Max(t)}], Max(t))]
           ids == [i \in DOMAIN cans_ |-> i]
           V(g) == g = [t \in SUBSET (DOMAIN ids) |->
                         IF t = {} THEN Start
                         ELSE JudgeOne(gone, steady, g[t \ {Max(t)}], ids[Max(t)])]
<1>1. Judge(gone, steady) = (CHOOSE g : V(g))[DOMAIN ids]
  BY DEF Judge, FoldLeft, MapThenFoldSet, Start
<1>2. DOMAIN ids = 1 .. N
  OBVIOUS
<1>3. \A g : U(g) <=> V(g)
  <2> SUFFICES ASSUME NEW g
               PROVE  [t \in SUBSET (1 .. N) |->
                         IF t = {} THEN Start
                         ELSE JudgeOne(gone, steady, g[t \ {Max(t)}], Max(t))]
                      = [t \in SUBSET (DOMAIN ids) |->
                         IF t = {} THEN Start
                         ELSE JudgeOne(gone, steady, g[t \ {Max(t)}], ids[Max(t)])]
    OBVIOUS
  <2>1. \A t \in SUBSET (1 .. N) : t # {} => ids[Max(t)] = Max(t)
    BY GreatestOf
  <2> HIDE DEF ids
  <2> QED
    BY <1>2, <2>1
<1>4. \E g : U(g)
  <2>1. PICK g : Unfold(gone, steady, N, g)
    BY UnfoldAll
  <2>2. U(g)
    BY <2>1 DEF Unfold
  <2> QED
    BY <2>2
<1>5. \E g : V(g)
  BY <1>3, <1>4
<1> DEFINE f == CHOOSE g : V(g)
<1>6. V(f)
  <2> HIDE DEF V
  <2> QED
    BY <1>5
<1>7. U(f)
  BY <1>3, <1>6
<1> HIDE DEF f, V, ids
<1> DEFINE run == [k \in 0 .. N |-> f[1 .. k]]
<1>8. run[0] = Start
  <2>1. 1 .. 0 = {} /\ {} \in SUBSET (1 .. N)
    OBVIOUS
  <2>2. run[0] = f[1 .. 0]
    OBVIOUS
  <2>3. f[{}] = Start
    BY <1>7, <2>1
  <2> QED
    BY <2>1, <2>2, <2>3
<1>9. \A k \in 1 .. N : run[k] = JudgeOne(gone, steady, run[k - 1], k)
  <2> SUFFICES ASSUME NEW k \in 1 .. N
               PROVE  run[k] = JudgeOne(gone, steady, run[k - 1], k)
    OBVIOUS
  <2>1. /\ 1 .. k \in SUBSET (1 .. N) /\ 1 .. k # {}
        /\ Max(1 .. k) = k /\ (1 .. k) \ {k} = 1 .. (k - 1)
    BY TopOf
  <2>4. f[1 .. k] = JudgeOne(gone, steady, f[(1 .. k) \ {Max(1 .. k)}], Max(1 .. k))
    BY <1>7, <2>1
  <2>5. run[k] = f[1 .. k] /\ run[k - 1] = f[1 .. (k - 1)]
    OBVIOUS
  <2> QED
    BY <2>1, <2>4, <2>5
<1>10. Judge(gone, steady) = run[N]
  <2>1. run[N] = f[1 .. N]
    OBVIOUS
  <2> QED
    BY <1>1, <1>2, <2>1 DEF f
<1> QED
  BY <1>8, <1>9, <1>10

\* The candidates that hold a point can be counted.
LEMMA HoldersFinite ==
  ASSUME NEW s \in Seq(Track), NEW p
  PROVE  IsFiniteSet(Holders(s, p)) /\ Cardinality(Holders(s, p)) \in Nat
<1>1. IsFiniteSet(1 .. Len(s))
  BY FS_Interval
<1>2. Holders(s, p) \in SUBSET (1 .. Len(s))
  BY DEF Holders
<1>3. IsFiniteSet(Holders(s, p))
  BY <1>1, <1>2, FS_Subset
<1> QED
  BY <1>3, FS_CardinalityType

\* A candidate more is one holder more of its last three points.
LEMMA HoldersAppend ==
  ASSUME NEW s \in Seq(Track), NEW c \in Track, NEW p
  PROVE  Cardinality(Holders(Append(s, c), p))
           = Cardinality(Holders(s, p)) + (IF p \in Tail3(c) THEN 1 ELSE 0)
<1> DEFINE n == Len(s) + 1
<1>1. /\ DOMAIN Append(s, c) = (DOMAIN s) \cup {n} /\ n \notin DOMAIN s
      /\ Append(s, c)[n] = c
      /\ \A i \in DOMAIN s : Append(s, c)[i] = s[i]
  OBVIOUS
<1>2. n \notin Holders(s, p)
  BY <1>1 DEF Holders
<1>3. CASE p \in Tail3(c)
  <2>1. Holders(Append(s, c), p) = Holders(s, p) \cup {n}
    BY <1>1, <1>3, Zenon DEF Holders
  <2> QED
    BY <1>2, <1>3, <2>1, HoldersFinite, FS_AddElement
<1>4. CASE p \notin Tail3(c)
  <2>1. Holders(Append(s, c), p) = Holders(s, p)
    BY <1>1, <1>4, Zenon DEF Holders
  <2> QED
    BY <1>4, <2>1, HoldersFinite
<1> QED
  BY <1>3, <1>4

\* Judging a candidate takes it from those still ahead.
LEMMA AheadOne ==
  ASSUME cans_ \in Seq(Track), NEW k \in 1 .. Len(cans_), NEW p
  PROVE  /\ Cardinality(Ahead(k, p)) \in Nat
         /\ Cardinality(Ahead(k - 1, p))
              = Cardinality(Ahead(k, p)) + (IF p \in Tail3(cans_[k]) THEN 1 ELSE 0)
<1>1. IsFiniteSet((k + 1) .. Len(cans_))
  BY FS_Interval
<1>2. Ahead(k, p) \in SUBSET ((k + 1) .. Len(cans_))
  BY DEF Ahead
<1>3. IsFiniteSet(Ahead(k, p))
  BY <1>1, <1>2, FS_Subset
<1>4. Cardinality(Ahead(k, p)) \in Nat
  BY <1>3, FS_CardinalityType
<1>5. ((k - 1) + 1) .. Len(cans_) = ((k + 1) .. Len(cans_)) \cup {k} /\ k \notin (k + 1) .. Len(cans_)
  OBVIOUS
<1>6. k \notin Ahead(k, p)
  BY <1>2, <1>5
<1>7. CASE p \in Tail3(cans_[k])
  <2>1. Ahead(k - 1, p) = Ahead(k, p) \cup {k}
    BY <1>5, <1>7, Zenon DEF Ahead
  <2> QED
    BY <1>3, <1>4, <1>6, <1>7, <2>1, FS_AddElement
<1>8. CASE p \notin Tail3(cans_[k])
  <2>1. Ahead(k - 1, p) = Ahead(k, p)
    BY <1>5, <1>8, Zenon DEF Ahead
  <2> QED
    BY <1>4, <1>8, <2>1
<1> QED
  BY <1>4, <1>7, <1>8

\* At first all candidates are ahead, in the end none.
LEMMA AheadEnds ==
  ASSUME cans_ \in Seq(Track), NEW p
  PROVE  Ahead(0, p) = Holders(cans_, p) /\ Cardinality(Ahead(Len(cans_), p)) = 0
<1>1. DOMAIN cans_ = (0 + 1) .. Len(cans_)
  OBVIOUS
<1>2. Ahead(0, p) = Holders(cans_, p)
  BY <1>1, Zenon DEF Ahead, Holders
<1>3. (Len(cans_) + 1) .. Len(cans_) = {}
  OBVIOUS
<1>4. Ahead(Len(cans_), p) = {}
  BY <1>3 DEF Ahead
<1> QED
  BY <1>2, <1>4, FS_EmptySet

\* What holds when k candidates are judged: those that are not yet count as well.
JudgedState == [left : Seq(Track), rel : [Point -> Int], objs : Seq(Track)]
Within(s) == \A i \in DOMAIN s : Tail3(s[i]) \subseteq Point
AddsUp(s, k, p) ==
  s.rel[p] >= Cardinality(Holders(s.left, p)) + Cardinality(Ahead(k, p))
              + Cardinality(Holders(s.objs, p))

Judging(s, k) == /\ s \in JudgedState
                 /\ Within(s.left) /\ Within(s.objs) /\ Disjoint(s.objs)
                 /\ \A p \in Point : AddsUp(s, k, p)

\* A candidate more on points of the frames keeps all on points of the frames.
LEMMA WithinAppend ==
  ASSUME NEW s \in Seq(Track), NEW c \in Track, Within(s), Tail3(c) \subseteq Point
  PROVE  Within(Append(s, c))
<1>1. /\ DOMAIN Append(s, c) = (DOMAIN s) \cup {Len(s) + 1}
      /\ Append(s, c)[Len(s) + 1] = c
      /\ \A i \in DOMAIN s : Append(s, c)[i] = s[i]
  OBVIOUS
<1> QED
  BY <1>1, Zenon DEF Within

\* The candidate that becomes an object is the only holder of what was added to it.
LEMMA DisjointAppend ==
  ASSUME NEW s \in Seq(Track), NEW c \in Track, Disjoint(s),
         \A p \in Tail3(c) : Cardinality(Holders(s, p)) = 0
  PROVE  Disjoint(Append(s, c))
<1> DEFINE n == Len(s) + 1
<1>1. /\ DOMAIN Append(s, c) = (DOMAIN s) \cup {n}
      /\ Append(s, c)[n] = c
      /\ \A i \in DOMAIN s : Append(s, c)[i] = s[i]
  OBVIOUS
<1>2. \A p \in Tail3(c) : Holders(s, p) = {}
  BY HoldersFinite, FS_EmptySet
<1>3. \A i \in DOMAIN s : Tail3(s[i]) \cap Tail3(c) = {}
  BY <1>2 DEF Holders
<1> HIDE DEF n
<1>4. SUFFICES ASSUME NEW i \in DOMAIN Append(s, c), NEW j \in DOMAIN Append(s, c), i # j
               PROVE  Tail3(Append(s, c)[i]) \cap Tail3(Append(s, c)[j]) = {}
  BY DEF Disjoint
<1>5. CASE i \in DOMAIN s /\ j \in DOMAIN s
  <2>1. Tail3(s[i]) \cap Tail3(s[j]) = {}
    BY <1>4, <1>5 DEF Disjoint
  <2> QED
    BY <1>1, <1>5, <2>1
<1>6. CASE i = n /\ j \in DOMAIN s
  BY <1>1, <1>3, <1>6
<1>7. CASE i \in DOMAIN s /\ j = n
  BY <1>1, <1>3, <1>7
<1> QED
  BY <1>1, <1>4, <1>5, <1>6, <1>7

\* Judging one candidate keeps related at or above the holders left, those made
\* objects and those still ahead, and keeps the objects disjoint.
LEMMA JudgeStep ==
  ASSUME cans_ \in Seq(Track), Within(cans_), NEW gone, NEW steady,
         NEW k \in 1 .. Len(cans_), NEW s, Judging(s, k - 1)
  PROVE  Judging(JudgeOne(gone, steady, s, k), k)
<1> DEFINE c == cans_[k]
           u == JudgeOne(gone, steady, s, k)
<1>1. c \in Track /\ Tail3(c) \subseteq Point
  BY DEF Within
<1>2. s \in JudgedState /\ s.left \in Seq(Track) /\ s.objs \in Seq(Track) /\ s.rel \in [Point -> Int]
  BY DEF Judging, JudgedState
<1>3. \A p \in Point : /\ s.rel[p] \in Int
                        /\ Cardinality(Holders(s.left, p)) \in Nat
                        /\ Cardinality(Holders(s.objs, p)) \in Nat
                        /\ Cardinality(Ahead(k, p)) \in Nat
  BY <1>2, HoldersFinite, AheadOne
<1>4. \A p \in Point :
        s.rel[p] >= Cardinality(Holders(s.left, p)) + Cardinality(Ahead(k, p))
                    + (IF p \in Tail3(c) THEN 1 ELSE 0) + Cardinality(Holders(s.objs, p))
  <2> SUFFICES ASSUME NEW p \in Point
               PROVE  s.rel[p] >= Cardinality(Holders(s.left, p)) + Cardinality(Ahead(k, p))
                        + (IF p \in Tail3(c) THEN 1 ELSE 0) + Cardinality(Holders(s.objs, p))
    OBVIOUS
  <2>1. AddsUp(s, k - 1, p)
    BY DEF Judging
  <2>2. Cardinality(Ahead(k - 1, p))
          = Cardinality(Ahead(k, p)) + (IF p \in Tail3(c) THEN 1 ELSE 0)
    BY AheadOne
  <2>3. (IF p \in Tail3(c) THEN 1 ELSE 0) \in Int
    OBVIOUS
  <2> HIDE DEF c
  <2> QED
    BY <1>3, <2>1, <2>2, <2>3 DEF AddsUp
<1>5. Within(s.left) /\ Within(s.objs) /\ Disjoint(s.objs)
  BY DEF Judging
<1> HIDE DEF c
<1>6. CASE k \notin gone
  <2> DEFINE a == Append(s.left, c)
  <2>0. a \in Seq(Track)
    BY <1>1, <1>2
  <2> HIDE DEF a
  <2>1. u = [s EXCEPT !.left = a]
    BY <1>6 DEF JudgeOne, c, a
  <2>2. u.left = Append(s.left, c) /\ u.rel = s.rel /\ u.objs = s.objs
    BY <1>2, <2>1 DEF JudgedState, a
  <2>3. u \in JudgedState
    BY <1>2, <2>0, <2>1 DEF JudgedState
  <2>4. Within(u.left)
    BY <1>1, <1>2, <1>5, <2>2, WithinAppend
  <2>5. \A p \in Point : AddsUp(u, k, p)
    <3> SUFFICES ASSUME NEW p \in Point PROVE AddsUp(u, k, p)
      OBVIOUS
    <3>1. Cardinality(Holders(u.left, p))
            = Cardinality(Holders(s.left, p)) + (IF p \in Tail3(c) THEN 1 ELSE 0)
      BY <1>1, <1>2, <2>2, HoldersAppend
    <3> HIDE DEF u
    <3> QED
      BY <1>3, <1>4, <2>2, <3>1 DEF AddsUp
  <2> HIDE DEF u
  <2> QED
    BY <1>5, <2>2, <2>3, <2>4, <2>5 DEF Judging, u
<1>7. CASE k \in gone /\ complete(c, s.rel, k \in steady)
  <2> DEFINE a == Append(s.objs, c)
  <2>0. a \in Seq(Track)
    BY <1>1, <1>2
  <2> HIDE DEF a
  <2>1. u = [s EXCEPT !.objs = a]
    BY <1>7 DEF JudgeOne, c, a
  <2>2. u.objs = Append(s.objs, c) /\ u.rel = s.rel /\ u.left = s.left
    BY <1>2, <2>1 DEF JudgedState, a
  <2>3. u \in JudgedState
    BY <1>2, <2>0, <2>1 DEF JudgedState
  <2>4. Within(u.objs)
    BY <1>1, <1>2, <1>5, <2>2, WithinAppend
  <2>5. \A p \in Tail3(c) : Cardinality(Holders(s.objs, p)) = 0
    <3> SUFFICES ASSUME NEW p \in Tail3(c) PROVE Cardinality(Holders(s.objs, p)) = 0
      OBVIOUS
    <3>1. s.rel[p] = 1 /\ p \in Point
      BY <1>1, <1>7 DEF complete
    <3> QED
      BY <1>3, <1>4, <3>1
  <2>6. Disjoint(u.objs)
    BY <1>1, <1>2, <1>5, <2>2, <2>5, DisjointAppend
  <2>7. \A p \in Point : AddsUp(u, k, p)
    <3> SUFFICES ASSUME NEW p \in Point PROVE AddsUp(u, k, p)
      OBVIOUS
    <3>1. Cardinality(Holders(u.objs, p))
            = Cardinality(Holders(s.objs, p)) + (IF p \in Tail3(c) THEN 1 ELSE 0)
      BY <1>1, <1>2, <2>2, HoldersAppend
    <3> HIDE DEF u
    <3> QED
      BY <1>3, <1>4, <2>2, <3>1 DEF AddsUp
  <2> HIDE DEF u
  <2> QED
    BY <1>5, <2>2, <2>3, <2>4, <2>6, <2>7 DEF Judging, u
<1>8. CASE k \in gone /\ ~ complete(c, s.rel, k \in steady)
  <2>1. u = [s EXCEPT !.rel = release(c, s.rel)]
    BY <1>8 DEF JudgeOne, c
  <2>2. u.objs = s.objs /\ u.left = s.left /\ u.rel = release(c, s.rel)
    BY <1>2, <2>1 DEF JudgedState
  <2>3. release(c, s.rel) \in [Point -> Int]
    BY <1>3 DEF release
  <2>4. u \in JudgedState
    BY <1>2, <2>1, <2>3 DEF JudgedState
  <2>5. \A p \in Point : AddsUp(u, k, p)
    <3> SUFFICES ASSUME NEW p \in Point PROVE AddsUp(u, k, p)
      OBVIOUS
    <3>1. u.rel[p] = s.rel[p] - (IF p \in Tail3(c) THEN 1 ELSE 0)
      BY <2>2 DEF release
    <3> HIDE DEF u
    <3> QED
      BY <1>3, <1>4, <2>2, <3>1 DEF AddsUp
  <2> HIDE DEF u
  <2> QED
    BY <1>5, <2>2, <2>4, <2>5 DEF Judging, u
<1> QED
  BY <1>6, <1>7, <1>8

\* So does judging all of them.
LEMMA JudgeKeeps ==
  ASSUME CNInv, NEW gone, NEW steady
  PROVE  LET s == Judge(gone, steady)
         IN  /\ s.left \in Seq(Track) /\ s.objs \in Seq(Track) /\ s.rel \in [Point -> Int]
             /\ Within(s.left) /\ Within(s.objs) /\ Disjoint(s.objs)
             /\ \A p \in Point : s.rel[p] >= Cardinality(Holders(s.left, p))
                                               + Cardinality(Holders(s.objs, p))
<1> DEFINE N == Len(cans_)
<1>1. /\ cans_ \in Seq(Track) /\ objects \in Seq(Track) /\ related \in [Point -> Int]
      /\ Within(cans_) /\ Within(objects) /\ Disjoint(objects)
  BY DEF CNInv, CNTypes, Inside, Within, OneObjectPerPoint, Disjoint
<1>2. N \in Nat /\ DOMAIN cans_ = 1 .. N
  BY <1>1
<1>3. PICK run : /\ run[0] = Start
                 /\ \A k \in 1 .. N : run[k] = JudgeOne(gone, steady, run[k - 1], k)
                 /\ Judge(gone, steady) = run[N]
  BY <1>2, JudgeRuns
<1>4. Judging(Start, 0)
  <2>1. << >> \in Seq(Track)
    OBVIOUS
  <2>2. Start \in JudgedState
    BY <1>1, <2>1 DEF Start, JudgedState
  <2>3. Within(Start.left) /\ Within(Start.objs) /\ Disjoint(Start.objs)
    BY <1>1 DEF Start, Within
  <2>4. \A p \in Point : AddsUp(Start, 0, p)
    <3> SUFFICES ASSUME NEW p \in Point PROVE AddsUp(Start, 0, p)
      OBVIOUS
    <3>1. Holders(<< >>, p) = {}
      BY DEF Holders
    <3>2. Cardinality(Holders(<< >>, p)) = 0
      BY <3>1, FS_EmptySet
    <3>3. Cardinality(Ahead(0, p)) = Cardinality(Holders(cans_, p))
      BY <1>1, AheadEnds
    <3>4. related[p] >= Cardinality(Holders(cans_, p)) + Cardinality(Holders(objects, p))
      BY DEF CNInv, Counted
    <3>5. Cardinality(Holders(cans_, p)) \in Nat /\ Cardinality(Holders(objects, p)) \in Nat
      BY <1>1, HoldersFinite
    <3>6. Start.left = << >> /\ Start.rel = related /\ Start.objs = objects
      BY DEF Start
    <3> QED
      BY <1>1, <3>2, <3>3, <3>4, <3>5, <3>6 DEF AddsUp
  <2> QED
    BY <2>2, <2>3, <2>4 DEF Judging
<1> DEFINE Bad == {k \in 0 .. N : ~ Judging(run[k], k)}
<1>5. Bad = {}
  <2> SUFFICES ASSUME Bad # {} PROVE FALSE
    OBVIOUS
  <2>1. Bad \in SUBSET Nat
    OBVIOUS
  <2>2. PICK k \in Bad : \A m \in Bad : k <= m
    BY <2>1, LeastOf
  <2>3. k \in 0 .. N /\ ~ Judging(run[k], k)
    OBVIOUS
  <2>4. k # 0
    BY <1>3, <1>4, <2>3
  <2>5. k \in 1 .. N /\ k - 1 \in 0 .. N /\ ~ (k <= k - 1)
    BY <1>2, <2>3, <2>4
  <2>6. Judging(run[k - 1], k - 1)
    BY <2>2, <2>5
  <2>7. Judging(JudgeOne(gone, steady, run[k - 1], k), k)
    BY <1>1, <2>5, <2>6, JudgeStep
  <2> QED
    BY <1>3, <2>3, <2>5, <2>7
<1>6. Judging(run[N], N)
  BY <1>2, <1>5
<1> DEFINE s == Judge(gone, steady)
<1>7. Judging(s, N)
  BY <1>3, <1>6
<1> HIDE DEF s, N, Bad
<1>8. s.left \in Seq(Track) /\ s.objs \in Seq(Track) /\ s.rel \in [Point -> Int]
  BY <1>7 DEF Judging, JudgedState
<1>9. \A p \in Point : s.rel[p] >= Cardinality(Holders(s.left, p))
                                    + Cardinality(Holders(s.objs, p))
  <2> SUFFICES ASSUME NEW p \in Point
               PROVE  s.rel[p] >= Cardinality(Holders(s.left, p)) + Cardinality(Holders(s.objs, p))
    OBVIOUS
  <2>1. AddsUp(s, N, p)
    BY <1>7 DEF Judging
  <2>2. Cardinality(Ahead(N, p)) = 0
    BY <1>1, AheadEnds DEF N
  <2>3. /\ Cardinality(Holders(s.left, p)) \in Nat /\ Cardinality(Holders(s.objs, p)) \in Nat
        /\ s.rel[p] \in Int
    BY <1>8, HoldersFinite
  <2> QED
    BY <2>1, <2>2, <2>3 DEF AddsUp
<1> QED
  BY <1>7, <1>8, <1>9 DEF Judging, s

\* The steps of the finder.
LEMMA CNStarts ==
  ASSUME CNInit
  PROVE  CNInv
<1>1. CNTypes
  BY PointsAssumption DEF CNInit, CNTypes
<1>2. Inside /\ OneObjectPerPoint
  BY DEF CNInit, Inside, OneObjectPerPoint
<1>3. Counted
  <2>1. \A p : Holders(<< >>, p) = {}
    BY DEF Holders
  <2>2. \A p \in Point : related[p] = 0
    BY DEF CNInit
  <2>3. \A p : Cardinality(Holders(<< >>, p)) = 0
    BY <2>1, FS_EmptySet
  <2> QED
    BY <2>2, <2>3 DEF CNInit, Counted
<1> QED
  BY <1>1, <1>2, <1>3 DEF CNInv

\* Whoever leaves, the invariant holds of the candidates and objects left behind.
LEMMA LeaveKeeps ==
  ASSUME CNInv, NEW gone, Leave(gone)
  PROVE  /\ related' \in [Point -> Int] /\ cans_' \in Seq(Track) /\ objects' \in Seq(Track)
         /\ Inside' /\ Counted' /\ OneObjectPerPoint'
<1>1. PICK steady \in SUBSET gone :
        /\ cans_' = Judge(gone, steady).left
        /\ related' = Judge(gone, steady).rel
        /\ objects' = Judge(gone, steady).objs
  BY Zenon DEF Leave
<1> DEFINE s == Judge(gone, steady)
<1>2. /\ s.left \in Seq(Track) /\ s.objs \in Seq(Track) /\ s.rel \in [Point -> Int]
      /\ Within(s.left) /\ Within(s.objs) /\ Disjoint(s.objs)
      /\ \A p \in Point : s.rel[p] >= Cardinality(Holders(s.left, p))
                                        + Cardinality(Holders(s.objs, p))
  BY JudgeKeeps
<1>3. cans_' = s.left /\ related' = s.rel /\ objects' = s.objs
  BY <1>1
<1> HIDE DEF s
<1>4. Inside'
  BY <1>2, <1>3 DEF Inside, Within
<1>5. Counted'
  BY <1>2, <1>3 DEF Counted
<1>6. OneObjectPerPoint'
  BY <1>2, <1>3 DEF OneObjectPerPoint, Disjoint
<1> QED
  BY <1>2, <1>3, <1>4, <1>5, <1>6

\* A point more replaces one of the last three.
LEMMA TailGrows ==
  ASSUME NEW can \in Track, NEW q \in Int \X Int
  PROVE  Tail3(can \o << >>) = Tail3(can) /\ Tail3(can \o <<q>>) \subseteq Tail3(can) \cup {q}
<1>1. can \o << >> = can
  BY DEF Track
<1>2. Tail3(can \o <<q>>) \subseteq Tail3(can) \cup {q}
  <2> DEFINE d == can \o <<q>>
  <2>1. /\ Len(can) \in Nat /\ Len(d) = Len(can) + 1 /\ d[Len(can) + 1] = q
        /\ \A i \in 1 .. Len(can) : d[i] = can[i]
    BY DEF Track
  <2> HIDE DEF d
  <2>2. \A i \in 3 .. Len(d) : d[i] \in Tail3(can) \cup {q}
    <3> SUFFICES ASSUME NEW i \in 3 .. Len(d) PROVE d[i] \in Tail3(can) \cup {q}
      OBVIOUS
    <3>1. CASE i = Len(can) + 1
      BY <2>1, <3>1
    <3>2. CASE i # Len(can) + 1
      <4>1. i \in 1 .. Len(can) /\ i \in 3 .. Len(can)
        BY <2>1, <3>2
      <4>2. d[i] = can[i]
        BY <2>1, <4>1
      <4> QED
        BY <4>1, <4>2 DEF Tail3
    <3> QED
      BY <3>1, <3>2
  <2>3. Tail3(d) \subseteq Tail3(can) \cup {q}
    BY <2>2 DEF Tail3
  <2> QED
    BY <2>3 DEF d
<1> QED
  BY <1>1, <1>2

\* Points added to candidates are counted in related one by one.
LEMMA AppendKeeps ==
  ASSUME CNInv, append_candidates
  PROVE  CNInv'
<1> DEFINE free == PointsOf(fno) \ matched
<1>1. PICK pick \in [DOMAIN cans_ -> {<< >>} \cup {<<p>> : p \in free}] :
        /\ cans_' = [i \in DOMAIN cans_ |-> cans_[i] \o pick[i]]
        /\ related' = [p \in Point |->
                         related[p] + Cardinality({i \in DOMAIN cans_ : pick[i] = <<p>>})]
  BY Zenon DEF append_candidates
<1>2. at = "append" /\ at' = "create" /\ UNCHANGED <<fno, matched, objects>>
  BY DEF append_candidates
<1>3. /\ fno \in 1 .. NumFrames /\ related \in [Point -> Int]
      /\ cans_ \in Seq(Track) /\ objects \in Seq(Track)
  BY <1>2, PointsAssumption DEF CNInv, CNTypes
<1>4. free \subseteq Point /\ Point \subseteq Int \X Int
  <2>1. PointsOf(fno) \subseteq Point
    BY <1>3 DEF PointsOf, Point
  <2>2. Point \subseteq Int \X Int
    BY DEF Point
  <2> QED
    BY <2>1, <2>2
<1> HIDE DEF free
<1>5. \A i \in DOMAIN cans_ : pick[i] = << >> \/ \E p \in free : pick[i] = <<p>>
  BY <1>1
<1>6. \A i \in DOMAIN cans_ : cans_[i] \in Track
  BY <1>3
<1>7. cans_' \in Seq(Track) /\ DOMAIN cans_' = DOMAIN cans_
  <2>1. \A i \in DOMAIN cans_ : cans_[i] \o pick[i] \in Track
    <3> SUFFICES ASSUME NEW i \in DOMAIN cans_ PROVE cans_[i] \o pick[i] \in Track
      OBVIOUS
    <3>1. pick[i] \in Track
      <4>1. CASE pick[i] = << >>
        BY <4>1 DEF Track
      <4>2. CASE \E p \in free : pick[i] = <<p>>
        <5>1. PICK p \in free : pick[i] = <<p>>
          BY <4>2
        <5>2. p \in Int \X Int
          BY <1>4
        <5>3. <<p>> \in Seq(Int \X Int)
          BY <5>2
        <5> QED
          BY <5>1, <5>3 DEF Track
      <4> QED
        BY <1>5, <4>1, <4>2
    <3> QED
      BY <1>6, <3>1 DEF Track
  <2>2. DOMAIN cans_ = 1 .. Len(cans_) /\ Len(cans_) \in Nat
    BY <1>3
  <2>3. cans_' \in [1 .. Len(cans_) -> Track]
    BY <1>1, <2>1, <2>2
  <2> QED
    BY <2>2, <2>3
<1>8. \A i \in DOMAIN cans_ : \A p \in Tail3(cans_'[i]) :
        p \in Tail3(cans_[i]) \/ (pick[i] = <<p>> /\ p \in free)
  <2> SUFFICES ASSUME NEW i \in DOMAIN cans_, NEW p \in Tail3(cans_'[i])
               PROVE  p \in Tail3(cans_[i]) \/ (pick[i] = <<p>> /\ p \in free)
    OBVIOUS
  <2>1. cans_'[i] = cans_[i] \o pick[i]
    BY <1>1
  <2>2. CASE pick[i] = << >>
    BY <1>6, <2>1, <2>2, TailGrows
  <2>3. CASE \E q \in free : pick[i] = <<q>>
    <3>1. PICK q \in free : pick[i] = <<q>>
      BY <2>3
    <3>2. p \in Tail3(cans_[i]) \cup {q}
      BY <1>4, <1>6, <2>1, <3>1, TailGrows
    <3> QED
      BY <3>1, <3>2
  <2> QED
    BY <1>5, <2>2, <2>3
<1>9. Inside'
  <2>1. \A i \in DOMAIN cans_' : Tail3(cans_'[i]) \subseteq Point
    BY <1>4, <1>7, <1>8 DEF CNInv, Inside
  <2> QED
    BY <1>2, <2>1 DEF CNInv, Inside
<1>10. related' \in [Point -> Int] /\ Counted'
  <2> DEFINE T(p) == {i \in DOMAIN cans_ : pick[i] = <<p>>}
  <2>1. \A p \in Point : IsFiniteSet(T(p)) /\ Cardinality(T(p)) \in Nat
    <3> SUFFICES ASSUME NEW p \in Point PROVE IsFiniteSet(T(p)) /\ Cardinality(T(p)) \in Nat
      OBVIOUS
    <3>1. IsFiniteSet(1 .. Len(cans_)) /\ T(p) \in SUBSET (1 .. Len(cans_))
      BY <1>3, FS_Interval
    <3>2. IsFiniteSet(T(p))
      BY <3>1, FS_Subset
    <3> QED
      BY <3>2, FS_CardinalityType
  <2>2. \A p \in Point : related'[p] = related[p] + Cardinality(T(p))
    BY <1>1
  <2>3. related' \in [Point -> Int]
    <3> HIDE DEF T
    <3>1. related' = [p \in Point |-> related[p] + Cardinality(T(p))]
      BY <1>1 DEF T
    <3> QED
      BY <1>3, <2>1, <3>1
  <2>4. SUFFICES ASSUME NEW p \in Point
                 PROVE  related'[p] >= Cardinality(Holders(cans_', p))
                                       + Cardinality(Holders(objects', p))
    BY <2>3 DEF Counted
  <2> DEFINE H == Holders(cans_, p)
             A == T(p)
  <2>5. Holders(cans_', p) \in SUBSET (H \cup A)
    BY <1>7, <1>8 DEF Holders
  <2>6. IsFiniteSet(H) /\ Cardinality(H) \in Nat /\ IsFiniteSet(A) /\ Cardinality(A) \in Nat
    BY <1>3, <2>1, HoldersFinite
  <2> HIDE DEF H, A, T
  <2>7. /\ IsFiniteSet(H \cup A) /\ IsFiniteSet(H \cap A)
        /\ Cardinality(H \cup A) = Cardinality(H) + Cardinality(A) - Cardinality(H \cap A)
    <3>1. H \cap A \in SUBSET H
      OBVIOUS
    <3> QED
      BY <2>6, <3>1, FS_Union, FS_Subset
  <2>8. Cardinality(H \cap A) \in Nat /\ Cardinality(H \cup A) \in Nat
    BY <2>7, FS_CardinalityType
  <2>9. Cardinality(Holders(cans_', p)) <= Cardinality(H \cup A)
    BY <2>5, <2>7, FS_Subset
  <2>10. related[p] >= Cardinality(H) + Cardinality(Holders(objects, p))
    BY DEF CNInv, Counted, H
  <2>11. Cardinality(Holders(objects, p)) \in Nat /\ Cardinality(Holders(cans_', p)) \in Nat
    BY <1>3, <1>7, HoldersFinite
  <2>12. related[p] \in Int /\ related'[p] = related[p] + Cardinality(A) /\ objects' = objects
    BY <1>2, <1>3, <2>2 DEF A
  <2> QED
    BY <2>6, <2>7, <2>8, <2>9, <2>10, <2>11, <2>12
<1>11. CNTypes' /\ OneObjectPerPoint'
  BY <1>2, <1>7, <1>10 DEF CNInv, CNTypes, OneObjectPerPoint
<1> QED
  BY <1>9, <1>10, <1>11 DEF CNInv

\* Where the elements of a concatenation come from.
LEMMA TwoParts ==
  ASSUME NEW s \in Seq(Track), NEW t \in Seq(Track)
  PROVE  /\ s \o t \in Seq(Track) /\ Len(s \o t) = Len(s) + Len(t)
         /\ \A i \in 1 .. Len(s) : (s \o t)[i] = s[i]
         /\ \A i \in 1 .. Len(s) + Len(t) : i > Len(s) => (s \o t)[i] = t[i - Len(s)]
OBVIOUS

\* Each new candidate is counted at both of its points.
LEMMA CreateKeeps ==
  ASSUME CNInv, create_candidates
  PROVE  CNInv'
<1> DEFINE Pairs == Free(fno - 1) \X Free(fno)
<1>1. PICK close \in SUBSET Pairs :
        /\ Len(cans_) + Cardinality(close) <= MaxCans
        /\ \E new \in [1 .. Cardinality(close) -> close] :
             /\ \A j, k \in DOMAIN new : j < k => Before(new[j], new[k])
             /\ cans_' = cans_ \o new
  BY DEF create_candidates
<1>a. close \in SUBSET Pairs
  OBVIOUS
<1>b. Pairs \subseteq PointsOf(fno - 1) \X PointsOf(fno)
  BY DEF Free
<1> HIDE DEF Pairs
<1>2. PICK new \in [1 .. Cardinality(close) -> close] : cans_' = cans_ \o new
  BY <1>1, Zenon
<1>3. at = "create" /\ at' = "idle" /\ UNCHANGED <<fno, matched, related, objects>>
  BY DEF create_candidates
<1>4. /\ fno \in Int /\ related \in [Point -> Int]
      /\ cans_ \in Seq(Track) /\ objects \in Seq(Track)
  BY PointsAssumption DEF CNInv, CNTypes
<1>5. \A f \in Int : IsFiniteSet(PointsOf(f)) /\ PointsOf(f) \subseteq Int \X Int
  <2> SUFFICES ASSUME NEW f \in Int
               PROVE  IsFiniteSet(PointsOf(f)) /\ PointsOf(f) \subseteq Int \X Int
    OBVIOUS
  <2>1. IsFiniteSet({f})
    BY FS_Singleton
  <2>2. PerFrame \in Int /\ 1 \in Int
    BY PointsAssumption
  <2>3. IsFiniteSet(1 .. PerFrame)
    BY <2>2, FS_Interval
  <2>4. IsFiniteSet({f} \X (1 .. PerFrame))
    BY <2>1, <2>3, FS_Product
  <2>5. \A k \in 1 .. PerFrame : k \in Int
    BY <2>2
  <2>6. {f} \X (1 .. PerFrame) \subseteq Int \X Int
    BY <2>5
  <2> QED
    BY <2>4, <2>6, Zenon DEF PointsOf
<1>6. Cardinality(close) \in Nat
  <2>1. IsFiniteSet(PointsOf(fno - 1) \X PointsOf(fno))
    <3>1. fno - 1 \in Int
      BY <1>4
    <3>2. IsFiniteSet(PointsOf(fno - 1)) /\ IsFiniteSet(PointsOf(fno))
      BY <1>4, <1>5, <3>1
    <3> QED
      BY <3>2, FS_Product
  <2>2. close \in SUBSET (PointsOf(fno - 1) \X PointsOf(fno))
    BY <1>a, <1>b
  <2>3. IsFiniteSet(close)
    BY <2>1, <2>2, FS_Subset
  <2> QED
    BY <2>3, FS_CardinalityType
<1>7. \A pair \in close : pair \in Track /\ Tail3(pair) = {}
  <2> SUFFICES ASSUME NEW pair \in close PROVE pair \in Track /\ Tail3(pair) = {}
    OBVIOUS
  <2>1. PICK p \in PointsOf(fno - 1), q \in PointsOf(fno) : pair = <<p, q>>
    BY <1>a, <1>b
  <2>2. p \in Int \X Int /\ q \in Int \X Int
    BY <1>4, <1>5
  <2>3. <<p, q>> \in Seq(Int \X Int) /\ Len(<<p, q>>) = 2
    BY <2>2
  <2>4. 3 .. 2 = {}
    OBVIOUS
  <2> QED
    BY <2>1, <2>3, <2>4 DEF Track, Tail3
<1>8. new \in Seq(Track) /\ Len(new) = Cardinality(close)
  BY <1>6, <1>7
<1>9. /\ cans_' \in Seq(Track) /\ Len(cans_') = Len(cans_) + Len(new)
      /\ \A i \in 1 .. Len(cans_) : cans_'[i] = cans_[i]
      /\ \A i \in 1 .. Len(cans_') : i > Len(cans_) => cans_'[i] = new[i - Len(cans_)]
  <2> DEFINE c == cans_ \o new
  <2>1. cans_ \in Seq(Track) /\ new \in Seq(Track)
    BY <1>4, <1>8
  <2>2. /\ c \in Seq(Track) /\ Len(c) = Len(cans_) + Len(new)
        /\ \A i \in 1 .. Len(cans_) : c[i] = cans_[i]
        /\ \A i \in 1 .. Len(cans_) + Len(new) : i > Len(cans_) => c[i] = new[i - Len(cans_)]
    BY <2>1, TwoParts
  <2> HIDE DEF c
  <2>5. cans_' = c
    BY <1>2 DEF c
  <2> QED
    BY <2>2, <2>5
<1>10. \A i \in DOMAIN cans_' : \/ (i \in DOMAIN cans_ /\ cans_'[i] = cans_[i])
                              \/ (i \notin DOMAIN cans_ /\ Tail3(cans_'[i]) = {})
  <2> SUFFICES ASSUME NEW i \in DOMAIN cans_'
               PROVE  \/ (i \in DOMAIN cans_ /\ cans_'[i] = cans_[i])
                      \/ (i \notin DOMAIN cans_ /\ Tail3(cans_'[i]) = {})
    OBVIOUS
  <2>1. i \in 1 .. Len(cans_') /\ Len(cans_) \in Nat /\ DOMAIN cans_ = 1 .. Len(cans_)
    BY <1>4, <1>9
  <2>2. CASE i <= Len(cans_)
    BY <1>9, <2>1, <2>2
  <2>3. CASE i > Len(cans_)
    <3>1. i - Len(cans_) \in 1 .. Cardinality(close)
      BY <1>6, <1>8, <1>9, <2>1, <2>3
    <3>2. new[i - Len(cans_)] \in close
      BY <3>1
    <3>3. Tail3(cans_'[i]) = {}
      BY <1>7, <1>9, <2>1, <2>3, <3>2
    <3> QED
      BY <2>1, <2>3, <3>3
  <2> QED
    BY <2>1, <2>2, <2>3
<1>11. DOMAIN cans_ \subseteq DOMAIN cans_'
  BY <1>4, <1>8, <1>9
<1>12. Inside'
  BY <1>3, <1>10 DEF CNInv, Inside
<1>13. \A p : Holders(cans_', p) = Holders(cans_, p)
  <2> SUFFICES ASSUME NEW p PROVE Holders(cans_', p) = Holders(cans_, p)
    OBVIOUS
  <2>1. \A i : i \in Holders(cans_', p) => i \in Holders(cans_, p)
    BY <1>10 DEF Holders
  <2>2. \A i : i \in Holders(cans_, p) => i \in Holders(cans_', p)
    BY <1>10, <1>11 DEF Holders
  <2>3. \A i : i \in Holders(cans_', p) <=> i \in Holders(cans_, p)
    BY <2>1, <2>2
  <2>4. Holders(cans_', p) = {i \in Holders(cans_', p) : TRUE} /\ Holders(cans_, p) = {i \in Holders(cans_, p) : TRUE}
    OBVIOUS
  <2> QED
    BY <2>3
<1>14. Counted' /\ CNTypes' /\ OneObjectPerPoint'
  BY <1>3, <1>9, <1>13, PointsAssumption DEF CNInv, Counted, CNTypes, OneObjectPerPoint
<1> QED
  BY <1>12, <1>14 DEF CNInv

\* The invariant is inductive.
LEMMA CNStep ==
  ASSUME CNInv, CNNext
  PROVE  CNInv'
<1>1. CASE new_frame
  <2>1. /\ at = "idle" /\ fno < NumFrames /\ fno' = fno + 1
        /\ UNCHANGED <<related, cans_, objects>>
    BY <1>1 DEF new_frame
  <2>2. at' \in {"recheck", "idle"}
    BY <1>1, Zenon DEF new_frame
  <2> QED
    BY <2>1, <2>2, PointsAssumption DEF CNInv, CNTypes, Inside, Counted, OneObjectPerPoint
<1>2. CASE recheck_candidates
  <2>1. at = "recheck" /\ at' = "append" /\ UNCHANGED <<fno, matched>>
    BY <1>2 DEF recheck_candidates
  <2>2. PICK gone \in SUBSET DOMAIN cans_ : Leave(gone)
    BY <1>2, Zenon DEF recheck_candidates
  <2>3. /\ related' \in [Point -> Int] /\ cans_' \in Seq(Track) /\ objects' \in Seq(Track)
        /\ Inside' /\ Counted' /\ OneObjectPerPoint'
    BY <2>2, LeaveKeeps
  <2> QED
    BY <2>1, <2>3 DEF CNInv, CNTypes
<1>3. CASE append_candidates
  BY <1>3, AppendKeeps
<1>4. CASE create_candidates
  BY <1>4, CreateKeeps
<1>5. CASE end_sequence
  <2>1. at = "idle" /\ at' = "over" /\ fno > 0 /\ UNCHANGED <<fno, matched>>
    BY <1>5 DEF end_sequence
  <2>2. Leave(DOMAIN cans_)
    BY <1>5 DEF end_sequence
  <2>3. /\ related' \in [Point -> Int] /\ cans_' \in Seq(Track) /\ objects' \in Seq(Track)
        /\ Inside' /\ Counted' /\ OneObjectPerPoint'
    BY <2>2, LeaveKeeps
  <2> QED
    BY <2>1, <2>3 DEF CNInv, CNTypes
<1> QED
  BY <1>1, <1>2, <1>3, <1>4, <1>5 DEF CNNext

\* However many candidates claim a point and in whatever order they are judged, the
\* points that were added to two objects are different.
THEOREM PointHasOneObject == CNSpec => []OneObjectPerPoint
<1>1. CNInv /\ [CNNext]_cnVars => CNInv'
  <2>1. CNInv /\ UNCHANGED cnVars => CNInv'
    BY DEF cnVars, CNInv, CNTypes, Inside, Counted, OneObjectPerPoint
  <2> QED
    BY <2>1, CNStep
<1>2. CNInit => CNInv
  BY CNStarts
<1>3. CNInv => OneObjectPerPoint
  BY DEF CNInv
<1> QED
  BY <1>1, <1>2, <1>3, PTL DEF CNSpec

(***************************************************************************)
(* Marks.  Columns in the file are more than two apart, since only add     *)
(* puts one there, so LoadBadmark reads back exactly the columns saved.    *)
(***************************************************************************)
Apart(c) == c \in Seq(Int) /\ \A j, k \in DOMAIN c : j # k => ~ Near(c[j], c[k])

MarkSet == [listed : BOOLEAN, cols : Seq(Int)]

MarksInv == /\ marks \in MarkSet /\ file \in MarkSet /\ dirty \in BOOLEAN
            /\ Apart(marks.cols) /\ Apart(file.cols)
            /\ service = "up" /\ ~ dirty => marks = file

\* A column is added to those before it, as none of them is near.
LEMMA AddNext ==
  ASSUME NEW s, Apart(s), NEW k \in 1 .. Len(s)
  PROVE  add(SubSeq(s, 1, k - 1), s[k]) = SubSeq(s, 1, k)
<1>1. s \in Seq(Int) /\ Len(s) \in Nat /\ DOMAIN s = 1 .. Len(s) /\ k \in Nat
  BY DEF Apart
<1> DEFINE p == SubSeq(s, 1, k - 1)
<1>2. p \in Seq(Int) /\ Len(p) = k - 1 /\ \A j \in 1 .. (k - 1) : p[j] = s[j]
  BY <1>1
<1>3. ~ test(p, s[k])
  <2> SUFFICES ASSUME NEW j \in DOMAIN p PROVE ~ Near(p[j], s[k])
    BY DEF test
  <2>1. j \in 1 .. (k - 1) /\ j \in DOMAIN s /\ k \in DOMAIN s /\ j # k
    BY <1>1, <1>2
  <2>2. ~ Near(s[j], s[k])
    BY <2>1 DEF Apart
  <2> QED
    BY <1>2, <2>1, <2>2
<1>4. Append(p, s[k]) = SubSeq(s, 1, k)
  BY <1>1
<1> QED
  BY <1>3, <1>4 DEF add

\* FoldLeft is the same operator inside the instance.
LEMMA SameFold ==
  \A s : FoldLeft(add, << >>, s) = MarkLoop!FoldLeft(add, << >>, s)
  BY Zenon DEF FoldLeft, MapThenFoldSet, MarkLoop!FoldLeft, MarkLoop!MapThenFoldSet,
               Max, MarkLoop!Max

\* Columns that lie apart come back from the file as they were saved.
LEMMA LoadedAsSaved ==
  ASSUME Apart(file.cols)
  PROVE  FoldLeft(add, << >>, file.cols) = file.cols
<1> DEFINE s == file.cols
           N == Len(s)
<1>1. s \in Seq(Int) /\ N \in Nat /\ DOMAIN s = 1 .. N
  BY DEF Apart
<1>2. ReadSoFar(0, << >>)
  BY <1>1 DEF ReadSoFar
<1>3. ASSUME NEW k \in 1 .. N, NEW x, ReadSoFar(k - 1, x)
      PROVE  ReadSoFar(k, add(x, s[k]))
  BY <1>3, AddNext DEF ReadSoFar
<1>4. ReadSoFar(N, MarkLoop!FoldLeft(add, << >>, s))
  <2> HIDE DEF N, s
  <2> QED
    BY <1>1, <1>2, <1>3, MarkLoop!FoldKeeps
<1>5. SubSeq(s, 1, N) = s
  BY <1>1
<1> QED
  BY <1>4, <1>5, SameFold DEF ReadSoFar

\* A column is added only away from those that are there.
LEMMA AddKeepsApart ==
  ASSUME NEW s, Apart(s), NEW c \in Int
  PROVE  Apart(add(s, c))
<1>1. s \in Seq(Int)
  BY DEF Apart
<1>2. CASE test(s, c)
  BY <1>2 DEF add
<1>3. CASE ~ test(s, c)
  <2> DEFINE t == Append(s, c)
             n == Len(s) + 1
  <2>1. /\ t \in Seq(Int) /\ DOMAIN t = (DOMAIN s) \cup {n} /\ t[n] = c
        /\ \A j \in DOMAIN s : t[j] = s[j] /\ s[j] \in Int
    BY <1>1
  <2>2. \A j \in DOMAIN s : ~ Near(s[j], c) /\ ~ Near(c, s[j])
    BY <1>3, <2>1 DEF test, Near
  <2> HIDE DEF t, n
  <2>3. SUFFICES ASSUME NEW j \in DOMAIN t, NEW k \in DOMAIN t, j # k PROVE ~ Near(t[j], t[k])
    BY <1>3, <2>1 DEF Apart, add, t
  <2>4. CASE j \in DOMAIN s /\ k \in DOMAIN s
    BY <2>1, <2>3, <2>4 DEF Apart
  <2>5. CASE j = n \/ k = n
    BY <2>1, <2>2, <2>3, <2>5
  <2> QED
    BY <2>1, <2>4, <2>5
<1> QED
  BY <1>2, <1>3

\* A process starts with the marks of an empty or a saved file.
LEMMA MarksStart ==
  ASSUME BMInit
  PROVE  MarksInv
<1>1. NoMarks \in MarkSet /\ Apart(NoMarks.cols)
  BY DEF NoMarks, MarkSet, Apart
<1>2. \A c \in Int : <<c>> \in Seq(Int) /\ Apart(<<c>>)
  <2> SUFFICES ASSUME NEW c \in Int PROVE <<c>> \in Seq(Int) /\ Apart(<<c>>)
    OBVIOUS
  <2>1. <<c>> \in Seq(Int) /\ DOMAIN <<c>> = {1}
    OBVIOUS
  <2> QED
    BY <2>1, Zenon DEF Apart
<1>3. marks = NoMarks /\ dirty = FALSE /\ service = "down"
  BY DEF BMInit
<1>4. file = NoMarks \/ \E c \in Col : file = [listed |-> TRUE, cols |-> <<c>>]
  BY DEF BMInit
<1>5. file \in MarkSet /\ Apart(file.cols)
  <2>1. CASE file = NoMarks
    BY <1>1, <2>1
  <2>2. CASE \E c \in Col : file = [listed |-> TRUE, cols |-> <<c>>]
    <3>1. PICK c \in Col : file = [listed |-> TRUE, cols |-> <<c>>]
      BY <2>2
    <3>2. c \in Int
      BY PlacesAssumption
    <3> QED
      BY <1>2, <3>1, <3>2 DEF MarkSet
  <2> QED
    BY <1>4, <2>1, <2>2
<1> QED
  BY <1>1, <1>3, <1>5 DEF MarksInv

\* What test_badcol does to the marks.
LEMMA MarksLearn ==
  ASSUME MarksInv, NEW c \in Int, test_badcol(c)
  PROVE  /\ marks' \in MarkSet /\ Apart(marks'.cols) /\ dirty' \in BOOLEAN
         /\ ~ dirty' => ~ dirty /\ marks' = marks
<1>1. marks \in MarkSet /\ Apart(marks.cols) /\ dirty \in BOOLEAN
  BY DEF MarksInv
<1>2. UNCHANGED <<marks, dirty>> \/ AddBadcol(c)
  BY Zenon DEF test_badcol
<1>3. CASE UNCHANGED <<marks, dirty>>
  BY <1>1, <1>3
<1>4. CASE AddBadcol(c)
  <2>1. dirty' = TRUE
    BY <1>4 DEF AddBadcol
  <2>2. CASE marks.listed
    <3>1. marks' = [marks EXCEPT !.cols = add(marks.cols, c)]
      BY <1>4, <2>2 DEF AddBadcol
    <3>2. Apart(add(marks.cols, c))
      BY <1>1, AddKeepsApart
    <3>3. add(marks.cols, c) \in Seq(Int)
      BY <3>2 DEF Apart
    <3> HIDE DEF add
    <3>4. marks'.cols = add(marks.cols, c) /\ marks' \in MarkSet
      BY <1>1, <3>1, <3>3 DEF MarkSet
    <3> QED
      BY <2>1, <3>2, <3>4
  <2>3. CASE ~ marks.listed
    <3>1. marks' = [marks EXCEPT !.listed = TRUE]
      BY <1>4, <2>3 DEF AddBadcol
    <3> QED
      BY <1>1, <2>1, <3>1 DEF MarkSet
  <2> QED
    BY <2>2, <2>3
<1> QED
  BY <1>2, <1>3, <1>4

\* The invariant is inductive.
LEMMA MarksStep ==
  ASSUME MarksInv, [BMNext]_bmVars
  PROVE  MarksInv'
<1>1. CASE LoadFile
  <2>1. /\ marks' = [file EXCEPT !.cols = FoldLeft(add, << >>, file.cols)]
        /\ file' = file /\ dirty' = FALSE
    BY <1>1 DEF LoadFile
  <2>2. FoldLeft(add, << >>, file.cols) = file.cols
    BY LoadedAsSaved DEF MarksInv
  <2>3. marks' = file
    <3>1. file = [file EXCEPT !.cols = file.cols]
      BY DEF MarksInv, MarkSet
    <3> QED
      BY <2>1, <2>2, <3>1
  <2> QED
    BY <2>1, <2>3 DEF MarksInv
<1>2. CASE NewSequence
  <2>1. UNCHANGED <<service, marks, file, dirty>>
    BY <1>2 DEF NewSequence
  <2> QED
    BY <2>1 DEF MarksInv
<1>3. CASE candidate2object
  <2>1. PICK c \in Col : test_badcol(c)
    BY <1>3, Zenon DEF candidate2object
  <2>2. UNCHANGED <<service, file>>
    BY <1>3 DEF candidate2object
  <2>3. c \in Int
    BY PlacesAssumption
  <2>4. /\ marks' \in MarkSet /\ Apart(marks'.cols) /\ dirty' \in BOOLEAN
        /\ ~ dirty' => ~ dirty /\ marks' = marks
    BY <2>1, <2>3, MarksLearn
  <2> QED
    BY <2>2, <2>4 DEF MarksInv
<1>4. CASE recheck_doubt
  <2>1. UNCHANGED <<service, marks, file, dirty>>
    BY <1>4 DEF recheck_doubt
  <2> QED
    BY <2>1 DEF MarksInv
<1>5. CASE SaveBadmark
  <2>1. /\ service' = "saved" /\ UNCHANGED <<marks, dirty>>
        /\ file' = IF dirty THEN marks ELSE file
    BY <1>5 DEF SaveBadmark
  <2> QED
    BY <2>1 DEF MarksInv
<1>6. CASE DestroyFinders
  BY <1>6 DEF DestroyFinders, MarksInv
<1>7. CASE UNCHANGED bmVars
  BY <1>7 DEF bmVars, MarksInv
<1> QED
  BY <1>1, <1>2, <1>3, <1>4, <1>5, <1>6, <1>7 DEF BMNext

\* What the service knows when it saves its marks is what the file then holds,
\* whether or not it was modified: the marks of a service that learnt nothing are those
\* it loaded.
THEOREM SavedIsKnown == BMSpec => SavedMarksComeBack
<1>1. BMInit => MarksInv
  BY MarksStart
<1>2. MarksInv /\ [BMNext]_bmVars => MarksInv'
  BY MarksStep
<1>3. MarksInv /\ [BMNext]_bmVars
        => [service = "up" /\ service' = "saved" => file' = marks']_bmVars
  <2> SUFFICES ASSUME MarksInv, BMNext, service = "up", service' = "saved"
               PROVE  file' = marks'
    OBVIOUS
  <2>1. SaveBadmark
    BY DEF BMNext, LoadFile, NewSequence, candidate2object, recheck_doubt, DestroyFinders
  <2> QED
    BY <2>1 DEF SaveBadmark, MarksInv
<1> QED
  BY <1>1, <1>2, <1>3, PTL DEF BMSpec, SavedMarksComeBack

(***************************************************************************)
(* Doubtful pixels.  A pixel never counts more than the objects of the day *)
(* that stood by it, and the files it remembers are of such objects.       *)
(***************************************************************************)
Stood(os, p) == {j \in DOMAIN os : /\ os[j].row > 0 /\ os[j].day = day
                                   /\ Near(os[j].col, p.col) /\ Near(os[j].row, p.row)}

\* The objects of the day of the kth that stood where it stands.
Hot(os, k) == {j \in DOMAIN os : /\ os[j].row > 0 /\ os[j].day = os[k].day
                                 /\ os[j].col - os[k].col \in -4 .. 4
                                 /\ os[j].row - os[k].row \in -4 .. 4}

Pixel == [col : Int, row : Int, count : Nat, fno : Int, paths : SUBSET Nat]
State == {"column", "moving", "skipped", "written", "removed"}
Still == [col : Int, row : Int, day : Int, state : State]

PixelOK(p) == p.count <= Cardinality(Stood(objs, p)) /\ p.paths \subseteq Stood(objs, p)

PixInv == /\ day \in Int /\ doubt \in Seq(Pixel) /\ objs \in Seq(Still)
          /\ \A k \in DOMAIN doubt : PixelOK(doubt[k])
          /\ OnlyHotFilesRemoved

\* The objects of a later list stand where those of an earlier one stood.
Follows(new, os) ==
  /\ DOMAIN os \subseteq DOMAIN new
  /\ \A j \in DOMAIN os : /\ new[j].row = os[j].row /\ new[j].day = os[j].day
                         /\ new[j].col = os[j].col

\* The objects at a spot can be counted.
LEMMA SpotsFinite ==
  ASSUME NEW os \in Seq(Still), NEW p, NEW k
  PROVE  /\ IsFiniteSet(Stood(os, p)) /\ Cardinality(Stood(os, p)) \in Nat
         /\ IsFiniteSet(Hot(os, k)) /\ Cardinality(Hot(os, k)) \in Nat
<1>1. IsFiniteSet(1 .. Len(os))
  BY FS_Interval
<1>2. Stood(os, p) \in SUBSET (1 .. Len(os)) /\ Hot(os, k) \in SUBSET (1 .. Len(os))
  BY DEF Stood, Hot
<1>3. IsFiniteSet(Stood(os, p)) /\ IsFiniteSet(Hot(os, k))
  BY <1>1, <1>2, FS_Subset
<1> QED
  BY <1>3, FS_CardinalityType

\* What a pixel counted and noted stays true when objects are added or their files
\* removed.
LEMMA StoodFollows ==
  ASSUME NEW os \in Seq(Still), NEW new \in Seq(Still), Follows(new, os), NEW p,
         p.count \in Nat, p.count <= Cardinality(Stood(os, p)), p.paths \subseteq Stood(os, p)
  PROVE  p.count <= Cardinality(Stood(new, p)) /\ p.paths \subseteq Stood(new, p)
<1>1. Stood(os, p) \in SUBSET Stood(new, p)
  BY Zenon DEF Stood, Follows
<1>2. Cardinality(Stood(os, p)) <= Cardinality(Stood(new, p))
  BY <1>1, SpotsFinite, FS_Subset
<1>3. Cardinality(Stood(os, p)) \in Nat /\ Cardinality(Stood(new, p)) \in Nat
  BY SpotsFinite
<1> QED
  BY <1>1, <1>2, <1>3

\* A hot spot stays hot.
LEMMA HotFollows ==
  ASSUME NEW os \in Seq(Still), NEW new \in Seq(Still), Follows(new, os),
         NEW k \in DOMAIN os, Cardinality(Hot(os, k)) >= 3
  PROVE  Cardinality(Hot(new, k)) >= 3
<1>1. Hot(os, k) \in SUBSET Hot(new, k)
  BY Zenon DEF Hot, Follows
<1>2. Cardinality(Hot(os, k)) <= Cardinality(Hot(new, k))
  BY <1>1, SpotsFinite, FS_Subset
<1>3. Cardinality(Hot(os, k)) \in Nat /\ Cardinality(Hot(new, k)) \in Nat
  BY SpotsFinite
<1> QED
  BY <1>2, <1>3

\* Two places near the same third are at most twice as far from each other.
LEMMA NearBoth ==
  ASSUME NEW a \in Int, NEW b \in Int, NEW c \in Int, Near(a, c), Near(b, c)
  PROVE  a - b \in -4 .. 4
BY DEF Near

\* The files of a pixel that counts three are of objects that stood together.
LEMMA BadIsHot ==
  ASSUME objs \in Seq(Still), NEW p \in Pixel, p.count <= Cardinality(Stood(objs, p)),
         p.count >= 3, NEW k \in Stood(objs, p)
  PROVE  Cardinality(Hot(objs, k)) >= 3
<1>1. \A j \in DOMAIN objs : objs[j].row \in Int /\ objs[j].col \in Int
  <2>1. \A j \in DOMAIN objs : objs[j] \in Still
    OBVIOUS
  <2> QED
    BY <2>1 DEF Still
<1>2. p.row \in Int /\ p.col \in Int /\ p.count \in Nat
  BY DEF Pixel
<1>3. /\ k \in DOMAIN objs /\ objs[k].row > 0 /\ objs[k].day = day
      /\ Near(objs[k].col, p.col) /\ Near(objs[k].row, p.row)
  BY DEF Stood
<1>4. \A j \in Stood(objs, p) :
        /\ j \in DOMAIN objs /\ objs[j].row > 0 /\ objs[j].day = objs[k].day
        /\ objs[j].col - objs[k].col \in -4 .. 4
        /\ objs[j].row - objs[k].row \in -4 .. 4
  <2> SUFFICES ASSUME NEW j \in Stood(objs, p)
               PROVE  /\ j \in DOMAIN objs /\ objs[j].row > 0 /\ objs[j].day = objs[k].day
                      /\ objs[j].col - objs[k].col \in -4 .. 4
                      /\ objs[j].row - objs[k].row \in -4 .. 4
    OBVIOUS
  <2>1. /\ j \in DOMAIN objs /\ objs[j].row > 0 /\ objs[j].day = day
        /\ Near(objs[j].col, p.col) /\ Near(objs[j].row, p.row)
    BY DEF Stood
  <2>2. /\ objs[j].row \in Int /\ objs[j].col \in Int
        /\ objs[k].row \in Int /\ objs[k].col \in Int
    BY <1>1, <1>3, <2>1
  <2>3. objs[j].col - objs[k].col \in -4 .. 4
    BY <1>2, <1>3, <2>1, <2>2, NearBoth
  <2>4. objs[j].row - objs[k].row \in -4 .. 4
    BY <1>2, <1>3, <2>1, <2>2, NearBoth
  <2> QED
    BY <1>3, <2>1, <2>3, <2>4
<1>5. Stood(objs, p) \in SUBSET Hot(objs, k)
  BY <1>4 DEF Hot
<1>6. Cardinality(Stood(objs, p)) <= Cardinality(Hot(objs, k))
  BY <1>5, SpotsFinite, FS_Subset
<1>7. Cardinality(Stood(objs, p)) \in Nat /\ Cardinality(Hot(objs, k)) \in Nat
  BY SpotsFinite
<1> QED
  BY <1>2, <1>6, <1>7

\* The property, in the words of the invariant.
LEMMA RemovedAreHot ==
  OnlyHotFilesRemoved <=> \A k \in DOMAIN objs : objs[k].state = "removed" => Cardinality(Hot(objs, k)) >= 3
BY Zenon DEF OnlyHotFilesRemoved, Hot

\* Near is symmetric.
LEMMA NearBack ==
  ASSUME NEW a \in Int, NEW b \in Int, Near(a, b)
  PROVE  Near(b, a)
BY DEF Near

\* get finds the doubtful pixel near (c, r), or makes one.
LEMMA GetFinds ==
  ASSUME doubt \in Seq(Pixel), NEW c \in Int, NEW r \in Int
  PROVE  LET f == get(c, r)
         IN  /\ f.set \in Seq(Pixel) /\ f.k \in DOMAIN f.set
             /\ Near(c, f.set[f.k].col) /\ Near(r, f.set[f.k].row)
             /\ \A k \in DOMAIN f.set :
                  \/ (k \in DOMAIN doubt /\ f.set[k] = doubt[k])
                  \/ (f.set[k].count = 0 /\ f.set[k].paths = {})
<1> DEFINE I == {i \in 1 .. Len(doubt) : Near(doubt[i].col, c) /\ Near(doubt[i].row, r)}
           new == [col |-> c, row |-> r, count |-> 0, fno |-> 7, paths |-> {}]
           sel == IF I # {} THEN Min(I) ELSE 0
<1>1. get(c, r) = IF sel > 0 THEN [k |-> sel, set |-> doubt]
                  ELSE [k |-> Len(doubt) + 1, set |-> Append(doubt, new)]
  BY DEF get, SelectInSeq
<1>2. \A k \in DOMAIN doubt : doubt[k].col \in Int /\ doubt[k].row \in Int
  <2>1. \A k \in DOMAIN doubt : doubt[k] \in Pixel
    OBVIOUS
  <2> QED
    BY <2>1 DEF Pixel
<1>3. Len(doubt) \in Nat /\ DOMAIN doubt = 1 .. Len(doubt)
  OBVIOUS
<1>4. CASE I # {}
  <2>1. I \in SUBSET Nat
    OBVIOUS
  <2>2. \E i \in I : \A j \in I : i <= j
    BY <1>4, <2>1, LeastOf
  <2>3. Min(I) \in I
    BY <2>2 DEF Min
  <2>4. sel = Min(I)
    BY <1>4
  <2> DEFINE m == Min(I)
  <2>5. m \in DOMAIN doubt /\ m > 0 /\ Near(doubt[m].col, c) /\ Near(doubt[m].row, r)
    BY <1>3, <2>3, SMTT(20)
  <2>6. get(c, r) = [k |-> m, set |-> doubt]
    BY <1>1, <2>4, <2>5
  <2> HIDE DEF m, I, sel
  <2>7. /\ doubt[m].col \in Int /\ doubt[m].row \in Int
        /\ Near(doubt[m].col, c) /\ Near(doubt[m].row, r)
    BY <1>2, <2>5, Zenon
  <2>8. Near(c, doubt[m].col) /\ Near(r, doubt[m].row)
    BY <2>7, NearBack
  <2> QED
    BY <2>5, <2>6, <2>8
<1>5. CASE I = {}
  <2>1. sel = 0
    BY <1>5
  <2> DEFINE n == Len(doubt) + 1
             s == Append(doubt, new)
  <2>2. get(c, r) = [k |-> n, set |-> s]
    BY <1>1, <2>1
  <2>3. new \in Pixel /\ new.col = c /\ new.row = r /\ new.count = 0 /\ new.paths = {}
    BY DEF Pixel
  <2> HIDE DEF new, I, sel
  <2>4. /\ s \in Seq(Pixel) /\ DOMAIN s = (DOMAIN doubt) \cup {n} /\ s[n] = new
        /\ \A k \in DOMAIN doubt : s[k] = doubt[k]
    BY <2>3
  <2> HIDE DEF s, n
  <2>5. Near(c, new.col) /\ Near(r, new.row)
    BY <2>3 DEF Near
  <2> QED
    BY <2>2, <2>3, <2>4, <2>5
<1> QED
  BY <1>4, <1>5

\* An object more leaves those before it as they are.
LEMMA OneMore ==
  ASSUME NEW os \in Seq(Still), NEW o \in Still
  PROVE  /\ Append(os, o) \in Seq(Still) /\ Follows(Append(os, o), os)
         /\ Len(os) + 1 \notin DOMAIN os /\ Append(os, o)[Len(os) + 1] = o
         /\ DOMAIN Append(os, o) = (DOMAIN os) \cup {Len(os) + 1}
<1>1. /\ Append(os, o) \in Seq(Still) /\ Append(os, o)[Len(os) + 1] = o
      /\ DOMAIN Append(os, o) = (DOMAIN os) \cup {Len(os) + 1}
      /\ Len(os) + 1 \notin DOMAIN os
      /\ \A j \in DOMAIN os : Append(os, o)[j] = os[j]
  OBVIOUS
<1> QED
  BY <1>1, Zenon DEF Follows

\* An object that stands still is noted, with its file or without.
LEMMA HotStays ==
  ASSUME objs \in Seq(Still), OnlyHotFilesRemoved, NEW o \in Still, o.state # "removed",
         objs' = Append(objs, o)
  PROVE  OnlyHotFilesRemoved'
<1> DEFINE new == Append(objs, o)
<1>1. /\ new \in Seq(Still) /\ Follows(new, objs) /\ Len(objs) + 1 \notin DOMAIN objs
      /\ new[Len(objs) + 1] = o /\ DOMAIN new = (DOMAIN objs) \cup {Len(objs) + 1}
      /\ \A j \in DOMAIN objs : new[j] = objs[j]
  BY OneMore
<1> HIDE DEF new
<1>2. \A k \in DOMAIN new : new[k].state = "removed" => Cardinality(Hot(new, k)) >= 3
  <2> SUFFICES ASSUME NEW k \in DOMAIN new, new[k].state = "removed"
               PROVE  Cardinality(Hot(new, k)) >= 3
    OBVIOUS
  <2>1. k \in DOMAIN objs /\ objs[k].state = "removed"
    BY <1>1
  <2>2. Cardinality(Hot(objs, k)) >= 3
    BY <2>1, RemovedAreHot
  <2> QED
    BY <1>1, <2>1, <2>2, HotFollows
<1>3. OnlyHotFilesRemoved' <=> \A k \in DOMAIN new : new[k].state = "removed" => Cardinality(Hot(new, k)) >= 3
  <2>1. objs' = new
    BY DEF new
  <2> QED
    BY <2>1, Zenon DEF OnlyHotFilesRemoved, Hot
<1> QED
  BY <1>2, <1>3

\* An object away from the doubtful pixels changes nothing about them.
LEMMA PixelsStay ==
  ASSUME PixInv, NEW o \in Still, o.state # "removed", objs' = Append(objs, o),
         UNCHANGED <<doubt, day>>
  PROVE  PixInv'
<1>1. objs \in Seq(Still) /\ doubt \in Seq(Pixel) /\ day \in Int
  BY DEF PixInv
<1>2. objs' \in Seq(Still) /\ Follows(objs', objs)
  BY <1>1, OneMore
<1>3. OnlyHotFilesRemoved'
  BY <1>1, HotStays DEF PixInv
<1>4. \A k \in DOMAIN doubt : PixelOK(doubt[k])'
  <2> SUFFICES ASSUME NEW k \in DOMAIN doubt PROVE PixelOK(doubt[k])'
    OBVIOUS
  <2> DEFINE p == doubt[k]
  <2>1. p \in Pixel
    BY <1>1
  <2>2. p.count \in Nat /\ p.count <= Cardinality(Stood(objs, p)) /\ p.paths \subseteq Stood(objs, p)
    BY <2>1 DEF PixInv, PixelOK, Pixel
  <2> HIDE DEF p
  <2>3. p.count <= Cardinality(Stood(objs', p)) /\ p.paths \subseteq Stood(objs', p)
    BY <1>1, <1>2, <2>2, StoodFollows
  <2>4. Stood(objs, p)' = Stood(objs', p)
    BY DEF Stood, p
  <2> QED
    BY <2>3, <2>4 DEF PixelOK, p
<1> QED
  BY <1>1, <1>2, <1>3, <1>4 DEF PixInv

\* An arc at a doubtful pixel: the pixel counts it at most once, and the object that
\* is noted stands there.
LEMMA PixelCounts ==
  ASSUME PixInv, NEW c \in Int, NEW r \in Nat \ {0}, NEW arc \in Arc,
         NEW f, f = get(c, r), NEW pix, pix = inc(f.set[f.k], arc),
         objs' = Append(objs, [col |-> c, row |-> r, day |-> day,
                               state |-> IF is_bad(pix) THEN "skipped" ELSE "written"]),
         doubt' = [f.set EXCEPT ![f.k] =
                     IF is_bad(pix) THEN pix ELSE [pix EXCEPT !.paths = @ \cup {Len(objs')}]],
         UNCHANGED day
  PROVE  PixInv'
<1> DEFINE o == [col |-> c, row |-> r, day |-> day,
                 state |-> IF is_bad(pix) THEN "skipped" ELSE "written"]
           n == Len(objs) + 1
           q == IF is_bad(pix) THEN pix ELSE [pix EXCEPT !.paths = pix.paths \cup {n}]
<1>1. objs \in Seq(Still) /\ doubt \in Seq(Pixel) /\ day \in Int
  BY DEF PixInv
<1>2. o \in Still /\ o.state # "removed" /\ o.col = c /\ o.row = r /\ o.day = day
  <2> DEFINE t == IF is_bad(pix) THEN "skipped" ELSE "written"
  <2>1. t \in State /\ t # "removed"
    <3>1. CASE is_bad(pix)
      <4>1. t = "skipped"
        BY <3>1
      <4> HIDE DEF t
      <4> QED
        BY <4>1 DEF State
    <3>2. CASE ~is_bad(pix)
      <4>1. t = "written"
        BY <3>2
      <4> HIDE DEF t
      <4> QED
        BY <4>1 DEF State
    <3> QED
      BY <3>1, <3>2
  <2> HIDE DEF t
  <2>2. o = [col |-> c, row |-> r, day |-> day, state |-> t]
    BY DEF t
  <2>3. r \in Int
    OBVIOUS
  <2> HIDE DEF o
  <2> QED
    BY <1>1, <2>1, <2>2, <2>3 DEF Still
<1>3. objs' = Append(objs, o)
  OBVIOUS
<1> HIDE DEF o
<1>4. /\ objs' \in Seq(Still) /\ Follows(objs', objs) /\ n \notin DOMAIN objs
      /\ objs'[n] = o /\ DOMAIN objs' = (DOMAIN objs) \cup {n} /\ Len(objs') = n
      /\ \A j \in DOMAIN objs : objs'[j] = objs[j]
  BY <1>1, <1>2, <1>3, OneMore
<1>5. OnlyHotFilesRemoved'
  BY <1>1, <1>2, <1>3, HotStays DEF PixInv
<1>6. /\ f.set \in Seq(Pixel) /\ f.k \in DOMAIN f.set
      /\ Near(c, f.set[f.k].col) /\ Near(r, f.set[f.k].row)
      /\ \A k \in DOMAIN f.set :
           \/ (k \in DOMAIN doubt /\ f.set[k] = doubt[k])
           \/ (f.set[k].count = 0 /\ f.set[k].paths = {})
  BY <1>1, GetFinds
<1> DEFINE s == f.set
           p == s[f.k]
\* What held of every pixel of the set before.
<1>7. \A k \in DOMAIN s : /\ s[k] \in Pixel /\ s[k].count \in Nat /\ s[k].paths \in SUBSET Nat
                         /\ s[k].count <= Cardinality(Stood(objs, s[k]))
                         /\ s[k].paths \subseteq Stood(objs, s[k])
  <2> SUFFICES ASSUME NEW k \in DOMAIN s
               PROVE  /\ s[k] \in Pixel /\ s[k].count \in Nat /\ s[k].paths \in SUBSET Nat
                      /\ s[k].count <= Cardinality(Stood(objs, s[k]))
                      /\ s[k].paths \subseteq Stood(objs, s[k])
    OBVIOUS
  <2>1. s[k] \in Pixel
    BY <1>6, SMTT(20)
  <2>2. s[k].count \in Nat /\ s[k].paths \in SUBSET Nat
    BY <2>1 DEF Pixel
  <2>3. CASE k \in DOMAIN doubt /\ s[k] = doubt[k]
    BY <2>1, <2>2, <2>3 DEF PixInv, PixelOK
  <2>4. CASE s[k].count = 0 /\ s[k].paths = {}
    <3>1. Cardinality(Stood(objs, s[k])) \in Nat
      BY <1>1, SpotsFinite
    <3> QED
      BY <2>1, <2>2, <2>4, <3>1
  <2> QED
    BY <1>6, <2>3, <2>4
<1>8. /\ pix \in Pixel /\ pix.col = p.col /\ pix.row = p.row /\ pix.paths = p.paths
      /\ pix.count \in Nat /\ pix.count <= p.count + 1
  <2>1. p \in Pixel /\ p.count \in Nat
    BY <1>6, <1>7
  <2> HIDE DEF p
  <2>2. pix = [p EXCEPT !.count = IF arc[1] < p.fno THEN p.count + 1 ELSE p.count,
                        !.fno = arc[2]]
    BY DEF inc, p
  <2>3. arc[2] \in Int
    BY DEF Arc
  <2> DEFINE m == IF arc[1] < p.fno THEN p.count + 1 ELSE p.count
  <2>4. m \in Nat /\ m <= p.count + 1
    BY <2>1
  <2> HIDE DEF m
  <2>5. pix = [p EXCEPT !.count = m, !.fno = arc[2]]
    BY <2>2 DEF m
  <2> QED
    BY <2>1, <2>3, <2>4, <2>5 DEF Pixel
<1>9. /\ q \in Pixel /\ q.col = p.col /\ q.row = p.row /\ q.count = pix.count
      /\ q.paths \subseteq p.paths \cup {n}
  <2>1. n \in Nat
    BY <1>1
  <2>2. CASE is_bad(pix)
    BY <1>8, <2>2
  <2>3. CASE ~ is_bad(pix)
    <3>1. q = [pix EXCEPT !.paths = pix.paths \cup {n}]
      BY <2>3
    <3>2. pix.paths \cup {n} \in SUBSET Nat
      BY <1>8, <2>1 DEF Pixel
    <3> HIDE DEF q
    <3> QED
      BY <1>8, <3>1, <3>2 DEF Pixel
  <2> QED
    BY <2>2, <2>3
<1>10. doubt' = [s EXCEPT ![f.k] = q]
  BY <1>4
<1>11. q.count <= Cardinality(Stood(objs', q)) /\ q.paths \subseteq Stood(objs', q)
  <2> HIDE DEF q, p, s
  <2>1. Stood(objs', q) = Stood(objs', p) /\ Stood(objs, q) = Stood(objs, p)
    BY <1>9, Zenon DEF Stood
  <2>2. n \in Stood(objs', p) /\ n \notin Stood(objs, p)
    <3>1. o.row > 0 /\ o.day = day /\ Near(o.col, p.col) /\ Near(o.row, p.row)
      BY <1>2, <1>6, SMTT(20) DEF p, s
    <3> QED
      BY <1>4, <3>1 DEF Stood
  <2>3. Stood(objs, p) \cup {n} \in SUBSET Stood(objs', p)
    <3>1. Stood(objs, p) \subseteq Stood(objs', p)
      BY <1>4, Zenon DEF Stood, Follows
    <3> QED
      BY <2>2, <3>1
  <2>4. Cardinality(Stood(objs, p) \cup {n}) = Cardinality(Stood(objs, p)) + 1
    BY <1>1, <2>2, SpotsFinite, FS_AddElement
  <2>5. Cardinality(Stood(objs, p) \cup {n}) <= Cardinality(Stood(objs', p))
    BY <1>4, <2>3, SpotsFinite, FS_Subset
  <2>6. Cardinality(Stood(objs, p)) \in Nat /\ Cardinality(Stood(objs', p)) \in Nat
    BY <1>1, <1>4, SpotsFinite
  <2>7. p.count \in Nat /\ p.count <= Cardinality(Stood(objs, p)) /\ p.paths \subseteq Stood(objs, p)
    BY <1>6, <1>7 DEF p, s
  <2>8. q.count <= Cardinality(Stood(objs', p))
    BY <1>8, <1>9, <2>4, <2>5, <2>6, <2>7, SMTT(20)
  <2>9. q.paths \subseteq Stood(objs', p)
    BY <1>9, <2>3, <2>7
  <2> QED
    BY <2>1, <2>8, <2>9
<1> HIDE DEF q
<1>12. doubt' \in Seq(Pixel) /\ DOMAIN doubt' = DOMAIN s
  BY <1>6, <1>9, <1>10, SMTT(20)
<1>13. \A k \in DOMAIN doubt' : PixelOK(doubt[k])'
  <2> SUFFICES ASSUME NEW k \in DOMAIN doubt' PROVE PixelOK(doubt[k])'
    OBVIOUS
  <2>1. Stood(objs, doubt[k])' = Stood(objs', doubt'[k])
    BY DEF Stood
  <2>2. doubt'[k].count <= Cardinality(Stood(objs', doubt'[k])) /\ doubt'[k].paths \subseteq Stood(objs', doubt'[k])
    <3>1. CASE k = f.k
      <4>1. doubt'[k] = q
        BY <1>10, <1>12, <3>1
      <4> QED
        BY <1>11, <4>1
    <3>2. CASE k # f.k
      <4>1. doubt'[k] = s[k] /\ k \in DOMAIN s
        BY <1>10, <1>12, <3>2
      <4>2. s[k].count <= Cardinality(Stood(objs', s[k])) /\ s[k].paths \subseteq Stood(objs', s[k])
        <5> DEFINE z == s[k]
        <5>1. /\ z.count \in Nat /\ z.count <= Cardinality(Stood(objs, z))
              /\ z.paths \subseteq Stood(objs, z)
          BY <1>7, <4>1
        <5> HIDE DEF z
        <5>2. objs \in Seq(Still) /\ objs' \in Seq(Still) /\ Follows(objs', objs)
          BY <1>1, <1>4, Zenon
        <5>3. z.count <= Cardinality(Stood(objs', z)) /\ z.paths \subseteq Stood(objs', z)
          BY <5>1, <5>2, StoodFollows, Zenon
        <5> QED
          BY <5>3 DEF z
      <4> QED
        BY <4>1, <4>2
    <3> QED
      BY <3>1, <3>2
  <2> QED
    BY <2>1, <2>2 DEF PixelOK
<1> QED
  BY <1>1, <1>4, <1>5, <1>12, <1>13 DEF PixInv

\* An idle wait deletes the files of bad pixels only.
LEMMA IdleRemoves ==
  ASSUME PixInv, recheck_doubt
  PROVE  PixInv'
<1> DEFINE bad == UNION {doubt[k].paths : k \in {k \in DOMAIN doubt : is_bad(doubt[k])}}
           cleared == [k \in DOMAIN doubt |-> [doubt[k] EXCEPT !.paths = {}]]
<1>1. /\ objs' = [k \in DOMAIN objs |-> IF k \in bad THEN [objs[k] EXCEPT !.state = "removed"]
                                        ELSE objs[k]]
      /\ \E order \in [DOMAIN doubt -> DOMAIN doubt] :
           /\ IsInjective(order)
           /\ \A k \in 2 .. Len(doubt) : doubt[order[k - 1]].col <= doubt[order[k]].col
           /\ doubt' = [k \in DOMAIN doubt |-> cleared[order[k]]]
  BY DEF recheck_doubt
<1>2. PICK order \in [DOMAIN doubt -> DOMAIN doubt] :
        doubt' = [k \in DOMAIN doubt |-> cleared[order[k]]]
  BY <1>1, Zenon
<1>3. day' = day
  BY DEF recheck_doubt
<1>4. objs \in Seq(Still) /\ doubt \in Seq(Pixel) /\ day \in Int
  BY DEF PixInv
<1>5. \A k \in DOMAIN objs : objs[k] \in Still
  BY <1>4
<1>6. \A k \in DOMAIN doubt : doubt[k] \in Pixel /\ PixelOK(doubt[k])
  BY <1>4 DEF PixInv
<1> HIDE DEF bad, cleared
<1>7. /\ objs' \in Seq(Still) /\ DOMAIN objs' = DOMAIN objs
      /\ Follows(objs', objs)
      /\ \A k \in DOMAIN objs :
           objs'[k].state = "removed" => (k \in bad \/ objs[k].state = "removed")
  <2>1. \A k \in DOMAIN objs :
          /\ objs'[k] \in Still
          /\ objs'[k].row = objs[k].row /\ objs'[k].day = objs[k].day
          /\ objs'[k].col = objs[k].col
          /\ objs'[k].state = "removed" => k \in bad \/ objs[k].state = "removed"
    <3> SUFFICES ASSUME NEW k \in DOMAIN objs
                 PROVE  /\ objs'[k] \in Still
                        /\ objs'[k].row = objs[k].row /\ objs'[k].day = objs[k].day
                        /\ objs'[k].col = objs[k].col
                        /\ objs'[k].state = "removed" => k \in bad \/ objs[k].state = "removed"
      OBVIOUS
    <3>1. objs[k] \in Still
      BY <1>5
    <3>2. CASE k \in bad
      <4>1. objs'[k] = [objs[k] EXCEPT !.state = "removed"]
        BY <1>1, <3>2
      <4>2. "removed" \in State
        BY DEF State
      <4>3. /\ objs'[k] \in Still /\ objs'[k].row = objs[k].row
            /\ objs'[k].day = objs[k].day /\ objs'[k].col = objs[k].col
        <5> DEFINE x == objs[k]
        <5>1. x \in Still
          BY <3>1
        <5>2. objs'[k] = [x EXCEPT !.state = "removed"]
          BY <4>1
        <5> HIDE DEF x
        <5>3. objs'[k] = [col |-> x.col, row |-> x.row, day |-> x.day, state |-> "removed"]
          BY <5>1, <5>2 DEF Still
        <5>4. objs'[k] \in Still
          BY <4>2, <5>1, <5>3 DEF Still
        <5> QED
          BY <5>3, <5>4 DEF x
      <4> QED
        BY <3>2, <4>3, Zenon
    <3>3. CASE k \notin bad
      <4>1. objs'[k] = objs[k]
        BY <1>1, <3>3
      <4> QED
        BY <3>1, <4>1
    <3> QED
      BY <3>2, <3>3
  <2>2. DOMAIN objs' = DOMAIN objs /\ DOMAIN objs = 1 .. Len(objs) /\ Len(objs) \in Nat
    BY <1>1, <1>4
  <2>3. objs' = [k \in 1 .. Len(objs) |-> objs'[k]]
    BY <1>1, <2>2
  <2>4. objs' \in Seq(Still)
    BY <2>1, <2>2, <2>3
  <2>5. \A k \in DOMAIN objs : /\ objs'[k].row = objs[k].row /\ objs'[k].day = objs[k].day
                              /\ objs'[k].col = objs[k].col
    BY <2>1, Zenon
  <2>6. Follows(objs', objs)
    BY <2>2, <2>5 DEF Follows
  <2>7. \A k \in DOMAIN objs :
          objs'[k].state = "removed" => (k \in bad \/ objs[k].state = "removed")
    BY <2>1, Zenon
  <2> QED
    BY <2>2, <2>4, <2>6, <2>7, Zenon
<1>8. Follows(objs', objs)
  BY <1>7, Zenon
<1>9. OnlyHotFilesRemoved'
  <2>1. \A k \in DOMAIN objs' : objs'[k].state = "removed" => Cardinality(Hot(objs', k)) >= 3
    <3> SUFFICES ASSUME NEW k \in DOMAIN objs, objs'[k].state = "removed"
                 PROVE  Cardinality(Hot(objs', k)) >= 3
      BY <1>7
    <3>1. CASE objs[k].state = "removed"
      <4>1. Cardinality(Hot(objs, k)) >= 3
        BY <3>1, RemovedAreHot DEF PixInv
      <4> QED
        BY <1>4, <1>7, <1>8, <4>1, HotFollows
    <3>2. CASE k \in bad
      <4>1. PICK d \in DOMAIN doubt : is_bad(doubt[d]) /\ k \in doubt[d].paths
        BY <3>2 DEF bad
      <4>2. /\ doubt[d] \in Pixel /\ doubt[d].count <= Cardinality(Stood(objs, doubt[d]))
            /\ k \in Stood(objs, doubt[d]) /\ doubt[d].count >= 3
        BY <1>6, <4>1 DEF PixelOK, is_bad
      <4>3. Cardinality(Hot(objs, k)) >= 3
        BY <1>4, <4>2, BadIsHot
      <4> QED
        BY <1>4, <1>7, <1>8, <4>3, HotFollows
    <3>3. k \in bad \/ objs[k].state = "removed"
      BY <1>7, Zenon
    <3> QED
      BY <3>1, <3>2, <3>3, Zenon
  <2>2. OnlyHotFilesRemoved' <=>
          \A k \in DOMAIN objs' : objs'[k].state = "removed" => Cardinality(Hot(objs', k)) >= 3
    BY Zenon DEF OnlyHotFilesRemoved, Hot
  <2> QED
    BY <2>1, <2>2
<1>10. \A k \in DOMAIN doubt :
         /\ doubt'[k] \in Pixel
         /\ doubt'[k].count <= Cardinality(Stood(objs', doubt'[k]))
         /\ doubt'[k].paths \subseteq Stood(objs', doubt'[k])
  <2> SUFFICES ASSUME NEW k \in DOMAIN doubt
               PROVE  /\ doubt'[k] \in Pixel
                      /\ doubt'[k].count <= Cardinality(Stood(objs', doubt'[k]))
                      /\ doubt'[k].paths \subseteq Stood(objs', doubt'[k])
    OBVIOUS
  <2> DEFINE p == doubt[order[k]]
  <2>1. order[k] \in DOMAIN doubt
    OBVIOUS
  <2>2. p \in Pixel /\ p.count <= Cardinality(Stood(objs, p))
    BY <1>6, <2>1 DEF PixelOK
  <2>3. doubt'[k] = [p EXCEPT !.paths = {}]
    BY <1>2, <2>1 DEF cleared
  <2> HIDE DEF p
  <2> DEFINE q == doubt'[k]
  <2>4. q \in Pixel /\ q.col = p.col /\ q.row = p.row /\ q.count = p.count /\ q.paths = {}
    BY <2>2, <2>3 DEF Pixel
  <2>5. q.count \in Nat
    BY <2>4 DEF Pixel
  <2> HIDE DEF q
  <2>6. Stood(objs, q) = Stood(objs, p)
    BY <2>4, Zenon DEF Stood
  <2>7. q.count <= Cardinality(Stood(objs, q)) /\ q.paths \subseteq Stood(objs, q)
    BY <2>2, <2>4, <2>6
  <2>8. q.count <= Cardinality(Stood(objs', q)) /\ q.paths \subseteq Stood(objs', q)
    BY <1>4, <1>7, <1>8, <2>5, <2>7, StoodFollows
  <2> QED
    BY <2>4, <2>8 DEF q
<1>11. doubt' \in Seq(Pixel) /\ DOMAIN doubt' = DOMAIN doubt
  <2>1. doubt' = [k \in 1 .. Len(doubt) |-> doubt'[k]] /\ Len(doubt) \in Nat /\ DOMAIN doubt = 1 .. Len(doubt)
    BY <1>2, <1>4
  <2> QED
    BY <1>10, <2>1
<1>12. \A k \in DOMAIN doubt' : PixelOK(doubt[k])'
  <2> SUFFICES ASSUME NEW k \in DOMAIN doubt' PROVE PixelOK(doubt[k])'
    OBVIOUS
  <2>1. Stood(objs, doubt[k])' = Stood(objs', doubt'[k])
    BY <1>3 DEF Stood
  <2> QED
    BY <1>10, <1>11, <2>1 DEF PixelOK
<1> QED
  BY <1>3, <1>4, <1>7, <1>9, <1>11, <1>12 DEF PixInv

\* No object and no doubtful pixel yet.
LEMMA PixelsStart ==
  ASSUME BMInit
  PROVE  PixInv
BY DEF BMInit, PixInv, OnlyHotFilesRemoved

\* The invariant is inductive.
LEMMA PixelsStep ==
  ASSUME PixInv, [BMNext]_bmVars
  PROVE  PixInv'
<1>1. objs \in Seq(Still) /\ doubt \in Seq(Pixel) /\ day \in Int
  BY DEF PixInv
<1>2. ASSUME UNCHANGED objs, doubt' = << >>, day' \in Int
      PROVE  PixInv'
  <2>1. OnlyHotFilesRemoved'
    BY <1>2 DEF PixInv, OnlyHotFilesRemoved
  <2> QED
    BY <1>1, <1>2, <2>1 DEF PixInv
<1>3. ASSUME UNCHANGED <<objs, doubt, day>>
      PROVE  PixInv'
  BY <1>3 DEF PixInv, OnlyHotFilesRemoved, PixelOK, Stood
<1>4. CASE LoadFile
  <2>1. UNCHANGED objs /\ doubt' = << >> /\ day' = 0
    BY <1>4 DEF LoadFile
  <2> QED
    BY <1>2, <2>1
<1>5. CASE NewSequence
  <2>1. PICK d \in {day, day + 1} \cap 1 .. LastDay : create_dir(d)
    BY <1>5, Zenon DEF NewSequence
  <2>2. UNCHANGED objs
    BY <1>5 DEF NewSequence
  <2>3. d \in Int
    BY <1>1
  <2>4. CASE d = day
    BY <1>3, <2>1, <2>2, <2>4 DEF create_dir
  <2>5. CASE d # day
    BY <1>2, <2>1, <2>2, <2>3, <2>5 DEF create_dir
  <2> QED
    BY <2>4, <2>5
<1>6. CASE candidate2object
  <2>1. day' = day
    BY <1>6 DEF candidate2object
  <2>2. PICK c \in Col :
          \/ /\ objs' = Append(objs, [col |-> c, row |-> 0, day |-> day, state |-> "column"])
             /\ UNCHANGED doubt
          \/ /\ objs' = Append(objs, [col |-> c, row |-> 0, day |-> day, state |-> "moving"])
             /\ UNCHANGED doubt
          \/ \E r \in Row, arc \in Arc :
               LET found == get(c, r)
                   pix == inc(found.set[found.k], arc)
               IN  /\ objs' = Append(objs, [col |-> c, row |-> r, day |-> day,
                                state |-> IF is_bad(pix) THEN "skipped" ELSE "written"])
                   /\ doubt' = [found.set EXCEPT ![found.k] =
                        IF is_bad(pix) THEN pix
                        ELSE [pix EXCEPT !.paths = @ \cup {Len(objs')}]]
    BY <1>6, ZenonT(40) DEF candidate2object
  <2>3. c \in Int
    BY PlacesAssumption
  <2>4. ASSUME NEW st \in State, st # "removed",
               objs' = Append(objs, [col |-> c, row |-> 0, day |-> day, state |-> st]),
               UNCHANGED doubt
        PROVE  PixInv'
    <3> DEFINE o == [col |-> c, row |-> 0, day |-> day, state |-> st]
    <3>1. o \in Still /\ o.state # "removed"
      BY <1>1, <2>3, <2>4 DEF Still
    <3>2. objs' = Append(objs, o)
      BY <2>4
    <3> HIDE DEF o
    <3> QED
      BY <2>1, <2>4, <3>1, <3>2, PixelsStay
  <2>8. "column" \in State /\ "moving" \in State /\ "column" # "removed" /\ "moving" # "removed"
    BY DEF State
  <2>5. CASE /\ objs' = Append(objs, [col |-> c, row |-> 0, day |-> day, state |-> "column"])
             /\ UNCHANGED doubt
    BY <2>4, <2>5, <2>8
  <2>6. CASE /\ objs' = Append(objs, [col |-> c, row |-> 0, day |-> day, state |-> "moving"])
             /\ UNCHANGED doubt
    BY <2>4, <2>6, <2>8
  <2>7. CASE \E r \in Row, arc \in Arc :
               LET found == get(c, r)
                   pix == inc(found.set[found.k], arc)
               IN  /\ objs' = Append(objs, [col |-> c, row |-> r, day |-> day,
                                state |-> IF is_bad(pix) THEN "skipped" ELSE "written"])
                   /\ doubt' = [found.set EXCEPT ![found.k] =
                        IF is_bad(pix) THEN pix
                        ELSE [pix EXCEPT !.paths = @ \cup {Len(objs')}]]
    <3>1. PICK r \in Row, arc \in Arc :
               LET found == get(c, r)
                   pix == inc(found.set[found.k], arc)
               IN  /\ objs' = Append(objs, [col |-> c, row |-> r, day |-> day,
                                state |-> IF is_bad(pix) THEN "skipped" ELSE "written"])
                   /\ doubt' = [found.set EXCEPT ![found.k] =
                        IF is_bad(pix) THEN pix
                        ELSE [pix EXCEPT !.paths = @ \cup {Len(objs')}]]
      BY <2>7, Zenon
    <3>2. r \in Nat \ {0}
      BY PlacesAssumption
    <3> QED
      BY <2>1, <2>3, <3>1, <3>2, PixelCounts
  <2> QED
    BY <2>2, <2>5, <2>6, <2>7
<1>7. CASE recheck_doubt
  BY <1>7, IdleRemoves
<1>8. CASE SaveBadmark
  BY <1>3, <1>8 DEF SaveBadmark
<1>9. CASE DestroyFinders
  BY <1>3, <1>9 DEF DestroyFinders
<1>10. CASE UNCHANGED bmVars
  BY <1>3, <1>10 DEF bmVars
<1> QED
  BY <1>4, <1>5, <1>6, <1>7, <1>8, <1>9, <1>10 DEF BMNext

\* A file is deleted only where three objects of its day stood, across days, restarts
\* and idle waits.
THEOREM RemovedWereHot == BMSpec => []OnlyHotFilesRemoved
<1>1. PixInv => OnlyHotFilesRemoved
  BY DEF PixInv
<1> QED
  BY <1>1, PixelsStart, PixelsStep, PTL DEF BMSpec

(***************************************************************************)
(* TcpLink: for queues of any length and any number of breaks, a broken    *)
(* link is tended by exactly one thread, provided the minute of the thread *)
(* is never over between a connection and its handling (Prompt).           *)
(*                                                                         *)
(* The argument: connections and breaks alternate, and so do their         *)
(* messages; whether the next one is a connection tells whether a thread   *)
(* runs, and the last one tells whether the client is open.                *)
(***************************************************************************)

Messages == {"connect", "close"}

LinkTyped == /\ proc \in {"up", "quitting", "stopped"}
             /\ client \in {"connecting", "open", "failed", "closed"}
             /\ queue \in Seq(Messages)
             /\ made \in Nat /\ handle \in 0 .. made
             /\ intr \subseteq 1 .. made

\* A reconnection thread is at work, and nobody has asked it to end.
Tended == handle # 0 /\ ~joining

\* The handle knows the thread, and a thread that is at work is not interrupted.
HandleOK == /\ threads \subseteq {handle}
            /\ handle = 0 => threads = {} /\ ~joining
            /\ proc = "up" /\ Tended => handle \in threads /\ handle \notin intr
            /\ joining => handle \in intr
            /\ proc = "stopped" => threads = {}

\* No message is followed by another of its kind, and the first is not of the kind
\* handled last.
Alternate == /\ \A i \in 1 .. Len(queue) - 1 : queue[i] # queue[i + 1]
             /\ queue # << >> => (queue[1] = "connect" <=> Tended)

\* The client is open when what happened last is a connection.
ClientOK == client = "open" <=> IF queue = << >> THEN ~Tended
                                ELSE queue[Len(queue)] = "connect"

LinkInv == /\ LinkTyped /\ HandleOK
           /\ proc = "up" => Alternate /\ ClientOK

\* The first connection is made before the link is watched.
LEMMA InitHolds == LKInit => LinkInv
<1> SUFFICES ASSUME LKInit PROVE LinkInv
  OBVIOUS
<1>1. LinkTyped
  BY DEF LKInit, LinkTyped
<1>2. HandleOK
  BY DEF LKInit, HandleOK, Tended
<1>3. Alternate
  <2>1. queue = << >> /\ Len(queue) = 0
    BY DEF LKInit
  <2> QED
    BY <2>1 DEF Alternate
<1>4. ClientOK
  BY DEF LKInit, ClientOK, Tended
<1> QED
  BY <1>1, <1>2, <1>3, <1>4 DEF LinkInv

\* A message is posted behind the others: queues of a longer length alternate when
\* the new message is not of the kind before it.
LEMMA PostKeeps ==
  ASSUME LinkInv, proc = "up", NEW msg \in Messages,
         queue' = Append(queue, msg), UNCHANGED <<handle, joining>>,
         IF queue = << >> THEN msg = "connect" <=> Tended ELSE queue[Len(queue)] # msg
  PROVE  queue' \in Seq(Messages) /\ Alternate' /\ queue' # << >> /\ queue'[Len(queue')] = msg
<1> USE DEF LinkInv, LinkTyped
<1>1. /\ queue \in Seq(Messages) /\ queue' \in Seq(Messages)
      /\ Len(queue) \in Nat /\ Len(queue') = Len(queue) + 1
      /\ queue'[Len(queue) + 1] = msg
      /\ \A i \in 1 .. Len(queue) : queue'[i] = queue[i]
  OBVIOUS
<1>2. queue' # << >> /\ queue'[Len(queue')] = msg
  BY <1>1
<1>3. \A i \in 1 .. Len(queue') - 1 : queue'[i] # queue'[i + 1]
  <2> SUFFICES ASSUME NEW i \in 1 .. Len(queue) PROVE queue'[i] # queue'[i + 1]
    BY <1>1
  <2>1. CASE i = Len(queue)
    BY <1>1, <2>1
  <2>2. CASE i # Len(queue)
    <3>1. i \in 1 .. Len(queue) - 1 /\ i + 1 \in 1 .. Len(queue)
      BY <1>1, <2>2
    <3> QED
      BY <1>1, <3>1 DEF Alternate
  <2> QED
    BY <2>1, <2>2
<1>4. queue'[1] = "connect" <=> Tended'
  <2>1. Tended' <=> Tended
    BY DEF Tended
  <2>2. CASE queue = << >>
    BY <1>1, <2>1, <2>2
  <2>3. CASE queue # << >>
    <3>1. 1 \in 1 .. Len(queue)
      BY <1>1, <2>3
    <3> QED
      BY <1>1, <2>1, <2>3, <3>1 DEF Alternate
  <2> QED
    BY <2>2, <2>3
<1> QED
  BY <1>1, <1>2, <1>3, <1>4 DEF Alternate

\* A connection that succeeds was not there before, one that fails changes nothing.
LEMMA ConnectKeeps == LinkInv /\ handle_connect => LinkInv'
<1> SUFFICES ASSUME LinkInv, handle_connect PROVE LinkInv'
  OBVIOUS
<1>1. UNCHANGED <<proc, joining, handle, threads, intr, made>> /\ client = "connecting"
      /\ client' \in {"open", "failed"}
  BY DEF handle_connect
<1>2. HandleOK' /\ (Tended' <=> Tended)
  BY <1>1 DEF LinkInv, HandleOK, Tended
<1>3. CASE queue' = queue
  <2>1. client' # "open" \/ proc # "up"
    <3>1. CASE up /\ client' = "open" /\ Post("connect")
      BY <1>1, <1>3, <3>1 DEF Post, LinkInv, LinkTyped, Messages
    <3>2. CASE client' = "failed"
      BY <3>2
    <3> QED
      BY <3>1, <3>2 DEF handle_connect
  <2> QED
    BY <1>1, <1>2, <1>3, <2>1 DEF LinkInv, LinkTyped, Alternate, ClientOK
<1>4. CASE queue' # queue
  <2>1. proc = "up" /\ client' = "open" /\ queue' = Append(queue, "connect")
    BY <1>4 DEF handle_connect, Post
  <2>2. IF queue = << >> THEN Tended ELSE queue[Len(queue)] # "connect"
    BY <1>1, <2>1 DEF LinkInv, ClientOK
  <2>3. queue' \in Seq(Messages) /\ Alternate' /\ queue' # << >>
        /\ queue'[Len(queue')] = "connect"
    BY <1>1, <2>1, <2>2, PostKeeps DEF Messages
  <2> QED
    BY <1>1, <1>2, <2>1, <2>3 DEF LinkInv, LinkTyped, ClientOK
<1> QED
  BY <1>3, <1>4

\* What breaks was open.
LEMMA BreakKeeps == LinkInv /\ Broken => LinkInv'
<1> SUFFICES ASSUME LinkInv, Broken PROVE LinkInv'
  OBVIOUS
<1>1. UNCHANGED <<proc, joining, handle, threads, intr, made>> /\ client = "open"
      /\ client' = "closed" /\ Post("close")
  BY DEF Broken
<1>2. HandleOK' /\ (Tended' <=> Tended)
  BY <1>1 DEF LinkInv, HandleOK, Tended
<1>3. CASE proc # "up"
  BY <1>1, <1>2, <1>3 DEF LinkInv, LinkTyped, Post
<1>4. CASE proc = "up"
  <2>1. queue' = Append(queue, "close")
    BY <1>1, <1>4 DEF Post
  <2>2. IF queue = << >> THEN ~Tended ELSE queue[Len(queue)] # "close"
    BY <1>1, <1>4 DEF LinkInv, ClientOK
  <2>3. queue' \in Seq(Messages) /\ Alternate' /\ queue' # << >>
        /\ queue'[Len(queue')] = "close"
    BY <1>1, <1>4, <2>1, <2>2, PostKeeps DEF Messages
  <2> QED
    BY <1>1, <1>2, <2>3 DEF LinkInv, LinkTyped, ClientOK
<1> QED
  BY <1>3, <1>4

\* A message is taken from the front; what it was tells what the next one is.
LEMMA HandleKeeps ==
  ASSUME LinkInv, NEW msg, Handle(msg), UNCHANGED client,
         Tended' <=> ~Tended
  PROVE  queue' \in Seq(Messages) /\ Alternate' /\ ClientOK'
<1> USE DEF LinkInv, LinkTyped
<1>1. /\ queue \in Seq(Messages) /\ queue # << >> /\ queue' = Tail(queue)
      /\ queue' \in Seq(Messages) /\ Len(queue) \in Nat /\ Len(queue') = Len(queue) - 1
      /\ \A i \in 1 .. Len(queue') : queue'[i] = queue[i + 1]
  BY DEF Handle
<1>2. /\ \A i \in 1 .. Len(queue) - 1 : queue[i] # queue[i + 1]
      /\ queue[1] = "connect" <=> Tended
      /\ client = "open" <=> queue[Len(queue)] = "connect"
  BY <1>1 DEF Handle, Alternate, ClientOK
<1>3. \A i \in 1 .. Len(queue') - 1 : queue'[i] # queue'[i + 1]
  <2> SUFFICES ASSUME NEW i \in 1 .. Len(queue') - 1 PROVE queue'[i] # queue'[i + 1]
    OBVIOUS
  <2>1. i + 1 \in 1 .. Len(queue) - 1 /\ i \in 1 .. Len(queue') /\ i + 1 \in 1 .. Len(queue')
    BY <1>1
  <2> QED
    BY <1>1, <1>2, <2>1
<1>4. ASSUME queue' # << >> PROVE queue'[1] = "connect" <=> Tended'
  <2>1. 1 \in 1 .. Len(queue') /\ 1 \in 1 .. Len(queue) - 1 /\ 2 \in 1 .. Len(queue)
    BY <1>1, <1>4
  <2>2. queue'[1] = queue[2] /\ queue[1] # queue[2]
    BY <1>1, <1>2, <2>1
  <2>3. queue[1] \in Messages /\ queue[2] \in Messages
    BY <1>1, <2>1
  <2> QED
    BY <1>2, <2>2, <2>3 DEF Messages
<1>5. ClientOK'
  <2>1. CASE queue' = << >>
    <3>1. Len(queue') = 0
      BY <2>1
    <3>2. Len(queue) = 1
      BY <1>1, <3>1
    <3>3. Tended <=> queue[Len(queue)] = "connect"
      BY <1>2, <3>2
    <3> QED
      BY <1>2, <2>1, <3>3 DEF ClientOK
  <2>2. CASE queue' # << >>
    <3>1. queue'[Len(queue')] = queue[Len(queue)]
      BY <1>1, <2>2
    <3> QED
      BY <1>2, <2>2, <3>1 DEF ClientOK
  <2> QED
    BY <2>1, <2>2
<1> QED
  BY <1>1, <1>3, <1>4, <1>5 DEF Alternate

\* The message of a connection finds the thread that made it, and interrupts it.
LEMMA OnConnectKeeps == LinkInv /\ on_connect => LinkInv'
<1> SUFFICES ASSUME LinkInv, on_connect PROVE LinkInv'
  OBVIOUS
<1>1. /\ Handle("connect") /\ proc = "up" /\ ~joining /\ queue # << >> /\ queue[1] = "connect"
      /\ UNCHANGED <<proc, client, handle, threads, made>>
  BY DEF on_connect, Handle, LinkInv, LinkTyped
<1>2. Tended /\ handle # 0
  BY <1>1 DEF LinkInv, Alternate, Tended
<1>3. joining' /\ intr' = intr \cup {handle}
  BY <1>2 DEF on_connect
<1>4. ~Tended'
  BY <1>3 DEF Tended
<1>5. queue' \in Seq(Messages) /\ Alternate' /\ ClientOK'
  BY <1>1, <1>2, <1>4, HandleKeeps
<1>6. HandleOK'
  BY <1>1, <1>2, <1>3, <1>4 DEF LinkInv, HandleOK
<1>7. intr' \subseteq 1 .. made'
  BY <1>1, <1>2, <1>3 DEF LinkInv, LinkTyped
<1> QED
  BY <1>1, <1>3, <1>5, <1>6, <1>7 DEF LinkInv, LinkTyped

\* The message of a break finds no thread, and makes one.
LEMMA OnCloseKeeps == LinkInv /\ on_close => LinkInv'
<1> SUFFICES ASSUME LinkInv, on_close PROVE LinkInv'
  OBVIOUS
<1>1. /\ Handle("close") /\ proc = "up" /\ ~joining /\ queue # << >> /\ queue[1] = "close"
      /\ made' = made + 1 /\ handle' = made + 1 /\ threads' = threads \cup {made + 1}
      /\ UNCHANGED <<proc, client, joining, intr>> /\ made \in Nat
  BY DEF on_close, Handle, LinkInv, LinkTyped
<1>2. ~Tended /\ handle = 0 /\ threads = {}
  BY <1>1 DEF LinkInv, Alternate, Tended, HandleOK
<1>3. Tended'
  BY <1>1 DEF Tended
<1>4. queue' \in Seq(Messages) /\ Alternate' /\ ClientOK'
  BY <1>1, <1>2, <1>3, HandleKeeps
<1>5. made + 1 \notin intr /\ intr \subseteq 1 .. made'
  BY <1>1 DEF LinkInv, LinkTyped
<1>6. HandleOK'
  BY <1>1, <1>2, <1>5 DEF HandleOK
<1> QED
  BY <1>1, <1>4, <1>5, <1>6 DEF LinkInv, LinkTyped

\* A join leaves a link without a thread, as the interruption already counted it.
LEMMA JoinKeeps == LinkInv /\ Joined => LinkInv'
<1> SUFFICES ASSUME LinkInv, Joined PROVE LinkInv'
  OBVIOUS
<1>1. /\ joining /\ handle \notin threads /\ ~joining' /\ handle' = 0
      /\ UNCHANGED <<client, queue, threads, intr, made>>
      /\ proc' = IF proc = "quitting" THEN "stopped" ELSE proc
  BY DEF Joined, LinkInv, LinkTyped
<1>2. threads = {} /\ ~Tended /\ ~Tended'
  BY <1>1 DEF LinkInv, HandleOK, Tended
<1>3. HandleOK'
  BY <1>1, <1>2 DEF LinkInv, HandleOK
<1>4. LinkTyped'
  BY <1>1 DEF LinkInv, LinkTyped
<1>5. proc' = "up" => Alternate' /\ ClientOK'
  BY <1>1, <1>2 DEF LinkInv, LinkTyped, Alternate, ClientOK
<1> QED
  BY <1>3, <1>4, <1>5 DEF LinkInv

\* Nothing else touches the handle or the messages.
LEMMA RestKeeps ==
  ASSUME Prompt, LinkInv,
         \/ ServerTurns \/ StopService
         \/ \E t \in threads : Retry(t) \/ ThreadEnds(t)
  PROVE  LinkInv'
<1>1. CASE ServerTurns
  BY <1>1 DEF ServerTurns, LinkInv, LinkTyped, HandleOK, Alternate, ClientOK, Tended
<1>2. CASE StopService
  <2>1. proc' \in {"quitting", "stopped"} /\ queue' = << >>
        /\ UNCHANGED <<client, handle, threads, made>>
    BY <1>2 DEF StopService
  <2>2. LinkTyped'
    <3>1. intr' = intr \/ (handle # 0 /\ intr' = intr \cup {handle})
      BY <1>2 DEF StopService
    <3>2. intr \subseteq 1 .. made /\ made \in Nat /\ handle \in 0 .. made
      BY DEF LinkInv, LinkTyped
    <3>3. intr' \subseteq 1 .. made
      <4>1. CASE handle = 0
        BY <3>1, <3>2, <4>1
      <4>2. CASE handle # 0
        <5>1. handle \in 1 .. made
          BY <3>2, <4>2
        <5> QED
          BY <3>1, <3>2, <5>1
      <4> QED
        BY <4>1, <4>2
    <3>4. queue' \in Seq(Messages)
      BY <2>1
    <3> QED
      BY <2>1, <3>2, <3>3, <3>4 DEF LinkInv, LinkTyped
  <2>3. HandleOK'
    BY <1>2, <2>1 DEF StopService, LinkInv, HandleOK, LinkTyped
  <2> QED
    BY <2>1, <2>2, <2>3 DEF LinkInv
<1>3. ASSUME NEW t \in threads, Retry(t) PROVE LinkInv'
  <2>1. client # "open" /\ client' = "connecting"
        /\ UNCHANGED <<proc, queue, joining, handle, threads, intr, made>>
    BY <1>3 DEF Retry
  <2> QED
    BY <2>1 DEF LinkInv, LinkTyped, HandleOK, Alternate, ClientOK, Tended
<1>4. ASSUME NEW t \in threads, ThreadEnds(t) PROVE LinkInv'
  <2>1. t = handle /\ t \in intr /\ threads' = threads \ {t}
        /\ UNCHANGED <<proc, client, queue, joining, handle, intr, made>>
    BY <1>4 DEF ThreadEnds, LinkInv, HandleOK
  <2> QED
    BY <2>1 DEF LinkInv, LinkTyped, HandleOK, Alternate, ClientOK, Tended
<1> QED
  BY <1>1, <1>2, <1>3, <1>4

\* What TcpLink!LinkIsTended asks follows from the invariant: a link without a thread
\* and without messages is open.
LEMMA InvTends == LinkInv => LinkIsTended
  BY DEF LinkInv, LinkTyped, HandleOK, ClientOK, Tended, LinkIsTended

\* However often the link breaks and is made again, and however far the message thread
\* (MessageQueue, on_connect_gc, on_close_gc and the same for the file server) lags
\* behind: one thread tends a link that is down, none is lost sight of, and none is
\* left when the service has stopped.
THEOREM LinkTended == ASSUME Prompt PROVE LKSpec => []LinkIsTended
<1>1. LKInit => LinkInv
  BY InitHolds
<1>2. LinkInv /\ [LKNext]_lkVars => LinkInv'
  <2> SUFFICES ASSUME LinkInv, [LKNext]_lkVars PROVE LinkInv'
    OBVIOUS
  <2>1. CASE UNCHANGED lkVars
    BY <2>1 DEF lkVars, LinkInv, LinkTyped, HandleOK, Alternate, ClientOK, Tended
  <2>2. CASE LKNext
    BY <2>2, ConnectKeeps, BreakKeeps, OnConnectKeeps, OnCloseKeeps, JoinKeeps, RestKeeps
       DEF LKNext
  <2> QED
    BY <2>1, <2>2
<1> QED
  BY <1>1, <1>2, InvTends, PTL DEF LKSpec

(***************************************************************************)
(* TcpSend: for any number of threads, buffers and lines, and a ring of    *)
(* any size, what the server gets and what waits in the ring are together  *)
(* the bytes Write took, in order, and one write of the socket is under    *)
(* way whenever bytes wait.                                                *)
(*                                                                         *)
(* The argument: a thread's buffer holds its line until it has written it, *)
(* and the write under way sends the front of the ring.                    *)
(***************************************************************************)

Byte == Nat \X Nat

SendTyped == /\ ibuf \in 1 .. Slots /\ buff \in [1 .. Slots -> Nat] /\ lines \in Nat
             /\ held \in [Thread -> {<< >>} \cup [line : Nat, slot : 1 .. Slots]]
             /\ crcsnd \in Seq(Byte) /\ wire \in Seq(Byte) /\ taken \in Seq(Byte)
             /\ Len(crcsnd) <= Cap

\* A thread that has a buffer finds its line in it.
HeldOK == \A t \in Thread :
            held[t] # << >> => held[t].slot \in 1 .. Slots /\ held[t].line = buff[held[t].slot]

\* The socket sends the first m bytes of the ring, those that were there when the write
\* was started.
Onset(m) == 1 <= m /\ m <= Len(crcsnd) /\ flight = <<SubSeq(crcsnd, 1, m)>>

FlightOK == /\ broken => crcsnd # << >> /\ flight = << >>
            /\ ~broken => IF crcsnd = << >> THEN flight = << >>
                          ELSE \E m \in Nat : Onset(m)

SendInv == SendTyped /\ HeldOK /\ FlightOK /\ wire \o crcsnd = taken

SizesOK == Slots \in Nat \ {0} /\ Cap \in Nat /\ LineLen \in Nat

\* The facts on sequences that the steps need, for sequences of bytes.
LEMMA BytesConcat ==
  ASSUME NEW s \in Seq(Byte), NEW t \in Seq(Byte), NEW u \in Seq(Byte)
  PROVE  /\ (s \o t) \o u = s \o (t \o u)
         /\ s \o t \in Seq(Byte) /\ Len(s \o t) = Len(s) + Len(t)
  BY ConcatAssociative, ConcatProperties

\* The write of a whole ring.
LEMMA OneWrite ==
  ASSUME NEW s \in Seq(Byte), s # << >>
  PROVE  /\ Len(s) \in Nat /\ 1 <= Len(s) /\ SubSeq(s, 1, Len(s)) = s
         /\ << >> \o <<s>> = <<s>> /\ Append(<< >>, s) = <<s>>
<1>1. Len(s) \in Nat \ {0}
  BY EmptySeq
<1>2. SubSeq(s, 1, Len(s)) = s
  BY SubSeqFull
<1>3. << >> \o <<s>> = <<s>>
  <2>1. <<s>> \in Seq({s})
    OBVIOUS
  <2> QED
    BY <2>1, ConcatEmptySeq
<1>4. Append(<< >>, s) = <<s>>
  OBVIOUS
<1> QED
  BY <1>1, <1>2, <1>3, <1>4

\* At first there is nothing to send.
LEMMA SendInit == ASSUME SizesOK, SDInit PROVE SendInv
<1>1. SendTyped
  BY DEF SizesOK, SDInit, SendTyped
<1>2. HeldOK
  BY DEF SDInit, HeldOK
<1>3. FlightOK
  BY DEF SDInit, FlightOK
<1>4. wire \o crcsnd = taken
  BY DEF SDInit
<1> QED
  BY <1>1, <1>2, <1>3, <1>4 DEF SendInv

\* A line goes to a buffer nobody holds.
LEMMA ComposeKeeps ==
  ASSUME SizesOK, SendInv, NEW t \in Thread, output_compacted(t)
  PROVE  SendInv'
<1>1. /\ \A u \in Thread : held[u] # << >> => held[u].slot # ibuf
      /\ lines' = lines + 1 /\ buff' = [buff EXCEPT ![ibuf] = lines + 1]
      /\ held' = [held EXCEPT ![t] = [line |-> lines + 1, slot |-> ibuf]]
      /\ ibuf' = 1 + (ibuf % Slots)
      /\ UNCHANGED <<crcsnd, flight, wire, taken, broken>>
  BY DEF output_compacted
<1>2. /\ ibuf \in 1 .. Slots /\ buff \in [1 .. Slots -> Nat] /\ lines \in Nat
      /\ held \in [Thread -> {<< >>} \cup [line : Nat, slot : 1 .. Slots]]
  BY DEF SendInv, SendTyped
<1>3. ibuf' \in 1 .. Slots
  BY <1>1, <1>2 DEF SizesOK
<1>4. held' \in [Thread -> {<< >>} \cup [line : Nat, slot : 1 .. Slots]]
  BY <1>1, <1>2
<1>5. SendTyped'
  BY <1>1, <1>2, <1>3, <1>4 DEF SendInv, SendTyped
<1>6. HeldOK'
  <2> SUFFICES ASSUME NEW u \in Thread, held'[u] # << >>
               PROVE  held'[u].slot \in 1 .. Slots /\ held'[u].line = buff'[held'[u].slot]
    BY DEF HeldOK
  <2>1. CASE u = t
    BY <1>1, <1>2, <2>1
  <2>2. CASE u # t
    <3>1. held'[u] = held[u]
      BY <1>1, <1>2, <2>2
    <3>2. held[u].slot \in 1 .. Slots /\ held[u].line = buff[held[u].slot]
          /\ held[u].slot # ibuf
      BY <1>1, <3>1 DEF SendInv, HeldOK
    <3> QED
      BY <1>1, <1>2, <3>1, <3>2
  <2> QED
    BY <2>1, <2>2
<1>7. FlightOK' /\ wire' \o crcsnd' = taken'
  BY <1>1 DEF SendInv, FlightOK, Onset
<1> QED
  BY <1>5, <1>6, <1>7 DEF SendInv

\* What Write takes goes behind the bytes in the ring.
LEMMA WriteKeeps ==
  ASSUME SizesOK, SendInv, NEW t \in Thread, Write(t)
  PROVE  SendInv'
<1> DEFINE n == IF Cap - Len(crcsnd) < LineLen THEN Cap - Len(crcsnd) ELSE LineLen
           line == held[t].line
           B == Bytes(line, n)
<1>1. /\ held[t] # << >>
      /\ crcsnd' = crcsnd \o Bytes(buff[held[t].slot], n) /\ taken' = taken \o B
      /\ flight' = IF Starts(crcsnd, n) THEN Append(flight, crcsnd') ELSE flight
      /\ held' = [held EXCEPT ![t] = << >>]
      /\ UNCHANGED <<ibuf, buff, lines, wire, broken>>
  BY DEF Write
<1>2. /\ crcsnd \in Seq(Byte) /\ wire \in Seq(Byte) /\ taken \in Seq(Byte)
      /\ Len(crcsnd) \in Nat /\ Len(crcsnd) <= Cap /\ wire \o crcsnd = taken
      /\ buff \in [1 .. Slots -> Nat]
      /\ held \in [Thread -> {<< >>} \cup [line : Nat, slot : 1 .. Slots]]
  BY DEF SendInv, SendTyped
<1>3. held[t].slot \in 1 .. Slots /\ line = buff[held[t].slot] /\ line \in Nat
  BY <1>1, <1>2 DEF SendInv, HeldOK
<1>4. n \in Nat /\ Len(crcsnd) + n <= Cap
  BY <1>2 DEF SizesOK
<1> HIDE DEF n, line
<1>5. B \in Seq(Byte) /\ Len(B) = n
  <2>1. B = [k \in 1 .. n |-> <<line, k>>]
    BY DEF Bytes
  <2>2. \A k \in 1 .. n : <<line, k>> \in Byte
    BY <1>3, <1>4 DEF Byte
  <2> QED
    BY <1>4, <2>1, <2>2
<1>6. crcsnd' = crcsnd \o B
  BY <1>1, <1>3
<1> HIDE DEF B
<1>7. /\ crcsnd' \in Seq(Byte) /\ taken' \in Seq(Byte)
      /\ Len(crcsnd') = Len(crcsnd) + n
  <2>1. crcsnd \in Seq(Byte) /\ taken \in Seq(Byte) /\ B \in Seq(Byte)
    BY <1>2, <1>5
  <2>2. /\ crcsnd \o B \in Seq(Byte) /\ Len(crcsnd \o B) = Len(crcsnd) + Len(B)
        /\ taken \o B \in Seq(Byte)
    BY <2>1, BytesConcat
  <2> QED
    BY <1>1, <1>5, <1>6, <2>2
<1>8. wire' \o crcsnd' = taken'
  <2>1. wire \o (crcsnd \o B) = (wire \o crcsnd) \o B
    <3>1. wire \in Seq(Byte) /\ crcsnd \in Seq(Byte) /\ B \in Seq(Byte)
      BY <1>2, <1>5
    <3> QED
      BY <3>1, BytesConcat
  <2> QED
    BY <1>1, <1>2, <1>6, <2>1
<1>9. SendTyped'
  <2>1. held' \in [Thread -> {<< >>} \cup [line : Nat, slot : 1 .. Slots]]
    BY <1>1, <1>2
  <2> QED
    BY <1>1, <1>2, <1>4, <1>7, <2>1 DEF SendInv, SendTyped
<1>10. HeldOK'
  BY <1>1, <1>2 DEF SendInv, HeldOK
<1>11. FlightOK'
  <2>1. CASE crcsnd = << >>
    <3>1. ~broken /\ flight = << >> /\ Len(crcsnd) = 0
      BY <2>1 DEF SendInv, FlightOK
    <3>2. CASE n = 0
      <4>1. crcsnd' = << >> /\ flight' = flight
        BY <1>1, <1>7, <2>1, <3>1, <3>2 DEF Starts
      <4> QED
        BY <1>1, <3>1, <4>1 DEF FlightOK
    <3>3. CASE n # 0
      <4>1. crcsnd' # << >> /\ Starts(crcsnd, n)
        BY <1>4, <1>7, <2>1, <3>1, <3>3 DEF Starts
      <4>2. /\ Len(crcsnd') \in Nat /\ 1 <= Len(crcsnd')
            /\ SubSeq(crcsnd', 1, Len(crcsnd')) = crcsnd' /\ Append(<< >>, crcsnd') = <<crcsnd'>>
        BY <1>7, <4>1, OneWrite
      <4>3. flight' = <<crcsnd'>>
        BY <1>1, <3>1, <4>1, <4>2
      <4>4. PICK m \in Nat : m = Len(crcsnd')
        BY <4>2
      <4>5. flight' = <<SubSeq(crcsnd', 1, m)>>
        BY <4>2, <4>3, <4>4, Zenon
      <4>6. Onset(m)'
        <5>1. 1 <= m /\ m <= Len(crcsnd')
          BY <4>2, <4>4
        <5> QED
          BY <5>1, <4>5, Zenon DEF Onset
      <4> QED
        BY <1>1, <3>1, <4>1, <4>6 DEF FlightOK
    <3> QED
      BY <3>2, <3>3
  <2>2. CASE crcsnd # << >>
    <3>1. flight' = flight /\ crcsnd' # << >>
      BY <1>1, <1>2, <1>4, <1>7, <2>2 DEF Starts
    <3>2. CASE broken
      BY <1>1, <3>1, <3>2 DEF SendInv, FlightOK
    <3>3. CASE ~broken
      <4>1. PICK m \in Nat : Onset(m)
        BY <2>2, <3>3 DEF SendInv, FlightOK
      <4>2. m \in 1 .. Len(crcsnd) /\ 1 \in 1 .. Len(crcsnd)
        BY <1>2, <4>1 DEF Onset
      <4>3. SubSeq(crcsnd \o B, 1, m) = SubSeq(crcsnd, 1, m)
        BY <1>2, <1>5, <4>2, SubSeqOfConcat1
      <4>4. Onset(m)'
        BY <1>2, <1>4, <1>6, <1>7, <3>1, <4>1, <4>3 DEF Onset
      <4> QED
        BY <1>1, <3>1, <3>3, <4>4 DEF FlightOK
    <3> QED
      BY <3>2, <3>3
  <2> QED
    BY <2>1, <2>2
<1> QED
  BY <1>8, <1>9, <1>10, <1>11 DEF SendInv

\* The socket took n bytes off the front of the ring; what remains is sent next.
LEMMA SentKeeps ==
  ASSUME SizesOK, SendInv, ~broken, NEW n \in 1 .. Len(flight[1]), flight # << >>,
         wire' = wire \o SubSeq(flight[1], 1, n),
         crcsnd' = SubSeq(crcsnd, n + 1, Len(crcsnd)),
         flight' = Tail(flight) \o IF crcsnd' = << >> THEN << >> ELSE <<crcsnd'>>,
         UNCHANGED <<broken, ibuf, buff, held, lines, taken>>
  PROVE  SendInv'
<1>1. /\ crcsnd \in Seq(Byte) /\ wire \in Seq(Byte) /\ taken \in Seq(Byte)
      /\ Len(crcsnd) \in Nat /\ Len(crcsnd) <= Cap /\ wire \o crcsnd = taken
  BY DEF SendInv, SendTyped
<1>2. PICK m \in Nat : Onset(m)
  BY DEF SendInv, FlightOK
<1>3. /\ flight[1] = SubSeq(crcsnd, 1, m) /\ Tail(flight) = << >>
      /\ m \in 1 .. Len(crcsnd) /\ 1 \in 1 .. Len(crcsnd)
  BY <1>1, <1>2 DEF Onset
<1>4. Len(flight[1]) = m
  <2>1. \A i \in 1 .. m : crcsnd[i] \in Byte
    BY <1>1, <1>3
  <2> QED
    BY <1>3, <2>1, SubSeqProperties
<1>5. n \in 1 .. m /\ n \in 1 .. Len(crcsnd)
  BY <1>3, <1>4
<1>6. SubSeq(flight[1], 1, n) = SubSeq(crcsnd, 1, n)
  <2>1. SubSeq(SubSeq(crcsnd, 1, m), 1, n) = SubSeq(crcsnd, 1 + 1 - 1, 1 + n - 1)
    <3>1. 1 \in 1 .. m - 1 + 1 /\ n \in 1 .. m - 1 + 1
      BY <1>3, <1>5
    <3> QED
      BY <1>1, <1>3, <3>1, SubSeqOfSubSeq
  <2>2. 1 + n - 1 = n /\ 1 + 1 - 1 = 1
    BY <1>5
  <2> QED
    BY <1>3, <2>1, <2>2
<1>7. /\ SubSeq(crcsnd, 1, n) \in Seq(Byte) /\ crcsnd' \in Seq(Byte)
      /\ Len(crcsnd') = Len(crcsnd) - n
  <2>1. \A i \in 1 .. Len(crcsnd) : crcsnd[i] \in Byte
    BY <1>1
  <2>2. SubSeq(crcsnd, 1, n) \in Seq(Byte)
    BY <1>5, <2>1, SubSeqProperties
  <2>3. SubSeq(crcsnd, n + 1, Len(crcsnd)) \in Seq(Byte)
        /\ Len(SubSeq(crcsnd, n + 1, Len(crcsnd))) = Len(crcsnd) - n
    BY <1>1, <1>5, <2>1, SubSeqProperties
  <2> QED
    BY <2>2, <2>3
<1>8. SubSeq(crcsnd, 1, n) \o crcsnd' = crcsnd
  <2>1. 1 \in 1 .. Len(crcsnd) + 1 /\ n \in 1 - 1 .. Len(crcsnd) /\ Len(crcsnd) \in n .. Len(crcsnd)
    BY <1>1, <1>5
  <2>2. SubSeq(crcsnd, 1, n) \o SubSeq(crcsnd, n + 1, Len(crcsnd)) = SubSeq(crcsnd, 1, Len(crcsnd))
    BY <1>1, <2>1, ConcatAdjacentSubSeq
  <2> QED
    BY <1>1, <2>2, SubSeqFull
<1>9. wire' \in Seq(Byte) /\ wire' \o crcsnd' = taken'
  <2>1. (wire \o SubSeq(crcsnd, 1, n)) \o crcsnd' = wire \o (SubSeq(crcsnd, 1, n) \o crcsnd')
    <3>1. PICK sent \in Seq(Byte), rest \in Seq(Byte) :
            sent = SubSeq(crcsnd, 1, n) /\ rest = crcsnd'
      BY <1>7, Zenon
    <3>2. wire \in Seq(Byte)
      BY <1>1
    <3>3. (wire \o sent) \o rest = wire \o (sent \o rest)
      BY <3>2, BytesConcat
    <3> QED
      BY <3>1, <3>3, Zenon
  <2>2. wire \o SubSeq(crcsnd, 1, n) \in Seq(Byte)
    <3>1. wire \in Seq(Byte) /\ SubSeq(crcsnd, 1, n) \in Seq(Byte)
      BY <1>1, <1>7
    <3> QED
      BY <3>1, BytesConcat
  <2> QED
    BY <1>1, <1>6, <1>8, <2>1, <2>2
<1>10. SendTyped' /\ HeldOK'
  <2>1. Len(crcsnd') <= Cap
    BY <1>1, <1>5, <1>7 DEF SizesOK
  <2> QED
    BY <1>7, <1>9, <2>1 DEF SendInv, SendTyped, HeldOK
<1>11. FlightOK'
  <2>1. CASE crcsnd' = << >>
    BY <1>3, <2>1 DEF FlightOK
  <2>2. CASE crcsnd' # << >>
    <3>1. /\ Len(crcsnd') \in Nat /\ 1 <= Len(crcsnd')
          /\ SubSeq(crcsnd', 1, Len(crcsnd')) = crcsnd' /\ << >> \o <<crcsnd'>> = <<crcsnd'>>
      BY <1>7, <2>2, OneWrite
    <3>2. flight' = <<crcsnd'>>
      BY <1>3, <2>2, <3>1
    <3>3. PICK k \in Nat : k = Len(crcsnd')
      BY <3>1
    <3>4. flight' = <<SubSeq(crcsnd', 1, k)>>
      BY <3>1, <3>2, <3>3, Zenon
    <3>5. Onset(k)'
      <4>1. 1 <= k /\ k <= Len(crcsnd')
        BY <3>1, <3>3
      <4> QED
        BY <4>1, <3>4, Zenon DEF Onset
    <3> QED
      BY <2>2, <3>5 DEF FlightOK
  <2> QED
    BY <2>1, <2>2
<1> QED
  BY <1>9, <1>10, <1>11 DEF SendInv

\* A write that fails is the last.
LEMMA FailedKeeps ==
  ASSUME SendInv, flight # << >>, broken' = TRUE, flight' = Tail(flight),
         UNCHANGED <<wire, crcsnd, ibuf, buff, held, lines, taken>>
  PROVE  SendInv'
<1>1. ~broken /\ crcsnd # << >>
  BY DEF SendInv, FlightOK
<1>2. PICK m \in Nat : Onset(m)
  BY <1>1 DEF SendInv, FlightOK
<1>3. Tail(flight) = << >>
  BY <1>2 DEF Onset
<1>4. FlightOK'
  BY <1>1, <1>3 DEF FlightOK
<1> QED
  BY <1>4 DEF SendInv, SendTyped, HeldOK

\* TcpSend!WireHoldsLines follows: a ring with bytes has its one write.
LEMMA InvHolds == SendInv => WireHoldsLines
<1> SUFFICES ASSUME SendInv PROVE WireHoldsLines
  OBVIOUS
<1>1. ASSUME crcsnd # << >>, ~broken PROVE Len(flight) = 1
  <2>1. PICK m \in Nat : Onset(m)
    BY <1>1 DEF SendInv, FlightOK
  <2> QED
    BY <2>1 DEF Onset
<1> QED
  BY <1>1 DEF SendInv, WireHoldsLines

\* Whatever the threads send and however slowly the socket takes it, the bytes Write
\* took reach the wire once and in order (TCPClient::Write, handle_write, start_write),
\* as long as no thread lets all buffers of AsciiProtocol pass before it writes.
THEOREM LinesReachTheWire == ASSUME SizesOK PROVE SDSpec => []WireHoldsLines
<1>1. SDInit => SendInv
  BY SendInit
<1>2. SendInv /\ [SDNext]_sdVars => SendInv'
  <2> SUFFICES ASSUME SendInv, [SDNext]_sdVars PROVE SendInv'
    OBVIOUS
  <2>1. CASE UNCHANGED sdVars
    BY <2>1 DEF sdVars, SendInv, SendTyped, HeldOK, FlightOK, Onset
  <2>2. ASSUME NEW t \in Thread, output_compacted(t) PROVE SendInv'
    BY <2>2, ComposeKeeps
  <2>3. ASSUME NEW t \in Thread, Write(t) PROVE SendInv'
    BY <2>3, WriteKeeps
  <2>4. CASE handle_write
    BY <2>4, SentKeeps, FailedKeeps DEF handle_write
  <2> QED
    BY <2>1, <2>2, <2>3, <2>4 DEF SDNext
<1> QED
  BY <1>1, <1>2, InvHolds, PTL DEF SDSpec
=============================================================================
