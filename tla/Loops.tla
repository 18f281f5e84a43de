-------------------------------- MODULE Loops --------------------------------
(***************************************************************************)
(* A fold over a sequence is a loop: there is a run of states, the first   *)
(* of which is where the fold starts, each of which follows from the one   *)
(* before it by the next member of the sequence, and the last of which is  *)
(* what the fold returns.                                                  *)
(*                                                                         *)
(* The body of the loop and its invariant are constants of this module: a  *)
(* module with a loop takes an instance with the body and the invariant of *)
(* that loop, and has only their two obligations left to prove.            *)
(***************************************************************************)
EXTENDS Integers, FiniteSetsExt, SequencesExt, WellFoundedInduction, TLAPS

CONSTANTS Body(_, _),  \* the state and the member of the sequence
          Keeps(_, _)  \* how many members were taken, and the state

\* A set of naturals that is not empty has a least element.
LEMMA LeastOf ==
  ASSUME NEW S \in SUBSET Nat, S # {}
  PROVE  \E m \in S : \A k \in S : m <= k
<1>1. PICK m \in S : \A k \in S : ~ (<<k, m>> \in OpToRel(<, Nat))
  BY WFMin, NatLessThanWellFounded
<1>2. \A k \in S : ~ (k < m)
  BY <1>1 DEF OpToRel
<1> QED
  BY <1>2

\* Max is the greatest of some numbers up to n.
LEMMA GreatestOf ==
  ASSUME NEW n \in Nat, NEW t \in SUBSET (1 .. n), t # {}
  PROVE  /\ Max(t) \in t
         /\ \A k \in t : k <= Max(t)
<1> DEFINE D == {n - k : k \in t}
<1>1. D \in SUBSET Nat /\ D # {}
  <2>1. \A k \in t : k \in 1 .. n
    OBVIOUS
  <2>2. \A k \in 1 .. n : n - k \in Nat
    OBVIOUS
  <2>3. \A k \in t : n - k \in D
    OBVIOUS
  <2>4. D \in SUBSET Nat
    BY <2>1, <2>2
  <2> QED
    BY <2>3, <2>4
<1>2. PICK d \in D : \A e \in D : d <= e
  BY <1>1, LeastOf
<1>3. PICK m \in t : d = n - m
  BY <1>2
<1>4. \A k \in t : m >= k
  <2> SUFFICES ASSUME NEW k \in t PROVE m >= k
    OBVIOUS
  <2>1. n - m <= n - k
    BY <1>2, <1>3
  <2>2. m \in Int /\ k \in Int
    OBVIOUS
  <2> QED
    BY <2>1, <2>2
<1>5. Max(t) \in t /\ \A k \in t : Max(t) >= k
  BY <1>4 DEF Max
<1> QED
  BY <1>5

\* What MapThenFoldSet takes next of 1 .. k, and what it leaves.
LEMMA TopOf ==
  ASSUME NEW N \in Nat, NEW k \in 1 .. N
  PROVE  /\ 1 .. k \in SUBSET (1 .. N) /\ 1 .. k # {}
         /\ Max(1 .. k) = k /\ (1 .. k) \ {k} = 1 .. (k - 1)
<1>1. k \in Nat /\ 1 <= k /\ k <= N
  OBVIOUS
<1>2. k \in 1 .. k /\ \A m \in 1 .. k : m \in 1 .. N
  BY <1>1
<1>3. 1 .. k \in SUBSET (1 .. N) /\ 1 .. k # {}
  BY <1>2
<1>4. Max(1 .. k) \in 1 .. k /\ \A m \in 1 .. k : m <= Max(1 .. k)
  BY <1>1, <1>3, GreatestOf
<1>5. Max(1 .. k) = k
  BY <1>1, <1>2, <1>4
<1>6. (1 .. k) \ {k} = 1 .. (k - 1)
  BY <1>1
<1> QED
  BY <1>3, <1>5, <1>6

\* The function MapThenFoldSet makes, for the first n members of s.
Unfold(base, s, n, g) ==
  g = [t \in SUBSET (1 .. n) |->
         IF t = {} THEN base ELSE Body(g[t \ {Max(t)}], s[Max(t)])]

\* The fold over nothing is where it starts.
LEMMA UnfoldEmpty ==
  ASSUME NEW base, NEW s
  PROVE  \E g : Unfold(base, s, 0, g)
<1> DEFINE g == [t \in SUBSET (1 .. 0) |-> base]
<1>1. SUBSET (1 .. 0) = {{}}
  OBVIOUS
<1>2. Unfold(base, s, 0, g)
  BY <1>1 DEF Unfold
<1> QED
  BY <1>2

\* A fold over n - 1 members gives one over n.
LEMMA UnfoldMore ==
  ASSUME NEW base, NEW s, NEW n \in Nat, n # 0, NEW g, Unfold(base, s, n - 1, g)
  PROVE  \E h : Unfold(base, s, n, h)
<1> DEFINE h == [t \in SUBSET (1 .. n) |->
                   IF n \in t THEN Body(g[t \ {n}], s[n]) ELSE g[t]]
           Next1(t) == IF t = {} THEN base
                       ELSE Body(h[t \ {Max(t)}], s[Max(t)])
<1>1. 1 .. n = (1 .. (n - 1)) \cup {n} /\ n \notin 1 .. (n - 1) /\ n - 1 \in Nat
  OBVIOUS
<1>2. \A t \in SUBSET (1 .. n) : h[t] = Next1(t)
  <2> SUFFICES ASSUME NEW t \in SUBSET (1 .. n) PROVE h[t] = Next1(t)
    OBVIOUS
  <2>1. CASE n \in t
    <3>1. Max(t) = n
      <4>1. Max(t) \in t /\ n <= Max(t)
        BY <2>1, GreatestOf
      <4>2. Max(t) \in 1 .. n
        BY <4>1
      <4> QED
        BY <4>1, <4>2
    <3>2. t \ {n} \in SUBSET (1 .. (n - 1)) /\ t \ {n} \in SUBSET (1 .. n)
      BY <1>1
    <3>3. h[t \ {n}] = g[t \ {n}]
      BY <3>2
    <3>4. h[t] = Body(g[t \ {n}], s[n])
      BY <2>1
    <3> QED
      BY <2>1, <3>1, <3>3, <3>4
  <2>2. CASE n \notin t
    <3>1. t \in SUBSET (1 .. (n - 1))
      BY <1>1, <2>2
    <3>2. h[t] = g[t]
      BY <2>2
    <3>3. CASE t = {}
      BY <3>1, <3>2, <3>3 DEF Unfold
    <3>4. CASE t # {}
      <4>1. Max(t) \in t
        BY <3>4, GreatestOf
      <4>2. t \ {Max(t)} \in SUBSET (1 .. (n - 1)) /\ t \ {Max(t)} \in SUBSET (1 .. n)
        BY <3>1
      <4>3. h[t \ {Max(t)}] = g[t \ {Max(t)}]
        BY <2>2, <4>2
      <4>4. g[t] = Body(g[t \ {Max(t)}], s[Max(t)])
        BY <3>1, <3>4 DEF Unfold
      <4> QED
        BY <3>2, <3>4, <4>3, <4>4
    <3> QED
      BY <3>3, <3>4
  <2> QED
    BY <2>1, <2>2
<1>3. h = [t \in SUBSET (1 .. n) |-> h[t]]
  OBVIOUS
<1> HIDE DEF h
<1>4. [t \in SUBSET (1 .. n) |-> h[t]] = [t \in SUBSET (1 .. n) |-> Next1(t)]
  BY <1>2
<1>5. Unfold(base, s, n, h)
  BY <1>3, <1>4, Zenon DEF Unfold
<1> QED
  BY <1>5

\* So there is a fold over any number of members.
LEMMA UnfoldAll ==
  ASSUME NEW base, NEW s, NEW N \in Nat
  PROVE  \E g : Unfold(base, s, N, g)
<1> DEFINE Bad == {n \in Nat : ~ \E g : Unfold(base, s, n, g)}
<1>1. Bad = {}
  <2> SUFFICES ASSUME Bad # {} PROVE FALSE
    OBVIOUS
  <2>1. Bad \in SUBSET Nat
    OBVIOUS
  <2>2. PICK n \in Bad : \A m \in Bad : n <= m
    BY <2>1, LeastOf
  <2>3. n \in Nat /\ ~ \E g : Unfold(base, s, n, g)
    OBVIOUS
  <2>4. n # 0
    BY <2>3, UnfoldEmpty
  <2>5. n - 1 \in Nat /\ ~ (n <= n - 1)
    BY <2>3, <2>4
  <2>6. n - 1 \notin Bad
    BY <2>2, <2>5
  <2>7. \E g : Unfold(base, s, n - 1, g)
    BY <2>5, <2>6
  <2> QED
    BY <2>3, <2>4, <2>7, UnfoldMore
<1> QED
  BY <1>1

\* run is the states of the loop over s, from base on.
IsRun(run, base, s, N) ==
  /\ run[0] = base
  /\ \A k \in 1 .. N : run[k] = Body(run[k - 1], s[k])

\* FoldLeft returns the last state of a run.
LEMMA FoldRuns ==
  ASSUME NEW base, NEW s, NEW N \in Nat, DOMAIN s = 1 .. N
  PROVE  \E run : IsRun(run, base, s, N) /\ FoldLeft(Body, base, s) = run[N]
<1> DEFINE U(g) == g = [t \in SUBSET (DOMAIN s) |->
                         IF t = {} THEN base
                         ELSE Body(g[t \ {Max(t)}], s[Max(t)])]
<1>1. FoldLeft(Body, base, s) = (CHOOSE g : U(g))[DOMAIN s]
  BY DEF FoldLeft, MapThenFoldSet
<1>2. \E g : U(g)
  <2>1. PICK g : Unfold(base, s, N, g)
    BY UnfoldAll
  <2>2. U(g)
    BY <2>1 DEF Unfold
  <2> QED
    BY <2>2
<1> DEFINE f == CHOOSE g : U(g)
<1>3. U(f)
  <2> HIDE DEF U
  <2> QED
    BY <1>2
<1> HIDE DEF f
<1> DEFINE run == [k \in 0 .. N |-> f[1 .. k]]
<1>4. run[0] = base
  <2>1. 1 .. 0 = {} /\ {} \in SUBSET (DOMAIN s)
    OBVIOUS
  <2>2. run[0] = f[{}]
    BY <2>1
  <2> QED
    BY <1>3, <2>1, <2>2
<1>5. ASSUME NEW k \in 1 .. N
      PROVE  run[k] = Body(run[k - 1], s[k])
  <2>1. /\ 1 .. k \in SUBSET (DOMAIN s) /\ 1 .. k # {}
        /\ Max(1 .. k) = k /\ (1 .. k) \ {k} = 1 .. (k - 1)
    BY TopOf
  <2>2. f[1 .. k] = Body(f[1 .. (k - 1)], s[k])
    BY <1>3, <2>1
  <2>3. run[k] = f[1 .. k] /\ run[k - 1] = f[1 .. (k - 1)]
    OBVIOUS
  <2> QED
    BY <2>2, <2>3
<1>6. run[N] = f[DOMAIN s]
  OBVIOUS
<1> HIDE DEF run
<1>7. IsRun(run, base, s, N)
  BY <1>4, <1>5 DEF IsRun
<1> QED
  BY <1>1, <1>6, <1>7 DEF f

\* An invariant that holds where the loop starts and that its body keeps holds of what
\* the fold returns.
LEMMA FoldKeeps ==
  ASSUME NEW base, NEW s, NEW N \in Nat, DOMAIN s = 1 .. N,
         Keeps(0, base),
         \A k \in 1 .. N : \A x : Keeps(k - 1, x) => Keeps(k, Body(x, s[k]))
  PROVE  Keeps(N, FoldLeft(Body, base, s))
<1>1. PICK run : IsRun(run, base, s, N) /\ FoldLeft(Body, base, s) = run[N]
  BY FoldRuns
<1> DEFINE Bad == {k \in 0 .. N : ~ Keeps(k, run[k])}
<1>2. Bad = {}
  <2> SUFFICES ASSUME Bad # {} PROVE FALSE
    OBVIOUS
  <2>1. Bad \in SUBSET Nat
    OBVIOUS
  <2>2. PICK k \in Bad : \A j \in Bad : k <= j
    BY <2>1, LeastOf
  <2>3. k \in 0 .. N /\ ~ Keeps(k, run[k])
    OBVIOUS
  <2>4. k # 0
    BY <1>1, <2>3 DEF IsRun
  <2>5. k \in 1 .. N /\ k - 1 \in 0 .. N /\ ~ (k <= k - 1)
    BY <2>3, <2>4
  <2>6. Keeps(k - 1, run[k - 1])
    BY <2>2, <2>5
  <2>7. run[k] = Body(run[k - 1], s[k])
    BY <1>1, <2>5 DEF IsRun
  <2> QED
    BY <2>3, <2>5, <2>6, <2>7
<1> QED
  BY <1>1, <1>2

\* The fold over one member, two or three.
LEMMA FoldFew ==
  ASSUME NEW base, NEW s
  PROVE  /\ DOMAIN s = 1 .. 1 => FoldLeft(Body, base, s) = Body(base, s[1])
         /\ DOMAIN s = 1 .. 2 => FoldLeft(Body, base, s) = Body(Body(base, s[1]), s[2])
         /\ DOMAIN s = 1 .. 3 =>
              FoldLeft(Body, base, s) = Body(Body(Body(base, s[1]), s[2]), s[3])
<1>1. ASSUME DOMAIN s = 1 .. 1 PROVE FoldLeft(Body, base, s) = Body(base, s[1])
  <2>1. PICK run : IsRun(run, base, s, 1) /\ FoldLeft(Body, base, s) = run[1]
    BY <1>1, FoldRuns
  <2>2. run[0] = base /\ run[1] = Body(run[1 - 1], s[1])
    BY <2>1 DEF IsRun
  <2> QED
    BY <2>1, <2>2
<1>2. ASSUME DOMAIN s = 1 .. 2 PROVE FoldLeft(Body, base, s) = Body(Body(base, s[1]), s[2])
  <2>1. PICK run : IsRun(run, base, s, 2) /\ FoldLeft(Body, base, s) = run[2]
    BY <1>2, FoldRuns
  <2>2. run[0] = base /\ run[1] = Body(run[1 - 1], s[1]) /\ run[2] = Body(run[2 - 1], s[2])
    BY <2>1 DEF IsRun
  <2> QED
    BY <2>1, <2>2
<1>3. ASSUME DOMAIN s = 1 .. 3
      PROVE  FoldLeft(Body, base, s) = Body(Body(Body(base, s[1]), s[2]), s[3])
  <2>1. PICK run : IsRun(run, base, s, 3) /\ FoldLeft(Body, base, s) = run[3]
    BY <1>3, FoldRuns
  <2>2. /\ run[0] = base /\ run[1] = Body(run[1 - 1], s[1])
        /\ run[2] = Body(run[2 - 1], s[2]) /\ run[3] = Body(run[3 - 1], s[3])
    BY <2>1 DEF IsRun
  <2> QED
    BY <2>1, <2>2
<1> QED
  BY <1>1, <1>2, <1>3

\* Two runs with the same turns pass through the same states.
LEMMA RunsAgree ==
  ASSUME NEW base, NEW s, NEW N \in Nat, NEW f, NEW g, IsRun(f, base, s, N), IsRun(g, base, s, N)
  PROVE  f[N] = g[N]
<1> DEFINE Bad == {k \in 0 .. N : f[k] # g[k]}
<1>1. Bad = {}
  <2> SUFFICES ASSUME Bad # {} PROVE FALSE
    OBVIOUS
  <2>1. Bad \in SUBSET Nat
    OBVIOUS
  <2>2. PICK k \in Bad : \A j \in Bad : k <= j
    BY <2>1, LeastOf
  <2>3. k \in 0 .. N /\ f[k] # g[k]
    OBVIOUS
  <2>4. k # 0
    BY <2>3 DEF IsRun
  <2>5. k \in 1 .. N /\ k - 1 \in 0 .. N /\ ~ (k <= k - 1)
    BY <2>3, <2>4
  <2>6. f[k - 1] = g[k - 1]
    BY <2>2, <2>5
  <2> QED
    BY <2>3, <2>5, <2>6 DEF IsRun
<1>2. N \in 0 .. N
  OBVIOUS
<1> QED
  BY <1>1, <1>2

\* u is the M members of s and then the N members of t.
Joined(u, s, M, t, N) ==
  /\ DOMAIN s = 1 .. M /\ DOMAIN t = 1 .. N /\ DOMAIN u = 1 .. (M + N)
  /\ \A k \in 1 .. M : u[k] = s[k]
  /\ \A k \in 1 .. N : u[M + k] = t[k]

\* A fold over two parts of a sequence goes on where the first one ended.
LEMMA FoldParts ==
  ASSUME NEW base, NEW s, NEW M \in Nat, NEW t, NEW N \in Nat, NEW u, Joined(u, s, M, t, N)
  PROVE  FoldLeft(Body, base, u) = FoldLeft(Body, FoldLeft(Body, base, s), t)
<1> USE DEF Joined
<1>1. PICK f : IsRun(f, base, s, M) /\ FoldLeft(Body, base, s) = f[M]
  BY FoldRuns
<1>2. PICK g : IsRun(g, f[M], t, N) /\ FoldLeft(Body, f[M], t) = g[N]
  BY FoldRuns
<1>3. PICK h : IsRun(h, base, u, M + N) /\ FoldLeft(Body, base, u) = h[M + N]
  BY FoldRuns
<1>4. h[M] = f[M]
  <2>1. \A k \in 1 .. M : k \in 1 .. (M + N)
    OBVIOUS
  <2>2. IsRun(h, base, s, M)
    BY <1>3, <2>1 DEF IsRun
  <2> QED
    BY <1>1, <2>2, RunsAgree
<1>5. h[M + N] = g[N]
  <2> DEFINE e == [k \in 0 .. N |-> h[M + k]]
  <2>1. e[0] = f[M] /\ e[N] = h[M + N]
    BY <1>4
  <2>2. ASSUME NEW k \in 1 .. N PROVE e[k] = Body(e[k - 1], t[k])
    <3>1. M + k \in 1 .. (M + N) /\ (M + k) - 1 = M + (k - 1) /\ k \in 0 .. N /\ k - 1 \in 0 .. N
      OBVIOUS
    <3>2. h[M + k] = Body(h[(M + k) - 1], u[M + k])
      BY <1>3, <3>1 DEF IsRun
    <3>3. e[k] = h[M + k] /\ e[k - 1] = h[M + (k - 1)]
      BY <3>1
    <3> HIDE DEF e
    <3> QED
      BY <3>1, <3>2, <3>3
  <2> HIDE DEF e
  <2>3. IsRun(e, f[M], t, N)
    BY <2>1, <2>2 DEF IsRun
  <2> QED
    BY <1>2, <2>1, <2>3, RunsAgree
<1> QED
  BY <1>1, <1>2, <1>3, <1>5

\* The same of two sequences put together.
LEMMA FoldGoesOn ==
  ASSUME NEW base, NEW S, NEW s \in Seq(S), NEW t \in Seq(S)
  PROVE  FoldLeft(Body, base, s \o t) = FoldLeft(Body, FoldLeft(Body, base, s), t)
<1> DEFINE M == Len(s)
           N == Len(t)
           u == s \o t
<1>1. M \in Nat /\ N \in Nat /\ DOMAIN s = 1 .. M /\ DOMAIN t = 1 .. N
  OBVIOUS
<1>2. /\ u \in Seq(S) /\ Len(u) = M + N
      /\ \A i \in 1 .. M + N : u[i] = IF i <= M THEN s[i] ELSE t[i - M]
  OBVIOUS
<1>3. DOMAIN u = 1 .. (M + N)
  BY <1>1, <1>2
<1> HIDE DEF u, M, N
<1>4. \A k \in 1 .. M : u[k] = s[k]
  <2>1. \A k \in 1 .. M : k \in 1 .. M + N /\ k <= M
    BY <1>1
  <2> QED
    BY <1>2, <2>1
<1>5. \A k \in 1 .. N : u[M + k] = t[k]
  <2>1. \A k \in 1 .. N : M + k \in 1 .. M + N /\ ~ (M + k <= M) /\ (M + k) - M = k
    BY <1>1
  <2> QED
    BY <1>2, <2>1
<1>6. Joined(u, s, M, t, N)
  BY <1>1, <1>3, <1>4, <1>5 DEF Joined
<1> QED
  BY <1>1, <1>6, FoldParts DEF u
=============================================================================
