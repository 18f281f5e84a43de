----------------------------- MODULE Candidates -----------------------------
(***************************************************************************)
(* AFindPV: how the points of the frames of one sequence become candidates *)
(* and the candidates objects.  Where points lie is left open: whether two *)
(* are close, whether a point is where a candidate expects it, whether a   *)
(* candidate has left the field and whether it moves steadily are free     *)
(* choices.  A point a frame does not have is one that is matched.         *)
(***************************************************************************)
EXTENDS Integers, Sequences, FiniteSets, SequencesExt

CONSTANTS NumFrames, \* frames of the sequence
          PerFrame,  \* points of a frame
          MaxCans,   \* candidates at a time
          MINFRAME   \* least number of points of an object

ASSUME PointsAssumption == NumFrames \in Nat /\ PerFrame \in Nat

VARIABLES fno,     \* frame in hand, 0 before the first
          at,      \* what the finder does with it
          matched, \* the points that are stars
          related, \* how often a point was added to a candidate
          cans_,   \* the candidates, each the sequence of its points
          objects  \* the objects

cnVars == <<fno, at, matched, related, cans_, objects>>

PointsOf(f) == {f} \X (1 .. PerFrame)
Point == (1 .. NumFrames) \X (1 .. PerFrame)

\* The points that were added to a candidate after its first two.
Tail3(can) == {can[i] : i \in 3 .. Len(can)}

CNInit == /\ fno = 0 /\ at = "idle"
          /\ matched = {} /\ related = [p \in Point |-> 0]
          /\ cans_ = << >> /\ objects = << >>

\* cross_match: every unmatched point of the frame before takes all unmatched points
\* of this one that are close.  It counts the points and the pairs.
cross_match(stars, near, prev, now) ==
    FoldLeft(LAMBDA s, p :
               IF p \in s.m THEN s
               ELSE LET pairs == {q \in now \ s.m : <<p, q>> \in near}
                    IN  [m |-> s.m \cup pairs \cup IF pairs = {} THEN {} ELSE {p},
                         n0 |-> s.n0 + 1, n2 |-> s.n2 + Cardinality(pairs)],
             [m |-> stars, n0 |-> 0, n2 |-> 0],
             [k \in 1 .. Cardinality(prev) |-> <<fno, k>>])

\* new_frame and cross_match: the frame is followed up only when the numbers differ.
new_frame ==
    /\ at = "idle" /\ fno < NumFrames
    /\ fno' = fno + 1
    /\ LET prev == IF fno = 0 THEN {} ELSE PointsOf(fno)
           now == PointsOf(fno + 1)
       IN  \E stars \in SUBSET now : \E near \in SUBSET ((prev \ matched) \X (now \ stars)) :
             LET s == cross_match(matched \cup stars, near, prev, now)
             IN  /\ matched' = s.m
                 /\ at' = IF s.n0 # s.n2 THEN "recheck" ELSE "idle"
    /\ UNCHANGED <<related, cans_, objects>>

\* Mutant: points that another candidate shares do not count against it.
complete_Shared(can, rel, steady) == Len(can) >= MINFRAME /\ steady

\* pv_candidate::complete
complete(can, rel, steady) ==
    Len(can) >= MINFRAME /\ steady /\ \A p \in Tail3(can) : rel[p] = 1

\* The dec_rel of every added point.
release(can, rel) == [p \in Point |-> rel[p] - (IF p \in Tail3(can) THEN 1 ELSE 0)]

\* The candidates in gone leave, one after the other: as an object, or given up.
JudgeOne(gone, steady, s, i) ==
    IF i \notin gone THEN [s EXCEPT !.left = Append(@, cans_[i])]
    ELSE IF complete(cans_[i], s.rel, i \in steady)
         THEN [s EXCEPT !.objs = Append(@, cans_[i])]
         ELSE [s EXCEPT !.rel = release(cans_[i], @)]

Judge(gone, steady) ==
    FoldLeft(LAMBDA s, i : JudgeOne(gone, steady, s, i),
             [left |-> << >>, rel |-> related, objs |-> objects],
             [i \in DOMAIN cans_ |-> i])

Leave(gone) ==
    \E steady \in SUBSET gone :
      LET s == Judge(gone, steady)
      IN  cans_' = s.left /\ related' = s.rel /\ objects' = s.objs

\* The candidates that are expected outside the field leave.
recheck_candidates ==
    /\ at = "recheck"
    /\ \E gone \in SUBSET DOMAIN cans_ : Leave(gone)
    /\ at' = "append"
    /\ UNCHANGED <<fno, matched>>

\* Every candidate takes the nearest of the unmatched points it expects, if any.  A
\* point may go to several.
append_candidates ==
    /\ at = "append"
    /\ LET free == PointsOf(fno) \ matched
       IN  \E pick \in [DOMAIN cans_ -> {<< >>} \cup {<<p>> : p \in free}] :
             /\ cans_' = [i \in DOMAIN cans_ |-> cans_[i] \o pick[i]]
             /\ related' = [p \in Point |->
                              related[p] + Cardinality({i \in DOMAIN cans_ : pick[i] = <<p>>})]
    /\ at' = "create"
    /\ UNCHANGED <<fno, matched, objects>>

Free(f) == {p \in PointsOf(f) : p \notin matched /\ related[p] = 0}

\* The pairs of free points of the two frames are tried in two loops.
Before(pair, other) ==
    \/ pair[1][2] < other[1][2]
    \/ pair[1][2] = other[1][2] /\ pair[2][2] < other[2][2]

\* A pair of free points of the two frames that are 150 pixels apart or less.
create_candidates ==
    /\ at = "create"
    /\ \E close \in SUBSET (Free(fno - 1) \X Free(fno)) :
         /\ Len(cans_) + Cardinality(close) <= MaxCans
         /\ \E new \in [1 .. Cardinality(close) -> close] :
              /\ \A j, k \in DOMAIN new : j < k => Before(new[j], new[k])
              /\ cans_' = cans_ \o new
    /\ at' = "idle"
    /\ UNCHANGED <<fno, matched, related, objects>>

\* complete_candidates
end_sequence ==
    /\ at = "idle" /\ fno > 0
    /\ Leave(DOMAIN cans_)
    /\ at' = "over"
    /\ UNCHANGED <<fno, matched>>

CNNext == \/ new_frame \/ recheck_candidates \/ append_candidates \/ create_candidates
          \/ end_sequence

CNSpec == CNInit /\ [][CNNext]_cnVars

\* A point that was added to an object was added to no other object: whichever candidate
\* is judged first, and whatever is given back on the way, a detection is reported as
\* part of one moving object.
OneObjectPerPoint ==
    \A i, j \in DOMAIN objects :
      i # j => Tail3(objects[i]) \cap Tail3(objects[j]) = {}
=============================================================================
