------------------------------ MODULE GlobLabel ------------------------------
(***************************************************************************)
(* airs1, ADIReduct: the pixels above the threshold are labelled in one    *)
(* raster scan, the pixels of a label are summed into a candidate, and a   *)
(* second scan merges the candidates that touch.  What is above the        *)
(* threshold is asked of the filtered image, what is summed are the values *)
(* before the filter, which may have either sign: the one says nothing of  *)
(* the other here.                                                         *)
(***************************************************************************)
EXTENDS Integers, Sequences, FiniteSets, FiniteSetsExt, SequencesExt

CONSTANTS wdim, hdim,   \* size of the image
          area0, area1, \* least and greatest number of pixels of an object, 0: any
          Memory,       \* what a cell of new int[] may hold
          Pictures      \* the images that are tried: the value of every pixel

ASSUME ImageAssumption == wdim \in Nat \ {0} /\ hdim \in Nat \ {0}

VARIABLES value,   \* the image without its background
          bright,  \* the pixels above the threshold
          ucs,     \* reject single pixels and wrong fluxes
          phase,   \* what DoIt has done
          flagmap, \* label of every pixel, 0 for none
          lastid,  \* labels given
          cans,    \* the candidates, by label
          labels,  \* where a label was redirected to
          nfobj    \* the objects of the frame

glVars == <<value, bright, ucs, phase, flagmap, lastid, cans, labels, nfobj>>

Pixel == (0 .. wdim - 1) \X (0 .. hdim - 1)
Scan == [k \in 1 .. wdim * hdim |-> <<(k - 1) % wdim, (k - 1) \div wdim>>]

\* What init_label looks at: the row before from left to right, then the pixel to
\* the left.  x has run through the row before by then, so in the first column,
\* but for its first pixel, the pixel itself is looked at.
Passed(p) == <<<<p[1] - 1, p[2] - 1>>, <<p[1], p[2] - 1>>, <<p[1] + 1, p[2] - 1>>,
               IF p[1] = 0 /\ p[2] > 0 THEN p ELSE <<p[1] - 1, p[2]>>>>

Labelled(map, p) == {i \in 1 .. 4 : Passed(p)[i] \in Pixel /\ map[Passed(p)[i]] > 0}

\* The label of the first of them that has one, or a new label.
init_label(s, p) ==
    LET found == Labelled(s.map, p)
    IN  IF found = {} THEN [map |-> [s.map EXCEPT ![p] = s.last + 1], last |-> s.last + 1]
        ELSE [s EXCEPT !.map[p] = s.map[Passed(p)[Min(found)]]]

LabelAt(s, p) == IF p \in bright THEN init_label(s, p) ELSE s

\* The cells of the dark pixels stay as the allocation left them.
init_glob(memory) == FoldLeft(LabelAt, [map |-> memory, last |-> 0], Scan)

\* ObjectInfo as it is made; the peak begins at 0.  pix is the history of what was summed
\* and out of what of it was rejected, the code keeps the sums.
ObjectInfo == [flag |-> FALSE, npix |-> 0, pix |-> {}, out |-> {}, peak |-> 0, flux |-> 0,
               xsum |-> 0, ysum |-> 0, xxsum |-> 0, xysum |-> 0, yysum |-> 0]

AddPoint(o, p) ==
    LET z == value[p]
    IN  [o EXCEPT !.npix = @ + 1, !.pix = @ \cup {p},
                  !.peak = IF z > @ THEN z ELSE @,
                  !.flux = @ + z, !.xsum = @ + z * p[1], !.ysum = @ + z * p[2],
                  !.xxsum = @ + z * p[1] * p[1], !.xysum = @ + z * p[1] * p[2],
                  !.yysum = @ + z * p[2] * p[2]]

\* ObjectInfo::operator+=
Add(a, b) ==
    [a EXCEPT !.npix = @ + b.npix, !.pix = @ \cup b.pix, !.out = @ \cup b.out,
              !.peak = IF @ < b.peak THEN b.peak ELSE @,
              !.flux = @ + b.flux, !.xsum = @ + b.xsum, !.ysum = @ + b.ysum,
              !.xxsum = @ + b.xxsum, !.xysum = @ + b.xysum, !.yysum = @ + b.yysum]

\* Step 1 of group_glob.
GatherAt(c, p) ==
    IF flagmap[p] = 0 THEN c ELSE [c EXCEPT ![flagmap[p]] = AddPoint(@, p)]

Gathered == FoldLeft(GatherAt, [l \in 1 .. lastid |-> ObjectInfo], Scan)

\* Step 2: a candidate that is rejected keeps its sums and has no pixels.
Reject(o) == IF ucs /\ o.peak >= o.flux THEN [o EXCEPT !.npix = 0, !.out = o.pix] ELSE o

Gather == LET c == Gathered IN [l \in 1 .. lastid |-> Reject(c[l])]

\* The least label around the pixel: the row before, the pixel, and the one to the
\* left and to the right.
Window(p) == {q \in Pixel : q[1] - p[1] \in -1 .. 1 /\ q[2] - p[2] \in -1 .. 0}
minimum_label(map, p) == Min({map[q] : q \in {q \in Window(p) : map[q] > 0}})

\* Where a chain of redirections ends.
Root(lab, l) == LET f[k \in DOMAIN lab] == IF lab[k] < k THEN f[lab[k]] ELSE k IN f[l]

\* Mutant: the label is redirected on every pixel and its sums are added each time.
MergeAt_Again(s, p) ==
    LET l0 == s.map[p]
        lmin == Root(s.lab, minimum_label(s.map, p))
    IN  IF l0 = 0 \/ s.cans[l0].npix = 0 THEN s
        ELSE IF l0 = lmin THEN s
        ELSE [s EXCEPT !.map[p] = lmin, !.lab[l0] = lmin,
                       !.cans[lmin] = Add(@, s.cans[l0]), !.cans[l0].flag = TRUE]

\* Step 3: a pixel whose label is not the least around it redirects its label; only
\* the first redirection moves the sums.  The candidate they are moved to may have been
\* rejected, and has pixels again then.
MergeAt(s, p) ==
    LET l0 == s.map[p]
        lmin == Root(s.lab, minimum_label(s.map, p))
        to == [s EXCEPT !.map[p] = lmin, !.lab[l0] = lmin]
    IN  IF l0 = 0 \/ s.cans[l0].npix = 0 THEN s
        ELSE IF l0 = lmin THEN s
        ELSE IF s.cans[l0].flag THEN to
        ELSE [to EXCEPT !.cans[lmin] = Add(@, s.cans[l0]), !.cans[l0].flag = TRUE]

\* What shape_clip asks the sign of, times a positive factor: x2 + y2 and x2 * y2 - xy^2.
\* With no flux there is no center, and nothing compares.
xx(o) == o.flux * o.xxsum - o.xsum * o.xsum
yy(o) == o.flux * o.yysum - o.ysum * o.ysum
xy(o) == o.flux * o.xysum - o.xsum * o.ysum
Shaped(o) == o.flux # 0 /\ xx(o) + yy(o) >= 0 /\ xx(o) * yy(o) >= xy(o) * xy(o)

-----------------------------------------------------------------------------
GLInit == /\ value \in Pictures
          /\ bright \in SUBSET Pixel
          /\ ucs \in BOOLEAN
          /\ phase = "subtracted"
          /\ flagmap = << >> /\ lastid = 0
          /\ cans = << >> /\ labels = << >> /\ nfobj = {}

Label == /\ phase = "subtracted"
         /\ \E memory \in [Pixel -> Memory] :
               /\ flagmap' = init_glob(memory).map
               /\ lastid' = init_glob(memory).last
         /\ phase' = "labelled"
         /\ UNCHANGED <<value, bright, ucs, cans, labels, nfobj>>

Merged == FoldLeft(MergeAt, [map |-> flagmap, cans |-> Gather,
                             lab |-> [l \in 1 .. lastid |-> l]], Scan)

\* Steps 1 to 4.  DoIt leaves group_glob out when nothing has a label; a label beyond
\* the last that was given is an index beyond the candidates, and undefined.
Group == /\ phase = "labelled" /\ lastid > 0
         /\ \A p \in Pixel : flagmap[p] \in 0 .. lastid
         /\ \E s \in {Merged} :
               /\ cans' = s.cans
               /\ labels' = s.lab
               /\ flagmap' = [p \in Pixel |->
                    LET l == s.map[p]
                    IN  IF l # 0 /\ s.cans[l].npix # 0 /\ s.cans[l].flag THEN s.lab[l]
                        ELSE l]
         /\ phase' = "grouped"
         /\ UNCHANGED <<value, bright, ucs, lastid, nfobj>>

Candidate == {l \in 1 .. lastid : cans[l].npix # 0 /\ ~cans[l].flag}

\* Steps 5 and 6: an object has a size within the limits and a shape, which a line of
\* pixels has only by the rounding of its sums, and a signal-to-noise ratio that is high
\* enough or not.
Select == /\ phase = "grouped"
          /\ LET fit == {l \in Candidate : /\ area0 # 0 => cans[l].npix >= area0
                                           /\ area1 # 0 => cans[l].npix <= area1
                                           /\ Shaped(cans[l])}
             IN  \E kept \in SUBSET fit : nfobj' = {cans[l] : l \in kept}
          /\ phase' = "done"
          /\ UNCHANGED <<value, bright, ucs, flagmap, lastid, cans, labels>>

GLNext == Label \/ Group \/ Select

GLSpec == GLInit /\ [][GLNext]_glVars

(* ------------------------------ properties ------------------------------ *)

\* The labels that lead nowhere else, and the pixels that have a label.
Ends == {l \in 1 .. lastid : ~cans[l].flag}
Marked == {p \in Pixel : flagmap[p] # 0}

\* Whatever the values of the pixels, whatever was rejected and in whatever order labels
\* are redirected: the sums that are left divide the pixels that have a label, none lost
\* and none summed twice; the pixels above the threshold are among them, and in memory
\* that is zero there are no others.  npix leaves out what was rejected by itself, also
\* where a later merge brought its flux back.
PixelsCountedOnce ==
    phase = "grouped" =>
      /\ UNION {cans[l].pix : l \in Ends} = Marked
      /\ \A l, m \in Ends : l # m => cans[l].pix \cap cans[m].pix = {}
      /\ \A l \in Ends : cans[l].npix = Cardinality(cans[l].pix \ cans[l].out)
      /\ bright \subseteq Marked
      /\ Memory = {0} => bright = Marked

\* ADIReduct.cpp:759 has false signals removed before the stars that were split are put
\* together, and line 774 has step 3 leave bad pixels out.  It fails where the label of a
\* false signal is the least around a pixel of another candidate: the merge adds that
\* one to it, and it is a candidate again, with the flux it was rejected for.
RejectedStayOut == phase = "grouped" => \A l \in Candidate : cans[l].out = {}

\* ADIReduct.cpp:731 has the pixels above the threshold take part in the candidates.
\* It fails in memory that is not zero: the cells of the other pixels are never written,
\* and group_glob adds every pixel whose cell is not 0.
OnlyBrightCounted == phase = "grouped" => \A l \in Candidate : cans[l].pix \subseteq bright

Touch(p, q) == p[1] - q[1] \in -1 .. 1 /\ p[2] - q[2] \in -1 .. 1

\* ADIReduct.h:206 has objects grouped by 8-connected regions, and step 3 of group_glob
\* is to put together a star that was split: no two candidates touch.  It fails where two
\* arms meet at their lower end only, as a pixel looks at its row and the one above.
SplitStarsMerge ==
    phase = "grouped" =>
      \A l, m \in Candidate : l # m => \A p \in cans[l].pix, q \in cans[m].pix : ~Touch(p, q)
=============================================================================
