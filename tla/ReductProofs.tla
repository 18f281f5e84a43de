---------------------------- MODULE ReductProofs ----------------------------
(***************************************************************************)
(* Proofs about the image reduction of airs1.                              *)
(*                                                                         *)
(* Reduct, for images of any sizes and masks: one after the other in the   *)
(* same buffers, an image of two rows and columns of cells or more, each   *)
(* with enough good pixels, is reduced from itself alone.  Every step      *)
(* reads cells of the present grid only, all of which back_make wrote.     *)
(*                                                                         *)
(* GlobLabel, for pictures of any size, pixels of any value and memory of  *)
(* any content: the sums that group_glob leaves divide the pixels that     *)
(* have a label.  The argument: a bright pixel is given a label, that of a *)
(* neighbour before it or the next; gathering adds every pixel that has a  *)
(* label to that label once; a redirection goes to a smaller label that is *)
(* not redirected itself, and the sums move with the first one.  So a      *)
(* label that leads nowhere else has the pixels of every label that leads  *)
(* to it, once, and npix counts those of the ones not rejected.            *)
(***************************************************************************)
EXTENDS Reduct, GlobLabel, FiniteSetTheorems, TLAPS

(* ------------------------------- Reduct --------------------------------- *)

\* The steps at which the image is read and not yet subtracted from.
Raw == {"set", "allocated", "scanned", "made", "filtered"}

\* The buffers have room for the cells of the image, once they were looked at.
RoomOK == /\ rows \in Nat /\ cols \in Nat /\ size \in Nat /\ nbk \in Nat
          /\ step \in {"allocated", "scanned", "made", "filtered"} => size <= nbk

\* Until the background is subtracted, an image that could be read is what was read.
RawOK == step \in Raw /\ read => \A p \in Pixels : dataimg[p] = {img}

\* The background of every cell is made from the image, and stays so under the filter.
GridOK == Whole /\ step \in {"made", "filtered", "subtracted"} =>
            \A k \in Cells : bkmean[k] = {img} /\ bksig[k] = {img}

\* And so is what is left of every pixel that is not masked.
ImageOK == Whole /\ step \in {"subtracted", "idle"} =>
             \A p \in Pixels \ dark : dataimg[p] = {img}

ReductInv == RoomOK /\ RawOK /\ GridOK /\ ImageOK

\* The cells of a grid are counted by a natural number.
LEMMA ProductInNat ==
  ASSUME NEW a \in Nat, NEW b \in Nat
  PROVE  a * b \in Nat
OBVIOUS

\* No image yet: no cells and no pixels.
LEMMA ReductStart == RDInit => ReductInv
<1> SUFFICES ASSUME RDInit
             PROVE  ReductInv
  OBVIOUS
<1>1. RoomOK
  BY DEF RDInit, RoomOK, size
<1> QED
  BY <1>1 DEF RDInit, ReductInv, RawOK, GridOK, ImageOK, Raw, Whole

\* Whether an image is whole depends on its pixels, its size and its mask.
LEMMA WholeStays ==
  ASSUME UNCHANGED <<read, rows, cols, lone, dark>>
  PROVE  /\ Whole' <=> Whole
         /\ size' = size
         /\ \A c : back_stat(c)' <=> back_stat(c)
<1>1. \A c : back_stat(c)' <=> back_stat(c)
  BY DEF back_stat, PixelsOf
<1>2. size' = size
  BY DEF size
<1> QED
  BY <1>1, <1>2, Zenon DEF Whole, Cells

\* A new image is in its frame before anything is computed from it.
LEMMA SetImageKeeps ==
  ASSUME ReductInv, SetImage
  PROVE  ReductInv'
<1>1. RoomOK'
  <2>1. /\ rows' \in 1 .. MaxRows /\ cols' \in 1 .. MaxCols
        /\ nbk' = nbk /\ step' \in {"set", "crashed"}
    BY Zenon DEF SetImage
  <2>2. rows' \in Nat /\ cols' \in Nat
    BY <2>1, CellsAssumption
  <2>3. size' \in Nat
    BY <2>2, ProductInNat DEF size
  <2> QED
    BY <2>1, <2>2, <2>3 DEF ReductInv, RoomOK
<1>2. RawOK'
  BY DEF RawOK, Raw, Pixels, SetImage
<1>3. GridOK' /\ ImageOK'
  BY DEF GridOK, ImageOK, SetImage
<1> QED
  BY <1>1, <1>2, <1>3 DEF ReductInv

\* The buffers grow to the size of the image; the image is not touched.
LEMMA AllocKeeps ==
  ASSUME ReductInv, alloc_buffer
  PROVE  ReductInv'
<1>1. RoomOK'
  BY DEF ReductInv, RoomOK, size, alloc_buffer
<1>2. RawOK'
  BY DEF ReductInv, RawOK, Raw, Pixels, size, alloc_buffer
<1>3. GridOK' /\ ImageOK'
  BY DEF GridOK, ImageOK, alloc_buffer
<1> QED
  BY <1>1, <1>2, <1>3 DEF ReductInv

\* The mask is made from the image.
LEMMA ScanKeeps ==
  ASSUME ReductInv, scan_image
  PROVE  ReductInv'
<1>1. RoomOK'
  BY DEF ReductInv, RoomOK, size, scan_image
<1>2. RawOK'
  BY DEF ReductInv, RawOK, Raw, Pixels, size, scan_image
<1>3. GridOK' /\ ImageOK'
  BY DEF GridOK, ImageOK, scan_image
<1> QED
  BY <1>1, <1>2, <1>3 DEF ReductInv

\* What all places hold is in their union, and nothing else is.
LEMMA UnionOfSame ==
  ASSUME NEW b, NEW S, NEW x, S # {}, \A k \in S : b[k] = {x}
  PROVE  UNION {b[k] : k \in S} = {x}
OBVIOUS

\* A cell with enough good pixels gets the statistics of its own pixels, which are in
\* the image.
LEMMA MakeKeeps ==
  ASSUME ReductInv, back_make
  PROVE  ReductInv'
<1>1. RoomOK'
  BY DEF ReductInv, RoomOK, size, back_make
<1>2. RawOK'
  BY DEF ReductInv, RawOK, Raw, Pixels, size, back_make
<1>3. ImageOK'
  BY DEF ImageOK, back_make
<1>4. GridOK'
  <2>1. (Whole' <=> Whole) /\ size' = size
    BY WholeStays DEF back_make
  <2> SUFFICES ASSUME Whole, NEW k \in Cells
               PROVE  bkmean'[k] = {img} /\ bksig'[k] = {img}
    BY <2>1 DEF GridOK, Cells, back_make
  <2>2. k \in 1 .. nbk /\ k \in 1 .. size /\ size \in Nat
    BY DEF ReductInv, RoomOK, Cells, back_make
  <2>3. back_stat(k)
    BY DEF Whole
  <2>4. \A p \in PixelsOf(k) : dataimg[p] = {img}
    <3>1. PixelsOf(k) \subseteq Pixels
      BY <2>2 DEF PixelsOf, Pixels
    <3>2. \A p \in Pixels : dataimg[p] = {img}
      BY DEF ReductInv, RawOK, Raw, Whole, back_make
    <3> QED
      BY <3>1, <3>2
  <2>5. PixelsOf(k) # {}
    BY DEF PixelsOf
  <2>6. Computed(k) = {img} /\ back_guess(k) = {img}
    BY <2>4, <2>5, UnionOfSame DEF Computed, back_guess, Whole
  <2> QED
    BY <2>2, <2>3, <2>6 DEF back_make
<1> QED
  BY <1>1, <1>2, <1>3, <1>4 DEF ReductInv

\* The filter reads cells of the present grid only, and the cell itself is one.
LEMMA FilterKeeps ==
  ASSUME ReductInv, back_filter
  PROVE  ReductInv'
<1>1. RoomOK'
  BY DEF ReductInv, RoomOK, size, back_filter
<1>2. RawOK'
  BY DEF ReductInv, RawOK, Raw, Pixels, size, back_filter
<1>3. ImageOK'
  BY DEF ImageOK, back_filter
<1>4. GridOK'
  <2>1. (Whole' <=> Whole) /\ size' = size
    BY WholeStays DEF back_filter
  <2> SUFFICES ASSUME Whole, NEW k \in Cells
               PROVE  bkmean'[k] = {img} /\ bksig'[k] = {img}
    BY <2>1 DEF GridOK, Cells, back_filter
  <2>2. k \in 1 .. nbk /\ k \in 1 .. size /\ size \in Nat
    BY DEF ReductInv, RoomOK, Cells, back_filter
  <2>3. \A j \in Cells : bkmean[j] = {img} /\ bksig[j] = {img}
    BY DEF ReductInv, GridOK, back_filter
  <2>4. NextTo(k) # {} /\ NextTo(k) \subseteq Cells
    <3>1. RowOf(k) \in Int /\ ColOf(k) \in Int
      BY <2>2 DEF ReductInv, RoomOK, Whole, RowOf, ColOf, back_filter
    <3>2. RowOf(k) - RowOf(k) \in -1 .. 1 /\ ColOf(k) - ColOf(k) \in -1 .. 1
      BY <3>1
    <3> QED
      BY <3>2 DEF NextTo
  <2>5. /\ UNION {bkmean[j] : j \in NextTo(k)} = {img}
        /\ UNION {bksig[j] : j \in NextTo(k)} = {img}
    BY <2>3, <2>4, UnionOfSame
  <2>6. Around(bkmean, k) = {img} /\ Around(bksig, k) = {img}
    BY <2>5 DEF Around
  <2>7. PICK changed \in SUBSET Cells :
          /\ bkmean' = [j \in 1 .. nbk |-> IF j \in changed THEN Around(bkmean, j) ELSE bkmean[j]]
          /\ bksig' = [j \in 1 .. nbk |-> IF j \in changed THEN Around(bksig, j) ELSE bksig[j]]
    BY Zenon DEF back_filter
  <2> QED
    BY <2>2, <2>3, <2>6, <2>7
<1> QED
  BY <1>1, <1>2, <1>3, <1>4 DEF ReductInv

\* The background at a pixel depends on the cells of the present grid only.
LEMMA SubKeeps ==
  ASSUME ReductInv, sub_back
  PROVE  ReductInv'
<1>1. RoomOK'
  BY DEF ReductInv, RoomOK, size, sub_back
<1>2. RawOK'
  BY DEF RawOK, Raw, sub_back
<1>3. (Whole' <=> Whole) /\ size' = size
  BY WholeStays DEF sub_back
<1>4. GridOK'
  BY <1>3 DEF ReductInv, GridOK, Cells, sub_back
<1>5. ImageOK'
  <2> SUFFICES ASSUME Whole, NEW p \in Pixels, p \notin dark
               PROVE  dataimg'[p] = {img}
    BY <1>3 DEF ImageOK, Pixels, sub_back
  <2>1. dataimg[p] = {img}
    BY DEF ReductInv, RawOK, Raw, Whole, sub_back
  <2>2. \A k \in Cells : bkmean[k] = {img}
    BY DEF ReductInv, GridOK, sub_back
  <2>3. Cells # {}
    <3>1. size \in Nat /\ size # 0
      BY DEF ReductInv, RoomOK, Pixels
    <3> QED
      BY <3>1 DEF Cells
  <2>4. Spline(bkmean) = {img}
    <3>1. rows # 1 /\ cols # 1
      BY DEF Whole
    <3> QED
      BY <2>2, <2>3, <3>1, UnionOfSame DEF Spline
  <2>5. dataimg'[p] = dataimg[p] \cup Spline(bkmean)
    BY DEF sub_back
  <2> QED
    BY <2>1, <2>4, <2>5
<1> QED
  BY <1>1, <1>2, <1>4, <1>5 DEF ReductInv

\* The filter writes the other buffer.
LEMMA ConvolveKeeps ==
  ASSUME ReductInv, filter_convolve
  PROVE  ReductInv'
<1>1. RoomOK' /\ RawOK' /\ GridOK'
  BY DEF ReductInv, RoomOK, RawOK, Raw, GridOK, size, filter_convolve
<1>2. (Whole' <=> Whole) /\ size' = size
  BY WholeStays DEF filter_convolve
<1>3. ImageOK'
  BY <1>2 DEF ReductInv, ImageOK, Pixels, filter_convolve
<1> QED
  BY <1>1, <1>3 DEF ReductInv

\* The invariant is inductive.
LEMMA ReductKeeps ==
  ASSUME ReductInv, [RDNext]_rdVars
  PROVE  ReductInv'
<1>1. CASE UNCHANGED rdVars
  <2>1. (Whole' <=> Whole) /\ size' = size
    BY <1>1, WholeStays DEF rdVars
  <2> QED
    BY <1>1, <2>1 DEF ReductInv, RoomOK, RawOK, GridOK, ImageOK, Pixels, Cells, rdVars
<1> QED
  BY <1>1, SetImageKeeps, AllocKeeps, ScanKeeps, MakeKeeps, FilterKeeps, SubKeeps, ConvolveKeeps
     DEF RDNext

\* An image of two rows and columns of cells or more, with enough good pixels in every
\* cell, is reduced from itself alone, whatever images of whatever sizes, thin ones among
\* them, went through the same buffers before.
THEOREM ImageOfItself == RDSpec => []ReducedFromItself
<1>1. ReductInv => ReducedFromItself
  <2> SUFFICES ASSUME ReductInv, Whole
               PROVE  /\ step \in {"made", "filtered", "subtracted"} =>
                           \A k \in Cells : bkmean[k] = {img} /\ bksig[k] = {img}
                      /\ step \in {"subtracted", "idle"} =>
                           \A p \in Pixels \ dark : dataimg[p] = {img}
    BY DEF ReducedFromItself
  <2> QED
    BY DEF ReductInv, GridOK, ImageOK
<1> QED
  BY <1>1, ReductStart, ReductKeeps, PTL DEF RDSpec

(* ----------------------- GlobLabel: the labels -------------------------- *)

Before(a, b) == a[2] < b[2] \/ (a[2] = b[2] /\ a[1] < b[1])

\* The next row starts a whole row later.
LEMMA MulUp ==
  ASSUME NEW w \in Nat, NEW q \in Int, NEW y \in Int, q + 1 <= y
  PROVE  w * q + w <= w * y
<1>1. w * (y - (q + 1)) >= 0
  <2>1. y - (q + 1) \in Nat
    OBVIOUS
  <2>2. \A a, b \in Nat : a * b >= 0
    OBVIOUS
  <2> QED
    BY <2>1, <2>2
<1>2. w * (y - (q + 1)) = w * y - w * q - w
  OBVIOUS
<1>3. w * y \in Int /\ w * q \in Int
  OBVIOUS
<1> QED
  BY <1>1, <1>2, <1>3

\* Division with remainder,
LEMMA Divide ==
  ASSUME NEW w \in Nat \ {0}, NEW a \in Nat
  PROVE  /\ a \div w \in Nat /\ a % w \in 0 .. w - 1
         /\ a = w * (a \div w) + (a % w)
  OBVIOUS

\* and there is one quotient and one remainder.
LEMMA DivideOne ==
  ASSUME NEW w \in Nat \ {0}, NEW q \in Int, NEW r \in 0 .. w - 1,
         NEW y \in Int, NEW x \in 0 .. w - 1, w * q + r = w * y + x
  PROVE  q = y /\ r = x
<1>1. w * q \in Int /\ w * y \in Int
  OBVIOUS
<1>2. ~ (q + 1 <= y)
  <2>1. q + 1 <= y => w * q + w <= w * y
    BY MulUp
  <2> QED
    BY <1>1, <2>1
<1>3. ~ (y + 1 <= q)
  <2>1. y + 1 <= q => w * y + w <= w * q
    BY MulUp
  <2> QED
    BY <1>1, <2>1
<1>4. q = y
  BY <1>2, <1>3
<1> QED
  BY <1>1, <1>4

\* The kth place of the scan, counted from 0, is its column and its row times the width.
LEMMA ScanOf ==
  /\ wdim * hdim \in Nat /\ DOMAIN Scan = 1 .. (wdim * hdim)
  /\ \A k \in 1 .. (wdim * hdim) :
       /\ Scan[k] = <<Scan[k][1], Scan[k][2]>>
       /\ Scan[k][1] \in 0 .. wdim - 1 /\ Scan[k][2] \in Nat
       /\ k - 1 = wdim * Scan[k][2] + Scan[k][1]
<1>1. wdim * hdim \in Nat
  BY ImageAssumption
<1>2. DOMAIN Scan = 1 .. (wdim * hdim)
  BY DEF Scan
<1>3. ASSUME NEW k \in 1 .. (wdim * hdim)
      PROVE  /\ Scan[k] = <<Scan[k][1], Scan[k][2]>>
             /\ Scan[k][1] \in 0 .. wdim - 1 /\ Scan[k][2] \in Nat
             /\ k - 1 = wdim * Scan[k][2] + Scan[k][1]
  <2>1. Scan[k] = <<(k - 1) % wdim, (k - 1) \div wdim>>
    BY DEF Scan
  <2>2. k - 1 \in Nat
    BY <1>1
  <2>3. /\ (k - 1) \div wdim \in Nat /\ (k - 1) % wdim \in 0 .. wdim - 1
        /\ k - 1 = wdim * ((k - 1) \div wdim) + ((k - 1) % wdim)
    BY <2>2, Divide, ImageAssumption
  <2> DEFINE x == (k - 1) % wdim
             y == (k - 1) \div wdim
  <2> HIDE DEF x, y
  <2>4. Scan[k] = <<x, y>> /\ y \in Nat /\ x \in 0 .. wdim - 1 /\ k - 1 = wdim * y + x
    BY <2>1, <2>3 DEF x, y
  <2> QED
    BY <2>4
<1> QED
  BY <1>1, <1>2, <1>3

\* The scan stays in the image,
LEMMA ScanIn ==
  \A k \in 1 .. (wdim * hdim) : Scan[k] \in Pixel
<1> SUFFICES ASSUME NEW k \in 1 .. (wdim * hdim) PROVE Scan[k] \in Pixel
  OBVIOUS
<1> DEFINE x == Scan[k][1]
           y == Scan[k][2]
<1>1. /\ Scan[k] = <<x, y>> /\ x \in 0 .. wdim - 1 /\ y \in Nat
      /\ k - 1 = wdim * y + x /\ wdim * hdim \in Nat
  BY ScanOf
<1> HIDE DEF x, y
<1>2. ~ (hdim + 1 <= y + 1)
  <2>1. CASE hdim = y
    <3>1. wdim * hdim = wdim * y
      BY <2>1
    <3> QED
      BY <1>1, <3>1, ImageAssumption
  <2>2. CASE hdim + 1 <= y
    <3>1. wdim * hdim + wdim <= wdim * y
      BY <1>1, <2>2, MulUp, ImageAssumption
    <3>2. wdim * y \in Int
      BY <1>1, ImageAssumption
    <3> QED
      BY <1>1, <3>1, <3>2, ImageAssumption
  <2> QED
    BY <1>1, <2>1, <2>2, ImageAssumption
<1> QED
  BY <1>1, <1>2, ImageAssumption DEF Pixel

\* goes along the rows one after the other,
LEMMA ScanOrder ==
  ASSUME NEW i \in 1 .. (wdim * hdim), NEW j \in 1 .. (wdim * hdim), i < j
  PROVE  Before(Scan[i], Scan[j])
<1> DEFINE x == Scan[i][1]
           y == Scan[i][2]
           v == Scan[j][1]
           z == Scan[j][2]
<1>1. /\ x \in 0 .. wdim - 1 /\ y \in Nat /\ i - 1 = wdim * y + x
      /\ v \in 0 .. wdim - 1 /\ z \in Nat /\ j - 1 = wdim * z + v
      /\ wdim * hdim \in Nat
  BY ScanOf
<1>2. y < z \/ (y = z /\ x < v)
  <2> HIDE DEF x, y, v, z
  <2>1. wdim * y \in Int /\ wdim * z \in Int
    BY <1>1, ImageAssumption
  <2>2. ~ (z + 1 <= y)
    <3>1. z + 1 <= y => wdim * z + wdim <= wdim * y
      BY <1>1, MulUp, ImageAssumption
    <3> QED
      BY <1>1, <2>1, <3>1, ImageAssumption
  <2>3. y = z => wdim * y = wdim * z
    OBVIOUS
  <2> QED
    BY <1>1, <2>1, <2>2, <2>3, ImageAssumption
<1> QED
  BY <1>2 DEF Before

\* and comes to every pixel.
LEMMA ScanHits ==
  ASSUME NEW p \in Pixel
  PROVE  \E k \in 1 .. (wdim * hdim) : Scan[k] = p
<1>1. PICK x \in 0 .. wdim - 1, y \in 0 .. hdim - 1 : p = <<x, y>>
  BY DEF Pixel
<1> DEFINE k == wdim * y + x + 1
<1>2. wdim * y \in Nat /\ wdim * y + wdim <= wdim * hdim /\ wdim * hdim \in Nat
  <2>1. y + 1 <= hdim
    BY ImageAssumption
  <2> QED
    BY <2>1, MulUp, ImageAssumption
<1>3. k \in 1 .. (wdim * hdim)
  BY <1>2, ImageAssumption
<1>4. Scan[k] = p
  <2> HIDE DEF k
  <2>1. /\ Scan[k] = <<Scan[k][1], Scan[k][2]>>
        /\ Scan[k][1] \in 0 .. wdim - 1 /\ Scan[k][2] \in Nat
        /\ k - 1 = wdim * Scan[k][2] + Scan[k][1]
    BY <1>3, ScanOf
  <2>2. k - 1 = wdim * y + x
    BY <1>2, ImageAssumption DEF k
  <2>3. Scan[k][2] = y /\ Scan[k][1] = x
    <3> DEFINE q == Scan[k][2]
               r == Scan[k][1]
    <3>1. q \in Int /\ y \in Int /\ r \in 0 .. wdim - 1 /\ wdim * q + r = wdim * y + x
      BY <2>1, <2>2
    <3> HIDE DEF q, r
    <3>2. q = y /\ r = x
      BY <3>1, DivideOne, ImageAssumption
    <3> QED
      BY <3>2 DEF q, r
  <2> QED
    BY <1>1, <2>1, <2>3
<1> QED
  BY <1>3, <1>4

\* What step 3 does to one pixel, case by case.
LEMMA MergeCases ==
  ASSUME NEW s, NEW p
  PROVE  LET l0 == s.map[p]
             lm == Root(s.lab, minimum_label(s.map, p))
             to == [s EXCEPT !.map[p] = lm, !.lab[l0] = lm]
             u == [to EXCEPT !.cans[lm] = Add(@, s.cans[l0]), !.cans[l0].flag = TRUE]
         IN  /\ l0 = 0 \/ s.cans[l0].npix = 0 \/ l0 = lm => MergeAt(s, p) = s
             /\ ~ (l0 = 0 \/ s.cans[l0].npix = 0 \/ l0 = lm) =>
                  MergeAt(s, p) = IF s.cans[l0].flag THEN to ELSE u
<1> DEFINE l0 == s.map[p]
           lm == Root(s.lab, minimum_label(s.map, p))
           to == [s EXCEPT !.map[p] = lm, !.lab[l0] = lm]
           u == [to EXCEPT !.cans[lm] = Add(@, s.cans[l0]), !.cans[l0].flag = TRUE]
<1>1. ASSUME l0 = 0 \/ s.cans[l0].npix = 0 \/ l0 = lm
      PROVE  MergeAt(s, p) = s
  BY <1>1 DEF MergeAt
<1>2. ASSUME ~ (l0 = 0 \/ s.cans[l0].npix = 0 \/ l0 = lm)
      PROVE  MergeAt(s, p) = IF s.cans[l0].flag THEN to ELSE u
  BY <1>2 DEF MergeAt
<1> QED
  BY Zenon, <1>1, <1>2

-----------------------------------------------------------------------------
Seen(k, p) == \E i \in 1 .. k : Scan[i] = p

\* After k pixels of the scan: a bright pixel that was seen has a label, and the cell of
\* a dark one is as the memory was.
LabelInv(k, s) ==
  /\ s = [map |-> s.map, last |-> s.last]
  /\ s.last \in Nat /\ s.map = [p \in Pixel |-> s.map[p]]
  /\ \A p \in Pixel : p \in bright /\ Seen(k, p) => s.map[p] > 0
  /\ \A p \in Pixel : p \notin bright => s.map[p] \in Memory

LabelLoop == INSTANCE Loops WITH Body <- LabelAt, Keeps <- LabelInv

\* A pixel is its column and its row.
LEMMA PixelIs ==
  ASSUME NEW p \in Pixel
  PROVE  p = <<p[1], p[2]>> /\ p[1] \in 0 .. wdim - 1 /\ p[2] \in 0 .. hdim - 1
         /\ p[1] \in Int /\ p[2] \in Int
  BY ImageAssumption DEF Pixel

\* The order of the scan.
LEMMA Order ==
  /\ \A p \in Pixel : ~ Before(p, p)
  /\ \A p, q \in Pixel : Before(p, q) => ~ Before(q, p)
  /\ \A p, q \in Pixel : p = q \/ Before(p, q) \/ Before(q, p)
<1>1. ASSUME NEW p \in Pixel PROVE ~ Before(p, p)
  BY PixelIs DEF Before
<1>2. ASSUME NEW p \in Pixel, NEW q \in Pixel, Before(p, q) PROVE ~ Before(q, p)
  BY <1>2, PixelIs DEF Before
<1>3. ASSUME NEW p \in Pixel, NEW q \in Pixel PROVE p = q \/ Before(p, q) \/ Before(q, p)
  <2>1. p = <<p[1], p[2]>> /\ q = <<q[1], q[2]>>
        /\ p[1] \in Int /\ p[2] \in Int /\ q[1] \in Int /\ q[2] \in Int
    BY PixelIs
  <2>2. p[1] = q[1] /\ p[2] = q[2] => p = q
    BY <2>1
  <2> QED
    BY <2>1, <2>2 DEF Before
<1> QED
  BY <1>1, <1>2, <1>3

\* What was seen is before what is seen next.
LEMMA SeenNext ==
  ASSUME NEW k \in 1 .. (wdim * hdim)
  PROVE  /\ Scan[k] \in Pixel /\ ~ Seen(k - 1, Scan[k])
         /\ \A p \in Pixel : Seen(k, p) <=> Seen(k - 1, p) \/ p = Scan[k]
         /\ \A p \in Pixel : Seen(k - 1, p) => Before(p, Scan[k])
<1>1. k \in Nat /\ 1 <= k /\ k <= wdim * hdim /\ wdim * hdim \in Nat
  BY ScanOf
<1>2. Scan[k] \in Pixel
  BY ScanIn
<1>3. ASSUME NEW p \in Pixel, Seen(k - 1, p) PROVE Before(p, Scan[k])
  <2>1. PICK i \in 1 .. (k - 1) : Scan[i] = p
    BY <1>3 DEF Seen
  <2>2. i \in 1 .. (wdim * hdim) /\ i < k
    BY <1>1
  <2> QED
    BY <2>1, <2>2, ScanOrder
<1>4. ~ Seen(k - 1, Scan[k])
  BY <1>2, <1>3, Order
<1>5. 1 .. k = (1 .. (k - 1)) \cup {k}
  BY <1>1
<1>6. \A p \in Pixel : Seen(k, p) <=> Seen(k - 1, p) \/ p = Scan[k]
  BY <1>5 DEF Seen
<1> QED
  BY <1>2, <1>3, <1>4, <1>6

\* Min is the least of some naturals.
LEMMA LeastIs ==
  ASSUME NEW S \in SUBSET Nat, S # {}
  PROVE  Min(S) \in S /\ \A k \in S : Min(S) <= k
<1>1. PICK m \in S : \A k \in S : m <= k
  BY LabelLoop!LeastOf
<1> QED
  BY <1>1 DEF Min

\* A label that is found or new is no 0, and is the only one that is written.
LEMMA LabelStep ==
  ASSUME NEW k \in 1 .. (wdim * hdim), NEW x, LabelInv(k - 1, x)
  PROVE  LabelInv(k, LabelAt(x, Scan[k]))
<1> DEFINE p == Scan[k]
<1>1. /\ p \in Pixel
      /\ \A q \in Pixel : Seen(k, q) <=> Seen(k - 1, q) \/ q = p
  BY SeenNext
<1> HIDE DEF p
<1>2. /\ x = [map |-> x.map, last |-> x.last]
      /\ x.last \in Nat /\ x.map = [q \in Pixel |-> x.map[q]]
      /\ \A q \in Pixel : q \in bright /\ Seen(k - 1, q) => x.map[q] > 0
      /\ \A q \in Pixel : q \notin bright => x.map[q] \in Memory
  BY DEF LabelInv
<1>3. CASE p \notin bright
  <2>1. LabelAt(x, p) = x
    BY <1>3 DEF LabelAt
  <2> QED
    BY <1>1, <1>2, <1>3, <2>1 DEF LabelInv, p
<1>4. CASE p \in bright
  <2>1. ASSUME NEW l, NEW n \in Nat, l > 0,
               LabelAt(x, p) = [map |-> [x.map EXCEPT ![p] = l], last |-> n]
        PROVE  LabelInv(k, LabelAt(x, p))
    <3> DEFINE y == LabelAt(x, p)
    <3>1. y.map = [x.map EXCEPT ![p] = l] /\ y.last = n /\ y = [map |-> y.map, last |-> y.last]
      BY <2>1
    <3> HIDE DEF y
    <3>2. y.map = [q \in Pixel |-> y.map[q]] /\ y.map[p] = l /\ \A q \in Pixel : q # p => y.map[q] = x.map[q]
      BY <1>1, <1>2, <3>1
    <3>3. \A q \in Pixel : q \in bright /\ Seen(k, q) => y.map[q] > 0
      BY <1>1, <1>2, <2>1, <3>2
    <3>4. \A q \in Pixel : q \notin bright => y.map[q] \in Memory
      BY <1>2, <1>4, <3>2
    <3> QED
      BY <3>1, <3>2, <3>3, <3>4 DEF LabelInv, y
  <2> DEFINE F == Labelled(x.map, p)
  <2>2. LabelAt(x, p) =
          IF F = {} THEN [map |-> [x.map EXCEPT ![p] = x.last + 1], last |-> x.last + 1]
          ELSE [x EXCEPT !.map[p] = x.map[Passed(p)[Min(F)]]]
    BY <1>4 DEF LabelAt, init_label
  <2>3. F \in SUBSET Nat /\ \A i \in F : x.map[Passed(p)[i]] > 0
    BY DEF Labelled
  <2> HIDE DEF F
  <2>4. CASE F = {}
    <3>1. x.last + 1 \in Nat /\ x.last + 1 > 0
      BY <1>2
    <3> QED
      BY <2>1, <2>2, <2>4, <3>1 DEF p
  <2>5. CASE F # {}
    <3> DEFINE l == x.map[Passed(p)[Min(F)]]
    <3>1. Min(F) \in F
      BY <2>3, <2>5, LeastIs
    <3>2. l > 0
      BY <2>3, <3>1
    <3> HIDE DEF l
    <3>3. LabelAt(x, p) = [x EXCEPT !.map[p] = l]
      BY <2>2, <2>5 DEF l
    <3>4. [x EXCEPT !.map[p] = l] = [map |-> [x.map EXCEPT ![p] = l], last |-> x.last]
      BY <1>2
    <3> QED
      BY <1>2, <2>1, <3>2, <3>3, <3>4 DEF p
  <2> QED
    BY <2>4, <2>5 DEF p
<1> QED
  BY <1>3, <1>4 DEF p

\* FoldLeft is the same operator inside the instance.
LEMMA SameFold ==
  \A s, base : FoldLeft(LabelAt, base, s) = LabelLoop!FoldLeft(LabelAt, base, s)
  BY Zenon DEF FoldLeft, MapThenFoldSet, LabelLoop!FoldLeft, LabelLoop!MapThenFoldSet,
               Max, LabelLoop!Max

\* What init_glob leaves in the cells.
Labelling(map, last) ==
  /\ last \in Nat /\ map = [p \in Pixel |-> map[p]]
  /\ \A p \in Pixel : p \in bright => map[p] > 0
  /\ \A p \in Pixel : p \notin bright => map[p] \in Memory

LEMMA InitGlob ==
  ASSUME NEW memory \in [Pixel -> Memory]
  PROVE  Labelling(init_glob(memory).map, init_glob(memory).last)
<1> DEFINE base == [map |-> memory, last |-> 0]
           s == init_glob(memory)
<1>1. wdim * hdim \in Nat /\ DOMAIN Scan = 1 .. (wdim * hdim)
  BY ScanOf
<1>2. LabelInv(0, base)
  <2>1. \A p \in Pixel : ~ Seen(0, p)
    BY DEF Seen
  <2>2. base.map = memory /\ base.last = 0 /\ base = [map |-> base.map, last |-> base.last]
    OBVIOUS
  <2> HIDE DEF base
  <2> QED
    BY <2>1, <2>2 DEF LabelInv
<1> HIDE DEF base
<1>3. \A k \in 1 .. (wdim * hdim) :
        \A x : LabelInv(k - 1, x) => LabelInv(k, LabelAt(x, Scan[k]))
  BY LabelStep
<1>4. LabelInv(wdim * hdim, LabelLoop!FoldLeft(LabelAt, base, Scan))
  BY <1>1, <1>2, <1>3, LabelLoop!FoldKeeps
<1>5. LabelInv(wdim * hdim, s)
  BY <1>4, SameFold DEF init_glob, base
<1>6. \A p \in Pixel : Seen(wdim * hdim, p)
  BY ScanHits DEF Seen
<1> HIDE DEF s
<1> QED
  BY <1>5, <1>6 DEF LabelInv, Labelling, s

-----------------------------------------------------------------------------
\* What a candidate is made of.
IsCan(o) == DOMAIN o = {"flag", "npix", "pix", "out", "peak", "flux",
                        "xsum", "ysum", "xxsum", "xysum", "yysum"}

\* Sets of pixels can be counted.
LEMMA FinitePixels ==
  \A P \in SUBSET Pixel : IsFiniteSet(P) /\ Cardinality(P) \in Nat
                          /\ (Cardinality(P) = 0 <=> P = {})
<1>1. IsFiniteSet(0 .. wdim - 1) /\ IsFiniteSet(0 .. hdim - 1)
  BY FS_Interval, ImageAssumption
<1>2. IsFiniteSet(Pixel)
  BY <1>1, FS_Product DEF Pixel
<1> QED
  BY <1>2, FS_Subset, FS_CardinalityType, FS_EmptySet

\* What group_glob asks of the labels before it uses them as indices.
InRange == lastid \in Nat /\ flagmap \in [Pixel -> 0 .. lastid]

\* After k pixels of step 1.
GatherInv(k, c) ==
  /\ DOMAIN c = 1 .. lastid
  /\ \A l \in 1 .. lastid :
       /\ IsCan(c[l]) /\ c[l].flag = FALSE /\ c[l].out = {}
       /\ c[l].pix = {p \in Pixel : flagmap[p] = l /\ Seen(k, p)}
       /\ c[l].npix = Cardinality(c[l].pix)

GatherLoop == INSTANCE Loops WITH Body <- GatherAt, Keeps <- GatherInv

\* FoldLeft is the same operator inside the instance.
LEMMA SameGather ==
  \A s, base : FoldLeft(GatherAt, base, s) = GatherLoop!FoldLeft(GatherAt, base, s)
  BY Zenon DEF FoldLeft, MapThenFoldSet, GatherLoop!FoldLeft, GatherLoop!MapThenFoldSet,
               Max, GatherLoop!Max

\* What AddPoint makes of a candidate.
LEMMA AddPointIs ==
  ASSUME NEW o, NEW p, IsCan(o)
  PROVE  /\ IsCan(AddPoint(o, p)) /\ AddPoint(o, p).flag = o.flag
         /\ AddPoint(o, p).npix = o.npix + 1 /\ AddPoint(o, p).pix = o.pix \cup {p}
         /\ AddPoint(o, p).out = o.out
<1>1. DOMAIN AddPoint(o, p) = DOMAIN o
  BY DEF AddPoint
<1>2. AddPoint(o, p).flag = o.flag
  BY DEF AddPoint, IsCan
<1>3. AddPoint(o, p).npix = o.npix + 1
  BY DEF AddPoint, IsCan
<1>4. AddPoint(o, p).pix = o.pix \cup {p}
  BY DEF AddPoint, IsCan
<1>5. AddPoint(o, p).out = o.out
  BY DEF AddPoint, IsCan
<1> QED
  BY <1>1, <1>2, <1>3, <1>4, <1>5 DEF IsCan

\* Step 1 adds each pixel to the candidate of its label.
LEMMA GatherStep ==
  ASSUME InRange, NEW k \in 1 .. (wdim * hdim), NEW c, GatherInv(k - 1, c)
  PROVE  GatherInv(k, GatherAt(c, Scan[k]))
<1> DEFINE p == Scan[k]
           d == GatherAt(c, p)
<1>1. /\ p \in Pixel /\ ~ Seen(k - 1, p)
      /\ \A q \in Pixel : Seen(k, q) <=> Seen(k - 1, q) \/ q = p
  BY SeenNext
<1> HIDE DEF p
<1>2. /\ DOMAIN c = 1 .. lastid
      /\ \A l \in 1 .. lastid :
           /\ IsCan(c[l]) /\ c[l].flag = FALSE /\ c[l].out = {}
           /\ c[l].pix = {q \in Pixel : flagmap[q] = l /\ Seen(k - 1, q)}
           /\ c[l].npix = Cardinality(c[l].pix)
  BY DEF GatherInv
<1>3. flagmap[p] \in 0 .. lastid /\ lastid \in Nat
  BY <1>1 DEF InRange
<1>4. \A l \in 1 .. lastid : l # flagmap[p] =>
        {q \in Pixel : flagmap[q] = l /\ Seen(k, q)}
          = {q \in Pixel : flagmap[q] = l /\ Seen(k - 1, q)}
  BY <1>1
<1>5. CASE flagmap[p] = 0
  <2>1. d = c
    BY <1>5 DEF GatherAt
  <2>2. \A l \in 1 .. lastid : l # flagmap[p]
    BY <1>5
  <2> HIDE DEF d
  <2>3. GatherInv(k, d)
    BY <1>2, <1>4, <2>1, <2>2 DEF GatherInv
  <2> QED
    BY <2>3 DEF d, p
<1>6. CASE flagmap[p] # 0
  <2> DEFINE m == flagmap[p]
             A == AddPoint(c[m], p)
  <2>1. d = [c EXCEPT ![m] = A]
    BY <1>6 DEF GatherAt
  <2>2. m \in 1 .. lastid
    BY <1>3, <1>6
  <2>3. /\ IsCan(A) /\ A.flag = FALSE /\ A.out = {} /\ A.npix = c[m].npix + 1
        /\ A.pix = c[m].pix \cup {p}
    BY <1>2, <2>2, AddPointIs
  <2>4. A.pix = {q \in Pixel : flagmap[q] = m /\ Seen(k, q)}
    <3>1. c[m].pix = {q \in Pixel : flagmap[q] = m /\ Seen(k - 1, q)}
      BY <1>2, <2>2
    <3> HIDE DEF A
    <3> QED
      BY <1>1, <2>3, <3>1
  <2>5. A.npix = Cardinality(A.pix)
    <3>1. c[m].pix \in SUBSET Pixel /\ p \notin c[m].pix
      BY <1>1, <1>2, <2>2
    <3>2. IsFiniteSet(c[m].pix)
      BY <3>1, FinitePixels
    <3> HIDE DEF A, m
    <3>3. Cardinality(c[m].pix \cup {p}) = Cardinality(c[m].pix) + 1
      BY <3>1, <3>2, FS_AddElement
    <3> QED
      BY <1>2, <2>2, <2>3, <3>3
  <2>6. DOMAIN d = 1 .. lastid /\ d[m] = A /\ \A l \in 1 .. lastid : l # m => d[l] = c[l]
    BY <1>2, <2>1, <2>2
  <2> HIDE DEF A, d
  <2>7. ASSUME NEW l \in 1 .. lastid
        PROVE  /\ IsCan(d[l]) /\ d[l].flag = FALSE /\ d[l].out = {}
               /\ d[l].pix = {q \in Pixel : flagmap[q] = l /\ Seen(k, q)}
               /\ d[l].npix = Cardinality(d[l].pix)
    <3>1. CASE l = m
      BY <2>3, <2>4, <2>5, <2>6, <3>1
    <3>2. CASE l # m
      <4>1. d[l] = c[l]
        BY <2>6, <3>2
      <4> QED
        BY <1>2, <1>4, <3>2, <4>1
    <3> QED
      BY <3>1, <3>2
  <2>8. GatherInv(k, d)
    BY <2>6, <2>7 DEF GatherInv
  <2> QED
    BY <2>8 DEF d, p
<1> QED
  BY <1>5, <1>6

\* What step 2 leaves of a label.
LEMMA GatherIs ==
  ASSUME InRange
  PROVE  /\ DOMAIN Gather = 1 .. lastid
         /\ \A l \in 1 .. lastid :
              /\ IsCan(Gather[l]) /\ Gather[l].flag = FALSE
              /\ Gather[l].pix = {p \in Pixel : flagmap[p] = l}
              /\ Gather[l].out \in SUBSET Gather[l].pix
              /\ Gather[l].npix = Cardinality(Gather[l].pix \ Gather[l].out)
<1> DEFINE base == [l \in 1 .. lastid |-> ObjectInfo]
           c == Gathered
<1>1. wdim * hdim \in Nat /\ DOMAIN Scan = 1 .. (wdim * hdim)
  BY ScanOf
<1>2. GatherInv(0, base)
  <2>1. \A l \in 1 .. lastid : {p \in Pixel : flagmap[p] = l /\ Seen(0, p)} = {}
    BY DEF Seen
  <2>2. Cardinality({}) = 0
    BY FS_EmptySet
  <2>3. IsCan(ObjectInfo) /\ ObjectInfo.flag = FALSE /\ ObjectInfo.out = {}
        /\ ObjectInfo.pix = {} /\ ObjectInfo.npix = 0
    BY DEF ObjectInfo, IsCan
  <2> QED
    BY <2>1, <2>2, <2>3 DEF GatherInv
<1> HIDE DEF base
<1>3. \A k \in 1 .. (wdim * hdim) :
        \A x : GatherInv(k - 1, x) => GatherInv(k, GatherAt(x, Scan[k]))
  BY GatherStep
<1>4. GatherInv(wdim * hdim, GatherLoop!FoldLeft(GatherAt, base, Scan))
  BY <1>1, <1>2, <1>3, GatherLoop!FoldKeeps
<1>5. GatherInv(wdim * hdim, c)
  BY <1>4, SameGather DEF Gathered, base
<1>6. Gather = [l \in 1 .. lastid |-> Reject(c[l])]
  BY DEF Gather
<1>7. \A p \in Pixel : Seen(wdim * hdim, p)
  BY ScanHits DEF Seen
<1> HIDE DEF c
<1>8. ASSUME NEW l \in 1 .. lastid
      PROVE  /\ IsCan(Gather[l]) /\ Gather[l].flag = FALSE
             /\ Gather[l].pix = {p \in Pixel : flagmap[p] = l}
             /\ Gather[l].out \in SUBSET Gather[l].pix
             /\ Gather[l].npix = Cardinality(Gather[l].pix \ Gather[l].out)
  <2> DEFINE o == c[l]
  <2>1. /\ IsCan(o) /\ o.flag = FALSE /\ o.out = {}
        /\ o.pix = {p \in Pixel : flagmap[p] = l} /\ o.npix = Cardinality(o.pix)
    BY <1>5, <1>7 DEF GatherInv
  <2> HIDE DEF o
  <2>2. Gather[l] = Reject(o)
    BY <1>6 DEF o
  <2>3. CASE ucs /\ o.peak >= o.flux
    <3> DEFINE r == [o EXCEPT !.npix = 0, !.out = o.pix]
    <3>1. Gather[l] = r
      BY <2>2, <2>3 DEF Reject
    <3>2. /\ IsCan(r) /\ r.flag = FALSE /\ r.pix = o.pix /\ r.out = o.pix /\ r.npix = 0
      BY <2>1 DEF IsCan
    <3> HIDE DEF r
    <3>3. r.pix \ r.out = {} /\ Cardinality({}) = 0
      BY <3>2, FS_EmptySet
    <3> QED
      BY <2>1, <3>1, <3>2, <3>3
  <2>4. CASE ~ (ucs /\ o.peak >= o.flux)
    <3>1. Gather[l] = o
      BY <2>2, <2>4 DEF Reject
    <3>2. o.pix \ o.out = o.pix
      BY <2>1
    <3> QED
      BY <2>1, <3>1, <3>2
  <2> QED
    BY <2>3, <2>4
<1>9. DOMAIN Gather = 1 .. lastid
  BY <1>6
<1> QED
  BY <1>8, <1>9

-----------------------------------------------------------------------------
\* Labels are redirected to lesser ones.
Downward(lab, n) == lab \in [1 .. n -> 1 .. n] /\ \A l \in 1 .. n : lab[l] <= l

RootTo(lab, n, f) == f = [k \in 1 .. n |-> IF lab[k] < k THEN f[lab[k]] ELSE k]

\* The function that follows the redirections is there.
LEMMA RootExists ==
  ASSUME NEW n \in Nat, NEW lab, Downward(lab, n)
  PROVE  \E f : RootTo(lab, n, f)
<1> DEFINE Bad == {m \in 0 .. n : ~ \E f : RootTo(lab, m, f)}
<1>1. Bad = {}
  <2> SUFFICES ASSUME Bad # {} PROVE FALSE
    OBVIOUS
  <2>1. PICK m \in Bad : \A j \in Bad : m <= j
    <3>1. Bad \in SUBSET Nat
      OBVIOUS
    <3> QED
      BY <3>1, LabelLoop!LeastOf
  <2>2. m \in 0 .. n /\ ~ \E f : RootTo(lab, m, f)
    OBVIOUS
  <2>3. m # 0
    <3>1. RootTo(lab, 0, [k \in 1 .. 0 |-> k])
      BY DEF RootTo
    <3> QED
      BY <2>2, <3>1
  <2>4. m \in Nat /\ m <= n /\ m - 1 \in 0 .. n /\ ~ (m <= m - 1)
    BY <2>2, <2>3
  <2>5. PICK f : RootTo(lab, m - 1, f)
    BY <2>1, <2>4
  <2> DEFINE g == [k \in 1 .. m |-> IF k = m
                                    THEN IF lab[m] < m THEN f[lab[m]] ELSE m
                                    ELSE f[k]]
  <2>6. \A k \in 1 .. m : lab[k] \in 1 .. n /\ lab[k] <= k
    BY <2>4 DEF Downward
  <2>7. \A k \in 1 .. m : g[k] = IF lab[k] < k THEN g[lab[k]] ELSE k
    <3> SUFFICES ASSUME NEW k \in 1 .. m
                 PROVE  g[k] = IF lab[k] < k THEN g[lab[k]] ELSE k
      OBVIOUS
    <3>1. k \in Nat /\ 1 <= k /\ k <= m /\ lab[k] \in Nat /\ 1 <= lab[k] /\ lab[k] <= k
      BY <2>6
    <3>2. lab[k] < k => lab[k] \in 1 .. m /\ lab[k] # m
      BY <2>4, <3>1
    <3>3. lab[k] < k => g[lab[k]] = f[lab[k]]
      BY <3>2
    <3>4. CASE k = m
      BY <3>3, <3>4
    <3>5. CASE k # m
      <4>1. k \in 1 .. (m - 1)
        BY <2>4, <3>1, <3>5
      <4>2. f[k] = IF lab[k] < k THEN f[lab[k]] ELSE k
        BY <2>5, <4>1 DEF RootTo
      <4> QED
        BY <3>3, <3>5, <4>2
    <3> QED
      BY <3>4, <3>5
  <2>8. RootTo(lab, m, g)
    BY <2>7 DEF RootTo
  <2> QED
    BY <2>2, <2>8
<1>2. n \in 0 .. n
  OBVIOUS
<1> QED
  BY <1>1, <1>2

\* The end of a chain is not redirected, and is where the chain starts or where
\* another label was redirected to.
LEMMA RootIs ==
  ASSUME NEW n \in Nat, NEW lab, Downward(lab, n), NEW m \in 1 .. n
  PROVE  /\ Root(lab, m) \in 1 .. n /\ Root(lab, m) <= m
         /\ lab[Root(lab, m)] = Root(lab, m)
         /\ Root(lab, m) = m \/ \E k \in 1 .. n : k # Root(lab, m) /\ lab[k] = Root(lab, m)
<1> DEFINE f == CHOOSE f : f = [k \in DOMAIN lab |-> IF lab[k] < k THEN f[lab[k]] ELSE k]
<1>1. DOMAIN lab = 1 .. n /\ \A k \in 1 .. n : lab[k] \in 1 .. n /\ lab[k] <= k
  BY DEF Downward
<1>2. Root(lab, m) = f[m]
  BY DEF Root
<1>3. f = [k \in DOMAIN lab |-> IF lab[k] < k THEN f[lab[k]] ELSE k]
  <2>1. \E g : g = [k \in DOMAIN lab |-> IF lab[k] < k THEN g[lab[k]] ELSE k]
    BY <1>1, RootExists DEF RootTo
  <2> QED
    BY <2>1
<1>4. \A k \in 1 .. n : f[k] = IF lab[k] < k THEN f[lab[k]] ELSE k
  <2> HIDE DEF f
  <2> QED
    BY <1>1, <1>3
<1> HIDE DEF f
<1> DEFINE Good(k) == /\ f[k] \in 1 .. n /\ f[k] <= k /\ lab[f[k]] = f[k]
                      /\ f[k] = k \/ \E j \in 1 .. n : j # f[k] /\ lab[j] = f[k]
           Bad == {k \in 1 .. n : ~ Good(k)}
<1>5. Bad = {}
  <2> SUFFICES ASSUME Bad # {} PROVE FALSE
    OBVIOUS
  <2>1. PICK k \in Bad : \A j \in Bad : k <= j
    <3>1. Bad \in SUBSET Nat
      OBVIOUS
    <3> HIDE DEF Bad
    <3> QED
      BY <3>1, LabelLoop!LeastOf
  <2>2. k \in 1 .. n /\ ~ Good(k)
    OBVIOUS
  <2>3. \A j \in 1 .. n : j < k => Good(j)
    <3> SUFFICES ASSUME NEW j \in 1 .. n, j < k PROVE Good(j)
      OBVIOUS
    <3>1. j \notin Bad
      <4> HIDE DEF Bad, Good
      <4> QED
        BY <2>1, <2>2
    <3> QED
      BY <3>1
  <2>4. CASE lab[k] < k
    <3> DEFINE j == lab[k]
    <3>1. j \in 1 .. n /\ j < k /\ f[k] = f[j]
      BY <1>1, <1>4, <2>2, <2>4
    <3>2. Good(j)
      BY <2>3, <3>1
    <3>3. f[k] \in 1 .. n /\ f[k] <= k /\ lab[f[k]] = f[k] /\ f[k] < k
      BY <2>2, <3>1, <3>2
    <3>4. \E i \in 1 .. n : i # f[k] /\ lab[i] = f[k]
      <4>1. CASE f[j] = j
        BY <2>2, <3>1, <3>3, <4>1
      <4>2. CASE f[j] # j
        BY <3>1, <3>2, <4>2
      <4> QED
        BY <4>1, <4>2
    <3> QED
      BY <2>2, <3>3, <3>4
  <2>5. CASE ~ (lab[k] < k)
    <3>1. f[k] = k /\ lab[k] = k
      BY <1>1, <1>4, <2>2, <2>5
    <3> QED
      BY <2>2, <3>1
  <2> QED
    BY <2>4, <2>5
<1>6. Good(m)
  BY <1>5
<1> QED
  BY <1>2, <1>6

\* What the scan of step 3 keeps of the labels, the redirections and the candidates.
MergeInv(k, s) ==
  /\ s = [map |-> s.map, cans |-> s.cans, lab |-> s.lab]
  /\ s.map \in [Pixel -> 0 .. lastid]
  /\ \A p \in Pixel : s.map[p] = 0 <=> flagmap[p] = 0
  /\ Downward(s.lab, lastid)
  /\ DOMAIN s.cans = 1 .. lastid
  /\ \A l \in 1 .. lastid : /\ IsCan(s.cans[l])
                            /\ s.lab[l] = l => s.cans[l].flag = FALSE
                            /\ s.lab[l] # l => s.cans[l].flag = TRUE
                            /\ s.cans[l].pix \in SUBSET Pixel
                            /\ s.cans[l].out \in SUBSET s.cans[l].pix
                            /\ s.cans[l].npix = Cardinality(s.cans[l].pix \ s.cans[l].out)
  /\ \A l, m \in 1 .. lastid : l # m /\ s.lab[l] = l /\ s.lab[m] = m =>
                                 s.cans[l].pix \cap s.cans[m].pix = {}
  /\ \A p \in Pixel : flagmap[p] # 0 <=>
                        \E l \in 1 .. lastid : s.lab[l] = l /\ p \in s.cans[l].pix

MergeLoop == INSTANCE Loops WITH Body <- MergeAt, Keeps <- MergeInv

\* FoldLeft is the same operator inside the instance.
LEMMA SameMerge ==
  \A s, base : FoldLeft(MergeAt, base, s) = MergeLoop!FoldLeft(MergeAt, base, s)
  BY Zenon DEF FoldLeft, MapThenFoldSet, MergeLoop!FoldLeft, MergeLoop!MapThenFoldSet,
               Max, MergeLoop!Max

\* Before the first pixel of step 3 every candidate stands for itself.
LEMMA MergeStart ==
  ASSUME InRange
  PROVE  MergeInv(0, [map |-> flagmap, cans |-> Gather, lab |-> [l \in 1 .. lastid |-> l]])
<1> DEFINE s == [map |-> flagmap, cans |-> Gather, lab |-> [l \in 1 .. lastid |-> l]]
<1>1. s.map = flagmap /\ s.cans = Gather /\ s.lab = [l \in 1 .. lastid |-> l]
      /\ s = [map |-> s.map, cans |-> s.cans, lab |-> s.lab]
  OBVIOUS
<1> HIDE DEF s
<1>2. lastid \in Nat /\ flagmap \in [Pixel -> 0 .. lastid]
  BY DEF InRange
<1>3. \A l \in 1 .. lastid : s.lab[l] = l
  BY <1>1
<1>4. Downward(s.lab, lastid)
  BY <1>1, <1>2 DEF Downward
<1>5. /\ DOMAIN Gather = 1 .. lastid
      /\ \A l \in 1 .. lastid :
           /\ IsCan(Gather[l]) /\ Gather[l].flag = FALSE
           /\ Gather[l].pix = {p \in Pixel : flagmap[p] = l}
           /\ Gather[l].out \in SUBSET Gather[l].pix
           /\ Gather[l].npix = Cardinality(Gather[l].pix \ Gather[l].out)
  BY GatherIs
<1> DEFINE G == Gather
<1>6. \A l \in 1 .. lastid : G[l].pix = {p \in Pixel : flagmap[p] = l}
  BY <1>5
<1> HIDE DEF G
<1>7. \A l, m \in 1 .. lastid : l # m => G[l].pix \cap G[m].pix = {}
  BY <1>6
<1>8. ASSUME NEW p \in Pixel
      PROVE  flagmap[p] # 0 <=> \E l \in 1 .. lastid : p \in G[l].pix
  <2> DEFINE m == flagmap[p]
  <2>1. m \in 0 .. lastid
    BY <1>2
  <2> HIDE DEF m
  <2>2. m # 0 <=> m \in 1 .. lastid
    BY <1>2, <2>1
  <2>3. \A l \in 1 .. lastid : p \in G[l].pix <=> m = l
    BY <1>6 DEF m
  <2>4. m # 0 <=> \E l \in 1 .. lastid : p \in G[l].pix
    BY <2>2, <2>3
  <2> QED
    BY <2>4 DEF m
<1>9. \A l \in 1 .. lastid : G[l].pix \in SUBSET Pixel
  BY <1>6
<1>10. MergeInv(0, s)
  BY <1>1, <1>2, <1>3, <1>4, <1>5, <1>7, <1>8, <1>9 DEF MergeInv, G
<1> QED
  BY <1>10 DEF s

\* What operator+= makes of two candidates.
LEMMA AddIs ==
  ASSUME NEW a, NEW b, IsCan(a)
  PROVE  /\ IsCan(Add(a, b)) /\ Add(a, b).flag = a.flag
         /\ Add(a, b).npix = a.npix + b.npix /\ Add(a, b).pix = a.pix \cup b.pix
         /\ Add(a, b).out = a.out \cup b.out
<1>1. DOMAIN Add(a, b) = DOMAIN a
  BY DEF Add
<1>2. Add(a, b).flag = a.flag
  BY DEF Add, IsCan
<1>3. Add(a, b).npix = a.npix + b.npix
  BY DEF Add, IsCan
<1>4. Add(a, b).pix = a.pix \cup b.pix
  BY DEF Add, IsCan
<1>5. Add(a, b).out = a.out \cup b.out
  BY DEF Add, IsCan
<1> QED
  BY <1>1, <1>2, <1>3, <1>4, <1>5 DEF IsCan

\* The label a pixel is merged into: no greater than its own, and not redirected.
LEMMA LeastLabel ==
  ASSUME InRange, NEW k, NEW s, MergeInv(k, s), NEW p \in Pixel, s.map[p] # 0
  PROVE  LET l0 == s.map[p]
             lmin == Root(s.lab, minimum_label(s.map, p))
         IN  /\ l0 \in 1 .. lastid /\ lmin \in 1 .. lastid
             /\ lmin <= l0 /\ s.lab[lmin] = lmin
<1> DEFINE l0 == s.map[p]
           M == {s.map[q] : q \in {q \in Window(p) : s.map[q] > 0}}
           m == minimum_label(s.map, p)
           lmin == Root(s.lab, m)
<1>1. /\ lastid \in Nat /\ s.map \in [Pixel -> 0 .. lastid]
      /\ Downward(s.lab, lastid)
  BY DEF MergeInv, InRange
<1>2. l0 \in 1 .. lastid
  BY <1>1
<1>3. p \in Window(p)
  BY PixelIs DEF Window
<1>4. M \in SUBSET (1 .. lastid) /\ M \in SUBSET Nat /\ l0 \in M
  <2>1. \A q \in Window(p) : q \in Pixel
    BY DEF Window
  <2> QED
    BY <1>1, <1>2, <1>3, <2>1
<1>5. m \in M /\ \A l \in M : m <= l
  BY <1>4, LeastIs DEF minimum_label
<1>6. m \in 1 .. lastid /\ m <= l0
  BY <1>4, <1>5
<1> HIDE DEF m, l0, M
<1>7. lmin \in 1 .. lastid /\ lmin <= m /\ s.lab[lmin] = lmin
  BY <1>1, <1>6, RootIs
<1> HIDE DEF lmin
<1>8. lmin <= l0
  BY <1>1, <1>2, <1>6, <1>7
<1> QED
  BY <1>2, <1>7, <1>8 DEF l0, lmin, m

\* What a redirection does to the candidates: the sums move once.
MoveSums(c, l0, lm) == [c EXCEPT ![lm] = Add(@, c[l0]), ![l0].flag = TRUE]

MovedSums(c, d, l0, lm) ==
  /\ DOMAIN d = 1 .. lastid
  /\ \A l \in 1 .. lastid : l # l0 /\ l # lm => d[l] = c[l]
  /\ IsCan(d[lm]) /\ d[lm].flag = FALSE
  /\ d[lm].pix = c[lm].pix \cup c[l0].pix /\ d[lm].out \in SUBSET d[lm].pix
  /\ d[lm].npix = Cardinality(d[lm].pix \ d[lm].out)
  /\ IsCan(d[l0]) /\ d[l0].flag = TRUE
  /\ d[l0].pix = c[l0].pix /\ d[l0].out = c[l0].out /\ d[l0].npix = c[l0].npix

\* Moving the sums of one candidate to another that shares no pixel with it.
LEMMA MoveIs ==
  ASSUME NEW k, NEW s, MergeInv(k, s),
         NEW l0 \in 1 .. lastid, NEW lm \in 1 .. lastid, l0 # lm,
         s.lab[l0] = l0, s.lab[lm] = lm,
         NEW c, c = MoveSums(s.cans, l0, lm)
  PROVE  MovedSums(s.cans, c, l0, lm)
<1> DEFINE A == Add(s.cans[lm], s.cans[l0])
           B == [s.cans[l0] EXCEPT !.flag = TRUE]
           P == s.cans[lm].pix
           Q == s.cans[l0].pix
           X == s.cans[lm].out
           Y == s.cans[l0].out
<1>1. /\ DOMAIN s.cans = 1 .. lastid
      /\ IsCan(s.cans[l0]) /\ IsCan(s.cans[lm])
      /\ s.cans[lm].flag = FALSE
      /\ P \in SUBSET Pixel /\ Q \in SUBSET Pixel /\ X \in SUBSET P /\ Y \in SUBSET Q
      /\ s.cans[l0].npix = Cardinality(Q \ Y)
      /\ s.cans[lm].npix = Cardinality(P \ X)
      /\ P \cap Q = {}
  BY DEF MergeInv
<1>2. /\ DOMAIN c = 1 .. lastid
      /\ \A l \in 1 .. lastid : l # l0 /\ l # lm => c[l] = s.cans[l]
      /\ c[lm] = A /\ c[l0] = B
  BY <1>1 DEF MoveSums
<1>3. /\ IsCan(A) /\ A.flag = s.cans[lm].flag
      /\ A.npix = s.cans[lm].npix + s.cans[l0].npix
      /\ A.pix = P \cup Q /\ A.out = X \cup Y
  BY <1>1, AddIs
<1>4. /\ IsCan(B) /\ B.flag = TRUE /\ B.pix = Q /\ B.out = Y /\ B.npix = s.cans[l0].npix
  BY <1>1 DEF IsCan
<1> HIDE DEF A, B
<1>5. A.npix = Cardinality(A.pix \ A.out)
  <2> HIDE DEF P, Q, X, Y
  <2>1. A.pix \ A.out = (P \ X) \cup (Q \ Y) /\ (P \ X) \cap (Q \ Y) = {}
    BY <1>1, <1>3
  <2> DEFINE U == P \ X
             V == Q \ Y
  <2>2. U \in SUBSET Pixel /\ V \in SUBSET Pixel
    BY <1>1
  <2>3. U \cap V = {} /\ A.pix \ A.out = U \cup V
    BY <2>1
  <2>4. s.cans[lm].npix = Cardinality(U) /\ s.cans[l0].npix = Cardinality(V)
    BY <1>1
  <2> HIDE DEF U, V
  <2>5. /\ IsFiniteSet(U) /\ IsFiniteSet(V)
        /\ Cardinality(U) \in Nat /\ Cardinality(V) \in Nat
    BY <2>2, FinitePixels
  <2>6. Cardinality(U \cup V) = Cardinality(U) + Cardinality(V) - Cardinality(U \cap V)
    BY <2>5, FS_Union
  <2>7. Cardinality(U \cap V) = 0
    BY <2>3, FS_EmptySet
  <2> QED
    <3>1. Cardinality(A.pix \ A.out) = Cardinality(U \cup V)
      BY <2>3
    <3>2. A.npix = Cardinality(U) + Cardinality(V)
      BY <1>3, <2>4
    <3> QED
      BY <2>5, <2>6, <2>7, <3>1, <3>2
<1>6. A.flag = FALSE
  BY <1>1, <1>3
<1>7. A.out \in SUBSET A.pix
  BY <1>1, <1>3
<1> QED
  BY <1>2, <1>3, <1>4, <1>5, <1>6, <1>7 DEF MovedSums

\* A step of the scan keeps the partition.
LEMMA MergeStep ==
  ASSUME InRange, NEW k, NEW s, MergeInv(k - 1, s), NEW p \in Pixel
  PROVE  MergeInv(k, MergeAt(s, p))
<1> DEFINE l0 == s.map[p]
           lm == Root(s.lab, minimum_label(s.map, p))
           y == MergeAt(s, p)
<1>1. MergeInv(k, s)
  BY DEF MergeInv
<1>2. /\ s = [map |-> s.map, cans |-> s.cans, lab |-> s.lab]
      /\ s.map \in [Pixel -> 0 .. lastid]
      /\ \A q \in Pixel : s.map[q] = 0 <=> flagmap[q] = 0
      /\ Downward(s.lab, lastid)
      /\ DOMAIN s.cans = 1 .. lastid
  BY DEF MergeInv
<1>3. /\ \A l \in 1 .. lastid : IsCan(s.cans[l])
      /\ \A l \in 1 .. lastid : s.cans[l].pix \in SUBSET Pixel
      /\ \A l \in 1 .. lastid : s.cans[l].out \in SUBSET s.cans[l].pix
  BY DEF MergeInv
<1>4. /\ \A l \in 1 .. lastid : s.lab[l] = l => s.cans[l].flag = FALSE
      /\ \A l \in 1 .. lastid : s.lab[l] # l => s.cans[l].flag = TRUE
  BY DEF MergeInv
<1>5. \A l \in 1 .. lastid : s.cans[l].npix = Cardinality(s.cans[l].pix \ s.cans[l].out)
  BY DEF MergeInv
<1>6. \A l, m \in 1 .. lastid : l # m /\ s.lab[l] = l /\ s.lab[m] = m =>
                                 s.cans[l].pix \cap s.cans[m].pix = {}
  BY DEF MergeInv
<1>7. \A q \in Pixel : flagmap[q] # 0 <=>
                        \E l \in 1 .. lastid : s.lab[l] = l /\ q \in s.cans[l].pix
  BY DEF MergeInv
<1>8. lastid \in Nat
  BY DEF InRange
<1>9. CASE l0 = 0 \/ s.cans[l0].npix = 0 \/ l0 = lm
  <2>1. y = s
    BY Zenon, <1>9, MergeCases
  <2>2. MergeInv(k, s)
    BY DEF MergeInv
  <2> QED
    BY <2>1, <2>2
<1>10. CASE ~ (l0 = 0 \/ s.cans[l0].npix = 0 \/ l0 = lm)
  <2>1. /\ l0 \in 1 .. lastid /\ lm \in 1 .. lastid
        /\ lm <= l0 /\ s.lab[lm] = lm /\ lm # l0 /\ lm < l0
    <3>1. l0 # 0 /\ s.cans[l0].npix # 0 /\ lm # l0
      BY <1>10
    <3>2. LET a == s.map[p]
              b == Root(s.lab, minimum_label(s.map, p))
          IN  /\ a \in 1 .. lastid /\ b \in 1 .. lastid
              /\ b <= a /\ s.lab[b] = b
      BY <3>1, LeastLabel
    <3>3. /\ l0 \in 1 .. lastid /\ lm \in 1 .. lastid
          /\ lm <= l0 /\ s.lab[lm] = lm
      BY <3>2
    <3> HIDE DEF l0, lm
    <3> QED
      BY <3>1, <3>3, <1>8
  <2> DEFINE c == MoveSums(s.cans, l0, lm)
             map == [s.map EXCEPT ![p] = lm]
             lab == [s.lab EXCEPT ![l0] = lm]
  <2>2. /\ y.map = map /\ y.lab = lab /\ y.cans = IF s.lab[l0] # l0 THEN s.cans ELSE c
        /\ y = [map |-> y.map, cans |-> y.cans, lab |-> y.lab]
    <3> DEFINE to == [s EXCEPT !.map[p] = lm, !.lab[l0] = lm]
               u == [to EXCEPT !.cans[lm] = Add(@, s.cans[l0]), !.cans[l0].flag = TRUE]
    <3>1. y = IF s.cans[l0].flag THEN to ELSE u
      BY Zenon, <1>10, MergeCases
    <3>2. /\ s.lab[l0] = l0 => s.cans[l0].flag = FALSE
          /\ s.lab[l0] # l0 => s.cans[l0].flag = TRUE
      BY <1>4, <2>1
    <3>3. DOMAIN s = {"map", "cans", "lab"}
      BY <1>2
    <3> HIDE DEF y, l0, lm
    <3>4. DOMAIN to = {"map", "cans", "lab"} /\ to = [x \in DOMAIN to |-> to[x]]
      BY <3>3
    <3>5. to.cans = s.cans
      BY <3>3
    <3>6. to.map = map
      BY <3>3
    <3>7. to.lab = lab
      BY <3>3
    <3> HIDE DEF to, map, lab
    <3>8. DOMAIN u = {"map", "cans", "lab"} /\ u = [x \in DOMAIN u |-> u[x]]
      BY <3>4
    <3>9. u.map = map /\ u.lab = lab
      BY <3>4, <3>6, <3>7
    <3>10. u.cans = c
      BY <3>4, <3>5 DEF MoveSums
    <3> HIDE DEF u, c
    <3>11. CASE s.lab[l0] # l0
      BY <3>1, <3>2, <3>4, <3>5, <3>6, <3>7, <3>11
    <3>12. CASE s.lab[l0] = l0
      BY <3>1, <3>2, <3>8, <3>9, <3>10, <3>12
    <3> QED
      BY <3>11, <3>12
  <2>3. /\ DOMAIN y.cans = 1 .. lastid
        /\ \A l \in 1 .. lastid : l # l0 /\ l # lm => y.cans[l] = s.cans[l]
        /\ IsCan(y.cans[lm]) /\ y.cans[lm].flag = FALSE
        /\ y.cans[lm].out \in SUBSET y.cans[lm].pix
        /\ y.cans[lm].npix = Cardinality(y.cans[lm].pix \ y.cans[lm].out)
        /\ IsCan(y.cans[l0]) /\ y.cans[l0].flag = TRUE
        /\ y.cans[l0].pix = s.cans[l0].pix /\ y.cans[l0].npix = s.cans[l0].npix
        /\ y.cans[l0].out = s.cans[l0].out
        /\ s.lab[l0] # l0 => y.cans[lm].pix = s.cans[lm].pix
        /\ s.lab[l0] = l0 => y.cans[lm].pix = s.cans[lm].pix \cup s.cans[l0].pix
    <3> HIDE DEF y, l0, lm, map, lab
    <3>1. s.cans[lm].flag = FALSE
      BY <1>4, <2>1
    <3>2. CASE s.lab[l0] # l0
      <4>1. y.cans = s.cans
        BY <2>2, <3>2
      <4>2. s.cans[l0].flag = TRUE
        BY <1>4, <2>1, <3>2
      <4> QED
        BY <1>2, <1>3, <1>5, <2>1, <3>1, <3>2, <4>1, <4>2
    <3>3. CASE s.lab[l0] = l0
      <4>1. y.cans = c
        BY <2>2, <3>3
      <4>2. l0 # lm /\ s.lab[lm] = lm
        BY <2>1
      <4> HIDE DEF c
      <4>3. c = MoveSums(s.cans, l0, lm)
        BY DEF c
      <4>4. MovedSums(s.cans, c, l0, lm)
        <5>1. l0 \in 1 .. lastid /\ lm \in 1 .. lastid /\ l0 # lm
              /\ s.lab[l0] = l0 /\ s.lab[lm] = lm
          BY <2>1, <3>3
        <5> QED
          BY <1>1, <4>3, <5>1, MoveIs
      <4> QED
        BY <3>3, <4>1, <4>4 DEF MovedSums
    <3> QED
      BY <3>2, <3>3
  <2>4. /\ y = [map |-> y.map, cans |-> y.cans, lab |-> y.lab]
        /\ y.map = [s.map EXCEPT ![p] = lm] /\ y.lab = [s.lab EXCEPT ![l0] = lm]
    BY <2>2
  <2> HIDE DEF c, map, lab, y, l0, lm
  <2>5. y.map[p] = lm /\ \A q \in Pixel : q # p => y.map[q] = s.map[q]
    BY <1>2, <2>4
  <2>6. /\ y.lab[l0] = lm
        /\ \A l \in 1 .. lastid : y.lab[l] = IF l = l0 THEN lm ELSE s.lab[l]
    BY <1>2, <2>1, <2>4 DEF Downward
  <2>7. y.map \in [Pixel -> 0 .. lastid]
    <3>1. lm \in 0 .. lastid
      BY <1>8, <2>1
    <3> QED
      BY <1>2, <2>4, <3>1
  <2>8. \A q \in Pixel : y.map[q] = 0 <=> flagmap[q] = 0
    <3>1. l0 # 0 /\ lm # 0
      BY <1>8, <2>1
    <3>2. flagmap[p] # 0
      BY <1>2, <3>1 DEF l0
    <3> QED
      BY <1>2, <2>5, <3>1, <3>2
  <2>9. Downward(y.lab, lastid)
    <3>1. y.lab \in [1 .. lastid -> 1 .. lastid]
      BY <1>2, <2>1, <2>4 DEF Downward
    <3> QED
      BY <1>2, <2>1, <2>6, <3>1 DEF Downward
  <2>10. ASSUME NEW l \in 1 .. lastid
         PROVE  /\ IsCan(y.cans[l])
                /\ y.lab[l] = l => y.cans[l].flag = FALSE
                /\ y.lab[l] # l => y.cans[l].flag = TRUE
                /\ y.cans[l].pix \in SUBSET Pixel /\ y.cans[l].out \in SUBSET y.cans[l].pix
                /\ y.cans[l].npix = Cardinality(y.cans[l].pix \ y.cans[l].out)
    <3>1. CASE l = l0
      <4>1. y.lab[l] = lm /\ lm # l
        BY <2>1, <2>6, <3>1
      <4> QED
        BY <1>3, <1>5, <2>1, <2>3, <3>1, <4>1
    <3>2. CASE l = lm
      <4>1. y.lab[l] = l
        BY <2>1, <2>6, <3>2
      <4>2. y.cans[lm].pix = s.cans[lm].pix \/ y.cans[lm].pix = s.cans[lm].pix \cup s.cans[l0].pix
        BY <2>3
      <4>3. y.cans[lm].pix \in SUBSET Pixel
        BY <1>3, <2>1, <4>2
      <4> QED
        BY <2>3, <3>2, <4>1, <4>3
    <3>3. CASE l # l0 /\ l # lm
      <4>1. y.cans[l] = s.cans[l] /\ y.lab[l] = s.lab[l]
        BY <2>3, <2>6, <3>3
      <4> QED
        BY <1>3, <1>4, <1>5, <4>1
    <3> QED
      BY <3>1, <3>2, <3>3
  <2>11. ASSUME NEW l \in 1 .. lastid, NEW m \in 1 .. lastid, l # m,
                y.lab[l] = l, y.lab[m] = m
         PROVE  y.cans[l].pix \cap y.cans[m].pix = {}
    <3>1. l # l0 /\ m # l0
      BY <2>1, <2>6, <2>11
    <3>2. /\ s.lab[l] = l /\ s.lab[m] = m
          /\ l # lm => y.cans[l].pix = s.cans[l].pix
          /\ m # lm => y.cans[m].pix = s.cans[m].pix
      BY <2>3, <2>6, <2>11, <3>1
    <3>3. CASE s.lab[l0] # l0
      <4>1. y.cans[lm].pix = s.cans[lm].pix
        BY <2>3, <3>3
      <4> QED
        BY <1>6, <2>11, <3>1, <3>2, <4>1
    <3>4. CASE s.lab[l0] = l0
      <4>1. y.cans[lm].pix = s.cans[lm].pix \cup s.cans[l0].pix
        BY <2>3, <3>4
      <4>2. s.lab[l] = l /\ s.lab[m] = m
        BY <3>2
      <4>3. /\ s.cans[l].pix \cap s.cans[m].pix = {}
            /\ s.cans[l].pix \cap s.cans[l0].pix = {}
            /\ s.cans[m].pix \cap s.cans[l0].pix = {}
        BY <1>6, <2>1, <2>11, <3>1, <3>4, <4>2
      <4>4. CASE l = lm
        BY <2>11, <3>1, <3>2, <4>1, <4>3, <4>4
      <4>5. CASE m = lm
        BY <2>11, <3>1, <3>2, <4>1, <4>3, <4>5
      <4>6. CASE l # lm /\ m # lm
        BY <2>11, <3>1, <3>2, <4>3, <4>6
      <4> QED
        BY <4>4, <4>5, <4>6
    <3> QED
      BY <3>3, <3>4
  <2>12. ASSUME NEW q \in Pixel
         PROVE  flagmap[q] # 0 <=>
                  \E l \in 1 .. lastid : y.lab[l] = l /\ q \in y.cans[l].pix
    <3>1. \A l \in 1 .. lastid : l # l0 /\ l # lm => y.cans[l] = s.cans[l]
      BY <2>3
    <3>2. \A l \in 1 .. lastid : y.lab[l] = l <=> l # l0 /\ s.lab[l] = l
      BY <2>1, <2>6
    <3>3. ASSUME NEW l \in 1 .. lastid, y.lab[l] = l, q \in y.cans[l].pix
          PROVE  \E i \in 1 .. lastid : s.lab[i] = i /\ q \in s.cans[i].pix
      <4>1. l # l0 /\ s.lab[l] = l
        BY <3>2, <3>3
      <4>2. CASE l = lm
        BY <2>1, <2>3, <3>3, <4>1, <4>2
      <4>3. CASE l # lm
        BY <3>1, <3>3, <4>1, <4>3
      <4> QED
        BY <4>2, <4>3
    <3>4. ASSUME NEW l \in 1 .. lastid, s.lab[l] = l, q \in s.cans[l].pix
          PROVE  \E i \in 1 .. lastid : y.lab[i] = i /\ q \in y.cans[i].pix
      <4>1. y.lab[lm] = lm
        BY <2>1, <3>2
      <4>2. CASE l = l0
        BY <2>1, <2>3, <3>4, <4>1, <4>2
      <4>3. CASE l = lm
        <5>1. q \in y.cans[lm].pix
          BY <2>1, <2>3, <3>4, <4>3
        <5> QED
          BY <2>1, <4>1, <5>1
      <4>4. CASE l # lm /\ l # l0
        BY <3>1, <3>2, <3>4, <4>4
      <4> QED
        BY <4>2, <4>3, <4>4
    <3> QED
      BY <1>7, <3>3, <3>4
  <2>13. DOMAIN y.cans = 1 .. lastid
    BY <2>3
  <2>14. MergeInv(k, y)
    BY <2>4, <2>7, <2>8, <2>9, <2>10, <2>11, <2>12, <2>13 DEF MergeInv
  <2> QED
    BY <2>14 DEF y
<1> QED
  BY <1>9, <1>10

\* What step 4 writes.
Relabelled(s) ==
  [p \in Pixel |-> LET l == s.map[p]
                   IN  IF l # 0 /\ s.cans[l].npix # 0 /\ s.cans[l].flag THEN s.lab[l] ELSE l]

\* What group_glob leaves of the candidates.
LEMMA MergedIs ==
  ASSUME InRange
  PROVE  LET c == Merged.cans
             Left == {l \in 1 .. lastid : ~ c[l].flag}
         IN  /\ UNION {c[l].pix : l \in Left} = Marked
             /\ \A l, m \in Left : l # m => c[l].pix \cap c[m].pix = {}
             /\ \A l \in Left : c[l].npix = Cardinality(c[l].pix \ c[l].out)
             /\ \A p \in Pixel : Relabelled(Merged)[p] # 0 <=> flagmap[p] # 0
<1> DEFINE base == [map |-> flagmap, cans |-> Gather, lab |-> [l \in 1 .. lastid |-> l]]
           s == Merged
           c == s.cans
           Left == {l \in 1 .. lastid : ~ c[l].flag}
<1>1. wdim * hdim \in Nat /\ DOMAIN Scan = 1 .. (wdim * hdim)
      /\ \A k \in 1 .. (wdim * hdim) : Scan[k] \in Pixel
  BY ScanOf, ScanIn
<1>2. MergeInv(0, base)
  BY MergeStart
<1> HIDE DEF base
<1>3. \A k \in 1 .. (wdim * hdim) :
        \A x : MergeInv(k - 1, x) => MergeInv(k, MergeAt(x, Scan[k]))
  BY <1>1, MergeStep
<1>4. MergeInv(wdim * hdim, MergeLoop!FoldLeft(MergeAt, base, Scan))
  BY <1>1, <1>2, <1>3, MergeLoop!FoldKeeps
<1>5. MergeInv(wdim * hdim, s)
  BY <1>4, SameMerge DEF Merged, base
<1> HIDE DEF s
<1>6. \A l \in 1 .. lastid : l \in Left <=> s.lab[l] = l
  BY <1>5 DEF MergeInv
<1>7. /\ \A l, m \in 1 .. lastid : l # m /\ s.lab[l] = l /\ s.lab[m] = m =>
                                   c[l].pix \cap c[m].pix = {}
      /\ \A p \in Pixel : flagmap[p] # 0 <=>
                          \E l \in 1 .. lastid : s.lab[l] = l /\ p \in c[l].pix
      /\ \A l \in 1 .. lastid : c[l].pix \in SUBSET Pixel
      /\ \A l \in 1 .. lastid : c[l].npix = Cardinality(c[l].pix \ c[l].out)
  BY <1>5 DEF MergeInv
<1>8. \A p \in Pixel : Relabelled(s)[p] # 0 <=> flagmap[p] # 0
  <2> SUFFICES ASSUME NEW p \in Pixel PROVE Relabelled(s)[p] # 0 <=> flagmap[p] # 0
    OBVIOUS
  <2> DEFINE l == s.map[p]
  <2>1. l \in 0 .. lastid /\ lastid \in Nat /\ (l = 0 <=> flagmap[p] = 0)
    BY <1>5 DEF MergeInv, InRange
  <2>2. Relabelled(s)[p] = s.lab[l] \/ Relabelled(s)[p] = l
    BY DEF Relabelled
  <2>3. l = 0 => Relabelled(s)[p] = l
    BY DEF Relabelled
  <2> HIDE DEF l
  <2>4. l # 0 => s.lab[l] \in 1 .. lastid
    BY <1>5, <2>1 DEF MergeInv, Downward
  <2>5. l # 0 => s.lab[l] # 0
    BY <2>1, <2>4
  <2> QED
    BY <2>1, <2>2, <2>3, <2>5
<1> HIDE DEF c
<1>9. \A l \in Left : l \in 1 .. lastid
  OBVIOUS
<1> HIDE DEF Left
<1>10. \A l, m \in Left : l # m => c[l].pix \cap c[m].pix = {}
  BY <1>6, <1>7, <1>9 DEF c
<1>11. \A l \in Left : c[l].npix = Cardinality(c[l].pix \ c[l].out)
  BY <1>7, <1>9 DEF c
<1>12. UNION {c[l].pix : l \in Left} = Marked
  <2>1. ASSUME NEW p \in Marked PROVE p \in UNION {c[l].pix : l \in Left}
    <3>1. p \in Pixel /\ flagmap[p] # 0
      BY DEF Marked
    <3>2. PICK l \in 1 .. lastid : s.lab[l] = l /\ p \in c[l].pix
      BY <1>7, <3>1 DEF c
    <3>3. l \in Left
      BY <1>6, <3>2
    <3> QED
      BY <3>2, <3>3
  <2>2. ASSUME NEW l \in Left, NEW p \in c[l].pix PROVE p \in Marked
    <3>1. l \in 1 .. lastid /\ s.lab[l] = l
      BY <1>6, <1>9
    <3>2. p \in Pixel
      BY <1>7, <3>1 DEF c
    <3>3. flagmap[p] # 0
      BY <1>7, <3>1, <3>2 DEF c
    <3> QED
      BY <3>2, <3>3 DEF Marked
  <2> QED
    BY <2>1, <2>2
<1> QED
  BY <1>8, <1>10, <1>11, <1>12 DEF c, Left, s

\* The labels until they are merged, and the division of the pixels once they are.
LabelsHold ==
  /\ bright \in SUBSET Pixel
  /\ phase \in {"subtracted", "labelled", "grouped", "done"}
  /\ phase = "labelled" => Labelling(flagmap, lastid)
  /\ PixelsCountedOnce

\* For any picture of any size, any values of its pixels and whatever the memory holds:
\* the candidates that are left divide the pixels that have a label, those above the
\* threshold among them and in zeroed memory no others, and each counts its own once.
THEOREM EveryPixelOnce == GLSpec => []PixelsCountedOnce
<1>1. GLInit => LabelsHold
  BY DEF GLInit, LabelsHold, PixelsCountedOnce
<1>2. LabelsHold /\ [GLNext]_glVars => LabelsHold'
  <2> SUFFICES ASSUME LabelsHold, [GLNext]_glVars PROVE LabelsHold'
    OBVIOUS
  <2>1. CASE Label
    <3>1. PICK memory \in [Pixel -> Memory] :
               /\ flagmap' = init_glob(memory).map
               /\ lastid' = init_glob(memory).last
      BY <2>1 DEF Label
    <3>2. Labelling(flagmap, lastid)'
      <4>1. Labelling(init_glob(memory).map, init_glob(memory).last)
        BY InitGlob
      <4>2. bright' = bright
        BY <2>1 DEF Label
      <4> QED
        BY <3>1, <4>1, <4>2 DEF Labelling, Pixel
    <3>3. phase' = "labelled" /\ bright' = bright
      BY <2>1 DEF Label
    <3> QED
      BY <3>2, <3>3 DEF LabelsHold, PixelsCountedOnce, Pixel
  <2>2. CASE Group
    <3>1. /\ phase = "labelled" /\ Labelling(flagmap, lastid) /\ bright \in SUBSET Pixel
          /\ \A p \in Pixel : flagmap[p] \in 0 .. lastid
      BY <2>2 DEF Group, LabelsHold
    <3>2. InRange
      BY <3>1 DEF InRange, Labelling
    <3>3. /\ phase' = "grouped" /\ bright' = bright /\ lastid' = lastid
          /\ cans' = Merged.cans /\ flagmap' = Relabelled(Merged)
      BY <2>2 DEF Group, Relabelled
    <3> DEFINE c == Merged.cans
               Left == {l \in 1 .. lastid : ~ c[l].flag}
    <3>4. /\ UNION {c[l].pix : l \in Left} = Marked
          /\ \A l, m \in Left : l # m => c[l].pix \cap c[m].pix = {}
          /\ \A l \in Left : c[l].npix = Cardinality(c[l].pix \ c[l].out)
          /\ \A p \in Pixel : Relabelled(Merged)[p] # 0 <=> flagmap[p] # 0
      BY <3>2, MergedIs
    <3> HIDE DEF c
    <3>5. cans' = c
      BY <3>3 DEF c
    <3>6. Ends' = Left
      BY <3>3, <3>5 DEF Ends
    <3>7. Marked' = Marked
      BY <3>3, <3>4 DEF Marked, Pixel
    <3>8. bright \subseteq Marked
      BY <3>1 DEF Labelling, Marked
    <3>9. Memory = {0} => bright = Marked
      BY <3>1, <3>8 DEF Labelling, Marked
    <3> HIDE DEF Left
    <3>10. PixelsCountedOnce'
      BY <3>3, <3>4, <3>5, <3>6, <3>7, <3>8, <3>9 DEF PixelsCountedOnce
    <3> QED
      BY <3>1, <3>3, <3>10 DEF LabelsHold, Pixel
  <2>3. CASE Select
    <3>1. phase' = "done" /\ bright' = bright
      BY <2>3 DEF Select
    <3> QED
      BY <3>1 DEF LabelsHold, PixelsCountedOnce, Pixel
  <2>4. CASE UNCHANGED glVars
    <3>1. /\ bright' = bright /\ phase' = phase /\ flagmap' = flagmap
          /\ lastid' = lastid /\ cans' = cans
      BY <2>4 DEF glVars
    <3>2. Labelling(flagmap, lastid)' <=> Labelling(flagmap, lastid)
      BY <3>1 DEF Labelling, Pixel
    <3>3. PixelsCountedOnce' <=> PixelsCountedOnce
      BY <3>1 DEF PixelsCountedOnce, Ends, Marked, Pixel
    <3> QED
      BY <3>1, <3>2, <3>3 DEF LabelsHold, Pixel
  <2> QED
    BY <2>1, <2>2, <2>3, <2>4 DEF GLNext
<1>3. LabelsHold => PixelsCountedOnce
  BY DEF LabelsHold
<1> QED
  BY <1>1, <1>2, <1>3, PTL DEF GLSpec
=============================================================================
