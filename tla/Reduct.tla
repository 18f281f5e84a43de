-------------------------------- MODULE Reduct --------------------------------
(***************************************************************************)
(* airs1, ADIProcess and ADIReduct: one image after the other is read into *)
(* a new frame and reduced in buffers that live as long as the object.  A  *)
(* number stands for where it comes from: the set of images it was         *)
(* computed from, with Garbage for memory nothing was written to and for   *)
(* what lies beyond a buffer.  The image is a grid of cells of two pixels, *)
(* stored row by row in buffers that do not know the width of a row.       *)
(***************************************************************************)
EXTENDS Integers, FiniteSets

CONSTANTS MaxRows, MaxCols, \* cells of the largest image, down and across
          Masks(_),  \* what may be masked of so many pixels
          MaxImages, \* images in a sequence
          Garbage

ASSUME CellsAssumption == MaxRows \in Nat /\ MaxCols \in Nat

VARIABLES img,     \* number of the image
          rows, cols, \* its cells, down and across
          lone,    \* the cells of which a single pixel counts
          read,    \* its file could be read
          freed,   \* the size of the frame whose memory was freed last, 0 for none
          dark,    \* its pixels three sigma below its mean, which scan_image masks
          step,    \* where DoIt is
          nbk,     \* cells the background buffers have room for
          bkmean, bksig, \* the background and its noise, by cell
          databuf, pixels, \* the second pixel buffer and its size
          dataimg, \* the pixels of the image
          conv     \* foconv_: loaded, and whether its size was stored

rdVars == <<img, rows, cols, lone, read, freed, dark, step, nbk, bkmean, bksig, databuf, pixels,
            dataimg, conv>>

size == rows * cols
PixelsOf(c) == {2 * c - 1, 2 * c}
Cells == 1 .. size
Pixels == 1 .. 2 * size

Fresh(n) == [k \in 1 .. n |-> {Garbage}]

RDInit == /\ img = 0 /\ rows = 0 /\ cols = 0 /\ lone = {} /\ read = FALSE
          /\ freed = 0 /\ dark = {} /\ step = "idle"
          /\ nbk = 0 /\ bkmean = << >> /\ bksig = << >>
          /\ databuf = << >> /\ pixels = 0 /\ dataimg = << >>
          /\ conv \in [loaded : BOOLEAN, sized : {FALSE}] \* not initialised

\* SetImage takes a new frame, since reduct_ still holds the last one.  A frame has no
\* constructor: when the memory freed before is used again, its pixels may say already
\* that a buffer of the right size exists, and the image is read into a null pointer.
\* A file that cannot be read leaves the buffer as it is, and DoIt runs all the same.
\* Three of four unmasked pixels lie within two sigma and count: only a cell of one or
\* two pixels may have a single one, which is the last cell where bkw and bkh exceed 2.
SetImage ==
    /\ step = "idle" /\ img < MaxImages
    /\ img' = img + 1
    /\ rows' \in 1 .. MaxRows /\ cols' \in 1 .. MaxCols
    /\ lone' \in SUBSET {size'}
    /\ freed' = size
    /\ read' \in BOOLEAN
    /\ \/ /\ step' = "set"
          /\ dataimg' = IF read' THEN [p \in 1 .. 2 * size' |-> {img'}] ELSE Fresh(2 * size')
       \/ freed = size' /\ step' = "crashed" /\ dataimg' = << >>
    /\ UNCHANGED <<dark, nbk, bkmean, bksig, databuf, pixels, conv>>

\* The background buffers only grow; the pixel buffer is kept, with what it holds,
\* when it has the right size.
alloc_buffer ==
    /\ step = "set"
    /\ pixels' = 2 * size
    /\ databuf' = IF pixels = 2 * size THEN databuf ELSE Fresh(2 * size)
    /\ IF nbk < size
       THEN nbk' = size /\ bkmean' = Fresh(size) /\ bksig' = Fresh(size)
       ELSE UNCHANGED <<nbk, bkmean, bksig>>
    /\ step' = "allocated"
    /\ UNCHANGED <<img, rows, cols, lone, read, freed, dark, dataimg, conv>>

\* Any pixels may lie three sigma below the mean, and none above it in a flat image: all
\* of it is masked.
scan_image ==
    /\ step = "allocated"
    /\ dark' \in Masks(2 * size)
    /\ step' = "scanned"
    /\ UNCHANGED <<img, rows, cols, lone, read, freed, nbk, bkmean, bksig, databuf, pixels, dataimg, conv>>

\* back_stat: half the pixels of the cell are not masked.
back_stat(c) == 2 * Cardinality(PixelsOf(c) \ dark) >= 2

\* The sigma of a cell is computed from its pixels, and so is the mean: but with a
\* single pixel there is one level in the histogram, back_guess makes no iteration, and
\* the mean it returns was never set.
Computed(c) == UNION {dataimg[p] : p \in PixelsOf(c)}
back_guess(c) == Computed(c) \cup IF c \in lone THEN {Garbage} ELSE {}

\* Mutant: the grid loop stops before the last cell.
back_make_Short ==
    /\ step = "scanned"
    /\ bkmean' = [k \in 1 .. nbk |-> IF k \in 1 .. size - 1 /\ back_stat(k) THEN back_guess(k)
                                      ELSE bkmean[k]]
    /\ bksig' = [k \in 1 .. nbk |-> IF k \in 1 .. size - 1 /\ back_stat(k) THEN Computed(k)
                                     ELSE bksig[k]]
    /\ step' = "made"
    /\ UNCHANGED <<img, rows, cols, lone, read, freed, dark, nbk, databuf, pixels, dataimg, conv>>

\* The statistics, the histogram and the mode of each cell.  A cell with too few good
\* pixels is passed over, with what its place held before: the mark back_stat leaves
\* for back_filter stays in the local grid.
back_make ==
    /\ step = "scanned"
    /\ bkmean' = [k \in 1 .. nbk |-> IF k \in Cells /\ back_stat(k) THEN back_guess(k)
                                      ELSE bkmean[k]]
    /\ bksig' = [k \in 1 .. nbk |-> IF k \in Cells /\ back_stat(k) THEN Computed(k)
                                     ELSE bksig[k]]
    /\ step' = "made"
    /\ UNCHANGED <<img, rows, cols, lone, read, freed, dark, nbk, databuf, pixels, dataimg, conv>>

\* The median over the cell and its neighbours, where that is not what the cell has; its
\* sigma is replaced along with its mean.  The window reaches one cell to each side, the
\* least it does.  The repair before it finds no bad cell, because none is ever marked in
\* bkmean_.
RowOf(k) == (k - 1) \div cols
ColOf(k) == (k - 1) % cols
NextTo(k) == {j \in Cells : RowOf(j) - RowOf(k) \in -1 .. 1 /\ ColOf(j) - ColOf(k) \in -1 .. 1}
Around(b, k) == UNION {b[j] : j \in NextTo(k)}

back_filter ==
    /\ step = "made"
    /\ \E changed \in SUBSET Cells :
         /\ bkmean' = [k \in 1 .. nbk |-> IF k \in changed THEN Around(bkmean, k) ELSE bkmean[k]]
         /\ bksig' = [k \in 1 .. nbk |-> IF k \in changed THEN Around(bksig, k) ELSE bksig[k]]
    /\ step' = "filtered"
    /\ UNCHANGED <<img, rows, cols, lone, read, freed, dark, nbk, databuf, pixels, dataimg, conv>>

\* image_spline2 and line_splint2: the background at a pixel depends on every cell.  With
\* one row the interpolation takes the row before the grid, with one column the place
\* before the line, and the spline of one point reads before its work space.
Spline(b) == UNION {b[k] : k \in Cells} \cup IF rows = 1 \/ cols = 1 THEN {Garbage} ELSE {}

\* A masked pixel is set to zero in the image and not in the buffer, and the buffer
\* is then copied over the image.
sub_back ==
    /\ step = "filtered"
    /\ databuf' = [p \in Pixels |-> IF p \in dark THEN databuf[p]
                                    ELSE dataimg[p] \cup Spline(bkmean)]
    /\ dataimg' = databuf'
    /\ step' = "subtracted"
    /\ UNCHANGED <<img, rows, cols, lone, read, freed, dark, nbk, bkmean, bksig, pixels, conv>>

\* load_filter_conv: once loaded it is not read again.  A file without NORM is loaded
\* and its width and height are never stored.
load_filter_conv ==
    \/ conv.loaded /\ UNCHANGED conv
    \/ ~conv.loaded /\ conv' \in {conv, [loaded |-> TRUE, sized |-> TRUE],
                                  [loaded |-> TRUE, sized |-> FALSE]}

\* A pixel whose window leaves the image is copied, the others take their neighbours.
convolve(p) == IF p - 1 \notin Pixels \/ p + 1 \notin Pixels THEN dataimg[p]
               ELSE UNION {dataimg[q] : q \in p - 1 .. p + 1}

\* The filter is switched off, it cannot be loaded, or databuf_ gets the filtered image.
filter_convolve ==
    /\ step = "subtracted"
    /\ \/ UNCHANGED <<databuf, conv>>
       \/ /\ load_filter_conv
          /\ IF ~conv'.loaded THEN UNCHANGED databuf
             ELSE databuf' = [p \in Pixels |-> convolve(p) \cup
                                               IF conv'.sized THEN {} ELSE {Garbage}]
    /\ step' = "idle"
    /\ UNCHANGED <<img, rows, cols, lone, read, freed, dark, nbk, bkmean, bksig, pixels, dataimg>>

RDNext == \/ SetImage \/ alloc_buffer \/ scan_image \/ back_make \/ back_filter \/ sub_back
          \/ filter_convolve

RDSpec == RDInit /\ [][RDNext]_rdVars

\* The image was read, every cell has enough good pixels, more than one of which count,
\* and the grid has two rows and two columns at least.
Whole == /\ read /\ rows > 1 /\ cols > 1 /\ lone = {}
         /\ \A c \in Cells : back_stat(c)

\* Such an image is reduced from itself alone, whatever images, larger or smaller, went
\* through the same buffers before: its background and every pixel of it that is not masked.
ReducedFromItself ==
    Whole =>
      /\ step \in {"made", "filtered", "subtracted"} =>
           \A k \in Cells : bkmean[k] = {img} /\ bksig[k] = {img}
      /\ step \in {"subtracted", "idle"} =>
           \A p \in Pixels \ dark : dataimg[p] = {img}

\* A masked pixel is zero after the background is subtracted, whatever was in the
\* buffer before.
MaskedIsZero ==
    step = "subtracted" => \A p \in dark : dataimg[p] = {}
=============================================================================
