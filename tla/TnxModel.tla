------------------------------- MODULE TnxModel -------------------------------
(***************************************************************************)
(* The TNX model as WCSTNX loads it from a FITS header or from a text      *)
(* file and writes it into a header.  A value is named by the source it    *)
(* came from: a header or a text file.                                     *)
(***************************************************************************)
EXTENDS Integers

CONSTANTS Text,    \* text files, each a different model
          Lines,   \* of the four lines of the reference point, those a text has
          Image,   \* the models of foreign headers
          NoValue  \* no value

PixelLine == <<"xpixref", "ypixref">>
PointLine == <<"lngref", "latref">>

ASSUME LinesAssumption ==
    Lines \in [Text -> SUBSET {"xpixref", "ypixref", "lngref", "latref"}]

VARIABLES model,  \* PrjTNX: flags and where each part of it comes from
          header, \* the keys of the FITS file
          status  \* what the last call returned

tmVars == <<model, header, status>>

Nowhere == <<NoValue, NoValue>>

\* torn is a history flag: the keys are of a write that failed half way.
Blank == [ctype |-> FALSE, crval |-> Nowhere, crpix |-> Nowhere, cd |-> NoValue,
          wat |-> NoValue, torn |-> FALSE]
Foreign(s, wat) == [ctype |-> TRUE, crval |-> <<s, s>>, crpix |-> <<s, s>>, cd |-> s,
                    wat |-> wat, torn |-> FALSE]

TMInit ==
    /\ model = [valid_cd |-> FALSE, valid_res |-> FALSE, wcs |-> Nowhere,
                pix |-> Nowhere, cd |-> NoValue, ccd |-> NoValue, res |-> Nowhere,
                torn |-> FALSE]
    /\ header = Blank
    /\ status = 0

\* Another file is opened: one without a TNX model, one with the model s, or one
\* whose matrix is missing.
OtherFile ==
    /\ \/ header' = Blank
       \/ \E s \in Image : header' = [Foreign(s, NoValue) EXCEPT !.cd = NoValue]
       \/ \E s \in Image, w \in Image \cup {NoValue} : header' = Foreign(s, w)
    /\ UNCHANGED <<model, status>>

\* fits_read_key leaves the value alone where the key is missing.
fits_read_key(new, old) == IF new = NoValue THEN old ELSE new

\* LoadImage.  The flags fall first.  CRVAL2 is read into ref_wcsx, on top of
\* CRVAL1, and ref_wcsy is not touched.  The cards of WAT1 are read until one is
\* missing, which leaves fitsio's status set, so that those of WAT2 are not read
\* and the second string is what the stack held: it resolves, or it does not.
LoadImage ==
    LET fallen == [model EXCEPT !.valid_cd = FALSE, !.valid_res = FALSE]
        point == [fallen EXCEPT !.wcs[1] = fits_read_key(header.crval[2], model.wcs[1]),
                                !.pix = <<fits_read_key(header.crpix[1], model.pix[1]),
                                          fits_read_key(header.crpix[2], model.pix[2])>>]
        linear == [point EXCEPT !.valid_cd = TRUE, !.cd = header.cd, !.ccd = header.cd,
                                !.torn = header.torn]
    IN  /\ UNCHANGED header
        /\ \/ model' = fallen /\ status' = -1
           \/ ~header.ctype /\ model' = fallen /\ status' = -2
           \/ /\ header.ctype /\ header.cd = NoValue
              /\ model' = point /\ status' = -3
           \/ /\ header.cd # NoValue /\ header.wat = NoValue
              /\ model' = linear /\ status' = 0
           \/ /\ header.cd # NoValue /\ header.wat # NoValue
              /\ \/ /\ model' = [linear EXCEPT !.res = <<header.wat, "stack">>,
                                              !.valid_res = TRUE]
                    /\ status' = 0
                 \/ model' = [linear EXCEPT !.res[1] = header.wat] /\ status' = -5

\* A pair of values, each replaced by that of the text s if it has the line.
Read2(s, line, old) == [k \in 1 .. 2 |-> IF line[k] \in Lines[s] THEN s ELSE old[k]]

\* Mutant: the flags of the model before stand until a surface is whole.
LoadText_KeepFlags(s) ==
    /\ UNCHANGED header
    /\ \E first, second \in BOOLEAN :
          /\ model' = [valid_cd |-> first \/ model.valid_cd,
                       valid_res |-> second \/ model.valid_res,
                       wcs |-> Read2(s, PointLine, model.wcs),
                       pix |-> Read2(s, PixelLine, model.pix),
                       cd |-> IF first THEN s ELSE model.cd,
                       ccd |-> IF first THEN s ELSE model.ccd,
                       res |-> IF second THEN <<s, s>> ELSE model.res,
                       torn |-> model.torn /\ ~first]
          /\ status' = 0

\* LoadText of the file s, in which either surface may be missing or cut short
\* (first, second: it is whole).  The flags fall first.  Each coordinate of the
\* reference point is set by a line of its own, where the text has that line;
\* the matrix by the first surface, once the whole file is read.  The second one
\* goes to the residuals term by term: cut short, it has touched them.
\* Nothing is touched when the file does not open.
LoadText(s) ==
    /\ UNCHANGED header
    /\ \/ status' = 1 /\ UNCHANGED model
       \/ \E first, second, touched \in BOOLEAN :
             /\ model' = [valid_cd |-> first, valid_res |-> second,
                          wcs |-> Read2(s, PointLine, model.wcs),
                          pix |-> Read2(s, PixelLine, model.pix),
                          cd |-> IF first THEN s ELSE model.cd,
                          ccd |-> IF first THEN s ELSE model.ccd,
                          res |-> IF second \/ touched THEN <<s, s>> ELSE model.res,
                          torn |-> model.torn /\ ~first]
             /\ status' = IF first THEN 0 ELSE 1

\* WriteImage: the keys of the linear model, then the cards of both residuals, or
\* neither, in which case cards of an earlier model stay in the file.  A failure
\* of fitsio stops the keys where it comes, and is returned: none of them is
\* written (the file does not open), or those of the sets after are not.
WriteImage ==
    LET keys == [Blank EXCEPT !.ctype = TRUE, !.crval = model.wcs, !.crpix = model.pix,
                              !.cd = model.cd, !.torn = model.torn,
                              !.wat = IF model.valid_res THEN model.res[1] ELSE header.wat]
        torn == [header EXCEPT !.torn = TRUE, !.ctype = TRUE]
        point == [torn EXCEPT !.crval = model.wcs]
        pixel == [point EXCEPT !.crpix = model.pix]
    IN  /\ UNCHANGED model
        /\ \/ ~model.valid_cd /\ status' = -1 /\ UNCHANGED header
           \/ model.valid_cd /\ status' = 0 /\ header' = keys
           \/ model.valid_cd /\ status' = 1 /\ UNCHANGED header
           \/ /\ model.valid_cd /\ status' = 1
              /\ header' \in {torn, point, pixel, [pixel EXCEPT !.cd = model.cd],
                             [keys EXCEPT !.torn = TRUE]}

TMNext == OtherFile \/ LoadImage \/ WriteImage \/ \E s \in Text : LoadText(s)

TMSpec == TMInit /\ [][TMNext]_tmVars

(* ------------------------------ properties ------------------------------ *)

\* The reference pixel that stands beside the matrix c was loaded with it.  A text
\* without a line of the pixel is the exception: that coordinate stays whatever
\* was loaded before, and LoadText reports success all the same.
LoadedTogether(c, pix) ==
    \A k \in 1 .. 2 : pix[k] = c \/ (c \in Text /\ PixelLine[k] \notin Lines[c])

\* A matrix that counts as valid, its inverse and the reference pixel it turns
\* about are of one source, but for a text that lacks the lines of the pixel,
\* after any sequence of loads of which some failed half way and of writes in
\* between.  What is loaded from a header torn by a failed write is excepted.
ValidIsOneSource ==
    model.valid_cd => /\ model.ccd = model.cd
                      /\ ~model.torn => LoadedTogether(model.cd, model.pix)

\* WCSTNX.h, LoadImage: the TNX parameters are loaded from the FITS header, both
\* coordinates of the reference point among them.
PointIsLoaded ==
    [][LoadImage /\ status' = 0 /\ header.crval # Nowhere => model'.wcs = header.crval]_tmVars
=============================================================================
