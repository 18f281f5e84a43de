------------------------------ MODULE BadMarks ------------------------------
(***************************************************************************)
(* AFindPV and Parameter: objects that do not move are laid to bad columns *)
(* and doubtful pixels.  A bad column is remembered and saved when the     *)
(* service stops; the files of a pixel that proves bad are deleted when    *)
(* the finder is idle.  One camera, of which the loaded marks may know     *)
(* nothing yet.                                                            *)
(***************************************************************************)
EXTENDS Integers, Sequences, FiniteSets, SequencesExt

CONSTANTS Col, Row,   \* where objects stand
          BADCNT,     \* objects that make a column bad
          MaxObjects, \* objects of the model
          LastDay

ASSUME PlacesAssumption == Col \subseteq Int /\ Row \subseteq Nat \ {0}

\* The numbers of the first and the last frame of an object.
Arc == {<<1, 3>>, <<4, 6>>}

VARIABLES service, \* "down", "up", or "saved": StopService has called SaveBadmark
          marks,   \* badColSet: whether the camera is listed, and its columns
          file,    \* the same in the file pathBadmark
          dirty,   \* Parameter::dirty
          open,    \* the finder has a sequence
          clean,   \* columns whose points the sequence does not have
          unc,     \* uncbadcol_
          doubt,   \* doubtPixSet_
          day,     \* mjdold_
          idpv,    \* number of the last object file
          objs     \* history: the objects that stood still, and what became of their file

bmVars == <<service, marks, file, dirty, open, clean, unc, doubt, day, idpv, objs>>

Near(a, b) == a - b \in -2 .. 2

\* CameraBadcol::test and add
test(cols, c) == \E k \in DOMAIN cols : Near(cols[k], c)
add(cols, c) == IF test(cols, c) THEN cols ELSE Append(cols, c)

NoMarks == [listed |-> FALSE, cols |-> << >>]

BMInit == /\ service = "down"
          /\ marks = NoMarks
          /\ file \in {NoMarks} \cup [listed : {TRUE}, cols : {<<c>> : c \in Col}]
          /\ dirty = FALSE
          /\ open = FALSE /\ clean = << >> /\ unc = << >> /\ doubt = << >>
          /\ day = 0 /\ idpv = 0
          /\ objs = << >>

\* StartService: a new Parameter reads the marks, new finders start without a day.
\* LoadBadmark adds the columns one by one.
LoadFile ==
    /\ service = "down" /\ service' = "up"
    /\ marks' = [file EXCEPT !.cols = FoldLeft(add, << >>, file.cols)]
    /\ dirty' = FALSE
    /\ open' = FALSE /\ clean' = << >> /\ unc' = << >> /\ doubt' = << >>
    /\ day' = 0 /\ idpv' = 0
    /\ UNCHANGED <<file, objs>>

\* Mutant: the doubtful pixels of the day before are kept.
create_dir_Kept(d) ==
    /\ day' = d
    /\ IF d = day THEN UNCHANGED idpv ELSE idpv' = 0
    /\ UNCHANGED doubt

create_dir(d) ==
    /\ day' = d
    /\ IF d = day THEN UNCHANGED <<idpv, doubt>> ELSE idpv' = 0 /\ doubt' = << >>

\* The first frame of a sequence.  remove_badpix takes the points in known bad
\* columns out of this frame and all that follow.
NewSequence ==
    /\ service \in {"up", "saved"}
    /\ \E d \in {day, day + 1} \cap 1 .. LastDay : create_dir(d)
    /\ open' = TRUE
    /\ clean' = marks.cols
    /\ unc' = << >>
    /\ UNCHANGED <<service, marks, file, dirty, objs>>

\* Mutant: the marks are modified only when a camera is added to them.
AddBadcol_Clean(c) ==
    IF marks.listed
    THEN marks' = [marks EXCEPT !.cols = add(@, c)] /\ UNCHANGED dirty
    ELSE marks' = [marks EXCEPT !.listed = TRUE] /\ dirty' = TRUE

\* A camera that is not listed is put in the set without the column, which goes to a
\* local copy.
AddBadcol(c) ==
    /\ marks' = IF marks.listed THEN [marks EXCEPT !.cols = add(@, c)]
                ELSE [marks EXCEPT !.listed = TRUE]
    /\ dirty' = TRUE

\* The first of the uncertain columns within two of this one.
Uncertain(c) == SelectInSeq(unc, LAMBDA u : Near(u.col, c))

IsBadcol(c) == Uncertain(c) > 0 /\ unc[Uncertain(c)].hit + 1 >= BADCNT

test_badcol(c) ==
    IF Uncertain(c) = 0
    THEN unc' = Append(unc, [col |-> c, hit |-> 1]) /\ UNCHANGED <<marks, dirty>>
    ELSE IF IsBadcol(c)
         THEN unc' = RemoveAt(unc, Uncertain(c)) /\ AddBadcol(c)
         ELSE unc' = [unc EXCEPT ![Uncertain(c)].hit = @ + 1] /\ UNCHANGED <<marks, dirty>>

\* doubt_pixel_set::get, and doubt_pixel::inc: an arc counts when it begins before the
\* end of the one before.
get(c, r) ==
    LET k == SelectInSeq(doubt, LAMBDA p : Near(p.col, c) /\ Near(p.row, r))
    IN  IF k > 0 THEN [k |-> k, set |-> doubt]
        ELSE [k |-> Len(doubt) + 1,
              set |-> Append(doubt, [col |-> c, row |-> r, count |-> 0, fno |-> 7, paths |-> {}])]

inc(p, arc) == [p EXCEPT !.count = IF arc[1] < p.fno THEN @ + 1 ELSE @, !.fno = arc[2]]

is_bad(p) == p.count >= 3

\* candidate2object of a candidate that stays in its column: a bad column, an object
\* that moves along it, or a doubtful pixel, whose file is written unless it is bad.
candidate2object ==
    /\ open /\ Len(objs) < MaxObjects
    /\ \E c \in Col :
         /\ ~test(clean, c)
         /\ test_badcol(c)
         /\ \/ /\ IsBadcol(c)
               /\ objs' = Append(objs, [col |-> c, row |-> 0, day |-> day, state |-> "column"])
               /\ UNCHANGED <<doubt, idpv>>
            \/ /\ ~IsBadcol(c)
               /\ objs' = Append(objs, [col |-> c, row |-> 0, day |-> day, state |-> "moving"])
               /\ idpv' = idpv + 1
               /\ UNCHANGED doubt
            \/ /\ ~IsBadcol(c)
               /\ \E r \in Row, arc \in Arc :
                    LET found == get(c, r)
                        pix == inc(found.set[found.k], arc)
                    IN  /\ objs' = Append(objs, [col |-> c, row |-> r, day |-> day,
                                   state |-> IF is_bad(pix) THEN "skipped" ELSE "written"])
                        /\ IF is_bad(pix) THEN UNCHANGED idpv ELSE idpv' = idpv + 1
                        /\ doubt' = [found.set EXCEPT ![found.k] =
                             IF is_bad(pix) THEN pix
                             ELSE [pix EXCEPT !.paths = @ \cup {Len(objs')}]]
    /\ UNCHANGED <<service, file, open, clean, day>>

\* An idle wait: the sequence ends, and recheck_doubt sorts the pixels by column,
\* deletes the files of the bad ones and forgets the files of the others.
recheck_doubt ==
    /\ open /\ open' = FALSE
    /\ unc' = << >>
    /\ LET bad == UNION {doubt[k].paths : k \in {k \in DOMAIN doubt : is_bad(doubt[k])}}
           cleared == [k \in DOMAIN doubt |-> [doubt[k] EXCEPT !.paths = {}]]
       IN  /\ objs' = [k \in DOMAIN objs |-> IF k \in bad THEN [objs[k] EXCEPT !.state = "removed"]
                                             ELSE objs[k]]
           /\ \E order \in [DOMAIN doubt -> DOMAIN doubt] :
                /\ IsInjective(order)
                /\ \A k \in 2 .. Len(doubt) : doubt[order[k - 1]].col <= doubt[order[k]].col
                /\ doubt' = [k \in DOMAIN doubt |-> cleared[order[k]]]
    /\ UNCHANGED <<service, marks, file, dirty, clean, day, idpv>>

\* StopService saves the marks, and only then destroys the finders, which until then
\* go on with the frames they have.
SaveBadmark ==
    /\ service = "up" /\ service' = "saved"
    /\ file' = IF dirty THEN marks ELSE file
    /\ UNCHANGED <<marks, dirty, open, clean, unc, doubt, day, idpv, objs>>

DestroyFinders ==
    /\ service = "saved" /\ service' = "down"
    /\ open' = FALSE
    /\ UNCHANGED <<marks, file, dirty, clean, unc, doubt, day, idpv, objs>>

BMNext == \/ LoadFile \/ NewSequence \/ candidate2object \/ recheck_doubt
          \/ SaveBadmark \/ DestroyFinders

BMSpec == BMInit /\ [][BMNext]_bmVars

\* When StopService has called SaveBadmark, a service that starts now knows the columns
\* this one knew: nothing that was learnt since the marks were loaded is left out,
\* whether or not anything was.
SavedMarksComeBack ==
    [][service = "up" /\ service' = "saved" => file' = marks']_bmVars

\* The file of an object is deleted only when at least three objects of its day stood
\* where it stands, however the days, sequences and pauses fell between them.
OnlyHotFilesRemoved ==
    \A k \in DOMAIN objs :
      objs[k].state = "removed" =>
        Cardinality({j \in DOMAIN objs : /\ objs[j].row > 0 /\ objs[j].day = objs[k].day
                                         /\ objs[j].col - objs[k].col \in -4 .. 4
                                         /\ objs[j].row - objs[k].row \in -4 .. 4}) >= 3
==============================================================================
