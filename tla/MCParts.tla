-------------------------------- MODULE MCParts --------------------------------
(***************************************************************************)
(* Everything beside the frame pipeline, the finder's thread and the       *)
(* receiving of lines: the classes of airs without a thread, the finder's  *)
(* candidates and marks, the links with the servers, and the image         *)
(* reduction of airs1.  The parts share no state, so one run checks them   *)
(* side by side: the first state picks the part that moves, the others     *)
(* stay parked.                                                            *)
(***************************************************************************)
EXTENDS TimeSpace, Calendar, TnxModel, TnxFit, Reduct, MCLabels,
        Candidates, BadMarks, TcpLink, TcpSend

VARIABLES part,                   \* the part that moves
          n, mat, wild,           \* LinearAlgebra
          xterm, xorder, yorder, nterm, ready, \* TnxTerms
          msg, line, got          \* AsciiProtocol

laVars == <<n, mat, wild>>
ttVars == <<xterm, xorder, yorder, nterm, ready>>
apVars == <<msg, line, got>>
vars == <<part, tsVars, calVars, laVars, ttVars, tfVars, tmVars, apVars, glVars, rdVars,
          cnVars, bmVars, lkVars, sdVars>>

Entries == {-1, 0, 1, 2}

TextLines == [s \in Text |-> IF s = CHOOSE t \in Text : TRUE
                             THEN {"xpixref", "ypixref", "lngref", "latref"}
                             ELSE {"lngref", "xpixref"}]

\* Masked: nothing, a pixel or everything.
FewMasks(k) == {{}, {1}, 1 .. k}

L == INSTANCE LinearAlgebra WITH Bits <- {0, 1}
T == INSTANCE TnxTerms WITH Orders <- {1, 2, 3, 4, 5, 7, 10, 11}, nitem <- nterm
P == INSTANCE AsciiProtocol WITH sent <- msg, MaxSet <- 2

Init ==
    /\ part \in {"time", "calendar", "algebra", "terms", "fit", "model", "protocol",
                "labels", "reduction", "candidates", "marks", "link", "send"}
    /\ GLInit /\ (part # "labels" => bright = {} /\ ~ucs)
    /\ TSInit /\ (part # "time" => aab.t = Unset /\ site = CHOOSE s \in Site : TRUE)
    /\ TFInit /\ (part # "fit" => auto)
    /\ RDInit /\ (part # "reduction" => conv.loaded)
    /\ BMInit /\ (part # "marks" => ~file.listed)
    /\ CalInit /\ (part # "calendar" => dayno = 0)
    /\ L!LAInit /\ T!TTInit /\ TMInit /\ P!APInit /\ CNInit /\ LKInit /\ SDInit

Next ==
    /\ UNCHANGED part
    /\ IF part = "time" THEN TSNext ELSE UNCHANGED tsVars
    /\ IF part = "calendar" THEN CalNext ELSE UNCHANGED calVars
    /\ IF part = "algebra" THEN L!LANext ELSE UNCHANGED laVars
    /\ IF part = "terms" THEN T!TTNext ELSE UNCHANGED ttVars
    /\ IF part = "fit" THEN TFNext ELSE UNCHANGED tfVars
    /\ IF part = "model" THEN TMNext ELSE UNCHANGED tmVars
    /\ IF part = "protocol" THEN P!APNext ELSE UNCHANGED apVars
    /\ IF part = "labels" THEN GLNext ELSE UNCHANGED glVars
    /\ IF part = "reduction" THEN RDNext ELSE UNCHANGED rdVars
    /\ IF part = "candidates" THEN CNNext ELSE UNCHANGED cnVars
    /\ IF part = "marks" THEN BMNext ELSE UNCHANGED bmVars
    /\ IF part = "link" THEN LKNext ELSE UNCHANGED lkVars
    /\ IF part = "send" THEN SDNext ELSE UNCHANGED sdVars

Spec == Init /\ [][Next]_vars

\* The properties, stated and explained in the module of each class; those of
\* the extended modules come with them.
InverseInverts == part = "algebra" => L!InverseInverts
FitFindsCoefficients == part = "algebra" => L!FitFindsCoefficients
ItemsFillTheBuffers == part = "terms" => T!ItemsFillTheBuffers
ReadsBack == part = "protocol" => P!ReadsBack
=============================================================================
