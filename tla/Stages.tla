------------------------------- MODULE Stages -------------------------------
(***************************************************************************)
(* The four processing stages a FITS frame goes through in airs, in the    *)
(* order DoProcess chains them: image reduction (AstroDIP), astrometry     *)
(* (AstroMetry), catalogue matching (MatchCatalog) and photometry          *)
(* (PhotoMetry).  Frames are numbered in the order they are submitted.     *)
(***************************************************************************)
EXTENDS Naturals

CONSTANTS NumFrames,     \* how many frames are submitted
          DoAstrometry,  \* Parameter::doAstrometry
          DoPhotometry   \* Parameter::doPhotometry

ASSUME NumFramesAssumption == NumFrames \in Nat
ASSUME SwitchAssumption == DoAstrometry \in BOOLEAN /\ DoPhotometry \in BOOLEAN

Frame == 1 .. NumFrames

Stage == {"reduct", "astro", "match", "photo"}

\* The queue the result callback of each stage but the last pushes onto.
NextStage == [reduct |-> "astro", astro |-> "match", match |-> "photo"]

\* Whether the callback of stage s pushes a successful frame onto the next
\* queue: the configuration can switch off astrometry and photometry.
FeedsNext(s) == \/ s = "reduct" /\ DoAstrometry
                \/ s = "astro" /\ DoPhotometry
                \/ s = "match"
=============================================================================
