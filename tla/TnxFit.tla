-------------------------------- MODULE TnxFit --------------------------------
(***************************************************************************)
(* WCSTNX fits the TNX model of one frame after the other: PrepareFit,     *)
(* AddSample for every matched star, then ProcessFit, which fits, throws   *)
(* out the stars beyond three sigma and fits again, at most four times.    *)
(* The model (matrix, residual coefficients, fit error) lives on between   *)
(* frames.  What a part of it was computed from is kept instead of its     *)
(* numbers: a set of stars and a reference point.                          *)
(***************************************************************************)
EXTENDS Naturals, FiniteSets

CONSTANTS NumFits, \* frames fitted one after the other
          StarsOf,   \* how many stars a frame offers, at most
          nitem,     \* coefficients of one residual polynomial
          itmax      \* 5 in ProcessFit

VARIABLES frame,   \* the frame being fitted
          stars,   \* stars_: the samples in the fit
          ref,     \* what ref_pix and ref_wcs stand for
          cd,      \* what the matrix was fitted to
          coef,    \* what the residual coefficients were fitted to
          errfit,  \* what errfit was computed from, and whether it is small
          auto,    \* no reference point was asked for: xauto && yauto
          pc, i, n0,
          result   \* what ProcessFit returned for the frame

tfVars == <<frame, stars, ref, cd, coef, errfit, auto, pc, i, n0, result>>

Star == (1..NumFits) \X (1..StarsOf)
Nothing == [stars |-> {}, ref |-> "none"]

TFInit ==
    /\ frame = 1 /\ stars = {} /\ ref = "none" /\ auto \in BOOLEAN
    /\ cd = Nothing /\ coef = Nothing /\ errfit = [of |-> Nothing, small |-> FALSE]
    /\ pc = "prepare" /\ i = 0 /\ n0 = 0 /\ result = 9

\* Mutant: the samples of the frame before stay.
PrepareFit_KeepStars ==
    /\ pc = "prepare" /\ pc' = "sampling"
    /\ ref' = IF auto THEN "none" ELSE "asked"
    /\ result' = 9
    /\ UNCHANGED <<frame, stars, cd, coef, errfit, auto, i, n0>>

\* Initialize() has its buffers; the samples of the frame before are dropped.
PrepareFit ==
    /\ pc = "prepare"
    /\ stars' = {}
    /\ ref' = IF auto THEN "none" ELSE "asked"
    /\ pc' = "sampling"
    /\ result' = 9
    /\ UNCHANGED <<frame, cd, coef, errfit, auto, i, n0>>

AddSample(s) ==
    /\ pc = "sampling" /\ s[1] = frame
    /\ stars' = stars \cup {s}
    /\ UNCHANGED <<frame, ref, cd, coef, errfit, auto, pc, i, n0, result>>

\* try_fit: the matrix first, then the residuals on top of it.  Either may meet a
\* matrix with a row of zeros; without samples the first one does.
TryFit(outcome, S, r) ==
    /\ outcome # "none" => S # {}
    /\ cd' = IF outcome = "none" THEN cd ELSE [stars |-> S, ref |-> r]
    /\ coef' = IF outcome = "ok" THEN [stars |-> S, ref |-> r] ELSE coef

\* calc_residual goes through the samples S with the model as it is.
CalcResidual(S, r) ==
    \E small \in BOOLEAN : errfit' = [of |-> [stars |-> S, ref |-> r], small |-> small]

Return(r) == result' = r /\ pc' = "done"

\* Too few samples, or the first fit around the star nearest to the reference.
ProcessFit ==
    /\ pc = "sampling"
    /\ UNCHANGED <<frame, stars, auto>>
    /\ \/ /\ Cardinality(stars) < nitem
          /\ Return(1)
          /\ UNCHANGED <<ref, cd, coef, errfit, i, n0>>
       \/ /\ Cardinality(stars) >= nitem
          /\ ref' = "star" /\ i' = 1
          /\ n0' = (3 * Cardinality(stars)) \div 5
          /\ \/ /\ TryFit("ok", stars, "star") /\ CalcResidual(stars, "star")
                /\ pc' = "loop" /\ UNCHANGED result
             \/ /\ TryFit("cd", stars, "star") \/ TryFit("none", stars, "star")
                /\ Return(2) /\ UNCHANGED errfit

Again == Cardinality(stars) > n0 /\ ~errfit.small /\ i < itmax

\* sig_clip drops whatever lies beyond three sigma (all of them when the errors
\* are alike and far from zero), then everything is fitted again.
Iterate ==
    /\ pc = "loop" /\ Again
    /\ i' = i + 1
    /\ \E left \in SUBSET stars :
          /\ stars' = left
          /\ \/ /\ TryFit("ok", left, ref) /\ CalcResidual(left, ref)
                /\ UNCHANGED <<pc, result>>
             \/ /\ TryFit("cd", left, ref) \/ TryFit("none", left, ref)
                /\ Return(2) /\ UNCHANGED errfit
    /\ UNCHANGED <<frame, ref, auto, n0>>

\* With a reference point asked for, the model is moved to it and fitted once
\* more, and what this last try_fit returns is not looked at.
Accept ==
    /\ pc = "loop" /\ ~Again
    /\ Return(0)
    /\ \/ auto /\ UNCHANGED <<ref, cd, coef, errfit>>
       \/ /\ ~auto /\ ref' = "asked"
          /\ \E o \in {"ok", "cd", "none"} : TryFit(o, stars, "asked")
          /\ CalcResidual(stars, "asked")
    /\ UNCHANGED <<frame, stars, auto, i, n0>>

\* MatchCatalog takes the next frame; the model stays as it is.
NextFrame ==
    /\ pc = "done" /\ frame < NumFits
    /\ frame' = frame + 1 /\ pc' = "prepare" /\ i' = 0
    /\ UNCHANGED <<stars, ref, cd, coef, errfit, auto, n0, result>>

TFNext ==
    \/ PrepareFit \/ ProcessFit \/ Iterate \/ Accept \/ NextFrame
    \/ \E s \in Star : AddSample(s)

TFSpec == TFInit /\ [][TFNext]_tfVars

(* ------------------------------ properties ------------------------------ *)

\* An accepted model is the model of its frame: matrix, coefficients and error
\* were all computed from the samples left in the end, about the reference point
\* in force, and none of those samples is of an earlier frame, whatever failed
\* on the frames before.  MatchCatalog uses it with the automatic reference.
ModelOfItsFrame ==
    result = 0 /\ auto =>
        /\ \A s \in stars : s[1] = frame \/ pc # "done"
        /\ cd = coef /\ coef = errfit.of
        /\ coef = [stars |-> stars, ref |-> ref]

\* WCSTNX.h: ProcessFit returns 1 when there are too few samples, so what it
\* accepts was fitted to at least as many samples as there are coefficients.
AcceptedHasSamples == result = 0 => Cardinality(coef.stars) >= nitem
=============================================================================
