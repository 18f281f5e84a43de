------------------------------- MODULE TnxTerms -------------------------------
(***************************************************************************)
(* PrjTNXRes: the terms of one residual polynomial of the TNX model and    *)
(* the buffers their values are kept in.  The orders and the cross terms   *)
(* are set in one call (or read from a file), the buffers are made in      *)
(* another, and the polynomial is walked by a third.                       *)
(***************************************************************************)
EXTENDS Integers, FiniteSets, FiniteSetsExt

CONSTANT Orders \* orders asked for; Initialize takes 2..10

VARIABLES xterm, xorder, yorder, \* as SetParam or a file left them
          nitem,                 \* length of coef, xv and yv; 0: not allocated
          ready                  \* what Initialize returned for these parameters

ttVars == <<xterm, xorder, yorder, nitem, ready>>

Smaller == IF xorder < yorder THEN xorder ELSE yorder
Larger == IF xorder < yorder THEN yorder ELSE xorder

TTInit == xterm = "X_NONE" /\ xorder = 0 /\ yorder = 0 /\ nitem = 0 /\ ready = FALSE

SetParam ==
    /\ xterm' \in {"X_NONE", "X_FULL", "X_HALF"}
    /\ xorder' \in Orders /\ yorder' \in Orders
    /\ ready' = FALSE /\ UNCHANGED nitem

\* The number of terms; buffers of another length are freed and made anew, those
\* of the same length are kept, and refused orders leave the old ones in place.
Terms == CASE xterm = "X_NONE" -> xorder + yorder - 1
           [] xterm = "X_FULL" -> xorder * yorder
           [] xterm = "X_HALF" -> xorder * yorder - (Smaller * (Smaller - 1)) \div 2
\* Mutant: buffers that exist are taken to be long enough.
Initialize_Once ==
    /\ ready' = (xorder \in 2..10 /\ yorder \in 2..10)
    /\ nitem' = IF ready' /\ nitem = 0 THEN Terms ELSE nitem
    /\ UNCHANGED <<xterm, xorder, yorder>>
Initialize ==
    /\ ready' = (xorder \in 2..10 /\ yorder \in 2..10)
    /\ nitem' = IF ready' THEN Terms ELSE nitem
    /\ UNCHANGED <<xterm, xorder, yorder>>

TTNext == SetParam \/ Initialize
TTSpec == TTInit /\ [][TTNext]_ttVars

\* The walk of ItemVector and PolyVal: how many powers of x go with power j of y,
\* and the coefficients passed when it ends.
imax(j) ==
    CASE j = 0 \/ xterm = "X_FULL" -> xorder
      [] j > 0 /\ xterm = "X_NONE" -> 1
      [] j > 0 /\ xterm = "X_HALF" ->
            xorder - Cardinality({k \in 1..j : k + xorder > Larger})
ItemVector == MapThenSumSet(imax, 0..(yorder - 1))

\* The walk over the terms passes exactly the coefficients the buffers were made
\* for, in every arrangement of orders and cross terms that Initialize takes and
\* whatever was allocated before, and no power of x goes with a negative count;
\* the buffers hold the powers of either variable.
ItemsFillTheBuffers ==
    ready => /\ ItemVector = nitem
             /\ \A j \in 0..(yorder - 1) : imax(j) >= 1
             /\ Larger <= nitem
=============================================================================
