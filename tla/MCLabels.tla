------------------------------ MODULE MCLabels ------------------------------
(***************************************************************************)
(* Small pictures for GlobLabel: every pixel has the value 1, or the first *)
(* of the scan has a value below the background.                           *)
(***************************************************************************)
EXTENDS GlobLabel

Even == [p \in Pixel |-> 1]
FirstBelow == [Even EXCEPT ![<<0, 0>>] = -2]

EvenOnly == {Even}
BelowOnly == {FirstBelow}
=============================================================================
