----------------------------- MODULE MCPipeline -----------------------------
(* Instances of Pipeline for TLC.                                          *)
EXTENDS Pipeline

CONSTANTS camA, camB

\* Frames of two cameras in turn.
MCCameraOf == [f \in Frame |-> IF f % 2 = 1 \/ camB \notin Camera THEN camA ELSE camB]
=============================================================================
