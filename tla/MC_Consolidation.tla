-------------------------- MODULE MC_Consolidation --------------------------
(* Three segments of sizes 1, 1 and 3, two names for new segments, and     *)
(* options allowing at most two segments and three bytes per merge.        *)
EXTENDS Consolidation, TLC

CONSTANTS a, b, c

MC_InitSegs == {a, b, c}
MC_InitSize == (a :> 1) @@ (b :> 1) @@ (c :> 3)

=============================================================================
