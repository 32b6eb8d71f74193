--------------------------- MODULE MC_ScoreOrder ---------------------------
(* Two sort types whose scores take one and two bytes, so that slices of   *)
(* different widths sit side by side in the buffer.                        *)
EXTENDS ScoreOrder

CONSTANTS tA, tB

MC_Types == {tA, tB}
MC_ScoreSize == (tA :> 1) @@ (tB :> 2)

=============================================================================
