----------------------------- MODULE MC_Postings -----------------------------
(* Postings with blocks of 4 bytes and terms of every interesting length:  *)
(* shorter than a block (t2, t3), exactly a block (t4), longer than a      *)
(* block and refused (t5), and empty (t0).                                 *)
EXTENDS Postings

CONSTANTS t0, t2, t3, t4, t5

MC_Terms == {t0, t2, t3, t4, t5}
MC_TermLen == (t0 :> 0) @@ (t2 :> 2) @@ (t3 :> 3) @@ (t4 :> 4) @@ (t5 :> 5)
=============================================================================
