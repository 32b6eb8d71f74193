-------------------------- MODULE MC_TokenStreams --------------------------
(* An empty string and a two-byte string.                                  *)
EXTENDS TokenStreams

MC_StrValues == {<<>>, <<97, 98>>}

=============================================================================
