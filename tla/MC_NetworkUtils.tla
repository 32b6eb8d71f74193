--------------------------- MODULE MC_NetworkUtils ---------------------------
EXTENDS NetworkUtils

(* Byte strings over Chars of the given lengths.                           *)
StringsOf(lens) == UNION {[1 .. n -> Chars] : n \in lens}

(* Names of 1 and 2 bytes fit a 3-byte buffer with their NUL; 3 bytes do   *)
(* not.  Arguments of 0 to 3 bytes: prefixes, extensions and others.       *)
MC_HostNames == StringsOf(1 .. NAME_SIZE)
MC_Args == StringsOf(0 .. NAME_SIZE)
=============================================================================
