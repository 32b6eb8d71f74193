----------------------------- MODULE MC_WandTopK -----------------------------
(* Two segments of two documents and one BM25-like scorer needing the   *)
(* frequency index feature and a norm column.  A segment's field has       *)
(* everything, lacks frequencies, has no norm column, or has an invalid    *)
(* one (field_limits::valid false).  Top-1 fills the heap on the first     *)
(* document and prunes the rest of its segment, top-2 fills it at the end  *)
(* of the first segment, top-3 inside the second, and top-5 never, as the  *)
(* test's limit of 100 against small segments.                             *)
EXTENDS WandTopK

MC_FieldMetas ==
  { [index_features |-> {"freq"}, features |-> [f \in {"norm"} |-> TRUE]],
    [index_features |-> {},       features |-> [f \in {"norm"} |-> TRUE]],
    [index_features |-> {"freq"}, features |-> [f \in {} |-> TRUE]],
    [index_features |-> {"freq"}, features |-> [f \in {"norm"} |-> FALSE]] }
=============================================================================
