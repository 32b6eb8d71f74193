----------------------------- MODULE ScoreOrder -----------------------------
(***************************************************************************)
(* A sort order and its prepared form (irs::order, order::prepared,        *)
(* src/core/search/sort.hpp).  The user builds the order with add<T>,      *)
(* remove<T> and clear.  prepare() turns every sort into a prepared_sort  *)
(* holding the sort's prepared bucket and the offset of the bucket's slice *)
(* in the shared score buffer; the buffer is size() bytes.  A document is *)
(* scored by zeroing each slice (prepare_score) and letting each sub-      *)
(* scorer write its score into its own slice; two buffers are combined     *)
(* slice by slice with each bucket's add (spec 4.4).                      *)
(*                                                                         *)
(* The bodies of order::prepare, prepared::add and scorers::score are     *)
(* in sort.cpp, not under src/; they are modelled from spec 4.4.  While    *)
(* prepare() appends prepared_sorts, the vector may reallocate and move   *)
(* every element with prepared_sort's move constructor; when it does is   *)
(* the library's choice, so every step may or may not reallocate.          *)
(*                                                                         *)
(* The buffer is modelled byte by byte: a byte holds <<v, j>>, byte j of  *)
(* a score v.  Reading a slice yields v only if its bytes are those of v; *)
(* a slice another bucket wrote over reads as that bucket's bytes.         *)
(***************************************************************************)
EXTENDS Naturals, Sequences, SequencesExt

CONSTANTS
  Types,      \* sort types (sort::type_id)
  ScoreSize,  \* [Types -> positive]: sizeof(score_t) of the type's bucket
  Values,     \* score values a sub-scorer may produce (score_t, ordered by <)
  MaxSorts    \* bound: entries of an order in a model run

Uninit == <<-1, -1>>   \* a byte of the buffer never written
Corrupt == -1          \* a slice whose bytes are not one score's

VARIABLES
  order,     \* order::order_: the sort types, in order
  porder,    \* prepared::order_: <<[bucket, offset]>>
  psize,     \* prepared::size_
  i,         \* the next entry of order that prepare() turns into a bucket
  phase,     \* "order", "prepare", "ready", "scored", "added"
  lhs, rhs,  \* two score buffers: [0 .. psize-1 -> byte]
  lvals,     \* history: the score each bucket gave the lhs document
  rvals      \* history: the score each bucket gave the rhs document

vars == <<order, porder, psize, i, phase, lhs, rhs, lvals, rvals>>

Entry == [bucket : Types, offset : Nat]

TypeOK ==
  /\ order \in Seq(Types) /\ Len(order) <= MaxSorts
  /\ porder \in Seq(Entry)
  /\ psize \in Nat /\ i \in Nat
  /\ phase \in {"order", "prepare", "ready", "scored", "added"}

Init ==
  /\ order = <<>> /\ porder = <<>> /\ psize = 0 /\ i = 1
  /\ phase = "order"
  /\ lhs = <<>> /\ rhs = <<>> /\ lvals = <<>> /\ rvals = <<>>

-----------------------------------------------------------------------------
(* Building the order.                                                     *)

(* order::add<T>: order_.emplace_back(T::make(...)).                        *)
add(t) ==
  /\ phase = "order" /\ Len(order) < MaxSorts
  /\ order' = Append(order, t)
  /\ UNCHANGED <<porder, psize, i, phase, lhs, rhs, lvals, rvals>>

(* order::remove<T> / remove(type_id): every entry of that type goes.      *)
remove(t) ==
  /\ phase = "order" /\ \E k \in DOMAIN order : order[k] = t
  /\ order' = SelectSeq(order, LAMBDA x : x # t)
  /\ UNCHANGED <<porder, psize, i, phase, lhs, rhs, lvals, rvals>>

(* order::clear: order_.clear().                                            *)
clear ==
  /\ phase = "order" /\ order # <<>>
  /\ order' = <<>>
  /\ UNCHANGED <<porder, psize, i, phase, lhs, rhs, lvals, rvals>>

-----------------------------------------------------------------------------
(* order::prepare().                                                       *)

(* Mutant of MoveSort: the move constructor leaves offset at 0, as the     *)
(* constructor from a bucket does.                                         *)
MoveSortDropOffset(e) == [bucket |-> e.bucket, offset |-> 0]

(* prepared_sort(prepared_sort&& rhs): the bucket and the offset move to  *)
(* the new element (rhs.offset is reset, and the old storage dropped).    *)
MoveSort(e) == [bucket |-> e.bucket, offset |-> e.offset]

(* Reallocation of prepared::order_: every element is move-constructed.    *)
Realloc(v) == [k \in DOMAIN v |-> MoveSort(v[k])]

StartPrepare ==
  /\ phase = "order"
  /\ phase' = "prepare" /\ porder' = <<>> /\ psize' = 0 /\ i' = 1
  /\ UNCHANGED <<order, lhs, rhs, lvals, rvals>>

(* One iteration of prepare(): the next sort's bucket is appended with    *)
(* offset size_, and size_ grows by the bucket's size().                   *)
PrepareEntry(realloc) ==
  /\ phase = "prepare" /\ i <= Len(order)
  /\ LET kept == IF realloc THEN Realloc(porder) ELSE porder IN
     porder' = Append(kept, [bucket |-> order[i], offset |-> psize])
  /\ psize' = psize + ScoreSize[order[i]]
  /\ i' = i + 1
  /\ UNCHANGED <<order, phase, lhs, rhs, lvals, rvals>>

FinishPrepare ==
  /\ phase = "prepare" /\ i > Len(order)
  /\ phase' = "ready"
  /\ UNCHANGED <<order, porder, psize, i, lhs, rhs, lvals, rvals>>

-----------------------------------------------------------------------------
(* The score buffer.                                                       *)

(* Write score v over the slice of entry e, byte by byte.                  *)
WriteSlice(buf, e, v) ==
  [b \in DOMAIN buf |->
     IF e.offset <= b /\ b < e.offset + ScoreSize[e.bucket]
     THEN <<v, b - e.offset>> ELSE buf[b]]

(* prepared_base::less/add reinterpret the slice as a score_t.             *)
Read(buf, e) ==
  LET v == buf[e.offset][1] IN
  IF \A j \in 0 .. ScoreSize[e.bucket] - 1 :
       e.offset + j \in DOMAIN buf /\ buf[e.offset + j] = <<v, j>>
  THEN v ELSE Corrupt

(* prepared_base::prepare_score: memset of size() bytes at the slice.      *)
PrepareScore(buf, e) == WriteSlice(buf, e, 0)

(* A document's buffer: every bucket's slice is prepared, then every       *)
(* scorer writes its score v[k] at ord[k].offset.                          *)
ScoreBuffer(v) ==
  LET blank == [b \in 0 .. psize - 1 |-> Uninit]
      zeroed == FoldLeftDomain(LAMBDA acc, k : PrepareScore(acc, porder[k]),
                               blank, porder)
  IN FoldLeftDomain(LAMBDA acc, k : WriteSlice(acc, porder[k], v[k]),
                    zeroed, porder)

(* Two documents are scored by the prepared order.                         *)
Score(vl, vr) ==
  /\ phase = "ready"
  /\ lhs' = ScoreBuffer(vl) /\ rhs' = ScoreBuffer(vr)
  /\ lvals' = vl /\ rvals' = vr
  /\ phase' = "scored"
  /\ UNCHANGED <<order, porder, psize, i>>

(* prepared::add(lhs, rhs): each bucket's add, dst += src, on its slice.    *)
AddBuffers(dst, src) ==
  FoldLeftDomain(LAMBDA acc, k :
                   WriteSlice(acc, porder[k],
                              Read(acc, porder[k]) + Read(src, porder[k])),
                 dst, porder)

Add ==
  /\ phase = "scored"
  /\ lhs' = AddBuffers(lhs, rhs)
  /\ lvals' = [k \in DOMAIN lvals |-> lvals[k] + rvals[k]]
  /\ phase' = "added"
  /\ UNCHANGED <<order, porder, psize, i, rhs, rvals>>

(* The query is done; the user may change the order and prepare again.    *)
Done ==
  /\ phase \in {"scored", "added"}
  /\ phase' = "order"
  /\ UNCHANGED <<order, porder, psize, i, lhs, rhs, lvals, rvals>>

Next ==
  \/ \E t \in Types : add(t) \/ remove(t)
  \/ clear
  \/ StartPrepare
  \/ \E realloc \in BOOLEAN : PrepareEntry(realloc)
  \/ FinishPrepare
  \/ \E vl, vr \in [1 .. Len(porder) -> Values] : Score(vl, vr)
  \/ Add
  \/ Done

Spec == Init /\ [][Next]_vars

-----------------------------------------------------------------------------
Scored == phase \in {"scored", "added"}

(* Spec 4.4: every sub-scorer scores into its own sub-slice of the shared  *)
(* buffer, whatever reallocation prepare() went through, so every bucket   *)
(* reads back exactly its own score, and after prepared::add the sum.      *)
ScoresReadBack ==
  Scored => \A k \in DOMAIN porder :
              Read(lhs, porder[k]) = lvals[k] /\ Read(rhs, porder[k]) = rvals[k]

=============================================================================
