---------------------------- MODULE SegmentWriter ----------------------------
(***************************************************************************)
(* The document-write transaction of irs::segment_writer                   *)
(* (src/core/index/segment_writer.hpp): begin() opens a document, insert() *)
(* indexes and/or stores fields into it, commit() finishes it when every   *)
(* insert succeeded and rolls it back (masks its doc_id) otherwise.  The   *)
(* single caller (the index writer's document facade) is part of the      *)
(* model as the variable pc: one open document at a time, per the class    *)
(* comment "non-thread safe".                                              *)
(*                                                                         *)
(* Field data is abstracted to which (doc, field) pairs have index data    *)
(* (postings) and stored data (columns).  A worker that fails is a         *)
(* nondeterministic outcome: an index() that fails may already have put    *)
(* some of the field's tokens into the postings; a store() that fails has  *)
(* reset its column output.                                                *)
(***************************************************************************)
EXTENDS Naturals, Sequences, FiniteSets

CONSTANTS
  Fields,      \* field names
  Contexts,    \* update_context values {generation, update_id}
  EOF,         \* doc_limits::eof(), scaled down: doc ids are MIN .. EOF - 1
  MaxFlushes   \* bound: segments flushed in a model run

MIN == 1       \* doc_limits::min()

ASSUME EOF \in Nat /\ EOF > MIN /\ MaxFlushes \in Nat

DocIds == MIN .. EOF - 1

(* The three insert actions of the header: index_t, store_t, index_store_t. *)
Actions == {"index", "store", "index_store"}

(* What the worker of an insert did: succeeded, or failed in index()       *)
(* (leaving or not leaving partial postings), or failed in store().        *)
Outcomes == {"ok", "index_fail", "index_fail_partial", "store_fail"}

VARIABLES
  docs_context,  \* docs_context_: one update_context per begun document
  docs_mask,     \* docs_mask_: removed / rolled-back doc ids
  valid,         \* valid_: the current document had no failed insert
  postings,      \* (doc, field) pairs with index data in fields_
  columns,       \* (doc, field) pairs with a value in a column of columns_
  finished,      \* docs finish() was called for
  segments,      \* flushed segment metas: [docs_count, live_docs_count]
  pc,            \* the caller: "idle" or "open" (between begin and commit)
  failed,        \* history: docs an insert returned false for
  removed        \* history: docs removed through remove(doc_id)

vars == <<docs_context, docs_mask, valid, postings, columns, finished,
          segments, pc, failed, removed>>

TypeOK ==
  /\ docs_context \in Seq(Contexts) /\ Len(docs_context) <= EOF - MIN
  /\ docs_mask \subseteq DocIds
  /\ valid \in BOOLEAN
  /\ postings \subseteq DocIds \X Fields
  /\ columns \subseteq DocIds \X Fields
  /\ finished \subseteq DocIds
  /\ segments \in Seq([docs_count : Nat, live_docs_count : Nat])
  /\ pc \in {"idle", "open"}
  /\ failed \subseteq DocIds /\ removed \subseteq DocIds

Init ==
  /\ docs_context = <<>>
  /\ docs_mask = {}
  /\ valid = TRUE
  /\ postings = {} /\ columns = {}
  /\ finished = {}
  /\ segments = <<>>
  /\ pc = "idle"
  /\ failed = {} /\ removed = {}

(* docs_cached(): documents begun since the last reset.                    *)
docs_cached == Len(docs_context)

(* doc_id_t(docs_cached() + doc_limits::min() - 1): the document every     *)
(* worker, rollback() and commit() act on, the last one begun.             *)
CurrentDoc == docs_cached + MIN - 1

(* Mutant of begin: the eof test is off by one ('>' for '>='), so eof     *)
(* itself is handed out as a doc_id.                                       *)
beginPastEof(ctx) ==
  /\ pc = "idle"
  /\ IF docs_cached + MIN > EOF
     THEN UNCHANGED vars
     ELSE /\ docs_context' = Append(docs_context, ctx)
          /\ valid' = TRUE
          /\ pc' = "open"
          /\ UNCHANGED <<docs_mask, postings, columns, finished, segments,
                         failed, removed>>

(* begin(ctx): the next doc_id, or eof when the id space is exhausted.     *)
begin(ctx) ==
  /\ pc = "idle"
  /\ IF docs_cached + MIN >= EOF
     THEN UNCHANGED vars                      \* returns eof: nothing begun
     ELSE /\ docs_context' = Append(docs_context, ctx)
          /\ valid' = TRUE
          /\ pc' = "open"
          /\ UNCHANGED <<docs_mask, postings, columns, finished, segments,
                         failed, removed>>

(* The data a worker leaves for field f of document d.                     *)
IndexData(d, f, out) ==
  IF out \in {"ok", "store_fail", "index_fail_partial"}
  THEN postings \cup {<<d, f>>} ELSE postings
(* store(): a failed writer.write(out) is undone by out.reset().           *)
StoreData(d, f, ok) ==
  IF ok THEN columns \cup {<<d, f>>} ELSE columns \ {<<d, f>>}

(* index_worker / store_worker / index_and_store_worker on the current     *)
(* document: the index part runs first, and index_and_store returns false  *)
(* without storing when it fails.                                          *)
WorkerOk(act, out) ==
  CASE act = "index"       -> out \in {"ok", "store_fail"}
    [] act = "store"       -> out \notin {"store_fail"}
    [] act = "index_store" -> out = "ok"
Worker(act, f, out) ==
  LET d == CurrentDoc IN
  /\ postings' = IF act = "store" THEN postings ELSE IndexData(d, f, out)
  /\ columns' = CASE act = "index" -> columns
                  [] act = "store" -> StoreData(d, f, out # "store_fail")
                  [] act = "index_store" ->
                       IF out \in {"ok", "store_fail"}
                       THEN StoreData(d, f, out = "ok") ELSE columns

(* Mutant of WriterInsert: the result is returned without latching it into *)
(* valid_ ("return valid_ && worker(field)").                              *)
WriterInsertNoLatch(act, f, out) ==
  /\ IF valid THEN Worker(act, f, out) ELSE UNCHANGED <<postings, columns>>
  /\ failed' = IF valid /\ WorkerOk(act, out) THEN failed
               ELSE failed \cup {CurrentDoc}
  /\ UNCHANGED <<valid, docs_context, docs_mask, finished, segments, pc, removed>>

(* segment_writer::insert(action, field): valid_ = valid_ && worker(field). *)
(* Once valid_ is false the worker is not called and insert keeps          *)
(* returning false.  Nothing here checks that a document is open.          *)
WriterInsert(act, f, out) ==
  /\ IF valid THEN Worker(act, f, out) ELSE UNCHANGED <<postings, columns>>
  /\ valid' = (valid /\ WorkerOk(act, out))
  /\ failed' = IF valid' THEN failed ELSE failed \cup {CurrentDoc}
  /\ UNCHANGED <<docs_context, docs_mask, finished, segments, pc, removed>>

(* document::insert, as the caller uses it between begin() and commit().   *)
insert(act, f, out) == pc = "open" /\ WriterInsert(act, f, out)

(* Mutant of rollback: the rolled-back document's context is dropped       *)
(* instead of its doc_id being masked, so the next begin() reuses the id.  *)
rollbackPop ==
  /\ docs_context' = SubSeq(docs_context, 1, docs_cached - 1)
  /\ valid' = FALSE
  /\ UNCHANGED docs_mask

(* rollback(): remove(current doc), valid_ = false.  The doc's data stays; *)
(* the mask hides it.                                                      *)
rollback ==
  /\ docs_mask' = docs_mask \cup {CurrentDoc}
  /\ valid' = FALSE
  /\ UNCHANGED docs_context

(* commit(): finish() if valid_, rollback() otherwise.  It acts on the     *)
(* last begun document whether or not that one is still open.             *)
WriterCommit ==
  IF valid
  THEN /\ finished' = finished \cup {CurrentDoc}
       /\ UNCHANGED <<docs_context, docs_mask, valid>>
  ELSE /\ rollback
       /\ UNCHANGED finished

(* Mutant of commit: the caller's document stays open after commit(), so  *)
(* its next insert() and commit() act on the document just committed.      *)
commitKeepOpen ==
  /\ pc = "open"
  /\ WriterCommit
  /\ UNCHANGED <<pc, postings, columns, segments, failed, removed>>

(* The caller commits the open document and closes it.                     *)
commit ==
  /\ pc = "open"
  /\ WriterCommit
  /\ pc' = "idle"
  /\ UNCHANGED <<postings, columns, segments, failed, removed>>

(* The caller abandons the open document: rollback() called directly.     *)
Abandon ==
  /\ pc = "open"
  /\ rollback
  /\ pc' = "idle"
  /\ failed' = failed \cup {CurrentDoc}
  /\ UNCHANGED <<postings, columns, finished, segments, removed>>

(* remove(doc_id): mask a document begun in this segment (a replace or     *)
(* removal by the index writer).                                           *)
remove(d) ==
  /\ pc = "idle"
  /\ d \in MIN .. docs_cached + MIN - 1
  /\ docs_mask' = docs_mask \cup {d}
  /\ removed' = removed \cup {d}
  /\ UNCHANGED <<docs_context, valid, postings, columns, finished, segments,
                 pc, failed>>

(* Mutant of ResetState: the update contexts of the flushed segment are    *)
(* kept, so the next segment continues its doc ids.                        *)
ResetStateKeepContext ==
  /\ UNCHANGED docs_context /\ docs_mask' = {} /\ valid' = TRUE
  /\ postings' = {} /\ columns' = {} /\ finished' = {}
  /\ failed' = {} /\ removed' = {}

(* The state a new segment starts from (reset()).                          *)
ResetState ==
  /\ docs_context' = <<>> /\ docs_mask' = {} /\ valid' = TRUE
  /\ postings' = {} /\ columns' = {} /\ finished' = {}
  /\ failed' = {} /\ removed' = {}

(* flush(segment): write the segment, its doc count and the number of      *)
(* masked docs (flush_doc_mask), then start a new segment (reset()).       *)
flush ==
  /\ pc = "idle"
  /\ docs_cached > 0
  /\ Len(segments) < MaxFlushes
  /\ segments' = Append(segments,
                   [docs_count |-> docs_cached,
                    live_docs_count |-> docs_cached - Cardinality(docs_mask)])
  /\ ResetState
  /\ UNCHANGED pc

(* reset(): drop everything buffered without flushing.                     *)
reset ==
  /\ pc = "idle"
  /\ docs_cached > 0
  /\ ResetState
  /\ UNCHANGED <<segments, pc>>

Next ==
  \/ \E ctx \in Contexts : begin(ctx)
  \/ \E act \in Actions, f \in Fields, out \in Outcomes : insert(act, f, out)
  \/ commit
  \/ Abandon
  \/ \E d \in DocIds : remove(d)
  \/ flush
  \/ reset

Spec == Init /\ [][Next]_vars

-----------------------------------------------------------------------------
(* Docs begun and no longer open.                                          *)
Closed == {d \in MIN .. docs_cached + MIN - 1 : ~(pc = "open" /\ d = CurrentDoc)}

(* Spec P2, rollback isolation: a document for which some insert returned  *)
(* false is masked once it is closed, whichever worker failed and however  *)
(* many inserts followed the failure.                                      *)
FailedDocsMasked == \A d \in failed \cap Closed : d \in docs_mask

(* The live documents of the segment are exactly the ones committed with   *)
(* every insert succeeding and not removed since: a doc_id is never        *)
(* masked for another document's failure, and no failed one stays live.    *)
LiveDocsCommitted ==
  \A d \in Closed : (d \notin docs_mask) <=> (d \in finished \ (failed \cup removed))

(* Spec 8: callers "observe either successful commit (document visible)  *)
(* or rollback": a document commit() finished stays live in its segment;   *)
(* only remove(doc_id) may mask it afterwards, never the failure or the   *)
(* rollback of a document begun after it.                                  *)
CommitIsFinal ==
  [][\A d \in finished \ docs_mask : d \in docs_mask' => d \in removed']_vars

-----------------------------------------------------------------------------
(* Refinement mapping onto the abstract transaction: an id at or past      *)
(* docs_cached()+min is free, the current document of an open transaction *)
(* is open, a masked id is dead and a finished one live.                   *)
StatusOf(d) ==
  IF d >= docs_cached + MIN THEN "free"
  ELSE IF pc = "open" /\ d = CurrentDoc THEN "open"
  ELSE IF d \in docs_mask THEN "dead"
  ELSE IF d \in finished THEN "live"
  ELSE "free"

DocTxn == INSTANCE DocTransaction
            WITH status <- [d \in DocIds |-> StatusOf(d)],
                 next <- docs_cached + MIN

(* Spec P1 and 4.2: the writer implements the abstract transaction; doc   *)
(* ids are handed out in increasing order and never reused before a       *)
(* flush or reset, a closed document ends live or dead, and a masked one  *)
(* never becomes live again.                                               *)
ImplementsDocTransaction == DocTxn!Spec

=============================================================================
