------------------------------ MODULE WandTopK ------------------------------
(***************************************************************************)
(* Top-K collection with WAND pruning, as WandTestCase::Collect            *)
(* (src/tests/search/wand_test.cpp) drives it: the documents of every      *)
(* segment are scored in order; the first K fill a heap ordered by         *)
(* ScoredDoc::operator<, whose front is the worst kept document; a later   *)
(* document replaces the front when it scores strictly higher; and every   *)
(* change of the front is pushed into the iterator with score->Min(...).   *)
(*                                                                         *)
(* The iterator (not under src/, modelled from spec 4.5) may skip any      *)
(* document whose tail bound does not exceed that threshold, but only when *)
(* WAND is enabled for a valid scorer index and the segment's field has    *)
(* the features the scorer needs (CanUseWand); otherwise score->max.tail   *)
(* is the maximum float and nothing is skipped.  Skipping is a choice of   *)
(* the iterator, so every legal amount of pruning is explored.             *)
(*                                                                         *)
(* The index is chosen in Init: per segment the field's meta, per document *)
(* a score and the tail bound stored for it.  Where the field has the      *)
(* features, the bound is a true upper bound of the score; where it lacks  *)
(* them the stored bound means nothing and may be any value.               *)
(***************************************************************************)
EXTENDS Integers, FiniteSets

CONSTANTS
  NumSegments,    \* segments of the index
  NumDocs,        \* documents per segment (doc ids 1 .. NumDocs)
  Scores,         \* document scores (small integers stand for floats)
  Limits,         \* the Ks of top-K the test passes as 'limit'
  FieldMetas,     \* field metas a segment may have
  NeedIndexFeatures, \* scorer.index_features()
  NeedFeatures,   \* scorer.get_features(...)
  NumScorers      \* scorers.size(); wand_idx = NumScorers is an invalid index

NoMin == -1       \* no threshold pushed into this segment's iterator yet
Disable == 255    \* WandContext::kDisable

Segs == 1 .. NumSegments
DocsOf == 1 .. NumDocs
Bounds == Scores \cup {0}

VARIABLES
  score,      \* score[s][d]: what (*score)(&score_value) yields
  bound,      \* bound[s][d]: the tail bound the iterator prunes with
  meta,       \* meta[s]: the queried field's meta in segment s
  wand_idx,   \* mode.index of the WAND run
  limit,      \* the K of this Collect
  seg,        \* segment_id of the loop
  pos,        \* 0: segment not executed yet; d: next doc; NumDocs+1: exhausted
  left,       \* slots of the top-K not filled yet
  sorted,     \* the heap: set of [seg, doc, score]
  threshold,  \* the value last given to score->Min in this segment
  skipped     \* observation: the documents the iterator skipped

vars == <<score, bound, meta, wand_idx, limit, seg, pos, left, sorted, threshold,
          skipped>>
index == <<score, bound, meta, wand_idx, limit>>

ScoredDoc == [seg : Segs, doc : DocsOf, score : Scores]

TypeOK ==
  /\ score \in [Segs -> [DocsOf -> Scores]]
  /\ bound \in [Segs -> [DocsOf -> Bounds]]
  /\ meta \in [Segs -> FieldMetas]
  /\ wand_idx \in 0 .. NumScorers
  /\ seg \in 1 .. NumSegments + 1 /\ pos \in 0 .. NumDocs + 1
  /\ limit \in Limits /\ left \in 0 .. limit
  /\ sorted \subseteq ScoredDoc
  /\ threshold \in Scores \cup {NoMin}
  /\ skipped \subseteq Segs \X DocsOf

(* Mutant of CanUseWand: the feature checks are dropped, only the scorer   *)
(* index is tested.                                                        *)
CanUseWandIndexOnly(idx, m) == idx < NumScorers

(* WandTestCase::CanUseWand: the scorer's index features are a subset of   *)
(* the field's, every feature it needs is in the field's feature table     *)
(* with a valid column, and the scorer index is in range.                  *)
CanUseWand(idx, m) ==
  /\ NeedIndexFeatures \subseteq m.index_features
  /\ \A f \in NeedFeatures : f \in DOMAIN m.features /\ m.features[f]
  /\ idx < NumScorers

(* Where a field has the index features and valid feature columns the    *)
(* scorer reads, the tail bound stored for it is a true upper bound of the *)
(* scores; where it has not, the stored bound means nothing.               *)
BoundMeaningful(m) ==
  /\ NeedIndexFeatures \subseteq m.index_features
  /\ NeedFeatures \subseteq {f \in DOMAIN m.features : m.features[f]}

Init ==
  /\ meta \in [Segs -> FieldMetas]
  /\ score \in [Segs -> [DocsOf -> Scores]]
  /\ bound \in {b \in [Segs -> [DocsOf -> Bounds]] :
                  \A s \in Segs, d \in DocsOf :
                    BoundMeaningful(meta[s]) => b[s][d] >= score[s][d]}
  /\ wand_idx \in 0 .. NumScorers
  /\ seg = 1 /\ pos = 0
  /\ limit \in Limits
  /\ left = limit
  /\ sorted = {}
  /\ threshold = NoMin
  /\ skipped = {}

(* ScoredDoc::operator<: higher score first, then segment, then doc.       *)
Less(a, b) ==
  \/ a.score > b.score
  \/ a.score = b.score /\ a.seg < b.seg
  \/ a.score = b.score /\ a.seg = b.seg /\ a.doc < b.doc

(* Mutant of Front: the heap is built with the comparison reversed, so    *)
(* its front is the best document kept.                                    *)
FrontBest(S) == CHOOSE x \in S : \A y \in S : ~Less(y, x)

(* sorted.front() of the std heap built with operator<: its greatest       *)
(* element, the worst document kept.                                       *)
Front(S) == CHOOSE x \in S : \A y \in S : ~Less(x, y)

(* The collector's state between documents: the heap, left, and the last   *)
(* threshold given to score->Min.                                          *)
St(srt, l, t) == [sorted |-> srt, left |-> l, threshold |-> t]

(* Mutant of Collect: 'left' is decremented on a replacement as well.      *)
CollectDocAlwaysDecrement(st, doc) ==
  IF st.left > 0
  THEN LET srt == st.sorted \cup {doc} IN
       IF st.left - 1 = 0 THEN St(srt, 0, Front(srt).score)
                          ELSE St(srt, st.left - 1, st.threshold)
  ELSE IF Front(st.sorted).score < doc.score
       THEN LET srt == (st.sorted \ {Front(st.sorted)}) \cup {doc} IN
            St(srt, st.left - 1, Front(srt).score)
       ELSE st

(* Mutant of Collect: a document replaces the front on an equal score too. *)
CollectDocLeq(st, doc) ==
  IF st.left > 0
  THEN LET srt == st.sorted \cup {doc} IN
       IF st.left - 1 = 0 THEN St(srt, 0, Front(srt).score)
                          ELSE St(srt, st.left - 1, st.threshold)
  ELSE IF Front(st.sorted).score <= doc.score
       THEN LET srt == (st.sorted \ {Front(st.sorted)}) \cup {doc} IN
            St(srt, 0, Front(srt).score)
       ELSE st

(* The body of the while (docs->next()) loop for one scored document:      *)
(* fill the heap while 'left', make_heap and Min(front) when it is full;   *)
(* afterwards replace the front (pop_heap, overwrite back, push_heap) when *)
(* the front scores strictly lower, and Min(front).                        *)
CollectDoc(st, doc) ==
  IF st.left > 0
  THEN LET srt == st.sorted \cup {doc} IN
       IF st.left - 1 = 0 THEN St(srt, 0, Front(srt).score)
                          ELSE St(srt, st.left - 1, st.threshold)
  ELSE IF Front(st.sorted).score < doc.score
       THEN LET srt == (st.sorted \ {Front(st.sorted)}) \cup {doc} IN
            St(srt, 0, Front(srt).score)
       ELSE st

Doc(s, d) == [seg |-> s, doc |-> d, score |-> score[s][d]]

(* query->execute for segment seg, then "if (!left) score->Min(front)".    *)
ExecuteSegment ==
  /\ seg <= NumSegments /\ pos = 0
  /\ pos' = 1
  /\ threshold' = IF left = 0 THEN Front(sorted).score ELSE NoMin
  /\ UNCHANGED <<index, seg, left, sorted, skipped>>

(* docs->next() lands on document pos and the loop body scores it.         *)
ScoreDoc ==
  /\ seg <= NumSegments /\ pos \in DocsOf
  /\ LET st == CollectDoc(St(sorted, left, threshold), Doc(seg, pos)) IN
     /\ sorted' = st.sorted /\ left' = st.left /\ threshold' = st.threshold
  /\ pos' = pos + 1
  /\ UNCHANGED <<index, seg, skipped>>

(* Whether the iterator of segment s prunes: score->max.tail is a bound    *)
(* and not the maximum float.                                              *)
Prunes(s) == wand_idx # Disable /\ CanUseWand(wand_idx, meta[s])

(* docs->next() skips document pos: its tail bound cannot exceed the       *)
(* threshold.                                                              *)
SkipDoc ==
  /\ seg <= NumSegments /\ pos \in DocsOf
  /\ Prunes(seg)
  /\ threshold # NoMin
  /\ bound[seg][pos] <= threshold
  /\ pos' = pos + 1
  /\ skipped' = skipped \cup {<<seg, pos>>}
  /\ UNCHANGED <<index, seg, left, sorted, threshold>>

(* docs->next() returns false: ++segment_id.                               *)
NextSegment ==
  /\ seg <= NumSegments /\ pos = NumDocs + 1
  /\ seg' = seg + 1 /\ pos' = 0
  /\ UNCHANGED <<index, left, sorted, threshold, skipped>>

Next == ExecuteSegment \/ ScoreDoc \/ SkipDoc \/ NextSegment

Spec == Init /\ [][Next]_vars

Done == seg = NumSegments + 1

-----------------------------------------------------------------------------
(* The run with WandContext::kDisable: the same loop over every document   *)
(* in (segment, doc) order, nothing skipped.                               *)
AllDocs == [i \in 1 .. NumSegments * NumDocs |->
              Doc(((i - 1) \div NumDocs) + 1, ((i - 1) % NumDocs) + 1)]
RECURSIVE CollectFrom(_, _)
CollectFrom(st, i) ==
  IF i > NumSegments * NumDocs THEN st
  ELSE CollectFrom(CollectDoc(st, AllDocs[i]), i + 1)
Exhaustive == CollectFrom(St({}, limit, NoMin), 1).sorted

Keys(S) == {<<x.seg, x.doc>> : x \in S}

(* Reference: the limit best documents by ScoredDoc::operator<.            *)
TopK == {x \in {Doc(s, d) : s \in Segs, d \in DocsOf} :
           Cardinality({y \in {Doc(s, d) : s \in Segs, d \in DocsOf} :
                          Less(y, x)}) < limit}

(* Spec P7, AssertResults: the pruned run ends with the same documents as  *)
(* the run with WAND disabled, whatever the iterator chose to skip.        *)
WandEquivalent == Done => Keys(sorted) = Keys(Exhaustive)

(* The heap of Collect keeps exactly the limit best documents, ties broken *)
(* towards lower segment and doc, as the final std::sort orders them.      *)
ExhaustiveIsTopK == Exhaustive = TopK

(* What makes pruning sound: the threshold in the iterator never exceeds   *)
(* the score of the worst document in the full heap, so a skipped document *)
(* could not have entered it.                                              *)
ThresholdSound ==
  threshold # NoMin => left = 0 /\ \A x \in sorted : threshold <= x.score

=============================================================================
