---------------------------- MODULE Consolidation ----------------------------
(***************************************************************************)
(* Consolidation scheduling: a maintenance pass invokes the consolidation *)
(* policy repeatedly, registering every candidate set it returns into the  *)
(* consolidating-segments set, until the policy returns nothing            *)
(* (print_consolidation and every test of                                  *)
(* src/tests/index/consolidation_policy_tests.cpp drive it this way).      *)
(* Registered sets are merged in the background: a merge commits (its      *)
(* segments leave the index meta, a new merged segment enters it) or       *)
(* aborts; either way its segments leave the consolidating set.  Segment   *)
(* writers flush new segments into the index meta.  The caller's loop runs *)
(* on one thread over a const index_meta and only adds to the consolidating *)
(* set, so merges and flushes land between passes, never inside one.       *)
(*                                                                         *)
(* The policy itself (index_utils::consolidation_policy) is not under      *)
(* src/; it is modelled from spec 4.3 by its contract: it never returns a  *)
(* consolidating segment, and a returned set honours the effective count  *)
(* limits and max_segments_bytes.  Which valid set it picks, or whether    *)
(* its tiering heuristic picks none, is left open.  Policy invocation and  *)
(* registration are one step, as spec 5 requires of the caller.           *)
(***************************************************************************)
EXTENDS Naturals, FiniteSets, FiniteSetsExt

CONSTANTS
  InitSegs,          \* segments of the index meta when the model starts
  InitSize,          \* [InitSegs -> Nat]: segment_meta::size
  NewSegs,           \* names for flushed and merged segments
  FlushSizes,        \* sizes a flushed segment may have
  MinSegments,       \* options.min_segments
  MaxSegments,       \* options.max_segments
  MaxSegmentsBytes,  \* options.max_segments_bytes
  MaxAborts          \* bound: merges that abort in a model run

Segments == InitSegs \cup NewSegs

VARIABLES
  meta,            \* index_meta: the segments of the index
  size,            \* size[s]: byte size of every segment ever created
  consolidating,   \* consolidating_segments
  merges,          \* candidate sets registered and not yet committed/aborted
  unused,          \* NewSegs not yet given to a segment
  pass,            \* the maintenance caller: "idle" or "running"
  aborts           \* merges aborted so far

vars == <<meta, size, consolidating, merges, unused, pass, aborts>>

TypeOK ==
  /\ meta \subseteq Segments
  /\ size \in [Segments -> Nat]
  /\ consolidating \subseteq Segments
  /\ merges \subseteq (SUBSET Segments \ {{}})
  /\ unused \subseteq NewSegs
  /\ pass \in {"idle", "running"}
  /\ aborts \in 0 .. MaxAborts

Init ==
  /\ meta = InitSegs
  /\ size = [s \in Segments |-> IF s \in InitSegs THEN InitSize[s] ELSE 0]
  /\ consolidating = {}
  /\ merges = {}
  /\ unused = NewSegs
  /\ pass = "idle"
  /\ aborts = 0

-----------------------------------------------------------------------------
(* The policy's contract.                                                  *)

(* max_segments == 0 still selects one segment per call; min_segments is   *)
(* at least one and never above the effective maximum.                     *)
EffMax == IF MaxSegments = 0 THEN 1 ELSE MaxSegments
EffMin == IF MinSegments = 0 THEN 1
          ELSE IF MinSegments > EffMax THEN EffMax ELSE MinSegments

Bytes(C) == MapThenSumSet(LAMBDA s : size[s], C)

(* Mutant of Eligible: segments already being consolidated are offered     *)
(* again (step 1 of the policy dropped).                                   *)
EligibleAll == meta

(* Step 1: exclude the segments of the consolidating set.                  *)
Eligible == meta \ consolidating

(* A set the policy may return: eligible, within the count limits and     *)
(* within max_segments_bytes.                                              *)
Candidate(C) ==
  /\ C # {} /\ C \subseteq Eligible
  /\ EffMin <= Cardinality(C) /\ Cardinality(C) <= EffMax
  /\ Bytes(C) <= MaxSegmentsBytes

-----------------------------------------------------------------------------
(* The maintenance caller starts a pass.                                   *)
StartPass ==
  /\ pass = "idle"
  /\ pass' = "running"
  /\ UNCHANGED <<meta, size, consolidating, merges, unused, aborts>>

(* Mutant of PolicyStep: the candidates are handed to a merge before the  *)
(* emptiness test, so an empty result schedules an empty merge.            *)
PolicyStepScheduleEmpty ==
  /\ pass = "running"
  /\ \/ /\ pass' = "idle"
        /\ merges' = merges \cup {{}}
        /\ UNCHANGED consolidating
     \/ \E C \in SUBSET meta :
          /\ Candidate(C)
          /\ consolidating' = consolidating \cup C
          /\ merges' = merges \cup {C}
          /\ UNCHANGED pass
  /\ UNCHANGED <<meta, size, unused, aborts>>

(* Mutant of PolicyStep: an empty result does not break out of the loop.  *)
PolicyStepNoBreak ==
  /\ pass = "running"
  /\ \E C \in SUBSET meta :
       /\ C = {} \/ Candidate(C)
       /\ consolidating' = consolidating \cup C
       /\ merges' = IF C = {} THEN merges ELSE merges \cup {C}
  /\ UNCHANGED <<meta, size, unused, pass, aborts>>

(* One iteration of the caller's loop: candidates.clear();                 *)
(* policy(candidates, meta, consolidating_segments); an empty result ends *)
(* the pass, otherwise the candidates are registered for consolidation.   *)
PolicyStep ==
  /\ pass = "running"
  /\ \/ /\ pass' = "idle"
        /\ UNCHANGED <<consolidating, merges>>
     \/ \E C \in SUBSET meta :
          /\ Candidate(C)
          /\ consolidating' = consolidating \cup C
          /\ merges' = merges \cup {C}
          /\ UNCHANGED pass
  /\ UNCHANGED <<meta, size, unused, aborts>>

(* A registered merge commits: its segments are replaced in the index meta *)
(* by one new segment holding their bytes, and are released.               *)
MergeCommit(C, n) ==
  /\ pass = "idle" /\ C \in merges /\ n \in unused
  /\ meta' = (meta \ C) \cup {n}
  /\ size' = [size EXCEPT ![n] = Bytes(C)]
  /\ consolidating' = consolidating \ C
  /\ merges' = merges \ {C}
  /\ unused' = unused \ {n}
  /\ UNCHANGED <<pass, aborts>>

(* A registered merge aborts: the index meta is untouched and its segments *)
(* are released, to be offered again.                                      *)
MergeAbort(C) ==
  /\ pass = "idle" /\ C \in merges /\ aborts < MaxAborts
  /\ consolidating' = consolidating \ C
  /\ merges' = merges \ {C}
  /\ aborts' = aborts + 1
  /\ UNCHANGED <<meta, size, unused, pass>>

(* A segment writer flushes a new segment into the index meta.             *)
Flush(n, sz) ==
  /\ pass = "idle" /\ n \in unused
  /\ meta' = meta \cup {n}
  /\ size' = [size EXCEPT ![n] = sz]
  /\ unused' = unused \ {n}
  /\ UNCHANGED <<consolidating, merges, pass, aborts>>

Next ==
  \/ StartPass
  \/ PolicyStep
  \/ \E C \in merges, n \in NewSegs : MergeCommit(C, n)
  \/ \E C \in merges : MergeAbort(C)
  \/ \E n \in NewSegs, sz \in FlushSizes : Flush(n, sz)

(* The caller keeps invoking the policy while its pass runs.               *)
Fairness == WF_vars(PolicyStep)

Spec == Init /\ [][Next]_vars /\ Fairness

-----------------------------------------------------------------------------
(* Spec P4: the candidate sets of merges in flight never share a segment,  *)
(* and every segment of such a set is still in the index meta, so no       *)
(* segment is merged twice and no merge reads a segment another merge      *)
(* already replaced.                                                       *)
MergesDisjoint ==
  /\ \A C1, C2 \in merges : C1 # C2 => C1 \cap C2 = {}
  /\ \A C \in merges : C \subseteq meta

(* A maintenance pass ends: the policy eventually returns no candidates.   *)
(* Within a pass the meta is const and every registered set joins the     *)
(* consolidating set, which the policy never offers again, so the eligible *)
(* segments run out.  It fails if an empty result does not break the loop,*)
(* if the caller does not register, or if the policy re-offers segments.  *)
PassTerminates == (pass = "running") ~> (pass = "idle")

=============================================================================
