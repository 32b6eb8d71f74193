# TLA+ models of the iresearch indexing and ranking core

This directory holds TLA+ models of the parts of the engine under `src/`.
It also holds the TLC configurations that check them, and `PROJECT.json`,
which lists:

- every component and whether it is modelled;
- every run with the properties it checks;
- a mutant (a plausible bug) for every checked property;
- the source lines each definition translates;
- the hazards of the code.

## The system and how its parts interact

- **Posting dictionary** (`src/core/index/postings.cpp`).
  - `postings::emplace` interns a term of a field.
  - It writes the term's bytes into a block pool at the byte writer's position.
  - It keys a hash map by a reference into the pool, not into the caller's buffer.
  - A term longer than a block is refused.
  - A term that would cross a block boundary is placed at the start of the next block.
- **Segment writer** (`src/core/index/segment_writer.hpp`). It is a single-threaded document transaction.
  - `begin` hands out the next doc id, or eof.
  - `insert` runs an index, store or index-and-store worker for a field. The index worker feeds tokens to the posting dictionary. A failure latches `valid_ = false`.
  - `commit` calls `finish()` when the document is valid, and `rollback()` otherwise. `rollback()` masks the doc id.
  - `remove`, `flush` and `reset` manage the segment.
  - Only the header is under `src/`. The bodies of `begin`, `remove`, `finish`, `flush` and `reset` are modelled from spec 4.2.
- **Scoring core** (`src/core/search/sort.hpp`).
  - An `order` is a list of `sort`s built with `add<T>`, `remove<T>` and `clear`.
  - `prepare()` turns it into a `prepared` order: a vector of `prepared_sort`s, each with a bucket and the offset of its slice in a shared score buffer.
  - A document is scored slice by slice; two buffers are combined with each bucket's `add`.
  - The boost attribute composes the boosts of nested query nodes by multiplication.
  - The bodies of `prepare`, `add` and `score` are in `sort.cpp`, which is not under `src/`, and are modelled from spec 4.4. `prepared::less` has no body under `src/` and is not modelled.
- **WAND top-K collection** (`src/tests/search/wand_test.cpp`).
  - `WandTestCase::Collect` scores the documents of every segment.
  - It keeps a heap of the best `limit` documents.
  - It pushes the heap's worst score into the iterator with `score->Min`.
  - The iterator may then skip documents whose tail bound cannot beat that score.
  - `CanUseWand` is the gate on the field's features.
  - `AssertResults` requires the pruned result to equal the result with WAND disabled.
- **Consolidation** (`src/tests/index/consolidation_policy_tests.cpp`). A maintenance pass calls the policy and registers every set it returns in the consolidating set, until it returns nothing. The loop runs on one thread over a const `index_meta`. Merges of registered sets commit or abort, and segment writers flush, between passes. The policy itself is not under `src/` and is modelled by its spec 4.3 contract.
- **Token streams** (`src/core/analysis/token_streams.cpp`): the one-shot boolean, string and null streams that supply the terms of a field.
- **Directory cleaner**: only its tests are under `src/`.
- **Network utilities** (`src/core/utils/network_utils.cpp`). `is_same_hostname` reads the host's name with `get_host_name` into a zero-initialised 256-byte buffer. It answers false on an error, compares `strlen` with the argument's size, and only then compares the bytes. On `_WIN32`, `get_host_name` brackets `gethostname` with `WSAStartup`/`WSACleanup`.
- **Analyzers** (minhash, classification): collaborators of the core, declared only.

Data flows from token streams to the segment writer's index worker, then to the posting dictionary. The inversion that connects them, `index()`, is not under `src/`, so these components are modelled separately. A finished segment is flushed into segment metadata, which consolidation reads. Queries run over committed segments through the scoring core and the WAND layer.

## Modules and how they correspond to the code

| Module | Code | State | Actions |
|---|---|---|---|
| `Postings` | `postings::emplace` | `pool` (bytes by offset), `count` (blocks), `pool_offset`, `map` (term to offset), `result` | `emplace(t)`: the whole call, including the refusal, the seek, the write and the keying |
| `SegmentWriter` | `segment_writer` transaction | `docs_context`, `docs_mask`, `valid`, `postings`/`columns` as (doc, field) pairs, `finished`, `segments`, the caller's `pc`, history `failed`/`removed` | `begin`, `insert(action, field, outcome)` (the caller's guard over the writer's own `WriterInsert`), `commit` (over `WriterCommit`), `Abandon` (the caller calls `rollback`), `remove`, `flush`, `reset` |
| `WandTopK` | `Collect`, `CanUseWand`, `AssertResults` | the index (`score`, `bound`, `meta`, `wand_idx`), the loop (`seg`, `pos`, `left`, `sorted`, `threshold`), observation `skipped` | `ExecuteSegment`, `ScoreDoc`, `SkipDoc`, `NextSegment` |
| `DocTransaction` | the promise of spec 3, 4.2, P1 | `status` of every doc id (free, open, live, dead), `next` id | `Begin`, `End`, `Remove`, `Restart` |
| `TermDictionary` | the promise of spec 4.1, P3 | `dict` (term to handle), `result` | `Emplace(t)` |
| `Consolidation` | the caller loop of `print_consolidation`, the policy's contract, merges | `meta`, `size`, `consolidating`, `merges`, the pass, unused segment names | `StartPass`, `PolicyStep` (one call and registration), and between passes `MergeCommit`, `MergeAbort`, `Flush` |
| `Boost` | `boost::apply`, `extract`, `clear` | `present`, `value`, history `applied` | `apply(v)`, `clear` |
| `ScoreOrder` | `order`, `order::prepared`, `prepared_sort`, `prepared_base` | `order`, `porder` (bucket and offset), `psize`, two byte-level score buffers, history of the scores | `add`, `remove`, `clear`, `StartPrepare`, `PrepareEntry(realloc)`, `FinishPrepare`, `Score`, `Add`, `Done` |
| `NetworkUtils` | `get_host_name`, `is_same_hostname` | the `build` (which `#ifdef` branch), `hostname`, the last `call`, its `err` and `ret` | `is_same_hostname(rhs, size, startupOk, hostOk)` (the whole call, with the environment's failures as inputs), `SetHostname` |
| `TokenStreams` | boolean, string and null `next()`, move constructors, `reset` | `in_use`, the values, `term`, `offset_end`, last `result`, history `emitted` | `nextBoolean`, `nextString`, `nextNull` (each the exhausted or the yielding branch), `move(s)` (the members each move constructor lists: `BooleanMoved`, `StringMoved`, `NullMoved`), `resetBoolean`, `resetString`, `resetNull` |

Two modules are abstract specifications, and the detailed modules are checked to implement them:

- `SegmentWriter` implements `DocTransaction`. The mapping `StatusOf` derives each doc id's status from `docs_context`, the caller's open document, `docs_mask` and `finished`; `next` is `docs_cached + MIN`.
- `Postings` implements `TermDictionary`. The abstract dictionary is the map, and its handles are pool offsets.

Abstractions:

- **Posting dictionary.** Term bytes are abstracted to the pair (term, index). Only `term.size()` matters to the code.
- **Segment writer.**
  - Field data is abstracted to which (doc, field) pairs have postings or columns.
  - A worker's outcome is a nondeterministic input: ok, an index failure with or without partial postings, or a store failure. A failed store is undone by `out.reset()`.
- **WAND.**
  - The bound computation of the scorers is not under `src/`. It is abstracted to a per-document tail bound chosen in `Init`.
  - The bound is conservative wherever the field has the features the scorer needs, and arbitrary elsewhere.
  - Skipping is a choice of the iterator, allowed only when the bound does not exceed the threshold. TLC therefore explores every legal amount of pruning.
  - The exhaustive run (`kDisable`) is the RECURSIVE operator `CollectFrom`, which reuses the same `CollectDoc` step.
  - `TopK` is the reference definition of the top-K by `ScoredDoc::operator<`.
- **Consolidation.** Which valid set the policy returns, or whether its tiering heuristic returns none, is a nondeterministic choice. Every set that honours the contract may be returned.
- **Score buffer.** A byte holds `<<v, j>>`: byte `j` of score `v`. A slice reads as a score only if its bytes are that score's, so a bucket writing over another's slice is visible. Score values are small naturals ordered by `<`.
- **Boost and token streams.** Boost values are small naturals, so products are exact. String values are far shorter than 2^32 bytes, so the `uint32_t` offset cast is exact.

## Runs

| Run | Checks | Shows |
|---|---|---|
| `postings_safety` | `TypeOK`, `NoSliceSpansBlocks`, `InternedBytesStable`, `ImplementsTermDictionary` | Every interned term lies within one block, and its handle keeps pointing at its own bytes. `emplace` implements the dictionary contract of P3. |
| `postings_seek` (violation) | `NoWriteNoSeek` | Re-emplacing an interned term seeks the writer to the next block although nothing is written. This diverges from spec 4.1 and wastes pool space (finding). |
| `segment_writer` | `TypeOK`, `FailedDocsMasked`, `LiveDocsCommitted`, `ImplementsDocTransaction`, `CommitIsFinal` | P2, rollback isolation: a document with a failed insert is masked once closed; the live documents are exactly the committed, unremoved ones; a committed document is masked only by `remove`, never by the rollback of a later one. P1: the writer implements the abstract document transaction, so ids are handed out in order and never reused before a flush or reset. |
| `wand_topk` | `TypeOK`, `WandEquivalent`, `ExhaustiveIsTopK`, `ThresholdSound` | P7: the pruned result equals the exhaustive one; the exhaustive run is the reference top-K; the threshold never exceeds the worst kept score. |
| `consolidation` | `TypeOK`, `MergesDisjoint`, `PassTerminates` | P4: merges in flight never share a segment and only read segments still in the meta, across passes with commits, aborts and flushes in between. Every maintenance pass ends, because registered segments are never offered again. |
| `boost` | `ExtractIsProduct` | P6: extract is the product of the boosts applied since the last clear, over every order of applies (0 and the identity included) and clears. |
| `score_order` | `ScoresReadBack` | Spec 4.4: whatever reallocation `prepare()` goes through, each bucket reads back its own score (and the sum after `add`). |
| `postings_empty` (violation) | `HandlesInPool` | An empty term emplaced into a fresh pool (or with the writer at a block end) is keyed by an offset past every allocated block. Spec 4.1 says the handle references the pool, and `null_token_stream` emits exactly such terms (finding). |
| `network_utils` | `SameHostnameCorrect` | On both builds, whatever gethostname does, the answer is true exactly for the host's whole current name. Prefixes, extensions and errors give false. |
| `token_streams` | `OneTokenPerReset` | Spec 6: one token per reset, holding the stream's value, even across moves. |

## Bounds and why they are enough

- **Postings:** `BLOCK_SIZE = 4`, 4 blocks, and terms of length 0, 2, 3, 4 and 5. These cover:
  - a refused term (5);
  - a term exactly one block long (4);
  - terms that cross a boundary after others (2 + 3);
  - the empty term;
  - every term re-emplaced.
- **SegmentWriter:** two fields, one update context, and `EOF = 3`. That gives two doc ids, so eof exhaustion is reached. There is one flush. Every action is combined with every worker outcome.
- **Consolidation:** three initial segments of sizes 1, 1 and 3, and two names for new segments. Limits are 1 to 2 segments and 3 bytes, so the 3-byte segment only merges alone. At most one merge aborts; this bounds the state space only, and `PassTerminates` also holds with three. Overlapping candidates across passes, a commit or flush between passes, and a segment offered again after an abort all happen.
- **Boost:** values 0 to 3, including the identity and the absorbing 0, and up to 4 applies between clears (a state constraint).
- **ScoreOrder:** two sort types of 1 and 2 bytes and orders of up to 3 sorts, so slices of different widths sit side by side and every order of them is prepared. Scores are 0 and 1, and sums reach 2. Reallocation may happen at every append.
- **NetworkUtils:** a 3-byte buffer, with names of 1 to 3 bytes over two characters. The 3-byte names do not fit with their NUL. Arguments are 0 to 3 bytes with every size up to their length, so prefixes, extensions and too-long names all occur. That is 37,072 states.
- **TokenStreams:** the empty string and a two-byte string. Every stream is reset, called and moved in every order.
- **WandTopK:** 2 segments of 2 documents, scores {1, 2}, four field metas, and one scorer plus an invalid index. `limit` is chosen in `Init` from {1, 2, 3, 5}:
  - with 1, the heap fills on the first document, and the threshold pushed mid-segment prunes the rest of that segment;
  - with 2, it fills at the end of the first segment, and the threshold carries over to the next;
  - with 3, it fills inside the second segment;
  - with 5, it never fills, as with the tests' limit of 100 against small segments.
  - Limit 0 is left out: no caller passes it.
  - Ties and replacement happen as well.
  - `Init` enumerates every index of this shape: about 1M states.
  - `CHECK_DEADLOCK FALSE`: Collect terminates once every segment is read.

## Fairness

One run checks liveness.
`consolidation` checks `PassTerminates`. It assumes weak fairness of `PolicyStep`. The caller (`print_consolidation` and every consolidation test) calls the policy again in a loop for as long as the pass runs, and nothing else can disable that step. The pass ends because, within it, the meta is const and every returned set joins the consolidating set, which the policy never offers again. The bound on aborts plays no part, since merges are not taken during a pass. No fairness is assumed for merges, aborts or flushes. Collect is a terminating loop, so `wand_topk` assumes no fairness.

## Not modelled, and the plan

1. **Directory cleaner** (P8). Only tests are under `src/`, and spec 1 puts the directory layer out of scope. A reference-count model of cleanup passes, modelled from the spec and the tests, is the next candidate.
2. **Indexing (`index()` and `field_data::invert`).** The inversion of a token stream into `postings::emplace` is not under `src/`. Neither the code nor spec 4.1 and 7 says whether a term the dictionary refuses fails `index()` or is skipped, and a model would have to choose. The segment writer and the dictionary are therefore checked separately.
3. **Collector hooks** (`field`/`term`/`finish` of `order::prepared::stats`). Their order is fixed by filter code that is not under `src/`.
4. **The tiering heuristic of the consolidation policy** (P5). Its code is not under `src/`, and the spec's description does not determine the tiers of P5.
5. **numeric_token_stream**. Its precision-step iteration is in the header, not under `src/`.
6. **`doc_context` references.** `segment_writer::doc_context` returns a reference into `docs_context_`, and the next `begin()` may reallocate that vector. The code that holds such references (the index writer's replace path) is not under `src/`, so the model keeps contexts by value. This is listed as a hazard.
7. **`prepared_sort` move assignment and `sort::reverse`.** Nothing under `src/` calls them. `prepare()` only appends, which uses the move constructor, and that is modelled.
8. **Callers that break the segment writer's contract.** `insert()` and `commit()` do not check that a document is open. After a commit, or after `begin()` returned eof, they act on the last begun document. Spec 5 makes one transaction at a time, begun by `begin()`, the caller's duty, so the model's caller keeps that contract. Both cases are listed as hazards with no property.

The minhash and classification streams are declarations only. Math utilities and formats have no implementation under `src/`. None of these is modelled.
