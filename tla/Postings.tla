------------------------------ MODULE Postings ------------------------------
(***************************************************************************)
(* The term dictionary of a segment writer field: irs::postings::emplace   *)
(* (src/core/index/postings.cpp).  A term is interned by writing its bytes *)
(* into a block pool at the byte writer's position and keying the map by a *)
(* reference into the pool.  A term longer than a block is refused, and a  *)
(* term that would cross a block boundary is placed at the start of the    *)
(* next block.                                                             *)
(*                                                                         *)
(* The pool is a function from byte offsets to the byte stored there: the  *)
(* pair <<t, i>> stands for byte i of term t, Free for a byte never        *)
(* written.  Term bytes are abstracted to that pair; only the length of a  *)
(* term (term.size()) matters to the code.                                 *)
(***************************************************************************)
EXTENDS Naturals, FiniteSets, TLC

CONSTANTS
  Terms,       \* the terms a token stream can hand to emplace
  TermLen,     \* [Terms -> Nat]: term.size()
  BLOCK_SIZE,  \* writer_t::container::block_type::SIZE
  MaxBlocks,   \* bound: blocks the pool may grow to in a model run
  Free,        \* a pool byte nothing was written to
  NoRef        \* map_.end(): the handle returned for a refused term

ASSUME TermLen \in [Terms -> Nat] /\ BLOCK_SIZE \in Nat \ {0}
ASSUME MaxBlocks \in Nat \ {0}

PoolBytes == MaxBlocks * BLOCK_SIZE

VARIABLES
  pool,         \* the block pool's bytes, by offset
  count,        \* parent.count(): blocks allocated in the pool
  pool_offset,  \* writer_.pool_offset(): the byte writer's position
  map,          \* map_: interned term -> offset of its bytes in the pool
  result        \* what the last emplace returned (observation only)

vars == <<pool, count, pool_offset, map, result>>

Result == [term : Terms, ref : 0 .. PoolBytes \cup {NoRef}, inserted : BOOLEAN]

TypeOK ==
  /\ pool \in [0 .. PoolBytes - 1 -> (Terms \X (0 .. BLOCK_SIZE - 1)) \cup {Free}]
  /\ count \in 0 .. MaxBlocks
  /\ pool_offset \in 0 .. PoolBytes
  /\ DOMAIN map \subseteq Terms
  /\ \A t \in DOMAIN map : map[t] \in 0 .. PoolBytes
  /\ result \in Result \cup {<<>>}

Init ==
  /\ pool = [o \in 0 .. PoolBytes - 1 |-> Free]
  /\ count = 0
  /\ pool_offset = 0
  /\ map = <<>>
  /\ result = <<>>

(* parent.size(): the bytes of all allocated blocks.                       *)
ParentSize == count * BLOCK_SIZE

(* writer_.position().block_offset(): start of the block holding o.        *)
BlockOffset(o) == (o \div BLOCK_SIZE) * BLOCK_SIZE

(* Mutant of NextBlockStart: the end of the current block is taken to be   *)
(* its start (the "+ SIZE" dropped).                                       *)
NextBlockStartAtBlock ==
  IF pool_offset < ParentSize THEN BlockOffset(pool_offset)
                              ELSE BLOCK_SIZE * count

(* next_block_start: where the block after the writer's one begins.        *)
NextBlockStart ==
  IF pool_offset < ParentSize THEN BlockOffset(pool_offset) + BLOCK_SIZE
                              ELSE BLOCK_SIZE * count

(* Mutant of SliceStart: the writer is never moved to the next block.      *)
SliceStartNoSeek(t) == pool_offset

(* The writer position after the "do not span slice over 2 blocks" seek:  *)
(* it is taken for every term that fits a block, interned or not.          *)
SliceStart(t) ==
  IF pool_offset + TermLen[t] > NextBlockStart THEN NextBlockStart
                                               ELSE pool_offset

(* Blocks needed to hold a bytes: the pool grows by whole blocks.          *)
CeilDiv(a, b) == (a + b - 1) \div b

(* writer.write(term.c_str(), term.size()) at offset 'at': the bytes land  *)
(* at [at, at + len), the writer advances past them and the pool grows by  *)
(* the blocks the write reaches.                                           *)
WriteTerm(t, at) ==
  /\ pool' = [o \in DOMAIN pool |->
                IF at <= o /\ o < at + TermLen[t] THEN <<t, o - at>> ELSE pool[o]]
  /\ pool_offset' = at + TermLen[t]
  /\ count' = IF CeilDiv(at + TermLen[t], BLOCK_SIZE) > count
                THEN CeilDiv(at + TermLen[t], BLOCK_SIZE) ELSE count

(* Mutant of TooLarge: a term one byte longer than a block is accepted.   *)
TooLargeOffByOne(t) == BLOCK_SIZE + 1 < TermLen[t]

(* "block_type::SIZE < max_term_len": the term cannot fit in one block.    *)
TooLarge(t) == BLOCK_SIZE < TermLen[t]

(* Mutant of emplace: an interned term is written and keyed again at the  *)
(* writer (insert-or-assign instead of try-emplace).                       *)
emplaceReinsert(t) ==
  IF TooLarge(t)
  THEN /\ result' = [term |-> t, ref |-> NoRef, inserted |-> FALSE]
       /\ UNCHANGED <<pool, count, pool_offset, map>>
  ELSE LET at == SliceStart(t) IN
       /\ at + TermLen[t] <= PoolBytes
       /\ WriteTerm(t, at)
       /\ map' = [x \in DOMAIN map \cup {t} |-> IF x = t THEN at ELSE map[x]]
       /\ result' = [term |-> t, ref |-> at, inserted |-> t \notin DOMAIN map]

(* postings::emplace(term), the whole call: refuse a term larger than a    *)
(* block; otherwise seek past the block end if the slice would cross it,   *)
(* then try_emplace_update_key: a new term is written at the writer and    *)
(* keyed by (position - size), an interned one returns its handle.         *)
emplace(t) ==
  IF TooLarge(t)
  THEN /\ result' = [term |-> t, ref |-> NoRef, inserted |-> FALSE]
       /\ UNCHANGED <<pool, count, pool_offset, map>>
  ELSE LET at == SliceStart(t) IN
       /\ at + TermLen[t] <= PoolBytes
       /\ IF t \in DOMAIN map
          THEN /\ pool_offset' = at
               /\ result' = [term |-> t, ref |-> map[t], inserted |-> FALSE]
               /\ UNCHANGED <<pool, count, map>>
          ELSE /\ WriteTerm(t, at)
               /\ map' = (t :> at) @@ map
               /\ result' = [term |-> t, ref |-> at, inserted |-> TRUE]

Next == \E t \in Terms : emplace(t)

Spec == Init /\ [][Next]_vars

-----------------------------------------------------------------------------
(* The block-packing rule of emplace: the bytes of every interned term lie *)
(* inside one block of the pool, so a reader decoding fixed blocks finds   *)
(* the whole term behind its handle.                                       *)
NoSliceSpansBlocks ==
  \A t \in DOMAIN map :
    TermLen[t] > 0 =>
      map[t] \div BLOCK_SIZE = (map[t] + TermLen[t] - 1) \div BLOCK_SIZE

(* Pointer stability of interned keys: the handle kept in map_ for every   *)
(* term still points at that term's own bytes, however many other terms    *)
(* were emplaced (and seeks made) since; no later write overwrites them.   *)
InternedBytesStable ==
  \A t \in DOMAIN map :
    \A i \in 0 .. TermLen[t] - 1 : pool[map[t] + i] = <<t, i>>

(* Spec 4.1: the writer is repositioned to the next block only before it   *)
(* writes a new term.  A call that writes nothing (the term is already     *)
(* interned, or refused) leaves the byte writer where it was.              *)
NoWriteNoSeek ==
  [][result'.inserted = FALSE => pool_offset' = pool_offset]_vars

(* Spec 4.1: the handle of an interned term is a reference into the pool:  *)
(* it lies in a block the pool has allocated.  null_token_stream hands an  *)
(* empty term to emplace (its comment requires a non-null data pointer for *)
(* bytes_hash::insert), and generator_t keys it by (position - 0).buffer() *)
(* without writing a byte, so the pool need not have grown to hold it.     *)
HandlesInPool == \A t \in DOMAIN map : map[t] < ParentSize

(* The abstract dictionary, with handles the offsets of the pool.          *)
Dict == INSTANCE TermDictionary WITH dict <- map, Handles <- 0 .. PoolBytes

(* Spec P3: postings::emplace implements the dictionary contract: an       *)
(* interned term keeps its handle forever and every later emplace of it    *)
(* returns that handle, not inserted; a refused term changes nothing.      *)
ImplementsTermDictionary == Dict!Spec

=============================================================================
