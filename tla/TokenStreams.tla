---------------------------- MODULE TokenStreams ----------------------------
(***************************************************************************)
(* The one-shot token streams of src/core/analysis/token_streams.cpp:      *)
(* boolean_token_stream, string_token_stream and null_token_stream each    *)
(* yield exactly one token per reset.  next() returns false once in_use_   *)
(* is set; otherwise it sets in_use_, points the term attribute at the     *)
(* stream's value (and, for strings, sets the offset to the whole value)   *)
(* and returns true.  A stream may be move-constructed into a new object   *)
(* at any time (a field of a document moved into a container); the new    *)
(* object takes over the state the move constructor lists.                 *)
(*                                                                         *)
(* reset(...) is in the header, not under src/; it is modelled from spec 6 *)
(* as storing the new value and clearing in_use_.                          *)
(*                                                                         *)
(* Terms are byte sequences: value_true() is the byte ~0 (255),            *)
(* value_false() the byte 0, value_null() the empty sequence.  String      *)
(* values in the model are shorter than 2^32 bytes, so the uint32_t cast   *)
(* of the offset's end is exact.                                           *)
(***************************************************************************)
EXTENDS Naturals, Sequences

CONSTANTS
  StrValues   \* the strings a string_token_stream may be reset to

Streams == {"boolean", "string", "null"}

VARIABLES
  in_use,      \* in_use_ of every stream
  bvalue,      \* boolean_token_stream::value_
  svalue,      \* string_token_stream::value_
  term,        \* the term attribute's value of every stream
  offset_end,  \* string_token_stream::offset_.end (offset_.start is 0)
  result,      \* what the last next() of every stream returned
  emitted      \* history: true returns of next() since the last reset

vars == <<in_use, bvalue, svalue, term, offset_end, result, emitted>>

TypeOK ==
  /\ in_use \in [Streams -> BOOLEAN]
  /\ bvalue \in BOOLEAN /\ svalue \in StrValues \cup {<<>>}
  /\ term \in [Streams -> Seq(0 .. 255)]
  /\ offset_end \in Nat
  /\ result \in [Streams -> BOOLEAN]
  /\ emitted \in [Streams -> 0 .. 2]

(* Every constructor sets in_use_(false); boolean_token_stream(bool value) *)
(* takes its value, string_token_stream's value_ starts empty.              *)
Init ==
  /\ in_use = [s \in Streams |-> FALSE]
  /\ bvalue \in BOOLEAN
  /\ svalue = <<>>
  /\ term = [s \in Streams |-> <<>>]
  /\ offset_end = 0
  /\ result = [s \in Streams |-> FALSE]
  /\ emitted = [s \in Streams |-> 0]

(* The static byte strings of the anonymous namespace.                     *)
value_empty == <<>>
value_false == <<0>>
value_true == <<255>>

(* boolean_token_stream::value_true() / value_false(): refs to those.      *)
BooleanTerm(v) == IF v THEN value_true ELSE value_false

(* null_token_stream::value_null(): a non-null ref to value_empty().       *)
value_null == value_empty

(* if (in_use_) return false; -- the stream is exhausted until reset.      *)
Exhausted(s) ==
  /\ in_use[s]
  /\ result' = [result EXCEPT ![s] = FALSE]
  /\ UNCHANGED <<in_use, bvalue, svalue, term, offset_end, emitted>>

(* in_use_ = true and next() returns true with term_ set to t.             *)
Yield(s, t) ==
  /\ ~in_use[s]
  /\ in_use' = [in_use EXCEPT ![s] = TRUE]
  /\ term' = [term EXCEPT ![s] = t]
  /\ result' = [result EXCEPT ![s] = TRUE]
  /\ emitted' = [emitted EXCEPT ![s] = IF @ < 2 THEN @ + 1 ELSE 2]

(* boolean_token_stream::next().                                           *)
nextBoolean ==
  \/ Exhausted("boolean")
  \/ Yield("boolean", BooleanTerm(bvalue)) /\ UNCHANGED <<bvalue, svalue, offset_end>>

(* string_token_stream::next(): the term is the value, the offset spans it. *)
nextString ==
  \/ Exhausted("string")
  \/ /\ Yield("string", svalue)
     /\ offset_end' = Len(svalue)
     /\ UNCHANGED <<bvalue, svalue>>

(* null_token_stream::next().                                              *)
nextNull ==
  \/ Exhausted("null")
  \/ Yield("null", value_null) /\ UNCHANGED <<bvalue, svalue, offset_end>>

(* reset(value) of the boolean and string streams, reset() of null.        *)
resetBoolean(v) ==
  /\ bvalue' = v
  /\ in_use' = [in_use EXCEPT !["boolean"] = FALSE]
  /\ emitted' = [emitted EXCEPT !["boolean"] = 0]
  /\ UNCHANGED <<svalue, term, offset_end, result>>

resetString(v) ==
  /\ svalue' = v
  /\ in_use' = [in_use EXCEPT !["string"] = FALSE]
  /\ emitted' = [emitted EXCEPT !["string"] = 0]
  /\ UNCHANGED <<bvalue, term, offset_end, result>>

resetNull ==
  /\ in_use' = [in_use EXCEPT !["null"] = FALSE]
  /\ emitted' = [emitted EXCEPT !["null"] = 0]
  /\ UNCHANGED <<bvalue, svalue, term, offset_end, result>>

(* The members each move constructor initialises from the moved-from      *)
(* object; a member it leaves out starts as the default constructor's.     *)
BooleanMoved == {"term", "in_use", "value"}

(* Mutant of StringMoved: in_use_ is left out of the member list.          *)
StringMovedNoInUse == {"offset", "inc", "term", "value"}

StringMoved == {"offset", "inc", "term", "value", "in_use"}

NullMoved == {"term", "in_use"}

MovedMembers == [boolean |-> BooleanMoved, string |-> StringMoved,
                 null |-> NullMoved]

(* Move construction of stream s into a new object that replaces it.       *)
move(s) ==
  LET kept(m) == m \in MovedMembers[s] IN
  /\ in_use' = [in_use EXCEPT ![s] = kept("in_use") /\ @]
  /\ term' = [term EXCEPT ![s] = IF kept("term") THEN @ ELSE <<>>]
  /\ bvalue' = IF s = "boolean" THEN kept("value") /\ bvalue ELSE bvalue
  /\ svalue' = IF s = "string" /\ ~kept("value") THEN <<>> ELSE svalue
  /\ offset_end' = IF s = "string" /\ ~kept("offset") THEN 0 ELSE offset_end
  /\ result' = [result EXCEPT ![s] = FALSE]
  /\ UNCHANGED emitted

Next ==
  \/ nextBoolean \/ nextString \/ nextNull
  \/ \E s \in Streams : move(s)
  \/ \E v \in BOOLEAN : resetBoolean(v)
  \/ \E v \in StrValues : resetString(v)
  \/ resetNull

Spec == Init /\ [][Next]_vars

(* The term each stream's next() produces from the value it holds.         *)
Encode(s) ==
  CASE s = "boolean" -> BooleanTerm(bvalue)
    [] s = "string"  -> svalue
    [] s = "null"    -> value_null

-----------------------------------------------------------------------------
(* Spec 6: a one-shot stream yields exactly its one token per reset, even  *)
(* when it is moved between the calls: next() is true at most once since  *)
(* the last reset, and the term it produced is the encoding of the value   *)
(* the stream holds (255 or 0 for booleans, the string, the empty term),  *)
(* with the string's offset covering the whole value.                      *)
OneTokenPerReset ==
  \A s \in Streams :
    /\ emitted[s] <= 1
    /\ emitted[s] = 1 => term[s] = Encode(s)
    /\ emitted[s] = 1 /\ s = "string" => offset_end = Len(svalue)

=============================================================================
