--------------------------- MODULE TermDictionary ---------------------------
(***************************************************************************)
(* What the posting dictionary promises (spec 4.1, P3): emplace(term)     *)
(* refuses a term longer than a block; the first emplace of a term gives  *)
(* it a handle and reports it inserted; every later emplace of the same   *)
(* term returns that same handle, not inserted.  Which handle a new term   *)
(* gets is the implementation's choice.                                    *)
(***************************************************************************)
EXTENDS Naturals, TLC

CONSTANTS
  Terms,       \* terms
  TermLen,     \* [Terms -> Nat]
  BLOCK_SIZE,  \* the largest accepted term length
  Handles,     \* the handles a new term may get
  NoRef        \* the handle of a refused term

VARIABLES
  dict,        \* interned term -> its handle
  result       \* what the last emplace returned

vars == <<dict, result>>

Init ==
  /\ dict = <<>>
  /\ result = <<>>

Emplace(t) ==
  IF BLOCK_SIZE < TermLen[t]
  THEN /\ result' = [term |-> t, ref |-> NoRef, inserted |-> FALSE]
       /\ UNCHANGED dict
  ELSE IF t \in DOMAIN dict
  THEN /\ result' = [term |-> t, ref |-> dict[t], inserted |-> FALSE]
       /\ UNCHANGED dict
  ELSE \E h \in Handles :
       /\ dict' = (t :> h) @@ dict
       /\ result' = [term |-> t, ref |-> h, inserted |-> TRUE]

Next == \E t \in Terms : Emplace(t)

Spec == Init /\ [][Next]_vars

=============================================================================
