------------------------------- MODULE Boost -------------------------------
(***************************************************************************)
(* The boost attribute of a query node (irs::boost, src/core/search/       *)
(* sort.hpp): boost::apply multiplies a value into the attribute store's   *)
(* boost, creating the attribute on first use but never for the identity   *)
(* no_boost() = 1; boost::extract reads it back, or no_boost() when the    *)
(* attribute is absent; clear() resets the value to no_boost() and keeps   *)
(* the attribute.  The nodes of a nested query apply their boosts to one   *)
(* store in any order, so every sequence of calls is explored.             *)
(*                                                                         *)
(* Boost values are small naturals: their products are exact in float_t,   *)
(* so multiplication here is the code's multiplication.                    *)
(***************************************************************************)
EXTENDS Naturals, Sequences, SequencesExt

CONSTANTS
  Values,     \* boost values a query node may apply
  MaxApplies  \* bound: applies between two clears in a model run

NoBoost == 1   \* boost::no_boost()

VARIABLES
  present,  \* attribute_store holds an irs::boost
  value,    \* its value
  applied   \* history: values applied since the attribute was last cleared

vars == <<present, value, applied>>

TypeOK ==
  /\ present \in BOOLEAN
  /\ value \in Nat
  /\ applied \in Seq(Values)

Init ==
  /\ present = FALSE /\ value = NoBoost
  /\ applied = <<>>

(* boost::extract: the attribute's value, or no_boost() without one.       *)
extract == IF present THEN value ELSE NoBoost

(* Mutant of apply: the value overwrites the boost ("= value").            *)
applyOverwrite(v) ==
  /\ IF v = NoBoost
     THEN UNCHANGED <<present, value>>
     ELSE /\ present' = TRUE
          /\ value' = v
  /\ applied' = Append(applied, v)

(* boost::apply(src, value): return on the identity; otherwise             *)
(* src.emplace<boost>()->value *= value, the emplace creating the          *)
(* attribute with no_boost() when it is absent.                            *)
apply(v) ==
  /\ IF v = NoBoost
     THEN UNCHANGED <<present, value>>
     ELSE /\ present' = TRUE
          /\ value' = (IF present THEN value ELSE NoBoost) * v
  /\ applied' = Append(applied, v)

(* boost::clear(): the value returns to no_boost(); the attribute stays.   *)
clear ==
  /\ present
  /\ value' = NoBoost
  /\ applied' = <<>>
  /\ UNCHANGED present

Next == (\E v \in Values : apply(v)) \/ clear

Spec == Init /\ [][Next]_vars

(* The state constraint of the model runs: at most MaxApplies applies      *)
(* between two clears.                                                     *)
BoundedApplies == Len(applied) <= MaxApplies

-----------------------------------------------------------------------------
Product(s) == FoldLeft(LAMBDA acc, x : acc * x, 1, s)

(* Spec P6: extract yields the product of every boost applied since the   *)
(* attribute was last cleared, whatever values and order the query nodes  *)
(* used (boost::apply composes, it does not overwrite).                    *)
ExtractIsProduct == extract = Product(applied)

=============================================================================
