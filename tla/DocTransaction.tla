--------------------------- MODULE DocTransaction ---------------------------
(***************************************************************************)
(* What the segment writer promises its callers (spec 3, 4.2, P1, P2),     *)
(* with no field data: every doc id of a segment is free, open, live or   *)
(* dead.  begin() opens the lowest free id, one document at a time, so    *)
(* ids are handed out in increasing order and never twice before the      *)
(* segment is flushed or reset.  An open document ends live or dead; a    *)
(* live one may later be removed (dead); a dead one never comes back.     *)
(***************************************************************************)
EXTENDS Naturals

CONSTANTS
  MIN,     \* doc_limits::min()
  EOF      \* doc_limits::eof()

DocIds == MIN .. EOF - 1
Status == {"free", "open", "live", "dead"}

VARIABLES
  status,  \* status[d] of every doc id
  next     \* the id the next begin() hands out

vars == <<status, next>>

Init ==
  /\ status = [d \in DocIds |-> "free"]
  /\ next = MIN

NoneOpen == \A d \in DocIds : status[d] # "open"

(* begin(): the next id, while the id space lasts.                         *)
Begin ==
  /\ NoneOpen /\ next < EOF
  /\ status' = [status EXCEPT ![next] = "open"]
  /\ next' = next + 1

(* commit()/rollback(): the open document ends live or dead.               *)
End(d, s) ==
  /\ status[d] = "open" /\ s \in {"live", "dead"}
  /\ status' = [status EXCEPT ![d] = s]
  /\ UNCHANGED next

(* remove(doc): a closed document becomes dead.                            *)
Remove(d) ==
  /\ NoneOpen /\ status[d] \in {"live", "dead"}
  /\ status' = [status EXCEPT ![d] = "dead"]
  /\ UNCHANGED next

(* flush()/reset(): a new segment starts with every id free.               *)
Restart ==
  /\ NoneOpen /\ next > MIN
  /\ status' = [d \in DocIds |-> "free"]
  /\ next' = MIN

Next ==
  \/ Begin
  \/ \E d \in DocIds, s \in {"live", "dead"} : End(d, s)
  \/ \E d \in DocIds : Remove(d)
  \/ Restart

Spec == Init /\ [][Next]_vars

=============================================================================
