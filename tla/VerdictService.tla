--------------------------- MODULE VerdictService ---------------------------
(***************************************************************************)
(* What ConnectBlock expects of the script check queue: open a session,    *)
(* hand over checks, and be told once whether every one of them passed.    *)
(* No threads, no counters, no batches: CheckQueue is shown to implement   *)
(* this module.                                                            *)
(***************************************************************************)

CONSTANT Check      \* the identities of the verifications

VARIABLES
  open,      \* a CCheckQueueControl exists
  added,     \* the checks handed over in this session
  bad,       \* the checks of this session that evaluate to false
  verdict    \* what the last Wait() returned, "none" while a session runs

vars == <<open, added, bad, verdict>>

Init ==
  /\ open = FALSE
  /\ added = {}
  /\ bad = {}
  /\ verdict = "none"

Open ==
  /\ ~open
  /\ open' = TRUE
  /\ added' = {}
  /\ bad' \in SUBSET Check
  /\ verdict' = "none"

HandOver ==
  /\ open
  /\ \E S \in SUBSET (Check \ added) : added' = added \cup S
  /\ UNCHANGED <<open, bad, verdict>>

Close ==
  /\ open
  /\ open' = FALSE
  /\ verdict' = IF added \cap bad = {} THEN "pass" ELSE "fail"
  /\ UNCHANGED <<added, bad>>

Next == Open \/ HandOver \/ Close

Spec == Init /\ [][Next]_vars
=============================================================================
