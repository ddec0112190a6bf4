--------------------------- MODULE TaskLifecycle ---------------------------
(***************************************************************************)
(* What the task queues promise to whoever submits a task, without queues, *)
(* threads or events: a task waits, is processed, and ends in one of two   *)
(* ways for good.  Either its result is applied, after it was processed    *)
(* and only once, or the task is abandoned.                                *)
(***************************************************************************)
EXTENDS Naturals

VARIABLE status   \* what has become of each task submitted so far

Pending == {"waiting", "processing"}
Allowed == [waiting    |-> Pending \cup {"abandoned"},
            processing |-> {"processing", "done", "abandoned"},
            done       |-> {"done"},
            abandoned  |-> {"abandoned"}]

Init == \A t \in DOMAIN status : status[t] \in Pending

\* The tasks whose result is applied by a step.
Completed == {t \in DOMAIN status : status[t] # "done" /\ status'[t] = "done"}

\* Tasks are submitted, move on, or are abandoned, any number at a time, and
\* all of it may happen to one task within a step; but a step applies the
\* result of one task at most, and of none that it submits.
Advance ==
  /\ DOMAIN status \subseteq DOMAIN status'
  /\ \A t \in DOMAIN status : status'[t] \in Allowed[status[t]]
  /\ \A t \in DOMAIN status' \ DOMAIN status : status'[t] # "done"
  /\ \A t, u \in Completed : t = u

Spec == Init /\ [][Advance]_status
=============================================================================
