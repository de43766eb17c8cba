-------------------------- MODULE JobStateMachine ---------------------------
(***************************************************************************)
(* What a client of the API may expect of a job: the intended transitions  *)
(* of the status column, with no processes, queues or files.               *)
(***************************************************************************)
CONSTANT Jobs
VARIABLES state,   \* status of every job, "none" when there is no row
          born     \* ids that have been handed out

svars == <<state, born>>

Init == state = [j \in Jobs |-> "none"] /\ born = {}

Move(j, from, to) ==
    /\ state[j] \in from
    /\ state' = [state EXCEPT ![j] = to]
    /\ UNCHANGED born

Submit(j) ==
    /\ j \notin born
    /\ state' = [state EXCEPT ![j] = "pending"]
    /\ born' = born \cup {j}

Start(j)    == Move(j, {"pending", "retrying"}, "processing")
Succeed(j)  == Move(j, {"processing"}, "completed")
Fail(j)     == Move(j, {"processing"}, "failed")
Backoff(j)  == Move(j, {"processing"}, "retrying")
Resubmit(j) == Move(j, {"failed"}, "pending")
Cancel(j)   == Move(j, {"pending", "processing", "retrying"}, "cancelled")
\* A worker may start or settle a job between the check of delete_job and its
\* DELETE, so a row may go from any state.
Delete(j)   == Move(j, {"pending", "processing", "retrying", "completed",
                        "failed", "cancelled"}, "none")

Next == \E j \in Jobs :
    \/ Submit(j) \/ Start(j) \/ Succeed(j) \/ Fail(j) \/ Backoff(j)
    \/ Resubmit(j) \/ Cancel(j) \/ Delete(j)

Spec == Init /\ [][Next]_svars
=============================================================================
