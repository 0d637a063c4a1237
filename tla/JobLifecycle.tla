---------------------------- MODULE JobLifecycle ----------------------------
(***************************************************************************)
(* What the durable job queue promises to the code that enqueues a job and *)
(* to the owner who may cancel it: the closed states of JobState, without  *)
(* leases, workers, heartbeats, clocks or attempt rows.                    *)
(*                                                                         *)
(* A job is tried at most MaxAttempts times.  A try that only waited for a *)
(* shared resource is given back.  A requested cancellation is never       *)
(* overtaken: once it is recorded the only way out is CANCELLED.           *)
(***************************************************************************)
EXTENDS Integers

CONSTANTS Jobs,          \* the jobs that may be enqueued
          MaxAttempts    \* RetryPolicy.max_attempts, positive

Pending == {"QUEUED", "RETRY_WAIT"}
Terminal == {"COMPLETED", "FAILED", "CANCELLED"}
States == {"ABSENT", "RUNNING"} \cup Pending \cup Terminal

VARIABLES state,         \* [Jobs -> States]
          cancelling,    \* [Jobs -> BOOLEAN], a cancellation is recorded
          tries          \* [Jobs -> Nat], tries charged to the retry budget

vars == <<state, cancelling, tries>>

TypeOK == /\ state \in [Jobs -> States]
          /\ cancelling \in [Jobs -> BOOLEAN]
          /\ tries \in [Jobs -> 0..MaxAttempts]

Init == /\ state = [j \in Jobs |-> "ABSENT"]
        /\ cancelling = [j \in Jobs |-> FALSE]
        /\ tries = [j \in Jobs |-> 0]
-----------------------------------------------------------------------------
(***************************************************************************)
(* The steps of one job, as relations between its old and new values.      *)
(***************************************************************************)
Goes(j, from, to) == state[j] \in from /\ state'[j] = to

Keeps(j) == cancelling'[j] = cancelling[j]

Submit(j) == Goes(j, {"ABSENT"}, "QUEUED") /\ Keeps(j) /\ tries'[j] = tries[j]

Start(j) == /\ Goes(j, Pending, "RUNNING")
            /\ ~cancelling[j] /\ Keeps(j)
            /\ tries[j] < MaxAttempts
            /\ tries'[j] = tries[j] + 1

\* The try is given back: it only waited for a resource.
Yield(j) == /\ Goes(j, {"RUNNING"}, "RETRY_WAIT")
            /\ ~cancelling[j] /\ Keeps(j)
            /\ tries'[j] = tries[j] - 1

Retry(j) == /\ Goes(j, {"RUNNING"}, "RETRY_WAIT")
            /\ ~cancelling[j] /\ Keeps(j)
            /\ tries[j] < MaxAttempts
            /\ tries'[j] = tries[j]

Finish(j) == /\ Goes(j, {"RUNNING"}, "COMPLETED") \/ Goes(j, {"RUNNING"}, "FAILED")
             /\ ~cancelling[j] /\ Keeps(j)
             /\ tries'[j] = tries[j]

RequestCancel(j) == /\ state[j] = "RUNNING" /\ state'[j] = state[j]
                    /\ cancelling'[j] = TRUE
                    /\ tries'[j] = tries[j]

Cancel(j) == /\ \/ Goes(j, Pending, "CANCELLED")
                \/ cancelling[j] /\ Goes(j, {"RUNNING"}, "CANCELLED")
             /\ cancelling'[j] = TRUE
             /\ tries'[j] = tries[j]

Stays(j) == state'[j] = state[j] /\ Keeps(j) /\ tries'[j] = tries[j]

JobStep(j) == \/ Submit(j) \/ Start(j) \/ Yield(j) \/ Retry(j)
              \/ Finish(j) \/ RequestCancel(j) \/ Cancel(j)

\* One database transaction may move several jobs: a recovery batch does.
Next == /\ \E j \in Jobs : JobStep(j)
        /\ \A j \in Jobs : JobStep(j) \/ Stays(j)
        /\ state' \in [Jobs -> States]
        /\ cancelling' \in [Jobs -> BOOLEAN]
        /\ tries' \in [Jobs -> Nat]

Spec == Init /\ [][Next]_vars
=============================================================================
