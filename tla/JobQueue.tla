------------------------------ MODULE JobQueue ------------------------------
(***************************************************************************)
(* What background_jobs promises to the rest of RelayShelf, without a      *)
(* worker, a clock or a handler: a job is started at most MaxAttempts      *)
(* times, it is completed only when what it asks for has been done or has  *)
(* become pointless, and a completed or failed job stays as it is.         *)
(***************************************************************************)
EXTENDS Naturals

CONSTANTS Jobs, MaxAttempts

VARIABLES status,    \* background_jobs.status, "none" without a row
          attempts,  \* background_jobs.attempts
          served     \* jobs whose subject needs nothing any more

vars == <<status, attempts, served>>

Init ==
    /\ status = [j \in Jobs |-> "none"]
    /\ attempts = [j \in Jobs |-> 0]
    /\ served = {}

Enqueue(J) ==
    /\ \A j \in J : status[j] = "none"
    /\ status' = [j \in Jobs |-> IF j \in J THEN "PENDING" ELSE status[j]]
    /\ UNCHANGED <<attempts, served>>

Start(j) ==
    /\ status[j] = "PENDING"
    /\ attempts[j] < MaxAttempts
    /\ status' = [status EXCEPT ![j] = "RUNNING"]
    /\ attempts' = [attempts EXCEPT ![j] = @ + 1]
    /\ UNCHANGED served

\* A subject that is served never has to be served again.
Serve(j) ==
    /\ served' = served \union {j}
    /\ UNCHANGED <<status, attempts>>

Finish(j) ==
    /\ status[j] = "RUNNING"
    /\ j \in served
    /\ status' = [status EXCEPT ![j] = "COMPLETED"]
    /\ UNCHANGED <<attempts, served>>

\* Running jobs without a result: some are to be started again, the others
\* are failed for good.
Release(back, up) ==
    /\ \A j \in back \union up : status[j] = "RUNNING"
    /\ \A j \in back : attempts[j] < MaxAttempts
    /\ status' = [j \in Jobs |-> IF j \in up THEN "FAILED"
                                 ELSE IF j \in back THEN "PENDING" ELSE status[j]]
    /\ UNCHANGED <<attempts, served>>

Next ==
    \/ \E J \in SUBSET Jobs : Enqueue(J)
    \/ \E j \in Jobs : Start(j) \/ Serve(j) \/ Finish(j)
    \/ \E back, up \in SUBSET Jobs : Release(back, up)

Spec == Init /\ [][Next]_vars
=============================================================================
