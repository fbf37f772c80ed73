------------------------------ MODULE Runner ------------------------------
(***************************************************************************)
(* internal/controller/runner.go: the single worker goroutine that takes   *)
(* pull tasks from a rate-limited work queue.                              *)
(*                                                                         *)
(* A Task holds pointers to the NodeImageSet and the secrets read by the   *)
(* reconcile that queued it, so two reconciles never queue equal items and *)
(* the work queue never merges them: the queue is a bag.  A task waiting   *)
(* for its back-off counts as queued; the queue's order and the length of  *)
(* the back-off are left open.                                             *)
(***************************************************************************)
EXTENDS ImagePuller

VARIABLES tasks   \* [Task -> Nat]: copies of the task in the queue

RunnerTypeOK == tasks \in [Task -> Nat]

RunnerInit == tasks = [t \in Task |-> 0]

\* queue.Get
RunnerGet ==
    /\ pullPc = "idle"
    /\ \E t \in Task :
          /\ tasks[t] > 0
          /\ tasks' = [tasks EXCEPT ![t] = @ - 1]
          /\ pullTask' = t
          /\ pullPc' = "exists"
    /\ UNCHANGED <<tableVars, present, pullHeld, pullResult, subVars, faults>>

\* processTask's own existence check.  ImagePuller.IsImageExists logs an error
\* of containerd and answers false.
RunnerIsImageExists ==
    /\ pullPc = "exists"
    /\ \/ pullTask.ref \in present /\ Return(NoError) /\ UNCHANGED faults
       \/ pullTask.ref \notin present /\ Goto("load") /\ UNCHANGED faults
       \/ CallFails /\ Goto("load")
    /\ UNCHANGED <<tableVars, present, subVars, tasks>>

\* Mutant: Forget whatever the outcome.
NeverRequeue(result) == 0

\* AddRateLimited after an error, Forget otherwise.
Requeue(result) == IF result # NoError THEN 1 ELSE 0

\* The end of the loop body: Requeue, then the deferred Done.
RunnerDone ==
    /\ pullPc = "returned"
    /\ tasks' = [tasks EXCEPT ![pullTask] = @ + Requeue(pullResult)]
    /\ pullPc' = "idle"
    /\ pullTask' = None
    /\ pullResult' = NoError
    /\ UNCHANGED <<tableVars, present, pullHeld, subVars, faults>>

RunnerStep == \/ RunnerGet
              \/ RunnerIsImageExists
              \/ PullImage /\ UNCHANGED tasks
              \/ RunnerDone

=============================================================================
