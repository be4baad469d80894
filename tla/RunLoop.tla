------------------------------- MODULE RunLoop -------------------------------
(***************************************************************************)
(* The run loop system task of cs.workflow (run_loop.py, tasks.py): it     *)
(* starts a sub-workflow, its first cycle, and again as often as the       *)
(* conditions ask for and max_cycles allows.  Every cycle is a process of  *)
(* its own; when it ends it counts current_cycle up and enqueues the job   *)
(* of the task (processes.py).                                             *)
(*                                                                         *)
(* Parent process and cycles are processes as in module Workflow, of which *)
(* only the status is kept, and completing_ok of the cycles.  Calls are    *)
(* stacks as there.                                                        *)
(***************************************************************************)
EXTENDS Naturals, Sequences, FiniteSets

CONSTANTS
  Session,      \* interactive sessions
  Worker,       \* workers of the wfqueue
  max_cycles,   \* the parameter of the task
  Success,      \* statuses of a cycle that match a success condition; {}: there is none
  Failure,      \* statuses of a cycle that match a failure condition
  Requests,     \* what users ask for: operations on cycles
  StartFails,   \* may the activation of a cycle end with an exception?
  MaxBusy,      \* bound: actors inside an operation at the same time
  MaxResumes    \* bound: resumptions of the parent process

VARIABLES
  procStatus,     \* status of the parent process
  status,         \* status of the run loop task
  current_cycle,  \* the parameter of the task
  Cycles,         \* its cycles in the order of their creation
  jobs,           \* waiting wfqueue jobs of the task
  failed,         \* is there a failed wfqueue job?
  calls,          \* pending calls of every actor
  local,          \* what a worker has read
  resumes         \* counter for the bound

vars == <<procStatus, status, current_cycle, Cycles, jobs, failed, calls, local, resumes>>

Actor  == Session \cup Worker
Ended  == {"COMPLETED", "FAILED", "DISCARDED"}
Cycle  == [number : Nat, status : Ended \cup {"NEW", "EXECUTION", "PAUSED"},
           completing_ok : BOOLEAN]
Fn     == {"cancel_subtasks", "cancel_task", "cancel_cycle", "end_process", "run",
           "run_loop", "create", "copy", "start", "close_task", "fail"}

ASSUME LoopAssumption ==
  /\ Session \cap Worker = {}
  /\ max_cycles \in Nat \ {0} /\ MaxBusy \in Nat \ {0} /\ MaxResumes \in Nat
  /\ Success \subseteq Ended /\ Failure \subseteq Ended /\ StartFails \in BOOLEAN
  /\ Requests \subseteq {"onhold", "cancel", "dismiss"}

Idle(a)        == calls[a] = <<>>
At(a, fn)      == calls[a] # <<>> /\ Head(calls[a]) = fn
Continue(a, s) == calls' = [calls EXCEPT ![a] = s \o Tail(@)]

\* An exception ends the operation of a session; a worker lets its job fail
Throw(a) == calls' = [calls EXCEPT ![a] = IF a \in Worker THEN <<"fail">> ELSE <<>>]

Begin(a, s) ==
  /\ Idle(a)
  /\ Cardinality({b \in Actor : ~Idle(b)}) < MaxBusy
  /\ calls' = [calls EXCEPT ![a] = s]

taskVars == <<status, current_cycle>>
jobVars  == <<jobs, failed, local>>

\* The cycle with the highest number
CurrentCycle ==
  CHOOSE k \in DOMAIN Cycles : \A i \in DOMAIN Cycles : Cycles[i].number <= Cycles[k].number

\* The statuses of all cycles with status s become t
Moved(s, t) ==
  [k \in DOMAIN Cycles |-> IF Cycles[k].status = s THEN [Cycles[k] EXCEPT !.status = t]
                           ELSE Cycles[k]]
-----------------------------------------------------------------------------
(* Statuses of processes with the hooks that concern cycles. *)

\* Mutant: the job is not enqueued
newCycle_lost ==
  /\ current_cycle' = IF status = "EXECUTION" /\ procStatus = "EXECUTION"
                      THEN current_cycle + 1 ELSE current_cycle
  /\ UNCHANGED jobs

\* A cycle has ended: if task and parent process run, the job runs again
newCycle ==
  IF status = "EXECUTION" /\ procStatus = "EXECUTION"
  THEN current_cycle' = current_cycle + 1 /\ jobs' = jobs + 1
  ELSE UNCHANGED <<current_cycle, jobs>>

\* Cycle k ends, in the transaction that calls newCycle
End(k, s) ==
  /\ Cycles' = [Cycles EXCEPT ![k].status = s, ![k].completing_ok = @ /\ s = "COMPLETED"]
  /\ newCycle

\* Process.PAUSED: running cycles are paused as well
Pause ==
  /\ procStatus' = "PAUSED"
  /\ Cycles' = Moved("EXECUTION", "PAUSED")

\* cancel_process of cycle k, which may have to wait for completion tasks
CancelCycle(k) ==
  \/ /\ Cycles' = [Cycles EXCEPT ![k].status = "FAILED", ![k].completing_ok = FALSE]
     /\ newCycle
  \/ /\ Cycles' = [Cycles EXCEPT ![k].completing_ok = FALSE]
     /\ UNCHANGED <<current_cycle, jobs>>
-----------------------------------------------------------------------------
(* Cancelling the task: by the parent process, a sibling or its own job. *)

\* cancel_subtasks of the group looks for tasks to cancel
CancelSubtasks(a) ==
  /\ At(a, "cancel_subtasks")
  /\ Continue(a, IF status = "EXECUTION" THEN <<"cancel_task">> ELSE <<>>)
  /\ UNCHANGED <<procStatus, taskVars, Cycles, jobVars, resumes>>

\* Mutant: the cycle is cancelled first
CancelTask_late(a) ==
  /\ At(a, "cancel_task")
  /\ IF status = "EXECUTION" /\ Cycles[CurrentCycle].status = "EXECUTION"
     THEN Continue(a, <<"cancel_cycle", "cancel_task">>) /\ UNCHANGED status
     ELSE IF status = "EXECUTION" THEN status' = "DISCARDED" /\ Continue(a, <<>>)
     ELSE UNCHANGED status /\ Throw(a)
  /\ UNCHANGED <<procStatus, current_cycle, Cycles, jobVars, resumes>>

\* RunLoopSystemTask.cancel_task: first the task ...
CancelTask(a) ==
  /\ At(a, "cancel_task")
  /\ IF status = "EXECUTION"
     THEN status' = "DISCARDED" /\ Continue(a, <<"cancel_cycle">>)
     ELSE UNCHANGED status /\ Throw(a)
  /\ UNCHANGED <<procStatus, current_cycle, Cycles, jobVars, resumes>>

\* ... then its running cycle
CancelCurrent(a) ==
  /\ At(a, "cancel_cycle")
  /\ IF Cycles[CurrentCycle].status = "EXECUTION" THEN CancelCycle(CurrentCycle)
     ELSE UNCHANGED <<Cycles, current_cycle, jobs>>
  /\ Continue(a, <<>>)
  /\ UNCHANGED <<procStatus, status, failed, local, resumes>>

\* The end of cancel_process of the parent
EndProcess(a) ==
  /\ At(a, "end_process")
  /\ IF procStatus \in {"EXECUTION", "PAUSED"}
     THEN procStatus' = "FAILED" /\ Continue(a, <<>>)
     ELSE UNCHANGED procStatus /\ Throw(a)
  /\ UNCHANGED <<taskVars, Cycles, jobVars, resumes>>
-----------------------------------------------------------------------------
(* The job: task_external_process.py and run_loop.py *)

TakeJob(a) ==
  /\ Idle(a) /\ jobs > 0 /\ jobs' = jobs - 1
  /\ IF procStatus = "EXECUTION" THEN Begin(a, <<"run">>) ELSE UNCHANGED calls
  /\ UNCHANGED <<procStatus, taskVars, Cycles, failed, local, resumes>>

\* The task and its parameters are loaded
Run(a) ==
  /\ At(a, "run")
  /\ local' = [local EXCEPT ![a] = [status |-> status, number |-> current_cycle, cycle |-> 0]]
  /\ Continue(a, <<"run_loop">>)
  /\ UNCHANGED <<procStatus, taskVars, Cycles, jobs, failed, resumes>>

\* Mutant: one cycle too many
checkMaxCycles_more(n) == n > max_cycles + 1

\* The cycle that has just ended was the last one
checkMaxCycles(n) == n > max_cycles

checkSuccessConditions(s) == s \in Success
checkFailureConditions(s) == s \in Failure

\* What to do after n - 1 cycles, the last of which has status s
Verdict(n, s) ==
  CASE n = 1 -> "start"
    [] n # 1 /\ checkSuccessConditions(s) -> "close_task"
    [] n # 1 /\ ~checkSuccessConditions(s)
         /\ (Success = {} \/ checkFailureConditions(s) \/ checkMaxCycles(n)) -> "cancel_task"
    [] OTHER -> "create"

\* RunLoopSystemTaskImplementation.run with the task as loaded before
RunLoop(a) ==
  /\ At(a, "run_loop")
  /\ local' = [local EXCEPT ![a].cycle = CurrentCycle]
  /\ IF local[a].status # "EXECUTION" \/ procStatus # "EXECUTION" THEN Throw(a)
     ELSE Continue(a, <<Verdict(local[a].number, Cycles[CurrentCycle].status)>>)
  /\ UNCHANGED <<procStatus, taskVars, Cycles, jobs, failed, resumes>>

\* Mutant: it is not checked whether the cycle exists
CreateNewCycle_again(a) ==
  /\ At(a, "create")
  /\ Continue(a, <<"copy">>)
  /\ UNCHANGED <<procStatus, taskVars, Cycles, jobVars, resumes>>

\* createNewCycle refuses a number that exists
CreateNewCycle(a) ==
  /\ At(a, "create")
  /\ Continue(a, IF \E k \in DOMAIN Cycles : Cycles[k].number = local[a].number
                 THEN <<"cancel_task">> ELSE <<"copy">>)
  /\ UNCHANGED <<procStatus, taskVars, Cycles, jobVars, resumes>>

\* Mutant: one beyond the new cycle is started
CopyCycle_beyond(a) ==
  /\ At(a, "copy")
  /\ Cycles' = Append(Cycles, [number |-> local[a].number, status |-> "NEW",
                               completing_ok |-> TRUE])
  /\ local' = [local EXCEPT ![a].cycle = Len(Cycles') + 1]
  /\ Continue(a, <<"start">>)
  /\ UNCHANGED <<procStatus, taskVars, jobs, failed, resumes>>

CopyCycle(a) ==
  /\ At(a, "copy")
  /\ Cycles' = Append(Cycles, [number |-> local[a].number, status |-> "NEW",
                               completing_ok |-> TRUE])
  /\ local' = [local EXCEPT ![a].cycle = Len(Cycles')]
  /\ Continue(a, <<"start">>)
  /\ UNCHANGED <<procStatus, taskVars, jobs, failed, resumes>>

\* activate_process of the cycle.  It may fail before or after its status
\* changed; then the task is cancelled, and the cycle with it.
StartCycle(a) ==
  LET k == local[a].cycle
  IN  /\ At(a, "start")
      /\ \/ /\ Cycles[k].status \in {"NEW", "PAUSED"}
            /\ Cycles' = [Cycles EXCEPT ![k].status = "EXECUTION",
                                        ![k].completing_ok = @ \/ Cycles[k].status = "NEW"]
            /\ \/ Continue(a, <<>>)
               \/ StartFails /\ Continue(a, <<"cancel_task">>)
         \/ /\ Cycles[k].status \notin {"NEW", "PAUSED"} \/ StartFails
            /\ Continue(a, <<"cancel_task">>) /\ UNCHANGED Cycles
      /\ UNCHANGED <<procStatus, taskVars, jobVars, resumes>>

\* A success condition matched: the task is closed and its parent goes on
CloseTask(a) ==
  /\ At(a, "close_task")
  /\ IF status = "EXECUTION" THEN status' = "COMPLETED" /\ Continue(a, <<>>)
                             ELSE UNCHANGED status /\ Throw(a)
  /\ UNCHANGED <<procStatus, current_cycle, Cycles, jobVars, resumes>>

\* Job.fail pauses the process, if it can be; the job may end failed or done
Fail(a) ==
  /\ At(a, "fail")
  /\ IF procStatus = "EXECUTION" THEN Pause ELSE UNCHANGED <<procStatus, Cycles>>
  /\ failed' \in {failed, TRUE}
  /\ Continue(a, <<>>)
  /\ UNCHANGED <<taskVars, jobs, local, resumes>>

RestartJob ==
  /\ failed /\ failed' = FALSE /\ jobs' = jobs + 1
  /\ UNCHANGED <<procStatus, taskVars, Cycles, calls, local, resumes>>
-----------------------------------------------------------------------------
(* Users of the parent process and of the cycles. *)

op_onhold_process ==
  /\ procStatus = "EXECUTION" /\ Pause
  /\ UNCHANGED <<taskVars, jobVars, calls, resumes>>

\* Mutant: cycles stay paused
op_activate_process_held ==
  /\ procStatus = "PAUSED" /\ procStatus' = "EXECUTION"
  /\ resumes < MaxResumes /\ resumes' = resumes + 1
  /\ UNCHANGED <<taskVars, jobVars, Cycles, calls>>

\* Resuming the parent resumes its cycles and enqueues the jobs of running
\* system tasks, of which the run loop is one
op_activate_process ==
  /\ procStatus = "PAUSED" /\ procStatus' = "EXECUTION"
  /\ resumes < MaxResumes /\ resumes' = resumes + 1
  /\ Cycles' = Moved("PAUSED", "EXECUTION")
  /\ jobs' = IF status = "EXECUTION" THEN jobs + 1 ELSE jobs
  /\ UNCHANGED <<taskVars, failed, local, calls>>

op_cancel_process(a) ==
  /\ procStatus = "EXECUTION"
  /\ Begin(a, <<"cancel_subtasks", "end_process">>)
  /\ UNCHANGED <<procStatus, taskVars, Cycles, jobVars, resumes>>

\* A sibling with finish option is closed: the run loop is cancelled, the
\* parent goes on
FinishSibling(a) ==
  /\ procStatus = "EXECUTION" /\ status = "EXECUTION"
  /\ Begin(a, <<"cancel_subtasks">>)
  /\ UNCHANGED <<procStatus, taskVars, Cycles, jobVars, resumes>>

\* The parent ends when the run loop and its other tasks have
CompleteProcess ==
  /\ procStatus = "EXECUTION" /\ status # "EXECUTION" /\ procStatus' = "COMPLETED"
  /\ UNCHANGED <<taskVars, Cycles, jobVars, calls, resumes>>

\* A cycle ends: completed, refused, or after its completion tasks.  One that
\* was cancelled ends as failed.
EndCycle(k) ==
  /\ \/ Cycles[k].status = "EXECUTION"
        /\ \E s \in {"COMPLETED", "FAILED"} :
             (s = "COMPLETED" => Cycles[k].completing_ok) /\ End(k, s)
     \/ /\ \/ Cycles[k].status = "PAUSED"
           \/ Cycles[k].status = "NEW" /\ ~Cycles[k].completing_ok
        /\ End(k, "FAILED")
  /\ UNCHANGED <<procStatus, status, failed, local, calls, resumes>>

\* op_onhold_process, op_cancel_process and op_dismiss_process of a cycle
op_onhold_cycle(k) ==
  /\ "onhold" \in Requests
  /\ Cycles[k].status = "EXECUTION"
  /\ Cycles' = [Cycles EXCEPT ![k].status = "PAUSED"]
  /\ UNCHANGED <<procStatus, taskVars, jobVars, calls, resumes>>

op_cancel_cycle(k) ==
  /\ "cancel" \in Requests
  /\ Cycles[k].status \in {"NEW", "EXECUTION"} /\ CancelCycle(k)
  /\ UNCHANGED <<procStatus, status, failed, local, calls, resumes>>

op_dismiss_cycle(k) ==
  /\ "dismiss" \in Requests
  /\ Cycles[k].status \in {"NEW", "FAILED"}
  /\ Cycles' = [Cycles EXCEPT ![k].status = "DISCARDED", ![k].completing_ok = FALSE]
  /\ UNCHANGED <<procStatus, taskVars, jobVars, calls, resumes>>
-----------------------------------------------------------------------------
Init ==
  /\ procStatus = "EXECUTION" /\ status = "EXECUTION" /\ current_cycle = 1
  /\ Cycles = <<[number |-> 1, status |-> "NEW", completing_ok |-> TRUE]>>
  /\ jobs = 1 /\ failed = FALSE
  /\ calls = [a \in Actor |-> <<>>]
  /\ local = [a \in Worker |-> [status |-> "NEW", number |-> 0, cycle |-> 0]]
  /\ resumes = 0

Step(a) ==
  \/ CancelSubtasks(a) \/ CancelTask(a) \/ CancelCurrent(a) \/ EndProcess(a)
  \/ Run(a) \/ RunLoop(a) \/ CreateNewCycle(a) \/ CopyCycle(a) \/ StartCycle(a)
  \/ CloseTask(a) \/ Fail(a)

Next ==
  \/ \E a \in Actor : Step(a)
  \/ \E a \in Worker : TakeJob(a)
  \/ \E a \in Session : op_cancel_process(a) \/ FinishSibling(a)
  \/ \E k \in DOMAIN Cycles :
        EndCycle(k) \/ op_onhold_cycle(k) \/ op_cancel_cycle(k) \/ op_dismiss_cycle(k)
  \/ op_onhold_process \/ op_activate_process \/ CompleteProcess \/ RestartJob

Spec == Init /\ [][Next]_vars

\* Operations return, workers take jobs, cycles end, a paused parent is resumed
FairSpec ==
  /\ Spec
  /\ \A a \in Actor : WF_vars(Step(a))
  /\ WF_vars(\E a \in Worker : TakeJob(a))
  /\ WF_vars(\E k \in DOMAIN Cycles : EndCycle(k) /\ Cycles[k].status = "EXECUTION")
  /\ WF_vars(op_activate_process)
-----------------------------------------------------------------------------
TypeOK ==
  /\ procStatus \in {"EXECUTION", "COMPLETED", "FAILED", "PAUSED"}
  /\ status \in {"EXECUTION", "COMPLETED", "DISCARDED"}
  /\ current_cycle \in Nat /\ Cycles \in Seq(Cycle) /\ Cycles # <<>>
  /\ jobs \in Nat /\ failed \in BOOLEAN /\ resumes \in Nat
  /\ calls \in [Actor -> Seq(Fn)]
  /\ \A a \in Worker : local[a].number \in Nat /\ local[a].cycle \in 0 .. Len(Cycles)

Active == {k \in DOMAIN Cycles : Cycles[k].status \in {"EXECUTION", "PAUSED"}}

\* The loop never runs more often than max_cycles allows, and current_cycle
\* stays in the range the implementation expects: 1 .. max_cycles + 1.
Bounded == Len(Cycles) <= max_cycles /\ current_cycle \in 1 .. max_cycles + 1

\* One cycle at a time, jobs that were enqueued twice notwithstanding.
OneActive == Cardinality(Active) <= 1

\* A running loop in a running process always gets on: a job waits, a worker is
\* busy with it, or a cycle is under way whose end enqueues the job.
GoesOn ==
  procStatus = "EXECUTION" /\ status = "EXECUTION" =>
    jobs > 0 \/ Active # {} \/ \E a \in Worker : ~Idle(a)

\* "No new cycle is spawned because of this order": cancelling the loop cancels
\* its cycle without counting it or running the job again.
NoneSpawned ==
  [][\A a \in Actor : CancelCurrent(a) => UNCHANGED <<current_cycle, jobs>>]_vars

\* Pausing and resuming the parent leaves the work of its cycles alone: the job
\* that resuming enqueues does not cancel a loop whose cycle runs.  (Stated for
\* the second and later cycles: what happens to the first one depends on how the
\* kernel answers a process that is set ready while it runs.)
ResumeKeeps ==
  [][\A a \in Worker : CancelTask(a) /\ status' # status /\ local[a].number > 1
       => Cycles[CurrentCycle].status # "EXECUTION"]_vars

\* A loop ends, unless its parent rests paused or a cycle was paused on its own,
\* which only the parent can resume.
LoopEnds ==
  status = "EXECUTION" ~>
    \/ status # "EXECUTION"
    \/ procStatus = "PAUSED" /\ resumes = MaxResumes
    \/ procStatus = "EXECUTION" /\ \E k \in DOMAIN Cycles : Cycles[k].status = "PAUSED"
=============================================================================
