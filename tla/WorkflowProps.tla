---------------------------- MODULE WorkflowProps ----------------------------
(***************************************************************************)
(* What the workflow engine of module Workflow has to get right.           *)
(***************************************************************************)
EXTENDS Workflow

\* Statuses, counters and stacks of pending calls stay in their domains.
TypeOK ==
  /\ status \in [Comp -> CompStatus]
  /\ procStatus \in ProcStatus
  /\ completing_ok \in BOOLEAN /\ process_is_onhold \in BOOLEAN
  /\ jobs \in [System -> Nat] /\ failed \subseteq System
  /\ conversions \in [System -> Nat]
  /\ calls \in [Actor -> Seq(Call)]
  /\ resumes \in Nat /\ faults \in Nat

TopOf[c \in Comp] == IF Parent[c] = Root THEN c ELSE TopOf[Parent[c]]
Main == {c \in Comp : TopOf[c] # Completion}   \* all but the completion tasks
-----------------------------------------------------------------------------
(* When no operation is under way, and none was cut off by a crash *)

Whole == Quiescent /\ faults = 0

\* A running workflow always has a running task: no propagate method may
\* forget to start what comes next or to end the process.
NoStall ==
  Whole /\ procStatus = "EXECUTION" => \E t \in Task : status[t] = "EXECUTION"

\* close_process, cancel_process and dismiss_process leave nothing behind that
\* is new or running.  A process that failed may have completion tasks left: a
\* second cancel_process ends it while they run.
EndedClean ==
  Whole =>
    /\ procStatus \in Ended => Pending(Main) = {}
    /\ procStatus \in {"COMPLETED", "DISCARDED"} => Pending(Comp) = {}

\* A component runs only in a running group: closing, cancelling and refusing a
\* group reach everything below it, starting reaches everything above.
Nested ==
  Whole =>
    \A c \in Comp : status[c] = "EXECUTION" /\ Parent[c] # Root
                      => status[Parent[c]] = "EXECUTION"

\* When close_process of a system task has ended every component, it has ended
\* the process as well.
ClosedByTask ==
  Quiescent /\ procStatus = "EXECUTION" => Pending(Comp) # {}
-----------------------------------------------------------------------------
(* At any time, operations under way or not *)

\* The completion group starts when everything else has ended, not before (an
\* operation that was cut off may have left something behind).
CompletionLast ==
  faults = 0 /\ status[Completion] = "EXECUTION" => Pending(Main) = {}

\* A process that was cancelled or refused never ends as completed, whichever
\* way its completion tasks end: completing_ok survives until then.
CancelSticks == procStatus = "COMPLETED" => completing_ok

\* While the process runs, no running system task is forgotten by the queue: a
\* job is waiting, an actor works on it or its conversions are under way.
\* EXECUTION.post puts the job, resuming puts the jobs of all running tasks.
JobKept ==
  procStatus = "EXECUTION" =>
    \A t \in System : status[t] = "EXECUTION" =>
      \/ jobs[t] > 0 \/ conversions[t] > 0
      \/ \E a \in Actor : \E i \in DOMAIN calls[a] : calls[a][i].obj = t

\* The components are marked as on hold exactly while the process is paused,
\* whichever way it leaves that status: resumed or cancelled by a system task.
OnHold == process_is_onhold <=> procStatus = "PAUSED"

\* A component that has ended keeps its status until the process is started:
\* late answers, second workers and the except clauses never change it.
Stable ==
  [][\A c \in Comp : status[c] \in Terminal /\ status'[c] # status[c]
       => procStatus = "NEW" /\ procStatus' = "EXECUTION"]_vars

\* The components are worked off in the order Schedule asks for.
Ordered ==
  INSTANCE Schedule WITH Comp <- Comp, Root <- Root, Completion <- Completion, Parent <- Parent,
                         Position <- Position, Kind <- Kind, status <- status
OrderedSpec == Ordered!Spec
-----------------------------------------------------------------------------
(* Liveness: operations finish, users close the tasks they find, workers take *)
(* jobs and somebody resumes a paused process.                                *)

Fairness ==
  /\ \A a \in Actor : WF_vars(Step(a))
  /\ \A t \in Task : WF_vars(\E a \in Session : op_close_task(a, t))
  /\ \A t \in System : WF_vars(\E a \in Worker : TakeJob(a, t))
  /\ WF_vars(\E a \in Session : op_activate_process(a))

FairSpec == Spec /\ Fairness

\* Every operation returns: the methods of tasks, groups and process call each
\* other upwards and downwards, and the loops over the next component advance.
Returns == \A a \in Actor : ~Idle(a) ~> Idle(a)

\* A workflow that was started ends, once its users did their tasks, unless it
\* was paused and resumed as often as the bound allows.
Completes ==
  procStatus = "EXECUTION" ~>
    procStatus \in Ended \/ (procStatus = "PAUSED" /\ resumes = MaxResumes)
=============================================================================
