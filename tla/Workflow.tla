------------------------------ MODULE Workflow ------------------------------
(***************************************************************************)
(* The workflow engine of cs.workflow: one process (processes.py), the     *)
(* tree of task groups and tasks below it (taskgroups.py, tasks.py), the   *)
(* queue of system task jobs with its workers (wfqueue.py,                 *)
(* task_external_process.py) and the asynchronous file conversions         *)
(* (systemtasks.py).                                                       *)
(*                                                                         *)
(* Python methods that call each other are kept as a stack of pending      *)
(* calls per actor.  A step takes the call on top, performs its one        *)
(* database transaction or database read, and replaces it by the calls its *)
(* body makes next.  "except" frames stand for the try blocks that are     *)
(* open; raising an exception drops the calls above the first frame that   *)
(* catches it.                                                             *)
(***************************************************************************)
EXTENDS Naturals, Sequences, FiniteSets

CONSTANTS
  Comp,            \* schema components: tasks and task groups
  Root,            \* the process itself
  Completion,      \* its ProcessCompletionTaskGroup, in Comp
  None,            \* "no component"
  Parent,          \* [Comp -> Comp \cup {Root}], the attribute parent_id
  Position,        \* [Comp -> Nat], the attribute position
  Kind,            \* [Comp -> TaskKind \cup GroupKind], the class
  FinishOption,    \* tasks with the attribute finish_option set
  Constrained,     \* components with constraints that may be violated
  Session,         \* interactive sessions
  Worker,          \* workers of the wfqueue
  Acs,             \* conversion server processes running callbacks
  Outcomes,        \* how an implementation of a system task may end
  Requests,        \* what users ask for: operations on process and tasks
  HoldEnforced,    \* do the access rules of the site honour process_is_onhold?
  MaxBusy,         \* bound: actors inside an operation at the same time
  MaxResumes,      \* bound: resumptions of the paused process
  MaxConversions,  \* bound: conversions started by one system task
  MaxFaults        \* bound: crashes and failing transactions

VARIABLES
  status,             \* status of every component
  procStatus,         \* status of the process
  completing_ok,      \* the process attribute of that name
  process_is_onhold,  \* the attribute of that name of all components
  jobs,               \* waiting wfqueue jobs, per system task
  failed,             \* system tasks with a failed wfqueue job
  conversions,        \* conversions under way, per system task
  calls,              \* stack of pending calls of every actor
  resumes, faults     \* counters for the bounds

vars == <<status, procStatus, completing_ok, process_is_onhold, jobs, failed,
          conversions, calls, resumes, faults>>

TaskKind  == {"execution", "approval", "examination", "system"}
GroupKind == {"sequential", "parallel", "completion"}
Actor     == Session \cup Worker \cup Acs
Task      == {c \in Comp : Kind[c] \in TaskKind}
System    == {c \in Comp : Kind[c] = "system"}

CompStatus == {"NEW", "EXECUTION", "COMPLETED", "REJECTED", "DISCARDED"}
ProcStatus == {"NEW", "EXECUTION", "COMPLETED", "FAILED", "DISCARDED", "PAUSED"}
Exception  == {"TaskCancelled", "TaskClosed", "ElementsError"}
Terminal   == {"COMPLETED", "REJECTED", "DISCARDED"}
Ended      == {"COMPLETED", "FAILED", "DISCARDED"}

ASSUME TreeAssumption ==
  /\ None \notin Comp /\ Root \notin Comp /\ Completion \in Comp
  /\ Parent \in [Comp -> Comp \cup {Root}]
  /\ Position \in [Comp -> Nat]
  /\ \A c, d \in Comp \ {Completion} :      \* check_position
       Parent[c] = Parent[d] /\ Position[c] = Position[d] => c = d
  /\ Kind \in [Comp -> TaskKind \cup GroupKind]
  /\ \A c \in Comp : Kind[c] = "completion" <=> c = Completion
  /\ Parent[Completion] = Root
  /\ \A c \in Comp : Parent[c] \in Comp => Kind[Parent[c]] \in GroupKind
  /\ FinishOption \subseteq Task /\ Constrained \subseteq Comp

ASSUME BoundAssumption ==
  /\ MaxBusy \in Nat \ {0} /\ MaxResumes \in Nat
  /\ MaxConversions \in Nat /\ MaxFaults \in Nat

ASSUME UseAssumption ==
  /\ Outcomes \subseteq {"done", "async", "refused", "cancelled", "paused",
                         "completed", "aborted", "error", "inactive"}
  /\ Requests \subseteq {"activate", "onhold", "cancel", "dismiss", "close",
                         "forward", "refuse"}
  /\ HoldEnforced \in BOOLEAN
-----------------------------------------------------------------------------
(* The schema tree. *)

IsSequential(p) == p # Root => Kind[p] = "sequential"

\* Components of a task group, or of the process without its completion group
Components(p) == {c \in Comp \ {Completion} : Parent[c] = p}

Least(S) == CHOOSE c \in S : \A d \in S : Position[c] <= Position[d]

First(p) == IF Components(p) = {} THEN None ELSE Least(Components(p))

NextSibling(c) ==
  LET later == {d \in Components(Parent[c]) : Position[d] > Position[c]}
  IN  IF IsSequential(Parent[c]) /\ c # Completion /\ later # {}
      THEN Least(later) ELSE None

NextTask[c \in Comp] ==
  IF NextSibling(c) # None THEN NextSibling(c)
  ELSE IF Parent[c] \in Comp THEN NextTask[Parent[c]] ELSE None

\* Mutant: at the top the parent is taken for the next component
NextComp_top(c) == IF NextTask[c] \in Comp THEN NextTask[c] ELSE Root

\* The attribute Next: None after the last component
NextComp(c) == IF NextTask[c] \in Comp THEN NextTask[c] ELSE None

\* Mutant: new components are forgotten
Pending_running(S) == {c \in S : status[c] = "EXECUTION"}

Pending(S) == {c \in S : status[c] \in {"NEW", "EXECUTION"}}

allDone(g) == Pending(Components(g)) = {}

allCancelled(g) ==
  Components(g) # {} /\ \A c \in Components(g) : status[c] = "DISCARDED"

isForwardable(c) ==
  /\ Kind[c] \in {"approval", "examination"} /\ c \in FinishOption
  /\ NextComp(c) # None /\ IsSequential(Parent[c])
-----------------------------------------------------------------------------
(* Calls, exceptions and the stacks they live on. *)

Except == {"except_activate", "except_pass", "except_first", "except_sibling",
           "except_next", "except_cancelled", "except_end", "except_job",
           "except_mq"}

Fn == Except \cup
  {"set", "raise", "activate_task", "activate_each", "activate_first",
   "cancel_task", "cancel_subtasks", "cancel_each", "close_task",
   "propagate_done", "propagate_finish", "propagate_cancel",
   "propagate_refuse", "end_completion", "activate_process", "activate_tasks",
   "activate_next", "cancel_process", "dismiss_process",
   "dismiss_completion", "cancel_subtasks_and_close", "end_process",
   "run_job", "db_complete", "db_discard", "db_discard_each",
   "fail_job"}

JobFn == {"run_job", "fail_job", "except_job", "except_mq"}
DbFn  == {"db_complete", "db_discard", "db_discard_each"}

Call == {f \in [fn   : Fn,
                obj  : Comp \cup {Root},
                arg  : Comp \cup {None} \cup CompStatus \cup ProcStatus \cup Exception,
                todo : SUBSET Comp] :
           /\ f.fn \in JobFn => f.obj \in System
           /\ f.fn = "except_sibling" => f.obj \in Comp
           /\ f.fn \in DbFn => "completed" \in Outcomes}

Do(fn, obj, arg)   == [fn |-> fn, obj |-> obj, arg |-> arg, todo |-> {}]
Each(fn, obj, set) == [fn |-> fn, obj |-> obj, arg |-> None, todo |-> set]
Set(obj, s)        == Do("set", obj, s)
Raise(e)           == Do("raise", Root, e)

\* The exceptions an open try block catches.  The workers' last resort is the
\* queue itself, which catches whatever a job raises.
Catches(fn) ==
  CASE fn \in {"except_activate", "except_pass", "except_end"} -> {"TaskCancelled", "TaskClosed"}
    [] fn \in {"except_first", "except_next"} -> {"TaskClosed"}
    [] fn \in {"except_sibling", "except_cancelled"} -> {"TaskCancelled"}
    [] fn \in {"except_job", "except_mq"} -> Exception
    [] OTHER -> {}

\* What the except clause of a frame does with the exception
Handler(f, e) ==
  CASE f.fn = "except_activate" ->
         <<IF e = "TaskCancelled" THEN Do("cancel_task", f.obj, None)
                                  ELSE Set(f.obj, "COMPLETED"), Raise(e)>>
    [] f.fn = "except_first"   -> <<Do("activate_first", f.obj, NextComp(f.arg))>>
    [] f.fn = "except_sibling" ->
         <<Do("cancel_task", f.obj, None), Do("propagate_cancel", Parent[f.obj], f.obj)>>
    [] f.fn = "except_next"      -> <<Do("activate_next", Root, NextComp(f.arg))>>
    [] f.fn = "except_cancelled" -> <<Do("cancel_subtasks_and_close", Root, None)>>
    [] f.fn = "except_end"       -> <<Set(Root, f.arg)>>
    [] f.fn = "except_job"       -> <<Set(Root, "PAUSED"), Do("fail_job", f.obj, None)>>
    [] f.fn = "except_mq"        -> <<Do("fail_job", f.obj, None)>>
    [] OTHER -> <<>>

\* The stack after e was raised: everything up to the catching frame is gone
Unwound(s, e) ==
  LET H == {i \in 1 .. Len(s) : e \in Catches(s[i].fn)}
      h == CHOOSE i \in H : \A j \in H : i <= j
  IN  IF H = {} THEN <<>> ELSE Handler(s[h], e) \o SubSeq(s, h + 1, Len(s))

Idle(a)   == calls[a] = <<>>
Quiescent == \A a \in Actor : Idle(a)
Top(a)    == Head(calls[a])
At(a, fn) == calls[a] # <<>> /\ Top(a).fn = fn

Continue(a, s) == calls' = [calls EXCEPT ![a] = s \o Tail(@)]
Throw(a, e)    == calls' = [calls EXCEPT ![a] = Unwound(Tail(@), e)]

\* Actor a enters an operation
Begin(a, s) ==
  /\ Idle(a)
  /\ Cardinality({b \in Actor : ~Idle(b)}) < MaxBusy
  /\ calls' = [calls EXCEPT ![a] = s]

procVars == <<procStatus, completing_ok, process_is_onhold>>
jobVars  == <<jobs, failed, conversions>>
bounds   == <<resumes, faults>>
data     == <<status, procVars, jobVars, bounds>>   \* all but the stacks
-----------------------------------------------------------------------------
(* set_state: one life cycle transition and its hooks, in one transaction.  *)

CompSteps ==
  {"NEW"} \X {"EXECUTION", "DISCARDED"} \cup
  {"EXECUTION"} \X {"COMPLETED", "REJECTED", "DISCARDED"}

ProcSteps ==
  {"NEW"} \X {"EXECUTION", "FAILED", "DISCARDED"} \cup
  {"EXECUTION"} \X {"COMPLETED", "FAILED", "PAUSED"} \cup
  {"PAUSED"} \X {"EXECUTION", "FAILED"} \cup
  {<<"FAILED", "DISCARDED">>}

\* A system task that was set ready enqueues its job
Enqueued(c, s) ==
  IF c \in System /\ s = "EXECUTION" THEN [jobs EXCEPT ![c] = @ + 1] ELSE jobs

\* A component changes its status
SetComponent(a) ==
  LET c == Top(a).obj
      s == Top(a).arg
  IN  /\ At(a, "set") /\ c \in Comp
      /\ <<status[c], s>> \in CompSteps
      /\ status' = [status EXCEPT ![c] = s]
      /\ jobs' = Enqueued(c, s)
      /\ Continue(a, <<>>)
      /\ UNCHANGED <<procVars, failed, conversions, bounds>>

\* Process.EXECUTION.pre and post, entered from NEW: the schema is reset.  The
\* life cycle sets completing_ok (test_processes.py, test_activate_process).
StartProcess(a) ==
  /\ At(a, "set") /\ Top(a).obj = Root /\ Top(a).arg = "EXECUTION"
  /\ procStatus = "NEW"
  /\ procStatus' = "EXECUTION" /\ completing_ok' = TRUE
  /\ status' = [c \in Comp |-> "NEW"]
  /\ Continue(a, <<>>)
  /\ UNCHANGED <<process_is_onhold, jobVars, bounds>>

\* Mutant: the jobs are not enqueued again
ResumeProcess_lost(a) ==
  /\ At(a, "set") /\ Top(a).obj = Root /\ Top(a).arg = "EXECUTION"
  /\ procStatus = "PAUSED"
  /\ procStatus' = "EXECUTION" /\ process_is_onhold' = FALSE
  /\ Continue(a, <<>>)
  /\ UNCHANGED <<status, completing_ok, jobVars, bounds>>

\* Mutant: the components stay on hold
ResumeProcess_held(a) ==
  /\ At(a, "set") /\ Top(a).obj = Root /\ Top(a).arg = "EXECUTION"
  /\ procStatus = "PAUSED" /\ procStatus' = "EXECUTION"
  /\ jobs' = [t \in System |-> IF status[t] = "EXECUTION" THEN jobs[t] + 1 ELSE jobs[t]]
  /\ Continue(a, <<>>)
  /\ UNCHANGED <<status, completing_ok, process_is_onhold, failed, conversions, bounds>>

\* Mutant: the schema is reset whatever the old status was
ResumeProcess_reset(a) ==
  /\ At(a, "set") /\ Top(a).obj = Root /\ Top(a).arg = "EXECUTION"
  /\ procStatus = "PAUSED"
  /\ procStatus' = "EXECUTION" /\ process_is_onhold' = FALSE
  /\ status' = [c \in Comp |-> "NEW"]
  /\ Continue(a, <<>>)
  /\ UNCHANGED <<completing_ok, jobVars, bounds>>

\* Process.EXECUTION.post, entered from PAUSED: the jobs of all running system
\* tasks are enqueued again
ResumeProcess(a) ==
  /\ At(a, "set") /\ Top(a).obj = Root /\ Top(a).arg = "EXECUTION"
  /\ procStatus = "PAUSED"
  /\ procStatus' = "EXECUTION" /\ process_is_onhold' = FALSE
  /\ jobs' = [t \in System |-> IF status[t] = "EXECUTION" THEN jobs[t] + 1 ELSE jobs[t]]
  /\ Continue(a, <<>>)
  /\ UNCHANGED <<status, completing_ok, failed, conversions, bounds>>

\* Process.COMPLETED, FAILED, DISCARDED and PAUSED
LeaveProcess(a) ==
  LET s == Top(a).arg
  IN  /\ At(a, "set") /\ Top(a).obj = Root /\ s # "EXECUTION"
      /\ <<procStatus, s>> \in ProcSteps
      /\ procStatus' = s
      /\ process_is_onhold' = (\/ s = "PAUSED"
                               \/ process_is_onhold /\ ~(s = "FAILED" /\ procStatus = "PAUSED"))
      /\ Continue(a, <<>>)
      /\ UNCHANGED <<status, completing_ok, jobVars, bounds>>

\* ChangeState refuses a transition that the life cycle does not have
RefuseState(a) ==
  /\ At(a, "set")
  /\ IF Top(a).obj = Root THEN <<procStatus, Top(a).arg>> \notin ProcSteps
                          ELSE <<status[Top(a).obj], Top(a).arg>> \notin CompSteps
  /\ Throw(a, "ElementsError")
  /\ UNCHANGED data

\* A transaction fails: a pre hook raises, the database rolls it back
FailState(a) ==
  /\ At(a, "set") /\ faults < MaxFaults
  /\ faults' = faults + 1
  /\ Throw(a, "ElementsError")
  /\ UNCHANGED <<status, procVars, jobVars, resumes>>
-----------------------------------------------------------------------------
(* Control flow shared by all methods. *)

\* The try body ended without an exception
LeaveTry(a) ==
  /\ calls[a] # <<>> /\ Top(a).fn \in Except
  /\ Continue(a, <<>>)
  /\ UNCHANGED data

RaiseAgain(a) ==
  /\ At(a, "raise")
  /\ Throw(a, Top(a).arg)
  /\ UNCHANGED data
-----------------------------------------------------------------------------
(* tasks.py and taskgroups.py *)

\* activate_task of tasks and of task groups.  Whether the constraints hold is
\* decided by rules over foreign data: either may happen.
ActivateTask(a) ==
  LET c == Top(a).obj
  IN  /\ At(a, "activate_task")
      /\ \/ c \in Constrained
            /\ Continue(a, <<Do("cancel_task", c, None), Raise("TaskCancelled")>>)
         \/ c \in Task
            /\ Continue(a, <<Set(c, "EXECUTION")>>)
         \/ Kind[c] = "sequential"
            /\ Continue(a, <<Set(c, "EXECUTION"), Do("activate_first", c, First(c)),
                             Do("except_activate", c, None)>>)
         \/ Kind[c] \in {"parallel", "completion"}
            /\ Continue(a, <<Set(c, "EXECUTION"), Each("activate_each", c, Components(c)),
                             Do("except_activate", c, None)>>)
      /\ UNCHANGED data

\* activate_subtasks of the parallel and the completion group
ActivateEach(a) ==
  LET f == Top(a)
  IN  /\ At(a, "activate_each")
      /\ \/ \E c \in f.todo :
              /\ c = Least(f.todo)
              /\ Continue(a, <<Do("activate_task", c, None), Do("except_pass", f.obj, None),
                               Each("activate_each", f.obj, f.todo \ {c})>>)
         \/ /\ f.todo = {}
            /\ IF allCancelled(f.obj) THEN Throw(a, "TaskCancelled")
               ELSE IF allDone(f.obj) THEN Throw(a, "TaskClosed")
               ELSE Continue(a, <<>>)
      /\ UNCHANGED data

\* activate_subtasks of the sequential group
ActivateFirst(a) ==
  LET f == Top(a)
  IN  /\ At(a, "activate_first")
      /\ IF f.arg \in Comp
         THEN Continue(a, <<Do("activate_task", f.arg, None), Do("except_first", f.obj, f.arg)>>)
         ELSE Throw(a, "TaskClosed")
      /\ UNCHANGED data

\* Mutant: a group is cancelled without its components
CancelTask_shallow(a) ==
  /\ At(a, "cancel_task")
  /\ Continue(a, <<Set(Top(a).obj, "DISCARDED")>>)
  /\ UNCHANGED data

CancelTask(a) ==
  LET c == Top(a).obj
  IN  /\ At(a, "cancel_task")
      /\ Continue(a, IF c \in Task THEN <<Set(c, "DISCARDED")>>
                     ELSE <<Do("cancel_subtasks", c, None), Set(c, "DISCARDED")>>)
      /\ UNCHANGED data

\* The pending components are queried once, then cancelled one after the other
CancelSubtasks(a) ==
  LET g == Top(a).obj
  IN  /\ At(a, "cancel_subtasks")
      /\ Continue(a, <<Each("cancel_each", g, Pending(Components(g)))>>)
      /\ UNCHANGED data

\* A task group cancels its groups before its tasks, the process by position
CancelEach(a) ==
  LET f == Top(a)
      groups == {c \in f.todo : c \notin Task /\ f.obj # Root}
  IN  /\ At(a, "cancel_each")
      /\ \/ \E c \in f.todo :
              /\ c = Least(IF groups # {} THEN groups ELSE f.todo)
              /\ Continue(a, <<Do("cancel_task", c, None), Each("cancel_each", f.obj, f.todo \ {c})>>)
         \/ f.todo = {} /\ Continue(a, <<>>)
      /\ UNCHANGED data

\* Mutant: the parent hears of it before the status has changed
Closing_early(c, forwarded) ==
  <<Do(IF c \in FinishOption /\ ~forwarded THEN "propagate_finish" ELSE "propagate_done",
       Parent[c], c), Set(c, "COMPLETED")>>

\* Task.close_task; has_finish_option is decided by the task alone
Closing(c, forwarded) ==
  <<Set(c, "COMPLETED"),
    Do(IF c \in FinishOption /\ ~forwarded THEN "propagate_finish" ELSE "propagate_done",
       Parent[c], c)>>

\* Task.refuse_task and its override in ExaminationTask
Refusing(c) ==
  <<Set(c, "REJECTED"),
    IF Kind[c] # "examination" THEN Do("propagate_refuse", Parent[c], c)
    ELSE IF c \in FinishOption THEN Do("propagate_finish", Parent[c], c)
    ELSE Do("propagate_done", Parent[c], c)>>

\* Mutant: the parent is not told
Closed_silent(g) == <<Set(g, "COMPLETED")>>

\* Calls that end a group and tell its parent
Closed(g)    == <<Set(g, "COMPLETED"), Do("propagate_done", Parent[g], g)>>
Cancelled(g) == <<Do("cancel_task", g, None), Do("propagate_cancel", Parent[g], g)>>

\* Mutant: completing_ok is not looked at
EndCompletion_ok(a) ==
  /\ At(a, "end_completion")
  /\ Continue(a, Closed(Completion))
  /\ UNCHANGED data

\* The completion group ends the way the process does
EndCompletion(a) ==
  /\ At(a, "end_completion")
  /\ Continue(a, IF completing_ok THEN Closed(Completion) ELSE Cancelled(Completion))
  /\ UNCHANGED data

ParallelDone(a) ==
  LET g == Top(a).obj
  IN  /\ At(a, "propagate_done") /\ g # Root /\ Kind[g] = "parallel"
      /\ Continue(a, IF allDone(g) THEN Closed(g) ELSE <<>>)
      /\ UNCHANGED data

SequentialDone(a) ==
  LET g == Top(a).obj
      n == NextSibling(Top(a).arg)
  IN  /\ At(a, "propagate_done") /\ g # Root /\ Kind[g] = "sequential"
      /\ Continue(a, IF n \in Comp
                     THEN <<Do("activate_task", n, None), Do("except_sibling", g, None)>>
                     ELSE Closed(g))
      /\ UNCHANGED data

CompletionDone(a) ==
  LET g == Top(a).obj
  IN  /\ At(a, "propagate_done") /\ g = Completion
      /\ Continue(a, IF \E c \in Components(g) : status[c] = "EXECUTION"
                     THEN <<>> ELSE <<Do("end_completion", g, None)>>)
      /\ UNCHANGED data

\* propagate_done of a child with finish option: the rest of the group is cancelled
GroupFinish(a) ==
  LET g == Top(a).obj
  IN  /\ At(a, "propagate_finish") /\ g # Root
      /\ Continue(a, <<Do("cancel_subtasks", g, None)>> \o
                     (IF g = Completion THEN <<Do("end_completion", g, None)>> ELSE Closed(g)))
      /\ UNCHANGED data

ParallelCancel(a) ==
  LET g == Top(a).obj
  IN  /\ At(a, "propagate_cancel") /\ g # Root /\ Kind[g] = "parallel"
      /\ Continue(a, IF allCancelled(g) THEN Cancelled(g)
                     ELSE IF allDone(g) THEN Closed(g) ELSE <<>>)
      /\ UNCHANGED data

\* Mutant: the parent is not told
SequentialCancel_silent(a) ==
  LET g == Top(a).obj
  IN  /\ At(a, "propagate_cancel") /\ g # Root /\ Kind[g] = "sequential"
      /\ Continue(a, <<Do("cancel_subtasks", g, None), Set(g, "COMPLETED")>>)
      /\ UNCHANGED data

SequentialCancel(a) ==
  LET g == Top(a).obj
  IN  /\ At(a, "propagate_cancel") /\ g # Root /\ Kind[g] = "sequential"
      /\ Continue(a, <<Do("cancel_subtasks", g, None), Set(g, "COMPLETED"),
                       Do("propagate_cancel", Parent[g], g)>>)
      /\ UNCHANGED data

CompletionCancel(a) ==
  LET g == Top(a).obj
  IN  /\ At(a, "propagate_cancel") /\ g = Completion
      /\ Continue(a, IF allCancelled(g) \/ allDone(g)
                     THEN <<Do("end_completion", g, None)>> ELSE <<>>)
      /\ UNCHANGED data

\* Mutant: the other subtasks are not cancelled
GroupRefuse_up(a) ==
  LET g == Top(a).obj
  IN  /\ At(a, "propagate_refuse") /\ g # Root
      /\ Continue(a, <<Set(g, "REJECTED"), Do("propagate_refuse", Parent[g], g)>>)
      /\ UNCHANGED data

\* A refused subtask refuses its group and all groups above
GroupRefuse(a) ==
  LET g == Top(a).obj
  IN  /\ At(a, "propagate_refuse") /\ g # Root
      /\ Continue(a, <<Set(g, "REJECTED"), Do("cancel_subtasks", g, None),
                       Do("propagate_refuse", Parent[g], g)>>)
      /\ UNCHANGED data
-----------------------------------------------------------------------------
(* processes.py *)

\* activate_process; activate_tasks starts the first component only
ActivateProcess(a) ==
  /\ At(a, "activate_process")
  /\ Continue(a, IF procStatus = "PAUSED" THEN <<Set(Root, "EXECUTION")>>
                 ELSE <<Set(Root, "EXECUTION"), Do("activate_tasks", Root, None),
                        Do("except_cancelled", Root, None)>>)
  /\ UNCHANGED data

\* Mutant: every component is started
ActivateTasks_all(a) ==
  /\ At(a, "activate_tasks")
  /\ Continue(a, IF Components(Root) = {} THEN <<Do("end_process", Root, "COMPLETED")>>
                 ELSE <<Each("activate_each", Root, Components(Root))>>)
  /\ UNCHANGED data

ActivateTasks(a) ==
  /\ At(a, "activate_tasks")
  /\ Continue(a, IF Components(Root) = {} THEN <<Do("end_process", Root, "COMPLETED")>>
                 ELSE <<Do("activate_task", First(Root), None)>>)
  /\ UNCHANGED data

\* Process.propagate_done and its loop over the next components
ProcessDone(a) ==
  /\ At(a, "propagate_done") /\ Top(a).obj = Root
  /\ Continue(a, <<Do("activate_next", Root, NextComp(Top(a).arg)),
                   Do("except_cancelled", Root, None)>>)
  /\ UNCHANGED data

ActivateNext(a) ==
  LET n == Top(a).arg
  IN  /\ At(a, "activate_next")
      /\ Continue(a, IF n \in Comp
                     THEN <<Do("activate_task", n, None), Do("except_next", Root, n)>>
                     ELSE <<Do("end_process", Root, "COMPLETED")>>)
      /\ UNCHANGED data

\* cancel_subtasks_and_close, also the finish option of a top level task
ProcessFinish(a) ==
  /\ \/ At(a, "cancel_subtasks_and_close")
     \/ At(a, "propagate_finish") /\ Top(a).obj = Root
  /\ Continue(a, <<Do("cancel_subtasks", Root, None), Do("end_process", Root, "COMPLETED")>>)
  /\ UNCHANGED data

\* A top level component was skipped, or ends because the process is cancelled
ProcessCancel(a) ==
  /\ At(a, "propagate_cancel") /\ Top(a).obj = Root
  /\ Continue(a, <<IF completing_ok THEN Do("propagate_done", Root, Top(a).arg)
                   ELSE Do("cancel_process", Root, None)>>)
  /\ UNCHANGED data

\* Mutant: the process is ended before its components are cancelled
CancelProcess_early(a) ==
  /\ \/ At(a, "cancel_process")
     \/ At(a, "propagate_refuse") /\ Top(a).obj = Root
  /\ completing_ok' = FALSE
  /\ Continue(a, <<Do("end_process", Root, "FAILED"), Do("cancel_subtasks", Root, None)>>)
  /\ UNCHANGED <<status, procStatus, process_is_onhold, jobVars, bounds>>

\* cancel_process, also reached when a task was refused
CancelProcess(a) ==
  /\ \/ At(a, "cancel_process")
     \/ At(a, "propagate_refuse") /\ Top(a).obj = Root
  /\ completing_ok' = FALSE
  /\ Continue(a, <<Do("cancel_subtasks", Root, None), Do("end_process", Root, "FAILED")>>)
  /\ UNCHANGED <<status, procStatus, process_is_onhold, jobVars, bounds>>

DismissProcess(a) ==
  /\ At(a, "dismiss_process")
  /\ completing_ok' = FALSE
  /\ Continue(a, <<Do("cancel_subtasks", Root, None), Do("dismiss_completion", Root, None),
                   Set(Root, "DISCARDED")>>)
  /\ UNCHANGED <<status, procStatus, process_is_onhold, jobVars, bounds>>

DismissCompletion(a) ==
  /\ At(a, "dismiss_completion")
  /\ Continue(a, IF status[Completion] \in {"NEW", "EXECUTION"}
                 THEN <<Do("cancel_task", Completion, None)>> ELSE <<>>)
  /\ UNCHANGED data

\* close_process and the end of cancel_process: the completion group runs first
EndProcess(a) ==
  LET s == Top(a).arg
  IN  /\ At(a, "end_process")
      /\ Continue(a, IF status[Completion] = "NEW"
                     THEN <<Do("activate_task", Completion, None), Do("except_end", Root, s)>>
                     ELSE <<Set(Root, s)>>)
      /\ UNCHANGED data
-----------------------------------------------------------------------------
(* wfqueue.py and task_external_process.py: running a system task *)

\* The implementation of the system task ends in one of the ways the caller
\* tells apart
RunJob(a) ==
  LET t == Top(a).obj
  IN  /\ At(a, "run_job")
      /\ \E o \in Outcomes \ {"inactive"} :
           /\ \/ o = "done"      /\ Continue(a, Closing(t, FALSE))
              \/ o = "refused"   /\ Continue(a, Refusing(t))
              \/ o = "cancelled" /\ Continue(a, <<Do("cancel_task", t, None)>>)
              \/ o = "paused"    /\ Continue(a, <<Set(Root, "PAUSED")>>)
              \/ o = "aborted"   /\ Continue(a, <<Do("cancel_process", Root, None)>>)
              \/ o = "completed" /\ Continue(a, <<Do("end_process", Root, "COMPLETED"),
                                                  Do("db_complete", t, None),
                                                  Do("db_discard", Root, None)>>)
              \/ o = "error"     /\ Throw(a, "ElementsError")
              \/ o = "async"     /\ Continue(a, <<>>)
           /\ IF o = "async"
              THEN \E n \in 1 .. MaxConversions :
                     conversions' = [conversions EXCEPT ![t] = @ + n]
              ELSE UNCHANGED conversions
      /\ UNCHANGED <<status, procVars, jobs, failed, bounds>>

\* close_process of task_external_process.py writes the statuses directly
DbComplete(a) ==
  /\ At(a, "db_complete")
  /\ status' = [status EXCEPT ![Top(a).obj] = "COMPLETED"]
  /\ Continue(a, <<>>)
  /\ UNCHANGED <<procVars, jobVars, bounds>>

DbDiscard(a) ==
  /\ At(a, "db_discard")
  /\ Continue(a, <<Each("db_discard_each", Root, Pending(Comp))>>)
  /\ UNCHANGED data

DbDiscardEach(a) ==
  LET f == Top(a)
  IN  /\ At(a, "db_discard_each")
      /\ \/ \E c \in f.todo :
              /\ status' = [status EXCEPT ![c] = "DISCARDED"]
              /\ Continue(a, <<Each("db_discard_each", Root, f.todo \ {c})>>)
         \/ f.todo = {} /\ Continue(a, <<>>) /\ UNCHANGED status
      /\ UNCHANGED <<procVars, jobVars, bounds>>

\* Mutant: a failed job is run again at once
FailJob_retry(a) ==
  /\ At(a, "fail_job")
  /\ Continue(a, <<Do("run_job", Top(a).obj, None), Do("except_mq", Top(a).obj, None)>>)
  /\ UNCHANGED data

\* Job.fail, once the process is paused; whether the job ends failed or, by the
\* done() that follows, finished is up to the queue
FailJob(a) ==
  /\ At(a, "fail_job")
  /\ failed' \in {failed, failed \cup {Top(a).obj}}
  /\ Continue(a, <<>>)
  /\ UNCHANGED <<status, procVars, jobs, conversions, bounds>>
-----------------------------------------------------------------------------
(* Operations that users, workers and conversion servers start. *)

op_activate_process(a) ==
  /\ "activate" \in Requests
  /\ procStatus \in {"NEW", "PAUSED"}
  /\ IF procStatus = "PAUSED"
     THEN resumes < MaxResumes /\ resumes' = resumes + 1
     ELSE UNCHANGED resumes
  /\ Begin(a, <<Do("activate_process", Root, None)>>)
  /\ UNCHANGED <<status, procVars, jobVars, faults>>

op_onhold_process(a) ==
  /\ "onhold" \in Requests
  /\ procStatus = "EXECUTION"
  /\ Begin(a, <<Set(Root, "PAUSED")>>)
  /\ UNCHANGED data

op_cancel_process(a) ==
  /\ "cancel" \in Requests
  /\ procStatus \in {"NEW", "EXECUTION"}
  /\ Begin(a, <<Do("cancel_process", Root, None)>>)
  /\ UNCHANGED data

op_dismiss_process(a) ==
  /\ "dismiss" \in Requests
  /\ procStatus \in {"NEW", "FAILED"}
  /\ Begin(a, <<Do("dismiss_process", Root, None)>>)
  /\ UNCHANGED data

\* _op_change_task demands that the task is ready.  System tasks belong to the
\* service user.  Nothing in the code reads process_is_onhold: only an access
\* rule of the site can keep users from the tasks of a paused process.
Changeable(t) ==
  /\ t \in Task \ System /\ status[t] = "EXECUTION"
  /\ HoldEnforced => ~process_is_onhold

op_close_task(a, t) ==
  /\ "close" \in Requests /\ Changeable(t)
  /\ Begin(a, Closing(t, FALSE))
  /\ UNCHANGED data

op_forward_task(a, t) ==
  /\ "forward" \in Requests /\ Changeable(t) /\ isForwardable(t)
  /\ Begin(a, Closing(t, TRUE))
  /\ UNCHANGED data

op_refuse_task(a, t) ==
  /\ "refuse" \in Requests /\ Changeable(t)
  /\ Begin(a, Refusing(t))
  /\ UNCHANGED data

\* SystemTaskJob.run: a worker takes a job
TakeJob(a, t) ==
  /\ Idle(a) /\ jobs[t] > 0 /\ jobs' = [jobs EXCEPT ![t] = @ - 1]
  /\ \/ /\ procStatus # "EXECUTION"      \* logged, the job is done
        /\ UNCHANGED calls
     \/ /\ procStatus = "EXECUTION" /\ "inactive" \in Outcomes
        /\ Begin(a, <<Set(Root, "PAUSED"), Do("except_mq", t, None)>>)
     \/ /\ procStatus = "EXECUTION"
        /\ Begin(a, <<Do("run_job", t, None), Do("except_job", t, None),
                      Do("except_mq", t, None)>>)
  /\ UNCHANGED <<status, procVars, failed, conversions, bounds>>

\* SystemTaskJobOperation: an administrator restarts a failed job
RestartJob(t) ==
  /\ t \in failed
  /\ failed' = failed \ {t} /\ jobs' = [jobs EXCEPT ![t] = @ + 1]
  /\ UNCHANGED <<status, procVars, conversions, calls, bounds>>

\* convert_files_done closes the task whatever its status is
convert_files_done(a, t) ==
  /\ conversions[t] > 0 /\ conversions' = [conversions EXCEPT ![t] = @ - 1]
  /\ Begin(a, Closing(t, FALSE))
  /\ UNCHANGED <<status, procVars, jobs, failed, bounds>>

\* Mutant: a failure is only logged
convert_files_failed_log(a, t) ==
  /\ Idle(a) /\ conversions[t] > 0 /\ conversions' = [conversions EXCEPT ![t] = @ - 1]
  /\ UNCHANGED <<status, procVars, jobs, failed, calls, bounds>>

\* convert_files_failed cancels it only when it is still running
convert_files_failed(a, t) ==
  /\ Idle(a) /\ conversions[t] > 0 /\ conversions' = [conversions EXCEPT ![t] = @ - 1]
  /\ IF status[t] = "EXECUTION" THEN Begin(a, <<Do("cancel_task", t, None)>>)
                                ELSE UNCHANGED calls
  /\ UNCHANGED <<status, procVars, jobs, failed, bounds>>

\* A process running an operation dies between two transactions
Crash(a) ==
  /\ ~Idle(a) /\ faults < MaxFaults
  /\ faults' = faults + 1 /\ calls' = [calls EXCEPT ![a] = <<>>]
  /\ UNCHANGED <<status, procVars, jobVars, resumes>>
-----------------------------------------------------------------------------
Init ==
  /\ status = [c \in Comp |-> "NEW"]
  /\ procStatus = "NEW" /\ completing_ok = TRUE /\ process_is_onhold = FALSE
  /\ jobs = [t \in System |-> 0] /\ failed = {}
  /\ conversions = [t \in System |-> 0]
  /\ calls = [a \in Actor |-> <<>>]
  /\ resumes = 0 /\ faults = 0

StateStep(a) ==
  \/ SetComponent(a) \/ StartProcess(a) \/ ResumeProcess(a) \/ LeaveProcess(a)
  \/ RefuseState(a)

ComponentStep(a) ==
  \/ ActivateTask(a) \/ ActivateEach(a) \/ ActivateFirst(a)
  \/ CancelTask(a) \/ CancelSubtasks(a) \/ CancelEach(a)
  \/ ParallelDone(a) \/ SequentialDone(a) \/ CompletionDone(a) \/ GroupFinish(a)
  \/ ParallelCancel(a) \/ SequentialCancel(a) \/ CompletionCancel(a)
  \/ EndCompletion(a) \/ GroupRefuse(a)

ProcessStep(a) ==
  \/ ActivateProcess(a) \/ ActivateTasks(a) \/ ProcessDone(a) \/ ActivateNext(a)
  \/ ProcessFinish(a) \/ ProcessCancel(a) \/ CancelProcess(a)
  \/ DismissProcess(a) \/ DismissCompletion(a) \/ EndProcess(a)

JobStep(a) ==
  \/ RunJob(a) \/ DbComplete(a) \/ DbDiscard(a) \/ DbDiscardEach(a) \/ FailJob(a)

\* One step of an operation that has begun
Step(a) ==
  \/ LeaveTry(a) \/ RaiseAgain(a)
  \/ StateStep(a) \/ ComponentStep(a) \/ ProcessStep(a) \/ JobStep(a)

ProcessOperation(a) ==
  \/ op_activate_process(a) \/ op_onhold_process(a)
  \/ op_cancel_process(a) \/ op_dismiss_process(a)

TaskOperation(a, t) ==
  op_close_task(a, t) \/ op_forward_task(a, t) \/ op_refuse_task(a, t)

Callback(a, t) == convert_files_done(a, t) \/ convert_files_failed(a, t)

Next ==
  \/ \E a \in Actor : Step(a) \/ FailState(a) \/ Crash(a)
  \/ \E a \in Session : ProcessOperation(a) \/ \E t \in Task : TaskOperation(a, t)
  \/ \E a \in Worker, t \in System : TakeJob(a, t)
  \/ \E t \in System : RestartJob(t)
  \/ \E a \in Acs, t \in System : Callback(a, t)

Spec == Init /\ [][Next]_vars
=============================================================================
