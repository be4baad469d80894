# Verification of workflows, the 3D broker and project scheduling

TLA+ modules, TLC configurations and TLAPS proofs for the `cs` packages of this
repository. The repository holds some sixty Python packages of a product life
cycle management system on top of a kernel (`cdb`: objects, transactions, life
cycles, message queues) that is not part of it. Three parts have behaviour of
their own and are modelled: the workflow engine `src/cs/workflow` with its run
loops, the broker of the 3D viewer with its worker processes
(`src/cs/threed/services`), and the scheduling of projects
(`src/cs/pcs/scheduling`).

## 1. Inventory

### Workflow engine (`src/cs/workflow`)

| Part | State | Operations | Talks to |
|---|---|---|---|
| `Process` (`processes.py`) | `status` (NEW, EXECUTION, COMPLETED, FAILED, DISCARDED, PAUSED), `completing_ok` | activate, onhold, cancel, dismiss, close; `propagate_*` from its children | top level components, completion group, queue (on resuming), parent run loop |
| `TaskGroup` and its three classes (`taskgroups.py`) | `status` | `activate_task`, `cancel_task`, `close_task`, `refuse_task`, `propagate_*` | children, parent |
| `Task`: execution, approval, examination, system, run loop (`tasks.py`) | `status`, `finish_option` | the same, and `op_close_task`, `op_refuse_task`, `op_forward_task` | parent group, queue |
| `SchemaComponent` (`schemacomponents.py`) | `parent_id`, `position`, `process_is_onhold` | `Next`, `NextSibling` | database |
| Queue (`wfqueue.py`, `wfqueue_operation.py`) | jobs waiting, failed | `run`, `fail`, `owner_inactive`, restart | process, task runner |
| Task runner (`task_external_process.py`) | none: one operating system process per job | run the implementation, then close, refuse, cancel, pause, complete or abort | task, process |
| Conversions (`systemtasks.py`) | jobs of the conversion server | `convert_files_done`, `convert_files_failed` | task |
| Run loops (`run_loop.py`) | `current_cycle`, `max_cycles`, one process per cycle | start, check conditions, new cycle | parent task, queue |

*How they interact.* Every operation is a cascade of ordinary method calls up and
down the tree. Each status change is a transaction of its own (`set_state`,
`misc.py:168`), so the cascade is not atomic: other sessions, workers and
conversion servers act between any two of its steps, and a crash leaves what was
done so far. Methods report upwards with `propagate_done`, `propagate_cancel` and
`propagate_refuse`; activation reports back with two exceptions
(`TaskCancelledException`, `TaskClosedException`) that some callers catch and
others do not.

*What is hard.* Cascades that overlap (two people close the last two tasks of a
group; a task is closed while its group is still being started; a process is
cancelled meanwhile); status read before, used after; jobs enqueued again on resuming;
failures that pause the process; conversions that end late or twice; groups
without components; the completion group, which must run last and exactly once;
the memory (`completing_ok`) that the process was cancelled.

*What makes it correct.* Work is done in order, one component at a time where the
schema says so. A running workflow always has something to do, or somebody saw an
error. An ended workflow leaves nothing running. What has ended stays as it is.
A cancelled workflow does not end as completed. A system task that is ready is
never forgotten. On hold means paused. A started workflow can end.

### 3D broker (`src/cs/threed/services`)

| Part | State | Operations | Talks to |
|---|---|---|---|
| `BrokerStateManager` (`broker_service.py`) | `work_queue`, `task_deferreds` | `schedule_task`, results and errors of tasks, endpoint requests | requests, workers |
| `WorkerService` (`broker_service.py`) | `is_ready`, `active_deferred`, `retries` | `run_task`, callbacks for output, broken pipes and ended processes, respawning | its process, the queue |
| Request handlers (`broker_service.py`) | the deferred they wait for | check, register, get an endpoint; give up when the client is gone | state manager, HOOPS server |
| Worker processes (`broker_worker.py`) | none | `check`, `register`, `cleanup` | stream cache, pipes |
| Stream cache (`cache/__init__.py`) | models on disk, lock files | compare, register, clear obsolete models | file system, documents |

*How they interact.* The broker is one twisted process: a callback is never
interrupted by another. Workers are processes, each with one task at a time;
their results come back as lines on two pipes, and pipes and processes end independently of
each other. All requests for the same task share it.

*What is hard.* A process dies with a task, or after its answer and before it is
read; a client leaves while its task is queued, running or failing; a request
arrives when its task has just ended; a worker has to look for work at every
moment at which there may be some; one queue for workers of two sorts.

*What makes it correct.* A task is queued or run once at a time. A request waits
exactly where its answer will come from, and gets one. Results are not mixed up.
No worker idles beside a task it could take.

### Project scheduling (`src/cs/pcs/scheduling`)

| Part | State | Operations |
|---|---|---|
| Loading (`load_*.py`) | tasks, relationships with implied ones, sorted tasks | read, flatten relationships of groups, sort topologically |
| Passes (`scheduling*.py`, `relships.py`, `constraints.py`, `helpers.py`) | the network: nine values of every task | forward (repeated while groups change), backward, finalize, floats |
| Day arithmetic (`calendar.py`) | none | durations and gaps in halves of workdays |
| Writing (`persist*.py`) | stored dates, violations, the project's start | write what changed |

*How they interact.* One function calls the passes in turn on one project, in one
session. What is written is what the next scheduling reads.

*What is hard.* Four types of relationship, gaps of either sign and dates that are
early or late make rounding delicate; chains of discarded tasks are bridged by
virtual relationships; groups adopt the dates of their children, which others
depend on, so that passes are repeated; constraints and fixed dates win over relationships; the
dates of the project follow those of its tasks, and all dates are relative to them.

*What makes it correct.* Passes are in order and come to rest. Relationships are kept
unless a constraint or fixed dates forbid it; constraints and durations are kept; floats can
be used up; nothing waits without a reason; a project that was just scheduled
does not change.

### Other packages

`PROJECT.json` lists every package with its status and the reason; section 5 says
more about those that come closest to a model.

## 2. Modules

| Module | What it is |
|---|---|
| `Workflow` | The engine: one process, its schema, the queue with workers, the conversions. |
| `WorkflowProps` | Its properties, the fairness and the instance of `Schedule`. |
| `WorkflowErrors` | The engine with a record of errors somebody saw, and the properties that need it. |
| `Schedule` | Abstract: in which order components may start and end. |
| `Schedule_proofs` | What every implementation of `Schedule` guarantees. |
| `Workflow_proofs` | Types, on-hold mark and stability for every schema and bound; what a step does to a stack; no running system task is forgotten. |
| `Order_proofs` | `Workflow` implements `Schedule`. |
| `Serial_proofs` | What operations that run one after the other leave behind. |
| `Alive_proofs` | A running process always has a running task. |
| `RunLoop` | A run loop task with its parent process and its cycles, workers and users. |
| `RunLoop_proofs` | All safety properties of `RunLoop`, for every number of users and every `max_cycles`. |
| `Trees` | Schemas for model checking. |
| `SingleFlight` | Abstract: work that is shared between requests. |
| `Broker` | The broker with its queue, workers, requests and the cleanup. |
| `BrokerProps` | Its properties, the fairness and the instance of `SingleFlight`. |
| `Broker_proofs` | Its safety properties and the refinement, for every number of workers and requests. |
| `Calendar` | Arithmetic on halves of workdays. |
| `Relationships` | What a relationship between two tasks asks of their dates. |
| `Scheduling` | The passes over a project, and writing and reading it back. |
| `SchedulingProps` | Its properties. |
| `Relationships_proofs` | Relationships, floats and durations, for all dates, gaps and durations. |
| `MCWorkflow`, `MCErrors`, `MCBroker`, `MCScheduling` | The modules TLC starts from; `MCScheduling` holds the projects. |

`Workflow` and `RunLoop` share no state: a run loop is a task of the first, whose
cycles are processes of their own. `Scheduling` builds on `Relationships` and `Calendar`.

### How `Workflow` corresponds to the code

*State.* `status`, `procStatus`, `completing_ok` are database attributes.
`process_is_onhold` is an attribute of every component, always written for all of
them at once and kept once. `jobs` counts the waiting queue entries per system
task, `failed` the tasks with a failed one, `conversions` the conversions under
way. `calls` holds one stack of pending calls per actor.

*Steps.* A step takes the call on top of the stack of an actor, does its one
database transaction or query and replaces it by the calls the method body makes
next. `Set(obj, s)` is `set_state` with the hooks of the new status;
`Do(fn, obj, arg)` another method; `Each(fn, obj, S)` a loop over a list that was
queried before. The names of calls are the names of the methods. So the sequence
of transactions of an operation is that of the code, and other actors may act
between any two of them.

*Exceptions.* An `except_*` frame is an open `try`. Raising drops the calls above
the first frame that catches the exception, and `Handler` gives what its `except`
clause does. Without such a frame the operation ends and its caller sees the error.
`ElementsError` is the refusal of `ChangeState` to make a transition that the life
cycle does not have, for instance to close a task twice.

*Actors.* Sessions start `op_*`; workers take jobs (`SystemTaskJob.run`) and run
the implementation (`run_system_task_implementation`, whose nine ways to end are
`Outcomes`); conversion servers call `convert_files_done` and
`convert_files_failed`. `Crash` ends an operation between two transactions.
`FailState` makes one transaction fail.

*Abstracted.* Constraints are rules over foreign data: a component in
`Constrained` may or may not violate its own whenever it is started. Constraints of the process
raise before anything has changed and are left out, as are forms, briefcases,
deadlines, protocols and notifications. Of the list a loop runs over, only
membership and order matter. The tree does not change while the process runs.
Whether a failed job counts as failed after the `done()` that follows `fail()`
(`wfqueue.py:73,155`) is up to the queue of the kernel: both happen in the model.

*External.* The life cycle tables (`CompSteps`, `ProcSteps`) are configuration of
the kernel; they hold the transitions that the code under `src` makes or offers.
`HoldEnforced` says whether the access rules of a site keep users away from tasks
of a paused process: nothing in the code reads `process_is_onhold` for that.

### How `RunLoop` corresponds to the code

*State.* `status` and `current_cycle` belong to the run loop task, `procStatus` to
its parent process. `Cycles` are the processes it has created, each with its number, its
status and `completing_ok`. Of the tasks inside a cycle and beside the
run loop only the effects are kept: a cycle ends at any time (`EndCycle`), a sibling with finish option
cancels the loop (`FinishSibling`), the parent ends after it (`CompleteProcess`).
Whether a cycle that is cancelled ends at once or after its completion tasks is open
(`CancelCycle`).

*Steps.* As in `Workflow`: one transaction or query each. `Run` loads the task
with its parameters, which the implementation keeps (`local`) although others
count `current_cycle` up meanwhile; the existence check (`CreateNewCycle`), the
copy (`CopyCycle`) and the start (`StartCycle`) are steps of their own.
`newCycle` belongs to the transaction that ends a cycle. Conditions of the loop
are rules over the status of the cycle that ended (`Success`, `Failure`).
`completing_ok` is set when a new process is set ready and kept when a paused one is.

*Left out.* Briefcases and activity streams copied between parent and cycle,
creation of the first cycle (`tasks.py:963`, before the process starts), loops inside cycles.

### How `Broker` corresponds to the code

*State.* `work_queue` and `task_deferreds` are the attributes of
`BrokerStateManager`; a task is named by its command line, as in the code.
`is_ready`, `active` (`active_deferred`) and `retries` belong to a `WorkerService`.
`proc` is the life of its process and `pipe` a line it has written that nobody has
read yet. `cache` holds the documents whose current model is in the stream cache.
`pc` is how far a request has got: its handler is a chain of deferreds.

*Steps.* An action of the broker is a callback of the reactor with everything it
calls: `schedule_task` offers the task to all workers at once, a result answers all requests
that wait, and those that find a changed model schedule its registration
in the same callback, before the worker looks for its next task (`Callback`). A
process ends (`Die`), its input pipe breaks (`inConnectionLost`), what it wrote is read
(`outReceived`, `errReceived`) in any order; `processEnded` comes when all pipes are
closed and read. Signals 1 to 3 and a normal end are `stopped`, all else `crashed`.

*Abstracted.* The command of a worker is one step: it changes the cache and
writes its line. Lock files of the cache only make a command wait for another or fail.
The line READY resets `retries` some time after it was written;
`processEnded`, the only place that reads them, comes later: `WorkerReady` resets
them at once. Of a result only that is kept which the state
manager decides on: Changed, Unchanged, Registered or an error. The cleanup
writes its success to the error channel (`broker_worker.py:103`), so that it always ends as an error.

*External.* `Die` and `CheckIn`: processes that crash, documents that get a
new model. The HOOPS server is the nondeterministic answer of `request_endpoint`.

### How `Scheduling` corresponds to the code

*State.* `project` is what the database holds; `network` the rows of the nine values, with the
names of the code. `orders` are the sorted lists for passes forward and backward;
`changed`, `all_changes`, `retries` and `min_es` the variables of
`calculate_network`. Times are those of the code: workday *i* of the project's calendar
starts at 2*i* and ends at 2*i* + 1.

*Steps.* One action per pass; the passes are folds over the sorted tasks, whose step
(`forward_task`, `backward_task`, `finalize_task`, `float_task`) is the body of the
loop. `adopt_bottom_up` climbs the groups whose last child is done. `chain_starts`
and `chain_ends` are the two dictionaries of points at which chains of
discarded tasks begin and end. Python iterates over sets of children in any
order: `readings` are these orders, and `Load` picks one.
`PersistChanges` writes the dates, moves the start of the project with its first task
and reads the tasks as `load_tasks` will: regular ones from the start of a
day to the end of one (`read`), everything relative to the new start (`rebased`).

*Abstracted.* Days off are left out: a calendar counts workdays only once dates are
converted. `sys.maxsize` is `maxsize`, later than any date. A project has at least one day; its
own finish is kept only where it counts (`latest_finish`, scheduled manually).

The definitions were compared with the code, which runs without the
kernel, on some 6000 random projects of up to six tasks, value by value.

## 3. Runs

All runs use the code as it is; a `violation` run is a disagreement of the code
with its own documentation or tests.

| Run | Question | Instance |
|---|---|---|
| `Serial` | One operation at a time: are the cascades right, at every depth, with components that are skipped? What does a crash leave? | `Deep`, all requests, six outcomes, one crash or failed transaction |
| `Concurrent` | User and worker interleaved at every transaction, on paused processes as well | `Mixed`, `MaxBusy = 2`, `HoldEnforced = FALSE` |
| `Review` | Two users close and refuse tasks of one group | `Team`, no worker |
| `Convert` | Conversions ending late and twice and a system task that closes or aborts the process, beside users | `Gap`, `MaxConversions = 2`, `MaxBusy = 2` |
| `Live` | Does everything return, does the workflow end? | `Gap`, fairness |
| `Loop` | Is a run loop bounded, one cycle at a time, always getting on, ended for good? | two cycles, `MaxBusy = 2`, `MaxResumes = 2`, fairness |
| `Broker` | Is work shared, answered and never mixed up while workers die and clients leave? | two workers, one of them for checks, two requests for one model, two deaths, `MAX_RETRIES = 1`, fairness |
| `Scheduling` | Do schedules keep what they promise? | some 9500 projects of three to six tasks, scheduled twice |
| `CloseLeavesOpen` (violation) | A system task closes a process with completion tasks | `Mixed` |
| `LoopResumed` (violation) | The parent of a run loop is paused and resumed | two cycles, one operation at a time |
| `BrokerChecks` (violation) | A check behind registrations | three requests for two models |
| `SchedulingTails` (violation) | As late as possible, before a discarded task | three tasks |

*What they show.*

- One operation at a time, the cascades are right on schemas whose groups have
  components: `NoStall`, `EndedClean`, `Nested`, `CompletionLast`, `CancelSticks`,
  with components whose constraints are violated at every depth. The
  outcomes of `Serial` are those that tell the parent: an implementation that raises
  `TaskCancelledException` cancels its task without telling it
  (`task_external_process.py:149`), as a failed conversion does.
- With operations side by side these can fail, and the engine has no lock
  against it (`EndedClean` survives where nothing but conversions and a system task
  that closes the process meet the user, on `Gap`: `Convert`). What holds then: the order of the work (`OrderedSpec`), ends that stay (`Stable`), the job of
  every running system task (`JobKept` in `Convert`), the on-hold mark - these four are proved for all
  schemas in section 4, on the conditions named there -, and a
  workflow never stalls unless an error was shown or a job failed
  (`NoSilentStall`). For users who only close and refuse, the tree is not damaged
  without an error either (`NoSilentDamage`); with cancelling in the mix it can
  be, which is why `Concurrent` does not claim it: a cancel that overlaps with a
  closing task may leave completed processes with `completing_ok = 0` and
  components that run below ended ones.
- A crash may leave a stalled workflow or a system task without job (the kernel
  keeps no log of cascades): after one, `Serial` claims the order of the work, the on-hold
  mark and `CancelSticks` only.
- A run loop beside users keeps to `max_cycles`, runs one cycle at a time and always
  has a job, a worker or a cycle that gets it on (`Loop`), with one worker. Two workers
  with two jobs of one task can both pass the existence check before either has
  copied the cycle: `Bounded` and `OneActive` are therefore claimed, and proved, for one. A cycle
  that is copied while the loop is cancelled runs under a task that has ended. A
  cycle paused by its own user is resumed only with its parent, which `LoopEnds` has
  as an exception.
- `Stable` does not hold once an implementation ends a process with
  `ProcessCompletedException` beside other operations: the statuses are
  overwritten in the database, on purpose (`task_external_process.py:55`).
- The broker never runs a task twice at a time, never forgets one, and answers
  every request unless all workers that may register are gone for good
  (`Answered`). It implements `SingleFlight` (`SharedSpec`), where one event answers all who wait.
- Scheduling keeps relationships (`Respected`) with two exceptions,
  constraints, as documented, and fixed dates, and a third that nobody asked for
  (`SchedulingTails`); keeps constraints and durations; gives floats that can be used up
  without harm (`FloatSound`) and lets nothing wait (`Earliest`). Where tasks begin
  before their project, it may give up (`Settles`) and drifts (`Stable`); see below.

*Findings.* `CloseLeavesOpen`: closing the process by a system task discards the completion
group it has just started, and the process never ends. `LoopResumed`: resuming a
process enqueues the job of a run loop whose cycle is running; the job finds the
cycle and cancels the loop together with it. `BrokerChecks`: the worker that
is to keep registrations from blocking checks looks at the head of the common queue only, and stays idle
while a registration is queued before a check. `SchedulingTails`: a
discarded successor at the end of a chain sets the latest dates of a task to the end
of the project, over what its other successors have asked for; if the task is as late
as possible, it is scheduled over their start.

*Met while modelling, not shown by a run.*

- Workflow: a process whose first component is a group without components is running with
  nothing to do, since `activate_process` does not catch the
  `TaskClosedException` (`processes.py:540`). A group without components inside a sequential group
  makes `SequentialTaskGroup.activate_subtasks` continue with `Next`, which leaves the group
  (`taskgroups.py:401`); the process may end around a running group. A failed
  conversion cancels its task and does not tell the parent
  (`systemtasks.py:847`): the group of a last task goes on running. The schemas
  of the runs have components in these places, and `Serial` no failed conversions. Where access rules let users end tasks
  of a paused process (`HoldEnforced = FALSE`), ending the last one leads to a transition to COMPLETED that the life cycle
  refuses (`processes.py:1107`); once resumed, the process runs with nothing to do.
- Broker: `BrokerService.processEnded` (line 152) compares `reason.value.signal` with 4;
  a server that exits by itself with an error has the signal `None`, and the callback raises.
- Scheduling, all outside of what the properties claim: a project whose first task
  starts before it (by a negative gap or a constraint) is moved earlier by every
  scheduling, although `tests/test_stability.py:39` says that "scheduling is
  stable"; with groups, the passes may not come to rest (`StartsTooEarly` in
  `Settles`, `moved >= 0` in `Stable`). A project that ends with an early
  milestone changes the duration of tasks as late as possible (`late(max_ef.live)` in
  `DurationKept`). `adjust_task_relship_gap` subtracts halves of days from a gap in
  days, so that floats of adopting groups with successors are off (`FloatSound` is about leaves).
  Relationships between a child and its own group can pass the cycle checks of the
  dialogs and be rejected as a cycle here (`Crossed` among the projects).
  After milestones, and for relationships from start to finish, a task may start up to
  a day later than it could (the exceptions of `Earliest`). Latest dates of
  discarded children of groups depend on the order of a set.

### Bounds

`MaxBusy` limits the actors inside an operation at the same time; two are enough
for every race found in the code, all of which are between two cascades, and the
third actor still starts operations before and after. `MaxResumes` and
`MaxFaults` limit resumptions and failures; one resumption already doubles jobs,
two (`Live`) let a job of the first one meet the second. `MaxConversions` is 2 where
several conversions matter. Two cycles (`max_cycles = 2`) have a first, a last and one
that must not be. Schemas: `Mixed` has every kind of component, a group
of both kinds and completion tasks; `Deep` groups in groups of every kind, in the completion group as well; `Team` two closers in one group;
`Gap` an empty group between two components and no completion tasks. `CHECK_DEADLOCK FALSE`
because an ended process leaves nothing to do.

`Broker`: two workers are one that takes every task and one for checks. Two requests for one model join,
leave and follow each other; one of them is a switch, which wants no endpoint. `MAX_RETRIES = 1` and two
deaths let a worker be respawned, be respawned again after output, and stay away. `N`, `MAX_RETRIES`
and the requests are parameters of the proofs, which need none of these bounds. `BrokerChecks`
needs two models: one to register and one that follows.

`Scheduling`: three tasks have every combination of two relationships out of four types and
gaps -1, 0, 1, in a row, joining and forking; groups have two children and up to two
tasks outside, one of them nested in another group. Durations of one and two days, so that a day may be inside a task or not. Each family of
projects in `MCScheduling` adds one thing: discarded tasks, milestones, each type of
constraint with dates before and after what relationships ask for, fixed dates, manual projects. `Runs = 2`:
the second scheduling reads what the first has written. `max_retries = 3` is the default of the code.

### Fairness (`Live`, `Loop`, `Broker`)

Weak fairness for the steps of an operation that has begun: Python runs it to its
end. Weak fairness for taking jobs: the queue polls. Weak fairness for a user to
close each task he finds ready, and to resume a paused process: an assumption on
people, without which nothing can end. No fairness for pausing, cancelling, refusing or for the
way an implementation ends. `Completes` allows a process that rests paused
after `MaxResumes` resumptions, the bound being ours. In `Loop` running cycles end
and a paused parent is resumed, again as an assumption on people; none for
cancelling, pausing or for users of a cycle.

In `Broker`, weak fairness for the callbacks of each worker (the reactor reads pipes and
runs timers), for its process (it starts and answers what it is told, if only with an
error), and for the answer of the HOOPS server, which is assumed to come or to fail. None for requests, clients, the
cleanup, or crashes.

## 4. Proofs

`Schedule_proofs` (`IInv`: types and `InOrder`, which is inductive): whatever
implements `Schedule` works in order (`ScheduleInOrder`) and one component at a
time (`ScheduleOneAtATime`). The engine does (`Order_proofs`).

`Workflow_proofs`, for every schema that satisfies `TreeAssumption`, every set of
sessions, workers and servers, and every bound:

- `TypeCorrect`. Inductive because `Call` records which calls may stand for which
  object: a job's frames belong to system tasks (its handlers put the job back or
  mark it), the frame of a group's next sibling to a component (its handler asks
  for the parent), and frames that write the database directly exist only where an
  implementation may close the process. `UnwoundCalls` shows that unwinding
  keeps it; `LeastIn` that the first component of a non-empty set exists, by
  well-foundedness of the numbers.
- `OnHoldCorrect`. Inductive with the types: of the steps that change the status
  of the process only `LeaveProcess` and `ResumeProcess` touch PAUSED
  (`MethodFrame`, `OperationFrame`, `QueueFrame`, `FaultFrame`, `JobFrame` say what
  all others leave alone).
- `StableCorrect`. From the life cycle table and `JobFrame`, under the assumption
  that no implementation closes the process (`"completed" \notin Outcomes`).

`JobKeptCorrect` (the second part of `Workflow_proofs`), for every schema, any number of actors and every interleaving.
`JobKept` is not inductive: that some call of the task is on a stack does not say that anything will come of it. `SeenTo` says
what the actor is about to do (`SeesTo`): run the task, end it, cancel it or pause the process, or complete it
directly once the process has ended. `JobShape` says where the frames of a job are: its run is followed by its two `try` blocks
and nothing else, so that an error always comes to the `except` clause that pauses the process.
`StepSees` goes through the ways a job can end. Assumptions: no crash and no failing transaction (`MaxFaults
= 0`), after which a job that was taken is gone, and no implementation that aborts the process: its task is
one of those that `cancel_subtasks` must reach, and whether it does depends on the whole tree. `Convert` checks that case.

`Order_proofs`: the engine implements `Schedule`. The invariant `IInv` is `TypeOK`, `InTurn` (what is
not new was started in its turn) and `Stacks`: every pending call is one that may still be made. A
call that starts a component was made when all before it, and all before the groups
around it, had ended (`AllReady`); since ends stay (`Stable`), it may wait for any time while others act.
The next component of a sequential group or of the process is named by `propagate_done` of the one
before, so each such call must come after an end. There are two ways, and the invariant tells them
apart: the component has ended already (`Passed`), or the call right above ends it (`Ends`, as in
`close_task`, where `propagate_done` stands below `set`). Unwinding an exception drops the calls that were to end a
component, so what a handler goes on with must have ended by then (`Heard`).
`NextTaskEquation` proves the equation of the recursive `NextTask`, for trees as the code builds them.

- `WorkflowImplementsSchedule`, for every schema, any number of actors, every interleaving, crashes and failing
  transactions included. Three assumptions, each at a place where the code does otherwise. `TasksLast`: a group
  at the end of a sequential group that other work follows must not be; without components it would
  make `Next` lead out of the group around it (`taskgroups.py:401`, see section 3). `"completed" \notin
  Outcomes`: an implementation that closes the process writes statuses directly. `StartsAlone`: nobody
  else is inside an operation on the process when it is started; starting resets all components to NEW, below
  another session that may be about to cancel or dismiss the new process.
- `OneSessionImplementsSchedule` and `SerialImplementsSchedule` do without `StartsAlone`: as long as the process is new,
  only sessions are at work (`Fresh`: no job is taken, no conversion under way), so one session, or one operation at a
  time, disturbs nobody. These are the conditions of `Concurrent` and `Serial`.

`Serial_proofs`: what an operation has done when it returns, for every tree of components, any
number of sessions, workers and servers, and any number of operations, one after the other (`MaxBusy = 1`).
`EndsClean`: a process that was closed, cancelled or dismissed has left nothing that is new or runs. `RunsInRunning`:
components run only in groups that run. `CompletionComesLast`: the completion group starts when everything else has ended, in
the middle of an operation too. `CancelRemembered`: a process that was cancelled or refused never ends as completed. All
speak of processes in which no operation was cut off (`faults = 0`, as the properties say); `CancelSticks`, which `Serial`
checks with one crash as well, is proved without.

None of them is inductive, since in the middle of a cascade groups have ended whose components have not. `SerialInv`
reads the stack of pending calls as a list of promises, the set `K` of its frames:

- A component is `Doomed` if a call on the stack is going to cancel it, `Ending` if one is about to end it, `ToStart` if
  one is going to start it or to skip it.
- `Law` relates promises and statuses. What is open below a group that has ended, or is about to, is doomed
  (`NoOrphan`); so is what is open at the top of a process that winds up, because a call is going to end it, its completion group
  runs or `completing_ok` is off (`WindsUp`). What comes after an open component in its group is new (`InLine`), what is below
  a new component is new or skipped (`NewBelow`), the completion tasks that have not started are about to
  (`AllStarted`), and every call finds what it relies on (`Needs`, `Serves`): `activate_task` a new component in a running group,
  `set` a transition that the life cycle has, `end_process` and `activate_next` a process that nobody has cancelled.
- `Shape` says which call may wait for which (`Bears`, for any two, `Rests`, for neighbours): the calls above work
  deeper in the tree than what a waiting call is going to touch (`Depth`), so its needs are still met when its turn comes. This is
  where the schema has to be a tree (`Rooted`).
- With an empty stack no component is doomed, and `Law` says what the theorems state (`AtRest`).

Three situations are none of this kind. `Vain`: an answer to a task that has ended in the meantime, which the life cycle
refuses; `Boot`: the start of a process, which resets everything; `Launch`: a component that is about to run, described by what holds
once it does. Most steps replace calls and change no status: `Replace` shows that `Law` survives if the new calls promise
what the old ones did (`Swap`), and `SwapModest`, `SwapMild` and `SwapBottom` leave few conditions of it for the calls that occur.
Steps that change a status have lemmas of their own (`SetDown`, `StartLaw`). Exceptions are followed down the stack
(`RaiseNormal`): a handler is met by what it stands on, and ends the group or goes on after it.

Assumptions (`OneByOne`): one operation at a time, without which the properties do not hold (`Concurrent` and `Review` show what
overlapping operations do, and where only an error tells of it); `TasksLast`, as above; and no implementation of a system
task that ends its task or the process by writing statuses past `propagate_*` (`"cancelled"` and `"completed"`). `Rooted` says that
following `parent_id` comes to the process, which is how the designer builds a schema.

`Alive_proofs`: `AlwaysRuns`, a running process has a running task whenever no operation is under way and none was cut off. This is
the other half of `SerialInv`: that one says that whatever is on the stack may be done, `AliveInv` that whatever has to be
done is on the stack.

- Between operations every group that runs has a component that runs, and so has the process (`Tended`). In a tree of finite
  height this leads to a task (`Descent`).
- In the middle of an operation a group may have no running component, but then a call goes on with it (`Attends`: it
  starts something in it, ends it or tells it), or an exception is on its way to the call that waits for it (`Attended`).
  A component that is `Doomed` or `Ending` does not count as running (`Live`): whoever ends it must still tell its parent.
- So that the call in charge can be found after each step, `Minds` says which calls wait for the one above them (`Linked`:
  `activate_task` for a component stands on a call of its parent, `TaskClosed` comes only to a clause that knows what to do),
  that a paused process has no calls but those of a worker or a user who resumes it (`Quiet`), that
  nothing has ended in a group whose components are being activated (`Skips`), and that a parallel group starts all its components (`Parallels`).
- `Alive` treats a transition on top of the stack by what becomes of it: a late answer is refused, a component
  or the process starts. `StepWakes` has one lemma for each action, `MindsOne` and `GivesUp` are what most of them rest on.

Assumptions (`Steady`): those of `OneByOne`, and three more, without each of which TLC finds a process that waits for
nobody. `Filled`: the first group of a process, and a group inside a sequential or parallel one, has components (`TaskClosedException`
is caught by the callers of `ActivateNext` only, see section 3); the completion group and later groups of the process may be empty.
`"async" \notin Outcomes`: a conversion that fails cancels its task without telling the parent. `HoldEnforced`: users cannot end
tasks of a paused process; where they can and the last running task ends that way, `setDone` of the process is refused, and the process that
resumes has nothing that runs. `FiniteHeight` holds for every finite schema. `Serial` checks
`NoStall` on an instance that satisfies all of them.

`RunLoop_proofs`, for every number of users and workers, every `max_cycles` and all
conditions:

- `TypeCorrect` and `LoopGoesOn`. `IInv` adds to the types which calls workers and sessions may have on their stacks
  (`Stacks`), that nobody is ahead of `current_cycle` (`NotAhead`), that a worker starts a cycle that exists
  (`Chosen`), and that the current cycle is cancelled only after its task (`TaskFirst`). `GoesOn` itself is a part of it.
- `NoneSpawnedCorrect`: cancelling a run loop cancels its cycle without counting it or enqueuing the job again,
  because `cancel_cycle` only ever stands on top of a stack, and only while the task has ended already.
- `BoundedCorrect` and `OneActiveCorrect`, for one worker (`OneWorker`; two can break both). The second invariant, `SInv`, says
  that cycles are numbered in the order they were created, that all but the last have ended
  (`InOrder`, `Counted`), and what the worker has read is still true when it acts on it (`Planned`): between
  reading `current_cycle` and copying the cycle nobody else creates one.

`Broker_proofs`, for every number of workers, requests and documents, and any number of deaths. The
inductive invariant `IInv` is the conjunction of the safety properties and `Fresh`: `TypeOK` (`TypeCorrect`),
`Tracked` (`TasksTracked`), `Attached` (`RequestsAttached`), `BusyIsReady`
(`BusyWorkersConnected`), `NoneIdle` (`NoWakeupLost`) and `NoMixUp` (`ResultsNotMixedUp`). `Fresh` says that
the pipe of a worker that is connected and idle, or is to be respawned, is empty: without it, a task
could be given to a worker that has an old line to read, and `NoMixUp` would not be
inductive. `Tracked` and `Attached` need each other, since a result pops the list
of its task and answers those in it. The proof is organised by what a callback does to the queue: lemmas about
`run_task` (which tasks go to which worker, what stays queued), one about
`schedule_task` of a task that is new or pending, one about a worker that is freed, and then one
step per action. `Implements` is the refinement of `SingleFlight`: with `IInv`, every action moves phases and lists
as `Work` or `Leave` allow. Assumptions: `N > 0`, `MAX_RETRIES` a number, `DocOf` a function, `None` none of the values it stands beside.

`Relationships_proofs` is about arithmetic without state, for all integers. `ForwardRespects`: a successor whose
dates are no earlier than `relship_forward` allows for the scheduled dates of its predecessor never violates the
relationship, as `persist_relships` measures it; `BackwardRespects`
the same for latest dates, `FloatRespects` for `max_end` of the two types from
the finish of a task, `DurationIsKept` for `add_duration`. They hold for the dates tasks really have:
regular tasks start early and end late, milestones are one point.
They are the reason why `Respected` holds wherever no constraint or fixed date interferes: `Scheduling` itself,
which folds over lists of tasks, is model-checked only.

Only model-checked:

- Liveness under fairness, which is out of the prover's reach (`Returns`, `Completes`, `LoopEnds`, `Answered`).
- The two properties of `WorkflowErrors`, about operations that overlap.
- The passes of `Scheduling`: folds over lists of tasks, about whose results only induction over the list tells
  something. What one relationship asks of two dates is proved.
- Findings: those are counterexamples.

## 5. Not modelled

- *Workflow engine:* edits of the schema while the process runs (`check_position`, `allow_new_task`,
  `allow_delete` answer the form of a designer and change nothing themselves), what a user's
  form or comment check refuses before anything has changed, deadlines, briefcases,
  protocols and notifications.
- *3D broker:* the HOOPS server process beside its answers, the XML of a model, which a thread reads after
  everything else, scopes of WebSocket connections, the lock functions of the stream cache.
- *Scheduling:* days off and dates outside a calendar (`IndexedCalendar`), SQL that loads and
  writes, subprojects.
- *Statuses of tasks and projects* (`src/cs/pcs/projects/tasks.py`, `status_updates.py`): cascades up and down
  the tree of tasks. Which hook runs when, within which transaction, which transitions the
  life cycle has and what is reloaded in between is the kernel's business; a model would be about
  guesses. Reading them, some comments do not agree with the code: the docstring of `TO_NEW`
  (754-756) with its body (764-770), that of `getSubtasksMeetingPredecessorCondition` (340-342) with 359-363.
- *Job classes of the other queues* (`src/cs/sharing`, `src/cs/metrics`, `src/cs/activitystream`,
  `src/cs/cadbase/cadjobqueue`): one sequence of steps on one object, around calls into plug-ins, mail
  and CAD programs. `cadjobqueue/__init__.py:241` calls `decode` on a string, which Python 3 does not have;
  `aggregation_queue.py:36` reports an attribute that the queue does not have.
- *Task boards, classification, requirements, products, costing and the rest:* data management, conversion,
  user interface or adapters to programs whose code is elsewhere. They keep their state in
  the database, write it within one transaction of the kernel, and have no protocol between actors.
