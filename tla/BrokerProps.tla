---------------------------- MODULE BrokerProps ----------------------------
(***************************************************************************)
(* What the broker of module Broker has to get right.                      *)
(***************************************************************************)
EXTENDS Broker

Queued == {work_queue[i] : i \in DOMAIN work_queue}
Running == {active[w] : w \in Worker} \ {None}

\* Queue, lists, pipes and process states stay in their domains, and a worker
\* is respawned at most MAX_RETRIES times without output.
TypeOK ==
  /\ work_queue \in Seq(Task)
  /\ DOMAIN task_deferreds \subseteq Task
  /\ \A t \in DOMAIN task_deferreds : task_deferreds[t] \subseteq Request
  /\ is_ready \in [Worker -> BOOLEAN]
  /\ active \in [Worker -> Task \cup {None}]
  /\ retries \in [Worker -> 0 .. MAX_RETRIES]
  /\ proc \in [Worker -> ProcState]
  /\ pipe \in [Worker -> Result \cup {None}]
  /\ cache \subseteq Doc
  /\ pc \in [Request -> Progress]
  /\ faults \in Nat

\* Every pending task is in the queue or with one worker, and only once: the
\* entry its result pops from task_deferreds is there and is its own.
Tracked ==
  /\ DOMAIN task_deferreds = Queued \cup Running
  /\ \A i, j \in DOMAIN work_queue : work_queue[i] = work_queue[j] => i = j
  /\ \A v, w \in Worker : active[v] = active[w] /\ active[v] # None => v = w
  /\ Queued \cap Running = {}

\* The task a request waits for
TaskOf(r) == IF pc[r] = "check" THEN Check(DocOf[r]) ELSE Register(DocOf[r])
Waits(r) == pc[r] \in {"check", "register"}

\* A request waits exactly where its answer comes from: it is in the list of its
\* own pending task and in no other, however tasks fail and clients leave.
Attached ==
  /\ \A r \in Request : Waits(r) => TaskOf(r) \in DOMAIN task_deferreds
  /\ \A t \in DOMAIN task_deferreds :
       task_deferreds[t] = {r \in Request : Waits(r) /\ TaskOf(r) = t}

\* A worker that has a task is connected, so that the loss of its process is
\* noticed and the task fails.
BusyIsReady == \A w \in Worker : active[w] # None => is_ready[w]

\* No wake-up is lost: while tasks are queued, no worker that takes every task
\* is connected and idle.
NoneIdle ==
  work_queue # <<>> =>
    \A w \in Worker : is_ready[w] /\ ~only_checks(w) => active[w] # None

\* An unread line is the answer to the task the worker has: the late result of a
\* process that died is not taken for the result of another task.
NoMixUp ==
  \A w \in Worker : active[w] # None /\ pipe[w] \notin {None, "error"} =>
    pipe[w] \in CASE active[w].cmd = "check" -> {"Changed", "Unchanged"}
                  [] active[w].cmd = "register" -> {"Registered"}
                  [] active[w].cmd = "cleanup" -> {}

\* Registrations do not block checks completely: when all other workers register
\* models, the worker for checks does not sit idle while a check waits and
\* nothing but registrations is queued before it.
ChecksServed ==
  \A w \in Worker :
    /\ only_checks(w) /\ is_ready[w] /\ \E t \in Queued : t.cmd = "check"
    /\ \A v \in Worker \ {w} : active[v] # None /\ active[v].cmd = "register"
    /\ Cleanup \notin Queued
    => active[w] # None

\* The state of every task, and who waits for it
Phase == [t \in Task |-> IF t \in Running THEN "running"
                         ELSE IF t \in Queued THEN "queued" ELSE "idle"]
Waiting == [t \in Task |-> IF t \in DOMAIN task_deferreds THEN task_deferreds[t] ELSE {}]

\* The broker shares work the way SingleFlight promises.
Shared == INSTANCE SingleFlight WITH phase <- Phase, waiting <- Waiting
SharedSpec == Shared!Spec
-----------------------------------------------------------------------------
(* Liveness: the broker reads its pipes and runs its timers, processes start  *)
(* and do what they are told, and somebody answers the call of an endpoint.   *)

Fairness ==
  /\ \A w \in Worker : WF_vars(Callbacks(w)) /\ WF_vars(Process(w))
  /\ \A r \in Request : WF_vars(request_endpoint(r))

FairSpec == Spec /\ Fairness

\* A request is answered in the end, unless the workers that may register have
\* died once too often or were stopped.
Answered ==
  \A r \in Request :
    pc[r] = "check" ~>
      pc[r] \in Final \/ \A w \in Worker : ~only_checks(w) => proc[w] = "gone"
=============================================================================
