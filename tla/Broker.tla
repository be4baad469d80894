------------------------------- MODULE Broker -------------------------------
(***************************************************************************)
(* The broker of the 3D viewer.  A twisted process takes the requests of   *)
(* viewers, asks worker processes to check and to register models in the   *)
(* stream cache, and asks the HOOPS server for an endpoint.                *)
(*                                                                         *)
(* The broker runs one callback at a time: every action of the broker is a *)
(* whole callback.  Workers are processes of their own, which compute,     *)
(* write to their pipes and die between any two callbacks.                 *)
(***************************************************************************)
EXTENDS Integers, Sequences, FiniteSets

CONSTANTS
  Request,      \* requests for models, one per open connection
  Viewer,       \* those that want an endpoint (the others are switches)
  Doc,          \* documents with models
  DocOf,        \* the document of a request
  N,            \* number of workers
  MAX_RETRIES,
  None,
  MaxFaults     \* bound: processes that die

ASSUME WorkersAssumption == N \in Nat \ {0} /\ MAX_RETRIES \in Nat
ASSUME RequestAssumption == Viewer \subseteq Request /\ DocOf \in [Request -> Doc]

VARIABLES
  work_queue,     \* tasks nobody works on yet
  task_deferreds, \* the requests that wait for a task, for every pending task
  is_ready,       \* of a worker: connected
  active,         \* of a worker: the task it was given (active_deferred)
  retries,        \* of a worker: respawns without output in between
  proc,           \* of a worker: the state of its process
  pipe,           \* of a worker: the result its process wrote and nobody read
  cache,          \* documents whose current model is in the stream cache
  pc,             \* of a request: what it waits for, or how it ended
  faults

brokerVars == <<work_queue, task_deferreds, is_ready, active, pc>>
processVars == <<retries, proc, pipe>>
vars == <<brokerVars, processVars, cache, faults>>

Worker == 0 .. N - 1
\* The last worker of several takes checks only
only_checks(w) == w > 0 /\ w = N - 1

Check(d) == [cmd |-> "check", doc |-> d]
Register(d) == [cmd |-> "register", doc |-> d]
Cleanup == [cmd |-> "cleanup", doc |-> None]
Task == {Check(d) : d \in Doc} \cup {Register(d) : d \in Doc} \cup {Cleanup}

Result == {"Changed", "Unchanged", "Registered", "error"}
ASSUME NoneAssumption == None \notin Doc /\ None \notin Task /\ None \notin Result

Final == {"answered", "failed", "closed"}
Progress == {"new", "check", "register", "endpoint"} \cup Final
Ended == {"crashed", "stopped"}
ProcState == {"starting", "up", "respawn", "gone"} \cup Ended

Init ==
  /\ work_queue = <<>> /\ task_deferreds = [t \in {} |-> {}]
  /\ is_ready = [w \in Worker |-> TRUE]
  /\ active = [w \in Worker |-> None]
  /\ retries = [w \in Worker |-> 0]
  /\ proc = [w \in Worker |-> "starting"]
  /\ pipe = [w \in Worker |-> None]
  /\ cache = {}
  /\ pc = [r \in Request |-> "new"]
  /\ faults = 0
-----------------------------------------------------------------------------
(* The queue *)

\* The workers of S, all of them ready, look for a task one after the other:
\* those that are idle take the head of the queue q, the one for checks is the
\* last and takes it only if it is a check.
run_task(S, q, act) ==
  LET idle == {w \in S : act[w] = None}
      plain == {w \in idle : ~only_checks(w)}
      place(w) == Cardinality({v \in plain : v <= w})
      taken == IF Cardinality(plain) < Len(q) THEN Cardinality(plain) ELSE Len(q)
      rest == SubSeq(q, taken + 1, Len(q))
      checked == \E w \in idle : only_checks(w) /\ rest # <<>> /\ Head(rest).cmd = "check"
  IN /\ active' = [w \in Worker |->
                     IF w \in plain /\ place(w) <= taken THEN q[place(w)]
                     ELSE IF w \in idle \ plain /\ checked THEN Head(rest) ELSE act[w]]
     /\ work_queue' = IF checked THEN Tail(rest) ELSE rest

ReadyWorkers == {w \in Worker : is_ready[w]}

\* Mutant: a pending task is queued again
schedule_task_again(t, rs, tds, act) ==
  /\ task_deferreds' = [u \in DOMAIN tds \cup {t} |->
                          IF u # t THEN tds[u] ELSE IF t \in DOMAIN tds THEN tds[t] \cup rs ELSE rs]
  /\ run_task(ReadyWorkers, Append(work_queue, t), act)

\* The requests rs wait for task t, next to those in the lists of tds.  A new
\* task is queued and offered to all workers, a known one is joined.
schedule_task(t, rs, tds, act) ==
  IF t \in DOMAIN tds
  THEN /\ task_deferreds' = [tds EXCEPT ![t] = @ \cup rs]
       /\ active' = act /\ UNCHANGED work_queue
  ELSE /\ task_deferreds' = [u \in DOMAIN tds \cup {t} |-> IF u = t THEN rs ELSE tds[u]]
       /\ run_task(ReadyWorkers, Append(work_queue, t), act)

Popped(t) == [u \in DOMAIN task_deferreds \ {t} |-> task_deferreds[u]]

Move(rs, to) == pc' = [r \in Request |-> IF r \in rs THEN to ELSE pc[r]]

\* Mutant: the entry of the task is kept
Errback_kept(w) ==
  IF active[w] = None THEN UNCHANGED <<task_deferreds, pc>>
  ELSE Move(task_deferreds[active[w]], "failed") /\ UNCHANGED task_deferreds

\* The errback of the task worker w works on, if any: everyone who waits gets
\* the error and is told so
Errback(w) ==
  IF active[w] = None
  THEN UNCHANGED <<task_deferreds, pc>>
  ELSE /\ Move(task_deferreds[active[w]], "failed")
       /\ task_deferreds' = Popped(active[w])
-----------------------------------------------------------------------------
(* Requests and the janitor *)

render_POST(r) ==
  /\ pc[r] = "new"
  /\ Move({r}, "check")
  /\ schedule_task(Check(DocOf[r]), {r}, task_deferreds, active)
  /\ UNCHANGED <<is_ready, processVars, cache, faults>>

\* Mutant: the deferred of the request stays in the list
response_failed_kept(r) ==
  /\ pc[r] \in {"check", "register", "endpoint"}
  /\ Move({r}, "closed")
  /\ UNCHANGED <<work_queue, task_deferreds, is_ready, active, processVars, cache, faults>>

\* The client closes its connection: the deferred it waits for is cancelled
response_failed(r) ==
  /\ pc[r] \in {"check", "register", "endpoint"}
  /\ Move({r}, "closed")
  /\ task_deferreds' = [t \in DOMAIN task_deferreds |-> task_deferreds[t] \ {r}]
  /\ UNCHANGED <<work_queue, is_ready, active, processVars, cache, faults>>

\* The answer of the HOOPS server, an error if it has no endpoint or is down
request_endpoint(r) ==
  /\ pc[r] = "endpoint"
  /\ \E to \in {"answered", "failed"} : Move({r}, to)
  /\ UNCHANGED <<work_queue, task_deferreds, is_ready, active, processVars, cache, faults>>

clean_streaming_cache ==
  /\ schedule_task(Cleanup, {}, task_deferreds, active)
  /\ UNCHANGED <<is_ready, pc, processVars, cache, faults>>
-----------------------------------------------------------------------------
(* Callbacks for the pipes and the end of a worker process *)

\* The result reaches the requests that wait.  A changed model has to be
\* registered, which they do within the same callback.
Callback(w, result) ==
  LET t == active[w]
      rs == task_deferreds[t]
      act == [active EXCEPT ![w] = None]
      viewers == rs \cap Viewer
  IN IF result = "Changed" /\ rs # {}
     THEN LET next == Register(t.doc) IN
          /\ Move(rs, "register")
          /\ IF next \in DOMAIN task_deferreds
             THEN /\ task_deferreds' = [Popped(t) EXCEPT ![next] = @ \cup rs]
                  /\ run_task({w}, work_queue, act)
             ELSE schedule_task(next, rs, Popped(t), act)
     ELSE /\ pc' = [r \in Request |-> IF r \in viewers THEN "endpoint"
                                      ELSE IF r \in rs THEN "answered" ELSE pc[r]]
          /\ task_deferreds' = Popped(t)
          /\ run_task({w}, work_queue, act)

\* A result on the standard output; one that comes too late is dropped
outReceived(w) ==
  /\ pipe[w] \notin {None, "error"}
  /\ retries' = [retries EXCEPT ![w] = 0]
  /\ pipe' = [pipe EXCEPT ![w] = None]
  /\ IF active[w] # None
     THEN Callback(w, pipe[w])
     ELSE UNCHANGED <<work_queue, task_deferreds, active, pc>>
  /\ UNCHANGED <<is_ready, proc, cache, faults>>

\* Mutant: no task is taken after an error
errReceived_idle(w) ==
  /\ pipe[w] = "error"
  /\ pipe' = [pipe EXCEPT ![w] = None]
  /\ Errback(w)
  /\ active' = [active EXCEPT ![w] = None]
  /\ UNCHANGED <<work_queue, is_ready, retries, proc, cache, faults>>

\* A result on the error channel
errReceived(w) ==
  /\ pipe[w] = "error"
  /\ pipe' = [pipe EXCEPT ![w] = None]
  /\ Errback(w)
  /\ IF active[w] = None
     THEN UNCHANGED <<work_queue, active>>
     ELSE run_task({w}, work_queue, [active EXCEPT ![w] = None])
  /\ UNCHANGED <<is_ready, retries, proc, cache, faults>>

\* Mutant: the worker still counts as connected
inConnectionLost_ready(w) ==
  /\ proc[w] \in Ended /\ active[w] # None
  /\ Errback(w)
  /\ active' = [active EXCEPT ![w] = None]
  /\ UNCHANGED <<work_queue, is_ready, processVars, cache, faults>>

\* The pipe to the standard input breaks
inConnectionLost(w) ==
  /\ proc[w] \in Ended /\ is_ready[w]
  /\ is_ready' = [is_ready EXCEPT ![w] = FALSE]
  /\ Errback(w)
  /\ active' = [active EXCEPT ![w] = None]
  /\ UNCHANGED <<work_queue, processVars, cache, faults>>

\* Mutant: one respawn too many
processEnded_more(w) ==
  /\ proc[w] \in Ended /\ ~is_ready[w] /\ pipe[w] = None
  /\ Errback(w)
  /\ active' = [active EXCEPT ![w] = None]
  /\ LET again == proc[w] = "crashed" /\ retries[w] <= MAX_RETRIES
     IN /\ proc' = [proc EXCEPT ![w] = IF again THEN "respawn" ELSE "gone"]
        /\ retries' = [retries EXCEPT ![w] = IF again THEN @ + 1 ELSE @]
  /\ UNCHANGED <<work_queue, is_ready, pipe, cache, faults>>

\* All pipes are closed and the process has been waited for
processEnded(w) ==
  /\ proc[w] \in Ended /\ ~is_ready[w] /\ pipe[w] = None
  /\ Errback(w)
  /\ active' = [active EXCEPT ![w] = None]
  /\ LET again == proc[w] = "crashed" /\ retries[w] < MAX_RETRIES
     IN /\ proc' = [proc EXCEPT ![w] = IF again THEN "respawn" ELSE "gone"]
        /\ retries' = [retries EXCEPT ![w] = IF again THEN @ + 1 ELSE @]
  /\ UNCHANGED <<work_queue, is_ready, pipe, cache, faults>>

\* Mutant: the worker takes no task when it is connected
spawn_idle(w) ==
  /\ proc[w] = "respawn"
  /\ proc' = [proc EXCEPT ![w] = "starting"]
  /\ is_ready' = [is_ready EXCEPT ![w] = TRUE]
  /\ UNCHANGED <<work_queue, task_deferreds, active, pc, retries, pipe, cache, faults>>

\* The timer of a respawn fires: spawn calls connectionMade
spawn(w) ==
  /\ proc[w] = "respawn"
  /\ proc' = [proc EXCEPT ![w] = "starting"]
  /\ is_ready' = [is_ready EXCEPT ![w] = TRUE]
  /\ run_task({w}, work_queue, active)
  /\ UNCHANGED <<task_deferreds, pc, retries, pipe, cache, faults>>
-----------------------------------------------------------------------------
(* Worker processes *)

\* The process has its licence, says READY and is going to read its input.  The
\* broker reads that line some time before processEnded, which alone looks at
\* the retries it resets: it might as well do so at once.
WorkerReady(w) ==
  /\ proc[w] = "starting"
  /\ proc' = [proc EXCEPT ![w] = "up"]
  /\ retries' = [retries EXCEPT ![w] = 0]
  /\ UNCHANGED <<brokerVars, pipe, cache, faults>>

\* What a command does to the cache and writes.  The end of a cleanup is written
\* to the error channel.
cmd_check(d) == {[cache |-> cache, line |-> IF d \in cache THEN "Unchanged" ELSE "Changed"]}
cmd_register(d) == {[cache |-> cache \cup {d}, line |-> "Registered"]}
cmd_cleanup == {[cache |-> c, line |-> "error"] : c \in SUBSET cache}
Failure == {[cache |-> cache, line |-> "error"]}

run(w) ==
  /\ proc[w] = "up" /\ active[w] # None /\ pipe[w] = None
  /\ \E done \in Failure \cup CASE active[w].cmd = "check" -> cmd_check(active[w].doc)
                                [] active[w].cmd = "register" -> cmd_register(active[w].doc)
                                [] active[w].cmd = "cleanup" -> cmd_cleanup :
       /\ cache' = done.cache
       /\ pipe' = [pipe EXCEPT ![w] = done.line]
  /\ UNCHANGED <<brokerVars, retries, proc, faults>>

\* The process crashes, or stops without a licence or on request
Die(w) ==
  /\ proc[w] \in {"starting", "up"} /\ faults < MaxFaults
  /\ faults' = faults + 1
  /\ \E to \in Ended : proc' = [proc EXCEPT ![w] = to]
  /\ UNCHANGED <<brokerVars, retries, pipe, cache>>

\* Somebody checks in a new version of the model
CheckIn(d) ==
  /\ d \in cache
  /\ cache' = cache \ {d}
  /\ UNCHANGED <<brokerVars, processVars, faults>>
-----------------------------------------------------------------------------
\* What the broker does for worker w, and what the process of w does
Callbacks(w) ==
  outReceived(w) \/ errReceived(w) \/ inConnectionLost(w) \/ processEnded(w) \/ spawn(w)
Process(w) == WorkerReady(w) \/ run(w)

Next ==
  \/ \E r \in Request : render_POST(r) \/ response_failed(r) \/ request_endpoint(r)
  \/ clean_streaming_cache
  \/ \E w \in Worker : Callbacks(w) \/ Process(w) \/ Die(w)
  \/ \E d \in Doc : CheckIn(d)

Spec == Init /\ [][Next]_vars
=============================================================================
