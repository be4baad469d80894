---------------------------- MODULE SingleFlight ----------------------------
(***************************************************************************)
(* What a broker that shares work between requests promises.  A task is    *)
(* never queued or worked on twice at the same time, everyone who asks for *)
(* it while it is pending waits for the same result, and all who wait are  *)
(* answered by one and the same event.                                     *)
(***************************************************************************)
CONSTANTS Task, Request

VARIABLES
  phase,    \* of every task: idle, queued or running
  waiting   \* of every task: the requests that wait for its result

vars == <<phase, waiting>>

Init ==
  /\ phase = [t \in Task |-> "idle"]
  /\ waiting = [t \in Task |-> {}]

\* The task is done or has failed; nobody waits for it any longer
Finish(t) == phase[t] = "running" /\ phase'[t] = "idle" /\ waiting'[t] = {}

\* The task moves on, and requests may join
Advance(t) ==
  /\ <<phase[t], phase'[t]>> \in
       {<<"idle", "queued">>, <<"idle", "running">>, <<"queued", "running">>}
     \/ phase'[t] = phase[t]
  /\ waiting[t] \subseteq waiting'[t]
  /\ phase'[t] = "idle" => waiting'[t] = {}

\* One event finishes at most one task; it may begin others
Work ==
  /\ \A t \in Task : Finish(t) \/ Advance(t)
  /\ \A t, u \in Task : Finish(t) /\ Finish(u) => t = u

\* A request is closed by its client, the task goes on
Leave(r) ==
  /\ waiting' = [t \in Task |-> waiting[t] \ {r}]
  /\ UNCHANGED phase

Next == Work \/ \E r \in Request : Leave(r)

Spec == Init /\ [][Next]_vars
=============================================================================
