--------------------------- MODULE SchedulingProps ---------------------------
(***************************************************************************)
(* What the scheduling of module Scheduling has to get right.              *)
(***************************************************************************)
EXTENDS Scheduling

\* Every value of a task is a time; only the scheduled dates are None until they
\* are known, which they are in the end.  Counters stay within their bounds.
TypeOK ==
  /\ \A t \in DOMAIN network :
       /\ network[t] \in Row
       /\ phase \in {"floats", "persist"} => network[t].AA # None /\ network[t].ZZ # None
  /\ orders \in [forward : Seq(Task), backward : Seq(Task)]
  /\ phase \in {"load", "forward", "settle", "backward", "finalize", "floats", "persist",
                "cycle", "unstable"}
  /\ changed \subseteq Task /\ DOMAIN all_changes \subseteq Task
  /\ retries \in 0 .. max_retries /\ runs \in 0 .. Runs
  /\ min_es \in Int /\ max_ef \in [live : Int, all : Int] /\ moved \in Int

Scheduled == phase = "persist"
Live == {t \in Task : ~discarded(t)}
Leaf == {t \in Task : ~tasks[t].is_group}
Automatic == {t \in Leaf : ~tasks[t].fixed}
Relships == ToSet(project.relships)
type(t) == tasks[t].constraint_type
Plain(t) == type(t) \in {"ASAP", "ALAP"}
-----------------------------------------------------------------------------
(* Order of the passes *)

Before(order, t, u) ==
  \E i, j \in DOMAIN order : order[i] = t /\ order[j] = u /\ i < j

\* The passes meet tasks in the order of their relationships, those of their
\* groups included, parents before children forward and after them backward.
\* Sorting fails exactly if there is no such order, because of a cycle.
Sorted ==
  LET any == CHOOSE reading \in readings : TRUE
      Cyclic(preds) == \E S \in SUBSET Task \ {{}} : \A t \in S : ToSet(preds[t]) \cap S # {}
      Respects(order, preds) == \A t \in Task : \A p \in ToSet(preds[t]) : Before(order, p, t)
  IN /\ phase = "forward" => /\ Respects(orders.forward, preds_forward(any))
                             /\ Respects(orders.backward, preds_backward(any))
     /\ phase = "cycle" => Cyclic(preds_forward(any)) \/ Cyclic(preds_backward(any))

StartsTooEarly == \E t \in Task : network[t].ES < 0

\* Groups that take over dates of their children come to rest, unless a task
\* starts before its project.
Settles == phase = "unstable" => StartsTooEarly
-----------------------------------------------------------------------------
(* What a schedule promises *)

\* A relationship is violated only by a successor whose dates are fixed or
\* constrained to be early, or a predecessor whose fixed dates and constraint
\* disagree.
Respected ==
  Scheduled =>
    \A r \in Relships : violation(r, network) =>
      \/ tasks[r.succ].fixed \/ type(r.succ) \in {"MSO", "MFO", "SNLT", "FNLT"}
      \/ tasks[r.pred].fixed /\ ~Plain(r.pred)

\* Dates lie between the earliest and the latest ones, floats between none and all.
Windows ==
  Scheduled =>
    \A t \in Task :
      LET row == network[t]
      IN /\ row.ES <= row.LS /\ row.EF <= row.LF
         /\ t \in Automatic => row.AA \in row.ES .. row.LS /\ row.ZZ \in row.EF .. row.LF
         /\ 0 <= row.FF /\ row.FF <= row.TF

\* A task can be moved by its free float without affecting its successors.
FloatSound ==
  LET later(t) == [network EXCEPT ![t].AA = @ + network[t].FF, ![t].ZZ = @ + network[t].FF]
  IN Scheduled =>
       \A r \in Relships : r.pred \in Leaf /\ ~violation(r, network)
                             => ~violation(r, later(r.pred))

\* Tasks start and end as their constraint asks, whatever they depend on.
ConstraintKept ==
  Scheduled =>
    \A t \in Automatic :
      LET date == tasks[t].constraint_date
          row == network[t]
      IN CASE type(t) = "MSO"  -> row.AA = date
           [] type(t) = "MFO"  -> row.ZZ = date
           [] type(t) = "SNET" -> row.AA >= date
           [] type(t) = "SNLT" -> row.AA <= date
           [] type(t) = "FNET" -> row.ZZ >= date
           [] type(t) = "FNLT" -> row.ZZ <= date
           [] OTHER -> TRUE

\* Scheduling keeps durations, if the project does not end with an early milestone.
DurationKept ==
  Scheduled /\ late(max_ef.live) =>
    \A t \in Automatic : get_duration(network[t].AA, network[t].ZZ) = network[t].DR

\* A task as soon as possible does not wait for nothing: a day earlier, it
\* would violate a relationship or start before its project.
Earliest ==
  LET earlier(t) == [network EXCEPT ![t].AA = @ - 2, ![t].ZZ = @ - 2]
      preds(t) == {r \in Relships : r.succ = t}
  IN Scheduled /\ (\A t \in Task : ~tasks[t].fixed /\ Plain(t)) =>
       \A t \in Live \cap Leaf :
         /\ type(t) = "ASAP" /\ tasks[t].parent = None
         /\ \A r \in preds(t) : ~discarded(r.pred) /\ ~tasks[r.pred].milestone /\ r.type # SF
         => IF preds(t) = {} THEN network[t].AA = 0 \/ StartsTooEarly
            ELSE \E r \in preds(t) : violation(r, earlier(t))

\* "scheduling is stable (a freshly-scheduled project doesn't change)", unless
\* tasks started before the project.
Stable == [][Scheduled /\ runs > 0 /\ moved >= 0 => project' = project]_vars
=============================================================================
