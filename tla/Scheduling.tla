----------------------------- MODULE Scheduling -----------------------------
(***************************************************************************)
(* Scheduling of a project: from the durations, relationships, constraints *)
(* and groups of its tasks, cs.pcs.scheduling calculates when they start   *)
(* and end.  It passes over the tasks forward (earliest dates), again as   *)
(* long as groups take over new dates of their children, then backward     *)
(* (latest dates), forward (scheduled dates) and backward (floats), and    *)
(* writes the dates back.  Any change of the project schedules it again.   *)
(*                                                                         *)
(* Every action is one pass.  A task starts and ends at a time of its      *)
(* project's calendar (Calendar.tla), whose time 0 is the project's start. *)
(***************************************************************************)
EXTENDS Relationships, Sequences, SequencesExt

CONSTANTS
  Projects,     \* the projects as they are loaded first
  maxsize,      \* later than any date
  max_retries,
  Runs          \* bound: how often a project is scheduled

ASSUME MaxSizeAssumption == maxsize \in Nat \ {0}
ASSUME RetriesAssumption == max_retries \in Nat /\ Runs \in Nat \ {0}

VARIABLES
  project,      \* what is stored: tasks, relships, rows (the order the tasks are
                \* read in), latest_finish (of one that is scheduled manually)
  orders,       \* the sorted tasks, for passes forward and backward
  network,      \* of a task: the row of its values
  phase,
  changed,      \* groups that took over something else in the last pass
  all_changes,  \* the rows of those that did in a pass before
  retries,
  min_es,       \* where tasks without predecessors start
  max_ef,       \* the latest finish, without and with discarded tasks
  runs,         \* how often the project has been scheduled
  moved         \* by how much the project's start moved then

vars == <<project, orders, network, phase, changed, all_changes, retries, min_es,
          max_ef, runs, moved>>

tasks == project.tasks
Task == DOMAIN tasks

Row == [DR : Int, ES : Int, EF : Int, LS : Int, LF : Int,
        AA : Int \cup {None}, ZZ : Int \cup {None}, FF : Int, TF : Int]
-----------------------------------------------------------------------------
(* Tasks and their tree *)

discarded(t) == tasks[t].discarded
adopts(t) == tasks[t].adopt_bottom_up_target
position_fix(t) == ~tasks[t].milestone /\ ~adopts(t)

all_children(p) == {t \in Task : tasks[t].parent = p}
children(p) == {t \in all_children(p) : ~discarded(t)}

\* The group that takes over the dates of t, if any, and those above it
adopter(t) ==
  LET p == tasks[t].parent
  IN IF p # None /\ adopts(p) /\ ~tasks[p].fixed THEN p ELSE None
adopters(t) ==
  LET above[s \in Task] == IF adopter(s) = None THEN <<>>
                           ELSE <<adopter(s)>> \o above[adopter(s)]
  IN above[t]

\* What a relationship of a group stands for: those below it, as far as all
\* groups on the way from the root adopt
descendants(g) ==
  LET top[t \in Task] == adopts(t) /\ (tasks[t].parent = None \/ top[tasks[t].parent])
      below[t \in Task] ==
        IF top[t] THEN all_children(t) \cup UNION {below[c] : c \in all_children(t)} ELSE {}
  IN below[g]

Relship(p, s, type, gap) ==
  [pred |-> p, succ |-> s, type |-> type, gap |-> gap]

\* Relationships a task has to respect; a child does not start before its parent
predecessors(t) ==
  {r \in ToSet(project.relships) : r.succ = t}
    \cup (IF tasks[t].parent = None THEN {} ELSE {Relship(tasks[t].parent, t, SS, 0)})

\* Those others have to respect, as they are read; a parent does not end before
\* its children
successors(t) ==
  SelectSeq(project.relships, LAMBDA r : r.pred = t)
    \o (IF tasks[t].parent = None THEN <<>> ELSE <<Relship(t, tasks[t].parent, FF, 0)>>)
-----------------------------------------------------------------------------
(* Sorting *)

\* Sets of tasks are iterated over in any order
readings ==
  {s \o SetToSeq({t \in Task : tasks[t].parent = None}) :
   s \in SetToSeqs({t \in Task : tasks[t].parent # None})}
listed(S, reading) == SelectSeq(reading, LAMBDA t : t \in S)

\* Predecessors of t, once for every relationship: those as stored, those of
\* descendants, and what children and parents imply in the pass
pred_uuids(t, implied, reading) ==
  LET under(g) == IF descendants(g) = {} THEN {g} ELSE descendants(g)
      stored == SelectSeq(project.relships, LAMBDA r : r.succ = t)
      flat == SelectSeq(project.relships, LAMBDA r :
                t \in under(r.succ) /\ (descendants(r.pred) # {} \/ descendants(r.succ) # {}))
  IN [i \in DOMAIN stored |-> stored[i].pred]
       \o FoldLeft(LAMBDA s, r : s \o listed(under(r.pred), reading), <<>>, flat)
       \o listed(implied, reading)

\* Mutant: the sorted tasks are in the opposite order
toposort_reverse(uuids, preds) ==
  LET count(t) == LET all == FoldLeft(LAMBDA s, u : s \o preds[u], <<>>, uuids)
                  IN Len(SelectSeq(all, LAMBDA u : u = t))
      independent == SelectSeq(uuids, LAMBDA t : count(t) = 0)
  IN independent \o SelectSeq(uuids, LAMBDA t : count(t) # 0)

\* Tasks nothing (unsorted) depends on are taken off the end of a stack and put
\* before what is sorted.  Those on a cycle are never sorted.
toposort(uuids, preds) ==
  LET count(t) == LET all == FoldLeft(LAMBDA s, u : s \o preds[u], <<>>, uuids)
                  IN Len(SelectSeq(all, LAMBDA u : u = t))
      visit(s, u) ==
        LET left == s.counts[u] - 1
        IN [s EXCEPT !.counts[u] = left,
                     !.independent = IF left = 0 THEN Append(@, u) ELSE @]
      step(s) ==
        IF s.independent = <<>> THEN s
        ELSE LET t == Last(s.independent)
             IN FoldLeft(visit, [s EXCEPT !.independent = Front(@), !.sorted = <<t>> \o @],
                         preds[t])
      counts == [t \in Task |-> count(t)]
      state[n \in 0 .. Len(uuids)] ==
        IF n = 0 THEN [counts |-> counts, sorted |-> <<>>,
                       independent |-> SelectSeq(uuids, LAMBDA t : counts[t] = 0)]
        ELSE step(state[n - 1])
  IN state[Len(uuids)].sorted

uuids_discarded_last ==
  SelectSeq(project.rows, LAMBDA t : ~discarded(t)) \o SelectSeq(project.rows, discarded)

preds_forward(reading) ==
  [t \in Task |-> pred_uuids(t, {tasks[t].parent} \ {None}, reading)]
preds_backward(reading) ==
  [t \in Task |-> pred_uuids(t, all_children(t), reading)]
-----------------------------------------------------------------------------
(* Values of a task *)

init_row(t, duration) ==
  LET task == tasks[t]
      dates == task.fixed
  IN [DR |-> duration,
      ES |-> IF dates THEN task.start ELSE -maxsize,
      EF |-> IF dates THEN task.end ELSE -maxsize,
      LS |-> IF dates THEN task.start ELSE maxsize,
      LF |-> IF dates THEN task.end ELSE maxsize,
      AA |-> IF dates THEN task.start ELSE None,
      ZZ |-> IF dates THEN task.end ELSE None,
      FF |-> 0, TF |-> 0]
\* Mutant: the day a task ends counts twice
days_fcast_inclusive(t) == get_duration(tasks[t].start, tasks[t].end) + 2

days_fcast(t) == get_duration(tasks[t].start, tasks[t].end)

\* Mutant: tasks that must end at a date start as if it was their start
handle_fixed_constraints_swapped(t, row) ==
  LET date == tasks[t].constraint_date
      type == tasks[t].constraint_type
      starts == add_duration(date, -row.DR, position_fix(t), TRUE)
  IN IF type = "MFO" THEN [row EXCEPT !.ES = starts, !.EF = date, !.LS = starts, !.LF = date]
     ELSE row

\* Constraints win over whatever else is known of the dates
handle_fixed_constraints(t, row) ==
  LET date == tasks[t].constraint_date
      type == tasks[t].constraint_type
      ends == add_duration(date, row.DR, position_fix(t), TRUE)
      starts == add_duration(date, -row.DR, position_fix(t), FALSE)
      early(es, ef) == [row EXCEPT !.ES = es, !.EF = ef, !.LS = Max({@, es}), !.LF = Max({@, ef})]
      latest(ls, lf) == [row EXCEPT !.LS = ls, !.LF = lf, !.ES = Min({@, ls}), !.EF = Min({@, lf})]
      must(s, f) == [row EXCEPT !.ES = s, !.EF = f, !.LS = s, !.LF = f]
  IN CASE type = "MSO" -> must(date, ends)
       [] type = "MFO" -> must(starts, date)
       [] type = "SNET" /\ date > row.ES -> early(date, ends)
       [] type = "SNLT" /\ date < row.LS -> latest(date, ends)
       [] type = "FNET" /\ date > row.EF -> early(starts, date)
       [] type = "FNLT" /\ date < row.LF -> latest(starts, date)
       [] OTHER -> row

-----------------------------------------------------------------------------
(* Groups take over the dates of their children *)

\* For every index, what the children amount to
aggregate_children(net, p) ==
  LET min(index, fallback) == Min({get_value(net[c], index, fallback) : c \in children(p)})
      max(index, fallback) == Max({get_value(net[c], index, fallback) : c \in children(p)})
  IN [DR |-> max("ZZ", "EF") - min("AA", "ES"), ES |-> min("AA", "ES"), EF |-> max("ZZ", "EF"),
      LS |-> min("AA", "LS"), LF |-> max("ZZ", "LF")]

\* Task t is done.  If it is the last child, its group takes over the values of
\* the indexes and is done, too, and so on.  Discarded groups are left alone.
adopt_bottom_up(s, t, indexes) ==
  LET adopt(u, p) ==
        LET values == aggregate_children(u.net, p)
            row == handle_fixed_constraints(p,
                     [i \in DOMAIN u.net[p] |-> IF i \in indexes THEN values[i] ELSE u.net[p][i]])
        IN [u EXCEPT !.net[p] = row, !.done = @ \cup {p}, !.last = p,
                     !.changed = IF row = u.net[p] THEN @ ELSE @ \cup {p}]
      climb(u, p) ==
        IF u.last # None /\ children(p) # {} /\ children(p) \subseteq u.done /\ ~discarded(p)
        THEN adopt(u, p)
        ELSE [u EXCEPT !.last = None]
  IN IF adopts(t) THEN s
     ELSE FoldLeft(climb, [s EXCEPT !.done = @ \cup {t}, !.last = t], adopters(t))
-----------------------------------------------------------------------------
(* Forward pass *)

\* What stands for the predecessor of a discarded task without any
dummy_point(es) == [type |-> FS, gap |-> 0, DR |-> 1, EF |-> es]

\* The starting points of chains of discarded tasks that lead to task t
chain_starts(t, net, starts, final) ==
  IF ~discarded(t) THEN {}
  ELSE IF predecessors(t) = {} THEN {dummy_point(net[t].ES)}
  ELSE UNION {IF discarded(r.pred) THEN starts[r.pred]
              ELSE {[type |-> r.type, gap |-> r.gap, DR |-> net[r.pred].DR,
                     EF |-> IF final THEN get_value(net[r.pred], "ZZ", "EF") ELSE net[r.pred].EF]} :
              r \in predecessors(t)}

\* Mutant: latest dates are not looked at in the end
apply_predecessors_later(t, net, starts, final) ==
  LET new == {relship_forward(net[r.pred], net[t], position_fix(t), r.type, r.gap, final) :
              r \in {p \in predecessors(t) : discarded(p.pred) => discarded(t)}}
  IN [net[t] EXCEPT !.ES = Max({@} \cup {n.ES : n \in new}), !.EF = Max({@} \cup {n.EF : n \in new})]

\* Earliest dates its predecessors allow for t.  Chains of discarded tasks count
\* as relationships with their starting points.
apply_predecessors(t, net, starts, final) ==
  LET fix == position_fix(t)
      direct(r) == {relship_forward(net[r.pred], net[t], fix, r.type, r.gap, final)}
      virtual(r) ==
        {relship_forward([ES |-> p.EF - p.DR, EF |-> p.EF, AA |-> None, ZZ |-> None], net[t],
                         fix, <<p.type[1], r.type[2]>>, p.gap, final) : p \in starts[r.pred]}
      new == UNION {IF discarded(r.pred) /\ ~discarded(t) THEN virtual(r) ELSE direct(r) :
                    r \in predecessors(t)}
      row == net[t]
  IN [row EXCEPT
        !.ES = Max({@} \cup {n.ES : n \in {m \in new : final => m.ES <= row.LS}}),
        !.EF = Max({@} \cup {n.EF : n \in {m \in new : final => m.EF <= row.LF}})]

forward_task(s, t) ==
  LET row == s.net[t]
      es == IF row.ES = -maxsize THEN min_es ELSE row.ES
      ef == IF row.EF = -maxsize THEN add_duration(es, row.DR, position_fix(t), TRUE) ELSE row.EF
      first == IF predecessors(t) = {} THEN [row EXCEPT !.ES = es, !.EF = ef]
               ELSE apply_predecessors(t, s.net, s.chain, FALSE)
      chain == [s.chain EXCEPT ![t] =
                  chain_starts(t, [s.net EXCEPT ![t] = first], s.chain, FALSE)]
  IN adopt_bottom_up([s EXCEPT !.net[t] = handle_fixed_constraints(t, first), !.chain = chain],
                     t, {"DR", "ES", "EF"})

before_pass == [net |-> network, chain |-> [t \in Task |-> {}],
                done |-> {}, last |-> None, changed |-> {}]

forward_pass == FoldLeft(forward_task, before_pass, orders.forward)
-----------------------------------------------------------------------------
(* Backward pass *)

\* The ending points of chains of discarded tasks that start with task t
chain_ends(t, net, ends) ==
  IF ~discarded(t) THEN {}
  ELSE UNION {IF discarded(r.succ) THEN ends[r.succ]
              ELSE {[type |-> r.type, DR |-> net[r.succ].DR, LS |-> net[r.succ].LS]} :
              r \in ToSet(successors(t))}

\* Latest dates its successors allow for t, one relationship after the other.  A
\* chain of discarded tasks without end allows the finish of the project.
apply_successors(t, net, ends) ==
  LET fix == position_fix(t)
      narrow(row, n) ==
        LET ls == Min({row.LS, n.LS})
            lf == Min({row.LF, n.LF})
        IN IF discarded(t) THEN [row EXCEPT !.LS = Max({ls, row.ES}), !.LF = Max({lf, row.EF})]
           ELSE [row EXCEPT !.LS = ls, !.LF = lf]
      virtual(row, r) ==
        LET new == {relship_backward(row, [LS |-> p.LS, LF |-> p.LS + p.DR], fix,
                                     <<r.type[1], p.type[2]>>, r.gap) : p \in ends[r.succ]}
        IN [row EXCEPT !.LS = Min({@} \cup {n.LS : n \in new}),
                       !.LF = Min({@} \cup {n.LF : n \in new})]
      apply(row, r) ==
        IF ~discarded(r.succ) \/ discarded(t)
        THEN narrow(row, relship_backward(row, net[r.succ], fix, r.type, r.gap))
        ELSE IF ends[r.succ] # {} THEN virtual(row, r)
        ELSE [row EXCEPT !.LS = max_ef.live - row.DR, !.LF = max_ef.live]
  IN FoldLeft(apply, net[t], successors(t))

backward_task(s, t) ==
  LET end == IF discarded(t) THEN max_ef.all ELSE max_ef.live
      net == [s.net EXCEPT ![t].LS = add_duration(end, -s.net[t].DR, position_fix(t), FALSE),
                           ![t].LF = end]
      row == apply_successors(t, net, s.chain)
  IN adopt_bottom_up(
       [s EXCEPT !.net[t] = handle_fixed_constraints(t, row),
                 !.chain[t] = chain_ends(t, net, s.chain)],
       t, {"LS", "LF"})

backward_pass == FoldRight(LAMBDA t, s : backward_task(s, t), orders.backward, before_pass)

get_max_ef ==
  LET finish(S) == Max({network[t].EF : t \in S} \cup {-maxsize}
                         \cup ({project.latest_finish} \ {None, 0}))
  IN [live |-> finish({t \in Task : ~discarded(t)}), all |-> finish(Task)]
-----------------------------------------------------------------------------
(* Scheduled dates *)

\* Mutant: latest dates stay earlier than the earliest ones
finalize_task_early(s, t) ==
  LET row == s.net[t]
      early == IF tasks[t].fixed \/ predecessors(t) = {} THEN row
               ELSE apply_predecessors(t, s.net, s.chain, TRUE)
      at(date, plan) == IF date # None THEN date ELSE plan
      is_late == tasks[t].constraint_type = "ALAP"
      dates == [early EXCEPT !.AA = at(@, IF is_late THEN early.LS ELSE early.ES),
                             !.ZZ = at(@, IF is_late THEN early.LF ELSE early.EF)]
  IN [s EXCEPT !.net[t] = IF tasks[t].is_group THEN early ELSE dates,
               !.chain[t] = chain_starts(t, s.net, s.chain, TRUE)]

finalize_task(s, t) ==
  LET old == s.net[t]
      ls == add_gap(old.ES, 0, position_fix(t), TRUE, TRUE)
      row == IF old.ES <= old.LS THEN old
             ELSE [old EXCEPT !.LS = ls, !.LF = add_duration(ls, old.DR, position_fix(t), TRUE)]
      net == [s.net EXCEPT ![t] = row]
      early == IF tasks[t].fixed \/ predecessors(t) = {} THEN row
               ELSE apply_predecessors(t, net, s.chain, TRUE)
      late_as_possible == tasks[t].constraint_type = "ALAP"
      dates == [early EXCEPT
                  !.AA = IF @ # None THEN @ ELSE IF late_as_possible THEN early.LS ELSE early.ES,
                  !.ZZ = IF @ # None THEN @ ELSE IF late_as_possible THEN early.LF ELSE early.EF]
  IN [s EXCEPT !.net[t] = IF tasks[t].is_group THEN early ELSE dates,
               !.chain[t] = chain_starts(t, net, s.chain, TRUE)]

\* Mutant: groups that do not adopt are forgotten
calculate_group_tasks_adopting(net) ==
  LET used(t) == IF ~adopts(t) THEN {} ELSE children(t)
      start[t \in Task] == IF used(t) = {} THEN net[t].AA ELSE Min({start[c] : c \in used(t)})
      end[t \in Task] == IF used(t) = {} THEN net[t].ZZ ELSE Max({end[c] : c \in used(t)})
  IN [t \in Task |-> [net[t] EXCEPT !.AA = start[t], !.ZZ = end[t]]]

\* Groups start and end with their children if they adopt them: the discarded
\* ones only if they are discarded themselves
calculate_group_tasks(net) ==
  LET used(t) == IF ~adopts(t) THEN {}
                 ELSE IF discarded(t) THEN all_children(t) ELSE children(t)
      start[t \in Task] == IF all_children(t) = {} THEN net[t].AA
                           ELSE IF used(t) = {} THEN net[t].ES ELSE Min({start[c] : c \in used(t)})
      end[t \in Task] == IF all_children(t) = {} THEN net[t].ZZ
                         ELSE IF used(t) = {} THEN net[t].EF ELSE Max({end[c] : c \in used(t)})
  IN [t \in Task |-> [net[t] EXCEPT !.AA = start[t], !.ZZ = end[t]]]

finalize == calculate_group_tasks(FoldLeft(finalize_task, before_pass, orders.forward).net)
-----------------------------------------------------------------------------
(* Floats *)

\* Gaps of relationships with successors are less for groups that got longer
adjusted_gap(r, net) ==
  IF adopts(r.pred) /\ r \in ToSet(project.relships)
  THEN r.gap - (get_duration(net[r.pred].AA, net[r.pred].ZZ) - days_fcast(r.pred))
  ELSE r.gap

calc_max_end(t, net, ends) ==
  LET fix == position_fix(t)
      of(r) ==
        LET gap == adjusted_gap(r, net)
            succ == net[r.succ]
        IN IF discarded(r.succ) /\ ~discarded(t)
           THEN {max_end(<<r.type[1], "S">>, gap, net[t], fix, p.AA, p.ZZ) : p \in ends[r.succ]}
           ELSE {max_end(r.type, gap, net[t], fix, succ.AA, succ.ZZ)}
  IN Min({max_ef.live} \cup UNION {of(r) : r \in ToSet(successors(t))})

\* Where chains of discarded tasks that start with task t end
chain_dates(t, net, ends) ==
  IF ~discarded(t) THEN {}
  ELSE IF successors(t) = <<>> THEN {[AA |-> net[t].AA, ZZ |-> net[t].ZZ]}
  ELSE UNION {IF discarded(r.succ) THEN ends[r.succ]
              ELSE {[AA |-> net[r.succ].AA, ZZ |-> net[r.succ].ZZ]} : r \in ToSet(successors(t))}

float_task(s, t) ==
  LET row == s.net[t]
      free == IF successors(t) = <<>> THEN row.LS - row.ES
              ELSE Max({0, get_duration(row.ZZ, calc_max_end(t, s.net, s.chain))})
      total == get_duration(row.ES, row.LS)
  IN [s EXCEPT !.net[t].FF = Min({free, total}), !.net[t].TF = total,
               !.chain[t] = chain_dates(t, s.net, s.chain)]

calculate_floats == FoldRight(LAMBDA t, s : float_task(s, t), orders.backward, before_pass).net
-----------------------------------------------------------------------------
(* Writing and reading *)

\* A relationship whose scheduled dates are too close
violation(r, net) ==
  ~discarded(r.pred) /\ ~discarded(r.succ) /\ relship_gap_from_network(r, net) < r.gap

\* The dates of a task as they are read again: regular tasks start early and end
\* late, milestones start and end at once
read(task, start, end) ==
  IF task.milestone THEN [task EXCEPT !.start = start, !.end = 2 * network2index(end) + (start % 2)]
  ELSE IF task.adopt_bottom_up_target THEN [task EXCEPT !.start = start, !.end = end]
  ELSE [task EXCEPT !.start = 2 * network2index(start), !.end = 2 * network2index(end) + 1]

\* The day all dates are relative to, if the project started at time start
rebased(task, start) ==
  LET by == 2 * network2index(start)
  IN [task EXCEPT !.start = @ - by, !.end = @ - by,
                  !.constraint_date = IF @ = None THEN None ELSE @ - by]

persisted(t) ==
  IF tasks[t].fixed THEN tasks[t] ELSE read(tasks[t], network[t].AA, network[t].ZZ)
-----------------------------------------------------------------------------
Init ==
  /\ project \in Projects
  /\ orders = [forward |-> <<>>, backward |-> <<>>]
  /\ network = [t \in {} |-> {}]
  /\ phase = "load"
  /\ changed = {} /\ all_changes = [t \in {} |-> {}]
  /\ retries = 0 /\ min_es = 0
  /\ max_ef = [live |-> 0, all |-> 0]
  /\ runs = 0 /\ moved = 0

\* A network without dates, but with the durations of groups known so far
init_network(known) ==
  [t \in Task |-> init_row(t, IF t \in DOMAIN known THEN known[t].DR ELSE days_fcast(t))]

Load ==
  /\ phase = "load" /\ runs < Runs
  /\ \E reading \in readings :
     LET forward == toposort(uuids_discarded_last, preds_forward(reading))
         backward == toposort(uuids_discarded_last, preds_backward(reading))
         sorted == Len(forward) = Len(project.rows) /\ Len(backward) = Len(project.rows)
     IN /\ orders' = [forward |-> forward, backward |-> backward]
        /\ phase' = IF sorted THEN "forward" ELSE "cycle"
  /\ network' = init_network(<<>>)
  /\ all_changes' = [t \in {} |-> {}]
  /\ retries' = 0 /\ min_es' = 0
  /\ UNCHANGED <<project, changed, max_ef, runs, moved>>

ForwardPass ==
  /\ phase = "forward"
  /\ LET s == forward_pass IN
     /\ network' = s.net
     /\ changed' = s.changed
     /\ min_es' = IF s.changed = {} THEN 0 ELSE Min({s.net[t].ES : t \in Task})
  /\ phase' = "settle"
  /\ UNCHANGED <<project, orders, all_changes, retries, max_ef, runs, moved>>

\* Mutant: what was seen before counts as new
new_changes_any == changed # {}

new_changes ==
  \E t \in changed : t \in DOMAIN all_changes => all_changes[t] # network[t]

\* Groups took over something new: what depends on them may change
Repeat ==
  /\ phase = "settle" /\ new_changes /\ retries < max_retries
  /\ all_changes' = [t \in DOMAIN all_changes \cup changed |->
                       IF t \in changed THEN network[t] ELSE all_changes[t]]
  /\ network' = init_network(all_changes')
  /\ retries' = retries + 1
  /\ phase' = "forward"
  /\ UNCHANGED <<project, orders, changed, min_es, max_ef, runs, moved>>

\* "unstable scheduling"
GiveUp ==
  /\ phase = "settle" /\ new_changes /\ retries = max_retries
  /\ phase' = "unstable"
  /\ UNCHANGED <<project, orders, network, changed, all_changes, retries, min_es, max_ef,
                 runs, moved>>

Settle ==
  /\ phase = "settle" /\ ~new_changes
  /\ max_ef' = get_max_ef
  /\ phase' = "backward"
  /\ UNCHANGED <<project, orders, network, changed, all_changes, retries, min_es, runs, moved>>

BackwardPass ==
  /\ phase = "backward"
  /\ network' = backward_pass.net
  /\ phase' = "finalize"
  /\ UNCHANGED <<project, orders, changed, all_changes, retries, min_es, max_ef, runs, moved>>

Finalize ==
  /\ phase = "finalize"
  /\ network' = finalize
  /\ phase' = "floats"
  /\ UNCHANGED <<project, orders, changed, all_changes, retries, min_es, max_ef, runs, moved>>

CalculateFloats ==
  /\ phase = "floats"
  /\ network' = calculate_floats
  /\ phase' = "persist"
  /\ UNCHANGED <<project, orders, changed, all_changes, retries, min_es, max_ef, runs, moved>>

\* Dates that changed are written.  A project that is scheduled automatically
\* starts with the first of its tasks then.
PersistChanges ==
  /\ phase = "persist"
  /\ LET starts == {network[t].AA : t \in {u \in Task : ~discarded(u)}}
         start == IF project.latest_finish # None \/ starts = {} THEN 0 ELSE Min(starts)
     IN /\ project' = [project EXCEPT !.tasks = [t \in Task |-> rebased(persisted(t), start)]]
        /\ moved' = 2 * network2index(start)
  /\ runs' = runs + 1
  /\ phase' = "load"
  /\ UNCHANGED <<orders, network, changed, all_changes, retries, min_es, max_ef>>

Next ==
  \/ Load \/ ForwardPass \/ Repeat \/ GiveUp \/ Settle
  \/ BackwardPass \/ Finalize \/ CalculateFloats \/ PersistChanges

Spec == Init /\ [][Next]_vars
=============================================================================
