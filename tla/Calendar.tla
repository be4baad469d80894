------------------------------ MODULE Calendar ------------------------------
(***************************************************************************)
(* Arithmetic on the times of the scheduling network.  Workday i of the    *)
(* calendar of a project starts at time 2i and ends at time 2i + 1: even   *)
(* times are "early", odd ones "late".                                     *)
(***************************************************************************)
EXTENDS Integers

late(v) == v % 2 = 1
network2index(v) == v \div 2

get_duration(start, end) == end - start

\* Workdays from start to end; a late start and an early end make it a day less
get_duration_in_days(start, end) ==
  1 + network2index(end) - network2index(start) - (start % 2) - (1 - (end % 2))

\* The end (is_start) of a task that starts at a, or the start of one that ends
\* at a, duration later.  Fixed positions start early and end late; the others
\* keep their duration in workdays.
add_duration(a, duration, position_fix, is_start) ==
  LET b == a + duration
      towards == IF is_start THEN b + 1 ELSE b - 1
  IN IF position_fix THEN (IF late(b) # is_start THEN towards ELSE b)
     ELSE IF late(duration) /\ late(a) = is_start THEN towards ELSE b

\* The start (get_start) or end of a task at a distance of gap workdays from a
add_gap(a, gap, position_fix, get_start, is_forward) ==
  LET b == a + 2 * gap
  IN IF position_fix
     THEN IF late(b) # get_start THEN b
          ELSE IF get_start THEN (IF ~is_forward /\ gap = 0 THEN b - 1 ELSE b + 1)
          ELSE (IF is_forward /\ gap = 0 THEN b + 1 ELSE b - 1)
     ELSE IF gap > 0 /\ ~late(a) THEN b - 1
     ELSE IF gap < 0 /\ late(a) THEN b + 1
     ELSE b
=============================================================================
