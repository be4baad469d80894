--------------------------- MODULE Relationships ---------------------------
(***************************************************************************)
(* What a relationship between two tasks of a project asks of their dates. *)
(* A task has a row of values: earliest, latest and scheduled start and    *)
(* finish (ES EF, LS LF, AA ZZ) and its duration DR.                       *)
(***************************************************************************)
EXTENDS Calendar

CONSTANT None

ASSUME NoneAssumption == None \notin Int

\* Types of relationships: which end of the predecessor, which of the successor
FS == <<"F", "S">>
SS == <<"S", "S">>
FF == <<"F", "F">>
SF == <<"S", "F">>

get_value(row, index, fallback) == IF row[index] = None THEN row[fallback] ELSE row[index]
-----------------------------------------------------------------------------
(* Dates that a relationship allows *)

\* Mutant: scheduled dates of the predecessor are not looked at
relship_forward_planned(pred, row, fix, type, gap, final) ==
  LET starts == type[2] = "S"
      one == add_gap(IF type[1] = "F" THEN pred.EF ELSE pred.ES, gap, fix, starts, TRUE)
      other == add_duration(one, IF starts THEN row.DR ELSE -row.DR, fix, starts)
  IN IF starts THEN [ES |-> one, EF |-> other] ELSE [ES |-> other, EF |-> one]

\* Mutant: a day too many is left between the tasks
relship_forward_apart(pred, row, fix, type, gap, final) ==
  LET ends == IF final THEN get_value(pred, "ZZ", "EF") ELSE pred.EF
      begins == IF final THEN get_value(pred, "AA", "ES") ELSE pred.ES
      starts == type[2] = "S"
      one == add_gap(IF type[1] = "F" THEN ends ELSE begins, gap + 1, fix, starts, TRUE)
      other == add_duration(one, IF starts THEN row.DR ELSE -row.DR, fix, starts)
  IN IF starts THEN [ES |-> one, EF |-> other] ELSE [ES |-> other, EF |-> one]

\* Earliest dates that a relationship with a predecessor allows
relship_forward(pred, row, fix, type, gap, final) ==
  LET from == CASE type[1] = "F" -> IF final THEN get_value(pred, "ZZ", "EF") ELSE pred.EF
                [] type[1] = "S" -> IF final THEN get_value(pred, "AA", "ES") ELSE pred.ES
      starts == type[2] = "S"
      one == add_gap(from, gap, fix, starts, TRUE)
      other == add_duration(one, IF starts THEN row.DR ELSE -row.DR, fix, starts)
  IN IF starts THEN [ES |-> one, EF |-> other] ELSE [ES |-> other, EF |-> one]

\* Latest dates that a relationship with a successor allows
relship_backward(row, succ, fix, type, gap) ==
  LET from == IF type[2] = "S" THEN succ.LS ELSE succ.LF
      starts == type[1] = "S"
      one == add_gap(from, -gap, fix, starts, FALSE)
      other == add_duration(one, IF starts THEN row.DR ELSE -row.DR, fix, starts)
  IN IF starts THEN [LS |-> one, LF |-> other] ELSE [LS |-> other, LF |-> one]
-----------------------------------------------------------------------------
(* What is left between two dates *)

\* Mutant: the gap is forgotten
max_end_close(type, gap, row, fix, aa, zz) ==
  CASE type = FS -> add_gap(aa, 0, fix, FALSE, FALSE)
    [] type = SS -> add_duration(add_gap(aa, 0, fix, TRUE, FALSE), row.DR, fix, TRUE)
    [] type = FF -> add_gap(zz, 0, fix, TRUE, FALSE)
    [] type = SF -> add_duration(add_gap(zz, 0, fix, FALSE, FALSE), row.DR, fix, TRUE)

\* When a predecessor may end, given the dates of its successor
max_end(type, gap, row, fix, aa, zz) ==
  CASE type = FS -> add_gap(aa, -gap, fix, FALSE, FALSE)
    [] type = SS -> add_duration(add_gap(aa, -gap, fix, TRUE, FALSE), row.DR, fix, TRUE)
    [] type = FF -> add_gap(zz, -gap, fix, TRUE, FALSE)
    [] type = SF -> add_duration(add_gap(zz, -gap, fix, FALSE, FALSE), row.DR, fix, TRUE)

\* Workdays between the scheduled dates of a relationship
relship_gap_from_network(r, net) ==
  get_duration_in_days(IF r.type[1] = "F" THEN net[r.pred].ZZ ELSE net[r.pred].AA,
                       IF r.type[2] = "F" THEN net[r.succ].ZZ ELSE net[r.succ].AA)
=============================================================================
