---------------------------- MODULE MCScheduling ----------------------------
(***************************************************************************)
(* Projects to check the scheduling on.                                    *)
(***************************************************************************)
EXTENDS SchedulingProps, TLC

Leaves(S) == {[parent |-> None, adopt_bottom_up_target |-> FALSE, is_group |-> FALSE,
               milestone |-> FALSE, discarded |-> FALSE, fixed |-> FALSE,
               constraint_type |-> "ASAP", constraint_date |-> None,
               start |-> 0, end |-> d] : d \in S}
task(d) == CHOOSE t \in Leaves({d}) : TRUE
alap(t) == [t EXCEPT !.constraint_type = "ALAP"]
gone(t) == [t EXCEPT !.discarded = TRUE]
below(t, p) == [t EXCEPT !.parent = p]
group(d) == [task(d) EXCEPT !.adopt_bottom_up_target = TRUE, !.is_group = TRUE]
bound(t, c, date) == [t EXCEPT !.constraint_type = c, !.constraint_date = date]
fix(t, start) == [t EXCEPT !.fixed = TRUE, !.start = @ + start, !.end = @ + start]
point == [task(0) EXCEPT !.milestone = TRUE]

Project(ts, rs, rows) == [tasks |-> ts, relships |-> rs, rows |-> rows, latest_finish |-> None]
rel(p, s, types, gaps) == {Relship(p, s, type_, gap) : type_ \in types, gap \in gaps}
All == {FS, SS, FF, SF}
Gaps == {-1, 0, 1}

\* Three tasks one after the other, before two others or after two others
Shapes == {<<<<"a", "b">>, <<"b", "c">>>>, <<<<"a", "b">>, <<"a", "c">>>>,
           <<<<"a", "c">>, <<"b", "c">>>>}
Pairs == UNION {{<<r, s>> : r \in rel(x[1][1], x[1][2], All, Gaps),
                            s \in rel(x[2][1], x[2][2], All, Gaps)} : x \in Shapes}
abc(a, b, c) == "a" :> a @@ "b" :> b @@ "c" :> c
Linked ==
  {Project(ts, rs, <<"c", "a", "b">>) :
     rs \in Pairs,
     ts \in {abc(task(1), task(3), task(1)), abc(alap(task(3)), task(1), alap(task(3)))}}
Discarded ==
  {Project(ts, rs, <<"b", "c", "a">>) :
     rs \in Pairs,
     ts \in {abc(task(1), gone(task(3)), task(3)), abc(gone(task(1)), task(1), task(3))}}
Milestones ==
  {Project(ts, rs, <<"a", "c", "b">>) :
     rs \in Pairs,
     ts \in {abc(task(1), point, task(3)), abc(task(3), task(1), point)}}

\* Dates that are asked for and relationships that ask for others
Dates == [MSO |-> {2, 4}, MFO |-> {3, 5}, SNET |-> {2, 6}, SNLT |-> {0, 4}, FNET |-> {3, 7},
          FNLT |-> {1, 5}]
Chains == {<<r, s>> : r \in rel("a", "b", All, Gaps), s \in rel("b", "c", All, {0})}
Constrained ==
  {Project(abc(a, bound(task(1), c, date), task(3)), rs, <<"a", "b", "c">>) :
     <<c, date>> \in UNION {{c} \X Dates[c] : c \in DOMAIN Dates}, rs \in Chains,
     a \in {task(1), fix(task(3), 2)}}
Fixed ==
  {Project(abc(a, b, task(1)), rs, <<"a", "b", "c">>) :
     rs \in Pairs, a \in {fix(task(1), 0), fix(task(3), 4)}, b \in {task(1), fix(task(1), 2)}}
Manual == {[p EXCEPT !.latest_finish = finish] : p \in Linked, finish \in {1, 9}}

\* Groups that take over dates, and tasks outside of them
Grouped(g, more) ==
  "g" :> g @@ "a" :> below(task(1), "g") @@ more
GroupPairs ==
  UNION {{<<r, s>> : r \in rel(x[1][1], x[1][2], x[1][3], Gaps),
                     s \in rel(x[2][1], x[2][2], x[2][3], Gaps)} :
         x \in {<<<<"c", "g", {FS, SS}>>, <<"a", "b", All>>>>,
                <<<<"c", "a", All>>, <<"g", "d", All>>>>,
                <<<<"c", "a", All>>, <<"c", "b", All>>>>,
                <<<<"a", "c", All>>, <<"c", "b", All>>>>,
                <<<<"c", "g", {FS, SS}>>, <<"b", "d", All>>>>}}
Groups ==
  {Project(Grouped(g, "b" :> below(task(3), "g") @@ "c" :> c @@ "d" :> task(1)),
           rs, <<"g", "d", "c", "b", "a">>) :
     rs \in GroupPairs, g \in {group(1), group(5)}, c \in {task(3)}}
Nested ==
  {Project("h" :> group(1) @@ Grouped(below(group(3), "h"),
             "b" :> below(b, "h") @@ "c" :> task(3) @@ "d" :> task(1)),
           rs, <<"g", "d", "c", "h", "b", "a">>) :
     rs \in GroupPairs, b \in {task(3), gone(task(3))}}
\* Relationships a task and its group cannot respect at once
Crossed ==
  {Project(Grouped(group(1), "c" :> task(1)), <<Relship("a", "c", SF, gap), Relship("c", "g", SS, 0)>>,
           <<"g", "c", "a">>) : gap \in Gaps}
\* A group that does not take over dates
Planned ==
  {Project(Grouped([group(5) EXCEPT !.adopt_bottom_up_target = FALSE], "c" :> task(1)), <<r>>,
           <<"c", "a", "g">>) : r \in rel("c", "a", All, Gaps) \cup rel("c", "g", {FS, SS}, Gaps)}
\* As late as possible before b, with a discarded task at the end of a chain
Tails ==
  {Project(abc(alap(task(1)), task(d), gone(task(1))), rs, <<"a", "b", "c">>) :
     d \in {1, 3},
     rs \in {<<r, s>> : r \in rel("a", "b", All, Gaps), s \in rel("a", "c", All, Gaps)}}
Plans == Linked \cup Discarded \cup Milestones \cup Constrained \cup Fixed \cup Manual
           \cup Groups \cup Nested \cup Crossed \cup Planned
=============================================================================
