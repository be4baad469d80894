---------------------------- MODULE Order_proofs ----------------------------
(***************************************************************************)
(* The workflow engine implements Schedule: for every schema, any number   *)
(* of sessions, workers and conversion servers, every interleaving of      *)
(* their operations, crashes and failing transactions included, a          *)
(* component of a process or of a sequential group starts only when all    *)
(* before it have ended.                                                   *)
(*                                                                         *)
(* The argument follows the stacks of pending calls.  A component is       *)
(* started by a call that was made when everything before it, and before   *)
(* every group around it, had ended; what has ended stays ended, so the    *)
(* call may wait for any time.  The call of the next component is made     *)
(* after propagate_done of the component before it, which is called after  *)
(* that component has ended, or after it was skipped: the two ways to be   *)
(* told are the two that the invariant Stack describes.                    *)
(***************************************************************************)
EXTENDS Workflow_proofs, FiniteSetTheorems

(* The schema *)

\* Components that have ended
Done == {c \in Comp : status[c] \in Terminal}

\* Everything before c is in D, the set of what has ended; the same for c and
\* all groups around it
Ready(c, D) == \A b \in Comp : Ordered!Precedes(b, c) => b \in D

AllReady(c, D) ==
  \E S \in SUBSET Comp :
    c \in S /\ \A d \in S : Ready(d, D) /\ (Parent[d] \in Comp => Parent[d] \in S)

\* c has ended in its turn: the component after it may start
Passed(c, D) == c \in D /\ AllReady(c, D)

\* The last component of a sequential group that is a group itself has nothing
\* after it.  Without that Next of a group without components leads out of the
\* group around it (taskgroups.py), and activate_first would go on with a
\* component elsewhere.
TasksLast ==
  \A c \in Comp \ Task :
    Parent[c] \in Comp /\ Kind[Parent[c]] = "sequential"
      => NextSibling(c) # None \/ NextComp(c) = None

LEMMA AllReadyUp ==
  ASSUME NEW D, NEW c, AllReady(c, D)
  PROVE  c \in Comp /\ Ready(c, D) /\ (Parent[c] \in Comp => AllReady(Parent[c], D))
BY DEF AllReady

LEMMA AllReadyDown ==
  ASSUME NEW D, NEW c \in Comp, Ready(c, D), Parent[c] \in Comp => AllReady(Parent[c], D)
  PROVE  AllReady(c, D)
<1>1. CASE Parent[c] \in Comp
  <2>1. PICK S \in SUBSET Comp :
          /\ Parent[c] \in S
          /\ \A d \in S : Ready(d, D) /\ (Parent[d] \in Comp => Parent[d] \in S)
    BY <1>1 DEF AllReady
  <2>2. \A d \in S \cup {c} :
          Ready(d, D) /\ (Parent[d] \in Comp => Parent[d] \in S \cup {c})
    BY <2>1
  <2>. QED
    BY <2>2 DEF AllReady
<1>2. CASE Parent[c] \notin Comp
  <2>1. \A d \in {c} : Ready(d, D) /\ (Parent[d] \in Comp => Parent[d] \in {c})
    BY <1>2
  <2>2. {c} \in SUBSET Comp /\ c \in {c}
    OBVIOUS
  <2>. QED
    BY <2>1, <2>2, Zenon DEF AllReady
<1>. QED
  BY <1>1, <1>2

LEMMA ReadyGrows ==
  ASSUME NEW D, NEW E, D \subseteq E, NEW c
  PROVE  (Ready(c, D) => Ready(c, E)) /\ (AllReady(c, D) => AllReady(c, E))
         /\ (Passed(c, D) => Passed(c, E))
<1>1. \A d : Ready(d, D) => Ready(d, E)
  BY DEF Ready
<1>2. AllReady(c, D) => AllReady(c, E)
  BY <1>1, Zenon DEF AllReady
<1>. QED
  BY <1>1, <1>2 DEF Passed

\* The completion group waits for nobody in the schema; the process sees to it.
LEMMA CompletionReady == ASSUME NEW D PROVE AllReady(Completion, D)
<1>1. Ready(Completion, D)
  BY DEF Ready, Ordered!Precedes
<1>2. Completion \in Comp /\ Parent[Completion] \notin Comp
  BY TreeAssumption
<1>. QED
  BY <1>1, <1>2, AllReadyDown

LEMMA LeastLeast ==
  ASSUME NEW S \in SUBSET Comp, S # {}
  PROVE  Least(S) \in S /\ \A d \in S : Position[Least(S)] <= Position[d]
<1>. DEFINE T == {Position[c] : c \in S}
<1>1. T \in SUBSET Nat /\ T # {}
  BY TreeAssumption
<1>. HIDE DEF T
<1>2. PICK x \in T : \A y \in T : x <= y
  BY <1>1, LeastNumber
<1>3. \E c \in S : \A d \in S : Position[c] <= Position[d]
  BY <1>2 DEF T
<1>. QED
  BY <1>3 DEF Least

\* The first component of a group is ready as soon as the group is; those of a
\* parallel group and of the completion group all are.
LEMMA FirstReady ==
  ASSUME NEW D, NEW p \in Comp \cup {Root}, p \in Comp => AllReady(p, D), First(p) \in Comp
  PROVE  First(p) \in Components(p) /\ AllReady(First(p), D)
<1>1. Components(p) # {} /\ First(p) = Least(Components(p))
  BY TreeAssumption DEF First
<1>2. Components(p) \in SUBSET Comp
  BY DEF Components
<1>3. First(p) \in Components(p) /\ \A d \in Components(p) : Position[First(p)] <= Position[d]
  BY <1>1, <1>2, LeastLeast
<1>4. ASSUME NEW b \in Comp, Ordered!Precedes(b, First(p)) PROVE FALSE
  <2>1. b \in Components(p) /\ Position[b] < Position[First(p)]
    BY <1>3, <1>4 DEF Ordered!Precedes, Components
  <2>2. Position[b] \in Nat /\ Position[First(p)] \in Nat /\ Position[First(p)] <= Position[b]
    BY <1>3, <1>4, <2>1, TreeAssumption
  <2>. QED
    BY <2>1, <2>2
<1>5. Ready(First(p), D)
  BY <1>4 DEF Ready
<1>6. Parent[First(p)] = p
  BY <1>3 DEF Components
<1>. QED
  BY <1>3, <1>5, <1>6, AllReadyDown

LEMMA PartsReady ==
  ASSUME NEW D, NEW g \in Comp, Kind[g] \in {"parallel", "completion"}, AllReady(g, D),
         NEW c \in Components(g)
  PROVE  c \in Comp /\ AllReady(c, D)
<1>1. c \in Comp /\ Parent[c] = g /\ g # Root
  BY TreeAssumption DEF Components
<1>2. Ready(c, D)
  BY <1>1 DEF Ready, Ordered!Precedes
<1>. QED
  BY <1>1, <1>2, AllReadyDown

\* When a component has ended in its turn the next one is ready.
LEMMA NextReady ==
  ASSUME NEW D, NEW c, Passed(c, D), NextSibling(c) \in Comp
  PROVE  NextSibling(c) \in Components(Parent[c]) /\ AllReady(NextSibling(c), D)
<1>. DEFINE n == NextSibling(c)
            later == {d \in Components(Parent[c]) : Position[d] > Position[c]}
<1>1. c \in Comp /\ c \in D /\ Ready(c, D) /\ (Parent[c] \in Comp => AllReady(Parent[c], D))
  BY AllReadyUp DEF Passed
<1>2. IsSequential(Parent[c]) /\ c # Completion /\ later # {} /\ n = Least(later)
  BY TreeAssumption DEF NextSibling
<1>3. later \in SUBSET Comp
  BY DEF Components
<1>4. n \in later /\ \A d \in later : Position[n] <= Position[d]
  BY <1>2, <1>3, LeastLeast
<1>5. /\ n \in Components(Parent[c]) /\ n \in Comp /\ Parent[n] = Parent[c]
      /\ Position[c] \in Nat /\ Position[n] \in Nat
  BY <1>1, <1>3, <1>4, TreeAssumption DEF Components
<1>. HIDE DEF n
<1>6. ASSUME NEW b \in Comp, Ordered!Precedes(b, n) PROVE b \in D
  <2>1. b # Completion /\ Parent[b] = Parent[c] /\ Position[b] < Position[n] /\ Position[b] \in Nat
    BY <1>5, <1>6, TreeAssumption DEF Ordered!Precedes
  <2>2. b \in Components(Parent[c])
    BY <2>1 DEF Components
  <2>3. Position[b] <= Position[c]
    BY <1>4, <1>5, <2>1, <2>2
  <2>4. CASE Position[b] = Position[c]
    BY <1>1, <1>2, <2>1, <2>4, TreeAssumption
  <2>5. CASE Position[b] < Position[c]
    <3>1. Ordered!Precedes(b, c)
      BY <1>2, <2>1, <2>5 DEF Ordered!Precedes, IsSequential
    <3>. QED
      BY <1>1, <3>1 DEF Ready
  <2>. QED
    BY <1>5, <2>1, <2>3, <2>4, <2>5
<1>7. Ready(n, D)
  BY <1>6 DEF Ready
<1>8. AllReady(n, D)
  BY <1>1, <1>5, <1>7, AllReadyDown
<1>. QED
  BY <1>5, <1>8 DEF n
-----------------------------------------------------------------------------
(* The attribute Next of a top level component is its next sibling.  NextTask *)
(* is a recursive function over a schema that nobody promises to be a tree;   *)
(* its equation holds all the same: the rules below have a least solution.    *)

Nexts == Comp \X (Comp \cup {None})

\* R holds what the rules of NextTask yield
Closed_under(R) ==
  \A c \in Comp :
    /\ NextSibling(c) # None => <<c, NextSibling(c)>> \in R
    /\ NextSibling(c) = None /\ Parent[c] \notin Comp => <<c, None>> \in R
    /\ NextSibling(c) = None /\ Parent[c] \in Comp =>
         \A v \in Comp \cup {None} : <<Parent[c], v>> \in R => <<c, v>> \in R

NextOf(c) == {v \in Comp \cup {None} : \A R \in SUBSET Nexts : Closed_under(R) => <<c, v>> \in R}

LEMMA SiblingIn == ASSUME NEW c \in Comp PROVE NextSibling(c) \in Comp \cup {None}
<1>. DEFINE later == {d \in Components(Parent[c]) : Position[d] > Position[c]}
<1>1. later \in SUBSET Comp
  BY DEF Components
<1>2. later # {} => Least(later) \in Comp
  BY <1>1, LeastIn
<1>. QED
  BY <1>2 DEF NextSibling

LEMMA NextOfSibling ==
  ASSUME NEW c \in Comp, NextSibling(c) # None
  PROVE  NextOf(c) = {NextSibling(c)}
<1>. DEFINE n == NextSibling(c)
            R == {p \in Nexts : p[1] = c => p[2] = n}
<1>1. n \in Comp \cup {None}
  BY SiblingIn
<1>2. \A S \in SUBSET Nexts : Closed_under(S) => <<c, n>> \in S
  BY DEF Closed_under
<1>3. \A d \in Comp, v \in Comp \cup {None} : <<d, v>> \in R <=> (d = c => v = n)
  BY DEF Nexts
<1>4. R \in SUBSET Nexts
  OBVIOUS
<1>. HIDE DEF R
<1>5. Closed_under(R)
  BY <1>3, SiblingIn, TreeAssumption DEF Closed_under
<1>6. \A v \in NextOf(c) : v = n
  BY <1>3, <1>4, <1>5 DEF NextOf
<1>7. n \in NextOf(c)
  BY <1>1, <1>2 DEF NextOf
<1>. QED
  BY <1>6, <1>7

LEMMA NextOfLast ==
  ASSUME NEW c \in Comp, NextSibling(c) = None, Parent[c] \notin Comp
  PROVE  NextOf(c) = {None}
<1>. DEFINE R == {p \in Nexts : p[1] = c => p[2] = None}
<1>2. \A S \in SUBSET Nexts : Closed_under(S) => <<c, None>> \in S
  BY DEF Closed_under
<1>3. \A d \in Comp, v \in Comp \cup {None} : <<d, v>> \in R <=> (d = c => v = None)
  BY DEF Nexts
<1>4. R \in SUBSET Nexts
  OBVIOUS
<1>. HIDE DEF R
<1>5. Closed_under(R)
  BY <1>3, SiblingIn, TreeAssumption DEF Closed_under
<1>6. \A v \in NextOf(c) : v = None
  BY <1>3, <1>4, <1>5 DEF NextOf
<1>7. None \in NextOf(c)
  BY <1>2 DEF NextOf
<1>. QED
  BY <1>6, <1>7

LEMMA NextOfGroup ==
  ASSUME NEW c \in Comp, NextSibling(c) = None, Parent[c] \in Comp
  PROVE  NextOf(c) = NextOf(Parent[c])
<1>1. \A v \in NextOf(Parent[c]) : v \in NextOf(c)
  BY DEF NextOf, Closed_under
<1>2. ASSUME NEW v \in NextOf(c), NEW R \in SUBSET Nexts, Closed_under(R),
             <<Parent[c], v>> \notin R
      PROVE  FALSE
  <2>. DEFINE S == R \ {<<c, v>>}
  <2>1. <<c, v>> \in R /\ v \in Comp \cup {None} /\ Parent[c] # c
    BY <1>2 DEF NextOf
  <2>2. \A d \in Comp, w \in Comp \cup {None} :
          <<d, w>> \in S <=> <<d, w>> \in R /\ (d # c \/ w # v)
    OBVIOUS
  <2>3. S \in SUBSET Nexts /\ <<c, v>> \notin S
    OBVIOUS
  <2>. HIDE DEF S
  <2>4. ASSUME NEW d \in Comp
        PROVE  /\ NextSibling(d) # None => <<d, NextSibling(d)>> \in S
               /\ NextSibling(d) = None /\ Parent[d] \notin Comp => <<d, None>> \in S
               /\ NextSibling(d) = None /\ Parent[d] \in Comp =>
                    \A w \in Comp \cup {None} : <<Parent[d], w>> \in S => <<d, w>> \in S
    <3>1. CASE d = c
      BY <1>2, <2>1, <2>2, <3>1, TreeAssumption DEF Closed_under
    <3>2. CASE d # c
      BY <1>2, <2>2, <3>2, SiblingIn, TreeAssumption DEF Closed_under
    <3>. QED
      BY <3>1, <3>2
  <2>5. Closed_under(S)
    BY <2>4 DEF Closed_under
  <2>. QED
    BY <2>3, <2>5 DEF NextOf
<1>3. \A v \in NextOf(c) : v \in NextOf(Parent[c])
  BY <1>2 DEF NextOf
<1>. QED
  BY <1>1, <1>3

LEMMA NextTaskEquation ==
  ASSUME NEW c \in Comp
  PROVE  NextTask[c] = IF NextSibling(c) # None THEN NextSibling(c)
                       ELSE IF Parent[c] \in Comp THEN NextTask[Parent[c]] ELSE None
<1>. DEFINE Equation(f) ==
              f = [d \in Comp |-> IF NextSibling(d) # None THEN NextSibling(d)
                                  ELSE IF Parent[d] \in Comp THEN f[Parent[d]] ELSE None]
            F == [d \in Comp |-> CHOOSE v : v \in NextOf(d)]
<1>1. \A d \in Comp : F[d] = IF NextSibling(d) # None THEN NextSibling(d)
                             ELSE IF Parent[d] \in Comp THEN F[Parent[d]] ELSE None
  <2>1. ASSUME NEW d \in Comp, NextSibling(d) # None PROVE F[d] = NextSibling(d)
    BY <2>1, NextOfSibling
  <2>2. ASSUME NEW d \in Comp, NextSibling(d) = None, Parent[d] \notin Comp PROVE F[d] = None
    BY <2>2, NextOfLast
  <2>3. ASSUME NEW d \in Comp, NextSibling(d) = None, Parent[d] \in Comp
        PROVE  F[d] = F[Parent[d]]
    BY <2>3, NextOfGroup
  <2>. QED
    BY <2>1, <2>2, <2>3
<1>2. Equation(F)
  <2>. DEFINE G == [d \in Comp |-> IF NextSibling(d) # None THEN NextSibling(d)
                                   ELSE IF Parent[d] \in Comp THEN F[Parent[d]] ELSE None]
  <2>1. \A d \in Comp : F[d] = G[d]
    BY <1>1
  <2>2. F = [d \in Comp |-> F[d]] /\ G = [d \in Comp |-> G[d]]
    OBVIOUS
  <2>. HIDE DEF F, G
  <2>3. F = G
    BY <2>1, <2>2
  <2>. QED
    BY <2>3 DEF G
<1>3. NextTask = CHOOSE f : Equation(f)
  BY DEF NextTask
<1>. HIDE DEF F
<1>4. Equation(NextTask)
  <2>. HIDE DEF Equation
  <2>. QED
    BY <1>2, <1>3
<1>. QED
  BY <1>4

\* After a component at the top comes its next sibling, or nothing.
LEMMA NextAtTop ==
  ASSUME NEW c \in Comp, Parent[c] = Root, NextComp(c) \in Comp
  PROVE  NextComp(c) = NextSibling(c)
BY NextTaskEquation, TreeAssumption DEF NextComp

\* After a component that ends in its turn, in a sequential group, comes its
\* next sibling, or nothing.
LEMMA NextInGroup ==
  ASSUME TasksLast, NEW c \in Comp \ Task, Parent[c] \in Comp, Kind[Parent[c]] = "sequential",
         NextComp(c) \in Comp
  PROVE  NextComp(c) = NextSibling(c)
BY NextTaskEquation, TreeAssumption DEF NextComp, TasksLast
-----------------------------------------------------------------------------
(* What the pending calls of an actor have in common.  D is what has ended:   *)
(* each condition stays true when D grows.                                    *)

Told == {"propagate_done", "propagate_cancel", "propagate_finish"}

\* Try blocks whose except clause goes on with the next component
Jump == {"except_first", "except_next"}

\* Try blocks around activate_task
Catcher == {"except_activate", "except_pass", "except_first", "except_sibling",
            "except_next", "except_end", "except_cancelled"}

\* Calls made last, with nothing but a worker's job to go back to
Tails == Told \cup {"run_job", "propagate_refuse", "end_completion", "except_sibling",
                    "except_cancelled"}

Worked == {"except_job", "except_mq"}

\* A call by itself: what is to be started, or has been, may start.
Good(f, D) ==
  /\ f.fn = "activate_task" => AllReady(f.obj, D)
  /\ f.fn = "set" /\ f.obj # Root /\ f.arg = "EXECUTION" => AllReady(f.obj, D)
  /\ f.fn = "activate_each" =>
       /\ f.obj \in Comp /\ Kind[f.obj] \in {"parallel", "completion"}
       /\ f.todo \subseteq Components(f.obj) /\ AllReady(f.obj, D)
  /\ f.fn = "activate_first" =>
       /\ f.obj \in Comp /\ Kind[f.obj] = "sequential"
       /\ f.arg \in Comp => f.arg \in Components(f.obj) /\ AllReady(f.arg, D)
  /\ f.fn = "except_first" =>
       /\ f.obj \in Comp /\ Kind[f.obj] = "sequential"
       /\ f.arg \in Components(f.obj) /\ AllReady(f.arg, D)
  /\ f.fn = "except_activate" => f.obj \in Comp \ Task
  /\ f.fn = "except_sibling" => AllReady(f.obj, D)
  /\ f.fn = "except_next" => f.arg \in Components(Root) /\ AllReady(f.arg, D)
  /\ f.fn = "activate_next" =>
       (f.arg \in Comp => f.arg \in Components(Root) /\ AllReady(f.arg, D))
  /\ f.fn \in Told => f.arg \in Comp /\ f.obj = Parent[f.arg]
  /\ f.fn = "cancel_task" => f.obj \in Comp
  /\ f.fn \in {"end_process", "except_end"} => f.arg # "EXECUTION"

\* A call u and any call f below it
Zone(u, f) ==
  /\ u.fn \in Tails => f.fn \in Worked
  /\ u.fn = "set" /\ u.obj = Root /\ u.arg = "EXECUTION"
       => f.fn \in {"activate_tasks", "except_cancelled"}
  /\ u.fn # "activate_process"

\* The call u is going to end c, in its turn
Ends(u, c, D) ==
  /\ u.obj = c
  /\ \/ u.fn = "set" /\ u.arg \in {"COMPLETED", "REJECTED"}
     \/ u.fn = "set" /\ u.arg = "DISCARDED" /\ AllReady(c, D)
     \/ u.fn = "cancel_task" /\ AllReady(c, D)

\* A call u and the call f that waits for it: activate_task is called in a try
\* block, and a parent is told of a component when that has ended.
Over(u, f, D) ==
  /\ u.fn \in {"activate_each", "activate_first", "except_first"} =>
       f.fn = "except_activate" /\ f.obj = u.obj
  /\ u.fn \in {"activate_task", "activate_tasks", "except_activate", "raise"} =>
       f.fn \in Catcher
  /\ f.fn \in Jump =>
       /\ u.fn \in {"activate_task", "set", "except_activate", "raise"}
       /\ u.fn # "raise" => u.obj = f.arg
  /\ f.fn \in Told => Passed(f.arg, D) \/ Ends(u, f.arg, D)

\* A group that ends while it is activated, before the component after it starts
Closes(f) == f.fn = "raise" /\ f.arg = "TaskClosed"

Trip(u, f, g, D) ==
  Closes(f) /\ g.fn \in Jump =>
    /\ g.arg \notin Task
    /\ g.arg \in D \/ (u.fn = "set" /\ u.obj = g.arg /\ u.arg = "COMPLETED")

Stack(s, D) ==
  /\ \A i \in 1 .. Len(s) : Good(s[i], D)
  /\ \A i, j \in 1 .. Len(s) : i < j => Zone(s[i], s[j])
  /\ \A i \in 1 .. Len(s) - 1 : Over(s[i], s[i + 1], D)
  /\ \A i \in 1 .. Len(s) - 2 : Trip(s[i], s[i + 1], s[i + 2], D)

\* A call f that the calls of s wait for
Fits(f, s, D) ==
  /\ Good(f, D)
  /\ \A j \in 1 .. Len(s) : Zone(f, s[j])
  /\ Len(s) >= 1 => Over(f, s[1], D)
  /\ Len(s) >= 2 => Trip(f, s[1], s[2], D)

\* A call f that is made now
Due(f, s, D) ==
  /\ f.fn \in Told => Passed(f.arg, D)
  /\ Len(s) >= 1 /\ Closes(f) /\ s[1].fn \in Jump => s[1].arg \in D \ Task

Lawful(s, D) == Stack(s, D) /\ (s # <<>> => Due(Head(s), Tail(s), D))

(* Stacks as such *)

LEMMA Suffix ==
  ASSUME NEW D, NEW s \in Seq(Call), Stack(s, D), NEW h \in 1 .. Len(s)
  PROVE  /\ SubSeq(s, h + 1, Len(s)) \in Seq(Call)
         /\ Stack(SubSeq(s, h + 1, Len(s)), D)
         /\ Fits(s[h], SubSeq(s, h + 1, Len(s)), D)
<1>. DEFINE n == Len(s)
            r == SubSeq(s, h + 1, n)
<1>1. n \in Nat /\ h \in Nat /\ h >= 1 /\ h <= n /\ \A i \in 1 .. n : s[i] \in Call
  BY ElementOfSeq
<1>2. /\ r \in Seq(Call) /\ Len(r) = n - h
      /\ \A i \in 1 .. n - h : r[i] = s[h + i]
  BY <1>1, SubSeqProperties
<1>. HIDE DEF r
<1>3. /\ \A i \in 1 .. n : Good(s[i], D)
      /\ \A i, j \in 1 .. n : i < j => Zone(s[i], s[j])
      /\ \A i \in 1 .. n - 1 : Over(s[i], s[i + 1], D)
      /\ \A i \in 1 .. n - 2 : Trip(s[i], s[i + 1], s[i + 2], D)
  BY DEF Stack
<1>. HIDE DEF n
<1>4. ASSUME NEW i \in 1 .. Len(r)
      PROVE  Good(r[i], D) /\ Zone(s[h], r[i]) /\ \A j \in 1 .. Len(r) : i < j => Zone(r[i], r[j])
  BY <1>1, <1>2, <1>3, <1>4
<1>5. ASSUME NEW i \in 1 .. Len(r) - 1 PROVE Over(r[i], r[i + 1], D)
  <2>1. /\ i \in 1 .. n - h /\ i + 1 \in 1 .. n - h /\ h + i \in 1 .. n - 1
        /\ h + (i + 1) = h + i + 1
    BY <1>1, <1>2, <1>5
  <2>. QED
    BY <1>2, <1>3, <2>1
<1>6. ASSUME NEW i \in 1 .. Len(r) - 2 PROVE Trip(r[i], r[i + 1], r[i + 2], D)
  <2>1. /\ i \in 1 .. n - h /\ i + 1 \in 1 .. n - h /\ i + 2 \in 1 .. n - h
        /\ h + i \in 1 .. n - 2 /\ h + (i + 1) = h + i + 1 /\ h + (i + 2) = h + i + 2
    BY <1>1, <1>2, <1>6
  <2>. QED
    BY <1>2, <1>3, <2>1
<1>7. Len(r) >= 1 => Over(s[h], r[1], D)
  <2>1. ASSUME Len(r) >= 1 PROVE Over(s[h], r[1], D)
    <3>1. h \in 1 .. n - 1 /\ 1 \in 1 .. n - h
      BY <1>1, <1>2, <2>1
    <3>. QED
      BY <1>2, <1>3, <3>1
  <2>. QED
    BY <2>1
<1>8. Len(r) >= 2 => Trip(s[h], r[1], r[2], D)
  <2>1. ASSUME Len(r) >= 2 PROVE Trip(s[h], r[1], r[2], D)
    <3>1. h \in 1 .. n - 2 /\ 1 \in 1 .. n - h /\ 2 \in 1 .. n - h
      BY <1>1, <1>2, <2>1
    <3>. QED
      BY <1>2, <1>3, <3>1
  <2>. QED
    BY <2>1
<1>9. Stack(r, D)
  BY <1>4, <1>5, <1>6 DEF Stack
<1>10. Fits(s[h], r, D)
  BY <1>1, <1>3, <1>4, <1>7, <1>8 DEF Fits
<1>. QED
  BY <1>2, <1>9, <1>10 DEF r, n

LEMMA Uncons ==
  ASSUME NEW D, NEW s \in Seq(Call), s # <<>>, Stack(s, D)
  PROVE  /\ Head(s) \in Call /\ Tail(s) \in Seq(Call)
         /\ Stack(Tail(s), D) /\ Fits(Head(s), Tail(s), D)
<1>1. 1 \in 1 .. Len(s) /\ Head(s) = s[1]
  BY EmptySeq
<1>2. Tail(s) = SubSeq(s, 1 + 1, Len(s))
  BY TailIsSubSeq
<1>3. Head(s) \in Call
  BY HeadTailProperties
<1>. QED
  BY <1>1, <1>2, <1>3, Suffix

LEMMA Push ==
  ASSUME NEW s \in Seq(Call), NEW f \in Call
  PROVE  /\ <<f>> \o s \in Seq(Call) /\ Len(<<f>> \o s) = Len(s) + 1
         /\ <<f>> \o s # <<>> /\ Head(<<f>> \o s) = f /\ Tail(<<f>> \o s) = s
         /\ (<<f>> \o s)[1] = f /\ \A i \in 1 .. Len(s) : (<<f>> \o s)[i + 1] = s[i]
<1>. DEFINE t == <<f>> \o s
<1>1. t \in Seq(Call) /\ Len(t) = Len(s) + 1 /\ Len(s) \in Nat
  OBVIOUS
<1>2. \A i \in 1 .. Len(t) : t[i] = IF i <= 1 THEN f ELSE s[i - 1]
  BY ConcatProperties
<1>. HIDE DEF t
<1>3. t[1] = f /\ \A i \in 1 .. Len(s) : t[i + 1] = s[i]
  BY <1>1, <1>2
<1>4. t # <<>> /\ Head(t) = f
  BY <1>1, <1>3
<1>5. Tail(t) = s
  <2>1. /\ Tail(t) \in Seq(Call) /\ Len(Tail(t)) = Len(t) - 1
        /\ \A i \in 1 .. Len(Tail(t)) : Tail(t)[i] = t[i + 1]
    BY <1>1, <1>4, HeadTailProperties
  <2>2. Len(Tail(t)) = Len(s) /\ \A i \in 1 .. Len(s) : Tail(t)[i] = s[i]
    BY <1>1, <1>3, <2>1
  <2>. QED
    BY <2>1, <2>2, SeqEqual
<1>. QED
  BY <1>1, <1>3, <1>4, <1>5 DEF t

LEMMA Cons ==
  ASSUME NEW D, NEW s \in Seq(Call), Stack(s, D), NEW f \in Call, Fits(f, s, D)
  PROVE  Stack(<<f>> \o s, D)
<1>. DEFINE t == <<f>> \o s
            n == Len(s)
<1>1. /\ Len(t) = n + 1 /\ n \in Nat /\ t[1] = f
      /\ \A i \in 1 .. n : t[i + 1] = s[i]
  BY Push
<1>. HIDE DEF t
<1>2. /\ \A i \in 1 .. n : Good(s[i], D)
      /\ \A i, j \in 1 .. n : i < j => Zone(s[i], s[j])
      /\ \A i \in 1 .. n - 1 : Over(s[i], s[i + 1], D)
      /\ \A i \in 1 .. n - 2 : Trip(s[i], s[i + 1], s[i + 2], D)
  BY DEF Stack
<1>3. /\ Good(f, D) /\ \A j \in 1 .. n : Zone(f, s[j])
      /\ n >= 1 => Over(f, s[1], D)
      /\ n >= 2 => Trip(f, s[1], s[2], D)
  BY DEF Fits
<1>. HIDE DEF n
<1>4. \A i \in 1 .. n + 1 : i = 1 \/ (i - 1 \in 1 .. n /\ t[i] = s[i - 1])
  <2>1. ASSUME NEW i \in 1 .. n + 1, i # 1 PROVE i - 1 \in 1 .. n /\ t[i] = s[i - 1]
    <3>1. i - 1 \in 1 .. n /\ i = (i - 1) + 1
      BY <1>1, <2>1
    <3>. QED
      BY <1>1, <3>1
  <2>. QED
    BY <2>1
<1>5. \A i \in 1 .. n + 1 : Good(t[i], D)
  BY <1>1, <1>2, <1>3, <1>4
<1>6. ASSUME NEW i \in 1 .. n + 1, NEW j \in 1 .. n + 1, i < j PROVE Zone(t[i], t[j])
  <2>1. j - 1 \in 1 .. n /\ t[j] = s[j - 1]
    BY <1>1, <1>4, <1>6
  <2>2. CASE i = 1
    BY <1>1, <1>3, <2>1, <2>2
  <2>3. CASE i # 1
    <3>1. i - 1 \in 1 .. n /\ t[i] = s[i - 1] /\ i - 1 < j - 1
      BY <1>1, <1>4, <1>6, <2>3
    <3>. QED
      BY <1>2, <2>1, <3>1
  <2>. QED
    BY <2>2, <2>3
<1>7. ASSUME NEW i \in 1 .. (n + 1) - 1 PROVE Over(t[i], t[i + 1], D)
  <2>1. CASE i = 1
    BY <1>1, <1>3, <1>7, <2>1
  <2>2. CASE i # 1
    <3>1. i - 1 \in 1 .. n - 1 /\ t[i] = s[i - 1] /\ t[i + 1] = s[(i - 1) + 1]
      BY <1>1, <1>4, <1>7, <2>2
    <3>. QED
      BY <1>2, <3>1
  <2>. QED
    BY <2>1, <2>2
<1>8. ASSUME NEW i \in 1 .. (n + 1) - 2 PROVE Trip(t[i], t[i + 1], t[i + 2], D)
  <2>1. CASE i = 1
    <3>1. n >= 2 /\ t[1] = f /\ t[1 + 1] = s[1] /\ t[1 + 2] = s[2]
      <4>1. n >= 2 /\ 1 \in 1 .. n /\ 2 \in 1 .. n /\ 1 + 2 = 2 + 1
        BY <1>1, <1>8, <2>1
      <4>. QED
        BY <1>1, <4>1
    <3>. QED
      BY <1>3, <2>1, <3>1
  <2>2. CASE i # 1
    <3>1. /\ i - 1 \in 1 .. n - 2 /\ t[i] = s[i - 1] /\ t[i + 1] = s[(i - 1) + 1]
          /\ i + 1 \in 1 .. n /\ i + 2 = (i + 1) + 1 /\ (i - 1) + 2 = i + 1
      BY <1>1, <1>4, <1>8, <2>2
    <3>2. t[i + 2] = s[(i - 1) + 2]
      BY <1>1, <3>1
    <3>. QED
      BY <1>2, <3>1, <3>2
  <2>. QED
    BY <2>1, <2>2
<1>. QED
  BY <1>1, <1>5, <1>6, <1>7, <1>8 DEF Stack, t
-----------------------------------------------------------------------------
(* Calls on top of a stack *)

Zones(f, s) == \A j \in 1 .. Len(s) : Zone(f, s[j])

\* The calls of an operation that a worker's job waits for, or nobody
Bottom(s) == \A j \in 1 .. Len(s) : s[j].fn \in Worked

\* No call of s minds what it waits for.
Calm(s, D) ==
  /\ Len(s) >= 1 => s[1].fn \notin Jump /\ (s[1].fn \in Told => Passed(s[1].arg, D))
  /\ Len(s) >= 2 /\ Closes(s[1]) /\ s[2].fn \in Jump => s[2].arg \in D \ Task

\* Calls that have to be made in a certain place
Placed == {"activate_each", "activate_first", "except_first", "activate_task",
           "activate_tasks", "except_activate", "raise"}

\* A call x that y waits for, which the calls of s wait for
Above(x, y, s, D) ==
  /\ Good(x, D) /\ Zone(x, y) /\ Zones(x, s) /\ Over(x, y, D)
  /\ Len(s) >= 1 => Trip(x, y, s[1], D)

LEMMA NoCalls ==
  ASSUME NEW D
  PROVE  /\ <<>> \in Seq(Call) /\ Stack(<<>>, D) /\ Lawful(<<>>, D)
         /\ Bottom(<<>>) /\ Calm(<<>>, D)
BY DEF Stack, Lawful, Bottom, Calm

LEMMA AboveFits ==
  ASSUME NEW D, NEW s \in Seq(Call), NEW x \in Call, NEW y \in Call, Above(x, y, s, D)
  PROVE  Fits(x, <<y>> \o s, D)
<1>. DEFINE t == <<y>> \o s
<1>1. /\ Len(t) = Len(s) + 1 /\ Len(s) \in Nat /\ t[1] = y
      /\ \A i \in 1 .. Len(s) : t[i + 1] = s[i]
  BY Push
<1>. HIDE DEF t
<1>2. \A j \in 1 .. Len(t) : j = 1 \/ (j - 1 \in 1 .. Len(s) /\ t[j] = s[j - 1])
  <2>1. ASSUME NEW j \in 1 .. Len(t), j # 1 PROVE j - 1 \in 1 .. Len(s) /\ t[j] = s[j - 1]
    <3>1. j - 1 \in 1 .. Len(s) /\ j = (j - 1) + 1
      BY <1>1, <2>1
    <3>. QED
      BY <1>1, <3>1
  <2>. QED
    BY <2>1
<1>3. \A j \in 1 .. Len(t) : Zone(x, t[j])
  BY <1>1, <1>2 DEF Above, Zones
<1>4. Len(t) >= 2 => Len(s) >= 1 /\ t[2] = s[1]
  <2>1. ASSUME Len(t) >= 2 PROVE Len(s) >= 1 /\ t[2] = s[1]
    <3>1. 1 \in 1 .. Len(s) /\ 2 = 1 + 1
      BY <1>1, <2>1
    <3>. QED
      BY <1>1, <3>1
  <2>. QED
    BY <2>1
<1>. QED
  BY <1>1, <1>3, <1>4 DEF Above, Fits, t

LEMMA Push1 ==
  ASSUME NEW D, NEW s \in Seq(Call), Stack(s, D), NEW x \in Call, Fits(x, s, D), Due(x, s, D)
  PROVE  Lawful(<<x>> \o s, D)
BY Cons, Push DEF Lawful

LEMMA Join ==
  ASSUME NEW s \in Seq(Call), NEW x \in Call
  PROVE  /\ \A y \in Call : <<x, y>> \o s = <<x>> \o (<<y>> \o s)
         /\ \A y, z \in Call : <<x, y, z>> \o s = <<x>> \o (<<y>> \o (<<z>> \o s))
<1>1. ASSUME NEW y \in Call, NEW t \in Seq(Call)
      PROVE  <<x, y>> \o t = <<x>> \o (<<y>> \o t)
  <2>. DEFINE l == <<x, y>> \o t
              r == <<x>> \o (<<y>> \o t)
  <2>1. l \in Seq(Call) /\ Len(l) = Len(t) + 2 /\ Len(t) \in Nat
    OBVIOUS
  <2>2. \A i \in 1 .. Len(t) + 2 : l[i] = IF i <= 2 THEN <<x, y>>[i] ELSE t[i - 2]
    <3>1. <<x, y>> \in Seq(Call) /\ Len(<<x, y>>) = 2
      OBVIOUS
    <3>. QED
      BY <2>1, <3>1, ConcatProperties
  <2>3. /\ <<y>> \o t \in Seq(Call) /\ Len(<<y>> \o t) = Len(t) + 1
        /\ (<<y>> \o t)[1] = y /\ \A i \in 1 .. Len(t) : (<<y>> \o t)[i + 1] = t[i]
    BY Push
  <2>4. /\ r \in Seq(Call) /\ Len(r) = Len(t) + 2 /\ r[1] = x
        /\ \A i \in 1 .. Len(t) + 1 : r[i + 1] = (<<y>> \o t)[i]
    BY <2>1, <2>3, Push
  <2>5. <<x, y>>[1] = x /\ <<x, y>>[2] = y
    OBVIOUS
  <2>. HIDE DEF l, r
  <2>6. ASSUME NEW i \in 1 .. Len(t) + 2 PROVE l[i] = r[i]
    <3>1. CASE i = 1
      BY <2>1, <2>2, <2>4, <2>5, <3>1
    <3>2. CASE i = 2
      <4>1. 2 = 1 + 1 /\ 1 \in 1 .. Len(t) + 1
        BY <2>1
      <4>2. r[2] = y
        BY <2>3, <2>4, <4>1
      <4>. QED
        BY <2>1, <2>2, <2>5, <3>2, <4>2
    <3>3. CASE i > 2
      <4>1. /\ i - 1 \in 1 .. Len(t) + 1 /\ i - 2 \in 1 .. Len(t)
            /\ i = (i - 1) + 1 /\ i - 1 = (i - 2) + 1
        BY <2>1, <2>6, <3>3
      <4>2. r[i] = t[i - 2]
        BY <2>3, <2>4, <4>1
      <4>. QED
        BY <2>2, <2>6, <3>3, <4>2
    <3>. QED
      BY <2>1, <2>6, <3>1, <3>2, <3>3
  <2>7. l = r
    BY <2>1, <2>4, <2>6, SeqEqual
  <2>. QED
    BY <2>7 DEF l, r
<1>2. ASSUME NEW y \in Call, NEW z \in Call
      PROVE  <<x, y, z>> \o s = <<x>> \o (<<y>> \o (<<z>> \o s))
  <2>1. <<x, y, z>> = <<x, y>> \o <<z>>
    OBVIOUS
  <2>2. (<<x, y>> \o <<z>>) \o s = <<x, y>> \o (<<z>> \o s)
    BY ConcatAssociative
  <2>3. <<z>> \o s \in Seq(Call)
    OBVIOUS
  <2>. QED
    BY <1>1, <2>1, <2>2, <2>3
<1>. QED
  BY <1>1, <1>2

LEMMA Lists ==
  ASSUME NEW x \in Call, NEW y \in Call
  PROVE  <<x>> \o <<y>> = <<x, y>> /\ \A z \in Call : <<x>> \o <<y, z>> = <<x, y, z>>
<1>. DEFINE n == <<>>
<1>1. n \in Seq(Call) /\ \A s \in Seq(Call) : s \o n = s
  BY ConcatEmptySeq
<1>2. <<y>> \in Seq(Call) /\ <<x, y>> \in Seq(Call)
  OBVIOUS
<1>. HIDE DEF n
<1>3. <<x>> \o <<y>> = <<x, y>>
  <2>1. <<x, y>> \o n = <<x>> \o (<<y>> \o n)
    BY <1>1, Join
  <2>2. <<x, y>> \o n = <<x, y>> /\ <<y>> \o n = <<y>>
    BY <1>1, <1>2
  <2>. QED
    BY <2>1, <2>2, Zenon
<1>4. ASSUME NEW z \in Call PROVE <<x>> \o <<y, z>> = <<x, y, z>>
  <2>1. <<y, z>> \in Seq(Call) /\ <<x, y, z>> \in Seq(Call) /\ <<z>> \in Seq(Call)
    OBVIOUS
  <2>2. <<x, y, z>> \o n = <<x, y, z>> /\ <<y, z>> \o n = <<y, z>> /\ <<z>> \o n = <<z>>
    BY <1>1, <2>1
  <2>3. <<y, z>> \o n = <<y>> \o (<<z>> \o n)
    BY <1>1, Join
  <2>4. <<x, y, z>> \o n = <<x>> \o (<<y>> \o (<<z>> \o n))
    BY <1>1, Join
  <2>. QED
    BY <2>2, <2>3, <2>4, Zenon
<1>. QED
  BY <1>3, <1>4

LEMMA Push2 ==
  ASSUME NEW D, NEW s \in Seq(Call), Stack(s, D), NEW x \in Call, NEW y \in Call,
         Fits(y, s, D), Above(x, y, s, D), x.fn \notin Told \cup {"raise"}
  PROVE  Lawful(<<x, y>> \o s, D)
<1>1. <<y>> \o s \in Seq(Call) /\ Stack(<<y>> \o s, D) /\ Fits(x, <<y>> \o s, D)
  BY Push, Cons, AboveFits
<1>2. Due(x, <<y>> \o s, D)
  BY DEF Due, Closes
<1>. QED
  BY <1>1, <1>2, Push1, Join

LEMMA Push3 ==
  ASSUME NEW D, NEW s \in Seq(Call), Stack(s, D), NEW x \in Call, NEW y \in Call,
         NEW z \in Call, Fits(z, s, D), Above(y, z, s, D), Good(x, D), Zone(x, y),
         Zone(x, z), Zones(x, s), Over(x, y, D), Trip(x, y, z, D),
         x.fn \notin Told \cup {"raise"}
  PROVE  Lawful(<<x, y, z>> \o s, D)
<1>. DEFINE t == <<z>> \o s
<1>1. t \in Seq(Call) /\ Stack(t, D) /\ Fits(y, t, D)
  BY Push, Cons, AboveFits
<1>2. /\ Len(t) = Len(s) + 1 /\ Len(s) \in Nat /\ t[1] = z
      /\ \A i \in 1 .. Len(s) : t[i + 1] = s[i]
  BY Push
<1>3. <<x, y>> \o t = <<x, y, z>> \o s
  BY <1>1, Join
<1>. HIDE DEF t
<1>4. Zones(x, t)
  <2>1. ASSUME NEW j \in 1 .. Len(t) PROVE Zone(x, t[j])
    <3>1. CASE j = 1
      BY <1>2, <3>1
    <3>2. CASE j # 1
      <4>1. j - 1 \in 1 .. Len(s) /\ j = (j - 1) + 1
        BY <1>2, <2>1, <3>2
      <4>. QED
        BY <1>2, <4>1 DEF Zones
    <3>. QED
      BY <3>1, <3>2
  <2>. QED
    BY <2>1 DEF Zones
<1>5. Above(x, y, t, D)
  BY <1>2, <1>4 DEF Above
<1>. QED
  BY <1>1, <1>3, <1>5, Push2
\* Most calls may be made by a method that is not itself the start or the end of
\* a component.
LEMMA PlainFits ==
  ASSUME NEW D, NEW s \in Seq(Call), Calm(s, D), NEW f, Good(f, D), Zones(f, s),
         f.fn \notin Placed
  PROVE  Fits(f, s, D)
BY DEF Fits, Calm, Over, Trip, Zones, Placed

LEMMA PlainAbove ==
  ASSUME NEW D, NEW s, NEW x, NEW y, Good(x, D), Zone(x, y), Zones(x, s),
         x.fn \notin Placed, y.fn \notin Told \cup Jump \cup {"raise"}
  PROVE  Above(x, y, s, D)
BY DEF Above, Over, Trip, Closes, Placed

LEMMA PlainDue ==
  ASSUME NEW D, NEW s, NEW f, f.fn \notin Told \cup {"raise"}
  PROVE  Due(f, s, D)
BY DEF Due, Closes

\* The calls that may be made anywhere
LEMMA FreeZone ==
  ASSUME NEW f, f.fn \notin Tails \cup {"activate_process"},
         f.fn # "set" \/ f.obj # Root \/ f.arg # "EXECUTION"
  PROVE  \A g : Zone(f, g)
BY DEF Zone

LEMMA FreeZones ==
  ASSUME NEW f, f.fn \notin Tails \cup {"activate_process"},
         f.fn # "set" \/ f.obj # Root \/ f.arg # "EXECUTION", NEW s
  PROVE  Zones(f, s)
BY FreeZone DEF Zones

LEMMA BottomZones ==
  ASSUME NEW s, Bottom(s), NEW f, f.fn \notin {"activate_process", "set"}
  PROVE  Zones(f, s)
BY DEF Zones, Zone, Bottom

LEMMA BottomCalm ==
  ASSUME NEW D, NEW s \in Seq(Call), Bottom(s)
  PROVE  Calm(s, D)
<1>1. Len(s) >= 1 => s[1].fn \in Worked
  BY DEF Bottom
<1>. QED
  BY <1>1 DEF Calm, Worked, Jump, Told, Closes

LEMMA TailBottom ==
  ASSUME NEW D, NEW s, NEW f, Fits(f, s, D), f.fn \in Tails
  PROVE  Bottom(s)
BY DEF Fits, Zone, Bottom

\* What an ordinary method leaves behind when it returns, or calls others
LEMMA QuietCalm ==
  ASSUME NEW D, NEW s \in Seq(Call), NEW f, Fits(f, s, D),
         f.fn \notin {"activate_task", "set", "except_activate", "raise", "cancel_task"}
  PROVE  Calm(s, D)
BY DEF Fits, Calm, Over, Ends, Trip

\* What remains when any method but these two returns is lawful.
LEMMA QuietDue ==
  ASSUME NEW D, NEW s \in Seq(Call), Stack(s, D), NEW f, Fits(f, s, D),
         f.fn \notin {"set", "cancel_task"}
  PROVE  Lawful(s, D)
<1>1. CASE s = <<>>
  BY <1>1, NoCalls
<1>2. CASE s # <<>>
  <2>1. Len(s) >= 1 /\ Head(s) = s[1]
    BY <1>2
  <2>2. s[1].fn \in Told => Passed(s[1].arg, D)
    BY <2>1 DEF Fits, Over, Ends
  <2>3. Len(Tail(s)) = Len(s) - 1 /\ Len(Tail(s)) \in Nat
    BY <1>2
  <2>4. Len(Tail(s)) >= 1 => Len(s) >= 2 /\ Tail(s)[1] = s[2]
    BY <1>2, <2>3
  <2>5. Len(s) >= 2 => Trip(f, s[1], s[2], D)
    BY DEF Fits
  <2>6. Len(Tail(s)) >= 1 /\ Closes(s[1]) /\ Tail(s)[1].fn \in Jump => Tail(s)[1].arg \in D \ Task
    BY <2>4, <2>5 DEF Trip
  <2>. QED
    BY <2>1, <2>2, <2>6 DEF Lawful, Due
<1>. QED
  BY <1>1, <1>2

\* The conditions only get weaker when more has ended.
LEMMA Grows ==
  ASSUME NEW D, NEW E, D \subseteq E
  PROVE  /\ \A f : Good(f, D) => Good(f, E)
         /\ \A u, f : Over(u, f, D) => Over(u, f, E)
         /\ \A u, f, g : Trip(u, f, g, D) => Trip(u, f, g, E)
         /\ \A s : Stack(s, D) => Stack(s, E)
         /\ \A s : Lawful(s, D) => Lawful(s, E)
<1>1. \A c : (AllReady(c, D) => AllReady(c, E)) /\ (Passed(c, D) => Passed(c, E))
  BY ReadyGrows
<1>2. \A f : Good(f, D) => Good(f, E)
  BY <1>1 DEF Good
<1>3. \A u, f : Over(u, f, D) => Over(u, f, E)
  BY <1>1 DEF Over, Ends
<1>4. \A u, f, g : Trip(u, f, g, D) => Trip(u, f, g, E)
  BY DEF Trip
<1>5. \A s : Stack(s, D) => Stack(s, E)
  BY <1>2, <1>3, <1>4 DEF Stack
<1>6. \A s : Lawful(s, D) => Lawful(s, E)
  BY <1>1, <1>5 DEF Lawful, Due
<1>. QED
  BY <1>2, <1>3, <1>4, <1>5, <1>6
-----------------------------------------------------------------------------
(* Ending a component and telling its parent *)

LEMMA Plain ==
  ASSUME NEW D, NEW s \in Seq(Call), Stack(s, D), Calm(s, D), NEW f \in Call, Good(f, D),
         f.fn \notin Placed \cup Tails \cup {"activate_process"},
         f.fn # "set" \/ f.obj # Root \/ f.arg # "EXECUTION"
  PROVE  Fits(f, s, D) /\ Lawful(<<f>> \o s, D)
<1>1. f.fn \notin Placed /\ f.fn \notin Told \cup {"raise"}
  BY DEF Placed, Tails
<1>2. Zones(f, s)
  BY FreeZones
<1>3. Fits(f, s, D)
  BY <1>1, <1>2, PlainFits
<1>4. Due(f, s, D)
  BY <1>1, PlainDue
<1>. QED
  BY <1>3, <1>4, Push1

LEMMA LastFits ==
  ASSUME NEW D, NEW s \in Seq(Call), Bottom(s), NEW f, Good(f, D), f.fn \in Tails
  PROVE  Fits(f, s, D)
BY BottomCalm, BottomZones, PlainFits DEF Tails, Told, Placed

\* c is ended by the call x, then its parent is told.
LEMMA EndAndTell ==
  ASSUME NEW D, NEW s \in Seq(Call), Stack(s, D), Bottom(s), NEW c \in Comp,
         NEW x \in Call, x.fn \in {"set", "cancel_task"}, Ends(x, c, D),
         x.fn = "set" => x.arg # "EXECUTION",
         NEW fn \in Told \cup {"propagate_refuse"}
  PROVE  /\ Do(fn, Parent[c], c) \in Call /\ Fits(Do(fn, Parent[c], c), s, D)
         /\ Lawful(<<x, Do(fn, Parent[c], c)>> \o s, D)
<1>. DEFINE y == Do(fn, Parent[c], c)
<1>1. y \in Call /\ y.fn = fn /\ y.obj = Parent[c] /\ y.arg = c
  BY DoCall, ParentIn, Args DEF Told, Fn, JobFn, DbFn, Do
<1>. HIDE DEF y
<1>2. Good(y, D)
  BY <1>1 DEF Good, Told
<1>3. Fits(y, s, D)
  BY <1>1, <1>2, LastFits DEF Tails
<1>4. x.obj = c /\ c # Root
  BY TreeAssumption DEF Ends
<1>5. Good(x, D)
  BY <1>4 DEF Good, Told
<1>6. Zone(x, y) /\ Zones(x, s)
  BY <1>4, FreeZone, FreeZones DEF Tails, Told
<1>7. Over(x, y, D)
  BY <1>1 DEF Over, Told, Jump
<1>8. Len(s) >= 1 => Trip(x, y, s[1], D)
  BY <1>1 DEF Trip, Closes, Told
<1>9. Lawful(<<x, y>> \o s, D)
  BY <1>1, <1>3, <1>5, <1>6, <1>7, <1>8, Push2 DEF Above, Told
<1>. QED
  BY <1>1, <1>3, <1>9 DEF y

LEMMA ClosingLawful ==
  ASSUME NEW D, NEW s \in Seq(Call), Stack(s, D), Bottom(s), NEW c \in Comp
  PROVE  /\ \A forwarded \in BOOLEAN : Lawful(Closing(c, forwarded) \o s, D)
         /\ Lawful(Refusing(c) \o s, D) /\ Lawful(Closed(c) \o s, D)
         /\ AllReady(c, D) => Lawful(Cancelled(c) \o s, D)
<1>1. ASSUME NEW x \in {"COMPLETED", "REJECTED"}, NEW fn \in Told \cup {"propagate_refuse"}
      PROVE  Lawful(<<Set(c, x), Do(fn, Parent[c], c)>> \o s, D)
  <2>1. Set(c, x) \in Call
    BY SetCall, Args DEF CompStatus
  <2>2. Ends(Set(c, x), c, D) /\ Set(c, x).fn = "set" /\ Set(c, x).arg # "EXECUTION"
    BY DEF Ends, Set, Do
  <2>. QED
    BY <2>1, <2>2, EndAndTell
<1>2. ASSUME AllReady(c, D) PROVE Lawful(Cancelled(c) \o s, D)
  <2>1. Do("cancel_task", c, None) \in Call
    BY DoCall, Args DEF Fn, JobFn, DbFn
  <2>2. /\ Ends(Do("cancel_task", c, None), c, D) /\ Do("cancel_task", c, None).fn = "cancel_task"
    BY <1>2 DEF Ends, Do
  <2>. QED
    BY <2>1, <2>2, EndAndTell DEF Cancelled, Told
<1>3. \A forwarded \in BOOLEAN : Lawful(Closing(c, forwarded) \o s, D)
  BY <1>1 DEF Closing, Told
<1>4. Lawful(Refusing(c) \o s, D)
  BY <1>1 DEF Refusing, Told
<1>5. Lawful(Closed(c) \o s, D)
  BY <1>1 DEF Closed, Told
<1>. QED
  BY <1>2, <1>3, <1>4, <1>5
-----------------------------------------------------------------------------
(* Raising exceptions *)

LEMMA RaiseFits ==
  ASSUME NEW D, NEW s \in Seq(Call), NEW f, Fits(f, s, D), NEW e,
         f.fn \in {"activate_task", "except_activate"}
  PROVE  Fits(Raise(e), s, D)
<1>. DEFINE x == Raise(e)
<1>1. x.fn = "raise"
  BY DEF Raise, Do
<1>. HIDE DEF x
<1>2. Good(x, D)
  BY <1>1 DEF Good, Told
<1>3. Zones(x, s)
  BY <1>1, FreeZones DEF Tails, Told
<1>4. Len(s) >= 1 => s[1].fn \in Catcher
  BY DEF Fits, Over
<1>5. Len(s) >= 1 => Over(x, s[1], D)
  BY <1>1, <1>4 DEF Over, Catcher, Told
<1>6. Len(s) >= 2 => Trip(x, s[1], s[2], D)
  BY <1>4 DEF Trip, Closes, Catcher
<1>. QED
  BY <1>2, <1>3, <1>5, <1>6 DEF Fits, Zones, x

\* activate_task gives up: the component ends, then the caller hears of it.
LEMMA GiveUp ==
  ASSUME NEW D, NEW s \in Seq(Call), Stack(s, D), NEW f \in Call, Fits(f, s, D),
         f.fn \in {"activate_task", "except_activate"}, f.obj \in Comp
  PROVE  /\ Lawful(<<Do("cancel_task", f.obj, None), Raise("TaskCancelled")>> \o s, D)
         /\ f.obj \notin Task =>
              Lawful(<<Set(f.obj, "COMPLETED"), Raise("TaskClosed")>> \o s, D)
<1>. DEFINE x == Do("cancel_task", f.obj, None)
            y == Set(f.obj, "COMPLETED")
            r == Raise("TaskCancelled")
            q == Raise("TaskClosed")
<1>1. f.obj \in Comp /\ f.obj # Root
  BY TreeAssumption
<1>2. x \in Call /\ y \in Call /\ r \in Call /\ q \in Call
  BY <1>1, DoCall, SetCall, RaiseCall, Args DEF CompStatus, Exception, Fn, JobFn, DbFn
<1>3. Fits(r, s, D) /\ Fits(q, s, D)
  BY RaiseFits
<1>4. /\ x.fn = "cancel_task" /\ x.obj = f.obj
      /\ y.fn = "set" /\ y.obj = f.obj /\ y.arg = "COMPLETED"
      /\ r.fn = "raise" /\ r.arg = "TaskCancelled"
      /\ q.fn = "raise" /\ q.arg = "TaskClosed"
  BY DEF Do, Set, Raise
<1>. HIDE DEF x, y, r, q
<1>5. Good(x, D) /\ Good(y, D)
  BY <1>1, <1>4 DEF Good, Told
<1>6. Zone(x, r) /\ Zones(x, s) /\ Zone(y, q) /\ Zones(y, s)
  BY <1>1, <1>4, FreeZone, FreeZones DEF Tails, Told
<1>7. Over(x, r, D) /\ Over(y, q, D)
  BY <1>4 DEF Over, Told, Jump
<1>8. Len(s) >= 1 => Trip(x, r, s[1], D)
  BY <1>4 DEF Trip, Closes
<1>9. f.obj \notin Task /\ Len(s) >= 1 => Trip(y, q, s[1], D)
  <2>1. Len(s) >= 1 /\ s[1].fn \in Jump => s[1].arg = f.obj
    BY DEF Fits, Over
  <2>. QED
    BY <1>1, <1>4, <2>1 DEF Trip
<1>10. Above(x, r, s, D) /\ (f.obj \notin Task => Above(y, q, s, D))
  BY <1>5, <1>6, <1>7, <1>8, <1>9 DEF Above
<1>11. Lawful(<<x, r>> \o s, D)
  BY <1>2, <1>3, <1>4, <1>10, Push2 DEF Told
<1>12. f.obj \notin Task => Lawful(<<y, q>> \o s, D)
  BY <1>2, <1>3, <1>4, <1>10, Push2 DEF Told
<1>. QED
  BY <1>11, <1>12 DEF x, y, r, q

\* What an except clause does may be done.
LEMMA HandlerLawful ==
  ASSUME TasksLast, NEW D, NEW s \in Seq(Call), Stack(s, D), NEW f \in Call, Fits(f, s, D),
         NEW e, e \in Catches(f.fn),
         e = "TaskClosed" /\ f.fn \in Jump => f.arg \in D \ Task
  PROVE  Lawful(Handler(f, e) \o s, D)
<1>1. f.obj \in Comp \cup {Root} /\ f.arg \in Arg
  BY DEF Call, Arg
<1>2. Good(f, D)
  BY DEF Fits
<1>3. f.fn # "except_activate" => f.fn \in Except \ {"except_activate"}
  BY DEF Catches, Except
<1>4. CASE f.fn = "except_activate"
  <2>1. f.obj \in Comp \ Task
    BY <1>2, <1>4 DEF Good
  <2>. QED
    BY <1>4, <2>1, GiveUp DEF Handler, Catches
<1>5. CASE f.fn \in {"except_pass"}
  <2>1. Handler(f, e) = <<>>
    BY <1>5 DEF Handler
  <2>2. <<>> \o s = s
    BY ConcatEmptySeq
  <2>. QED
    BY <1>5, <2>1, <2>2, QuietDue
<1>6. CASE f.fn = "except_sibling"
  <2>1. Bottom(s) /\ AllReady(f.obj, D) /\ f.obj \in Comp
    BY <1>2, <1>6, TailBottom, AllReadyUp DEF Tails, Good
  <2>2. Handler(f, e) = Cancelled(f.obj)
    BY <1>6 DEF Handler, Cancelled
  <2>. QED
    BY <2>1, <2>2, ClosingLawful
<1>7. ASSUME f.fn \notin {"except_activate", "except_pass", "except_sibling"}
      PROVE  Lawful(Handler(f, e) \o s, D)
  <2>1. Calm(s, D)
    BY <1>3, <1>7, QuietCalm DEF Except
  <2>2. NextComp(f.arg) \in Arg
    BY DEF NextComp, Arg
  <2>3. CASE f.fn = "except_first"
    <3>. DEFINE x == Do("activate_first", f.obj, NextComp(f.arg))
    <3>1. /\ f.arg \in Comp \ Task /\ f.arg \in Components(f.obj) /\ AllReady(f.arg, D)
          /\ Kind[f.obj] = "sequential" /\ f.arg \in D /\ f.obj \in Comp
          /\ Parent[f.arg] = f.obj
      BY <1>2, <2>3 DEF Good, Components, Catches, Jump
    <3>2. NextComp(f.arg) \in Comp =>
            NextComp(f.arg) \in Components(f.obj) /\ AllReady(NextComp(f.arg), D)
      BY <3>1, NextInGroup, NextReady DEF Passed
    <3>3. x \in Call /\ x.fn = "activate_first" /\ x.obj = f.obj /\ x.arg = NextComp(f.arg)
      BY <1>1, <2>2, DoCall DEF Fn, JobFn, DbFn, Do
    <3>4. Handler(f, e) = <<x>>
      BY <2>3 DEF Handler
    <3>. HIDE DEF x
    <3>5. Good(x, D)
      BY <3>1, <3>2, <3>3 DEF Good, Told
    <3>6. Zones(x, s)
      BY <3>3, FreeZones DEF Tails, Told
    <3>7. Len(s) >= 1 => Over(x, s[1], D)
      BY <2>3, <3>3 DEF Fits, Over, Jump, Told
    <3>8. Len(s) >= 2 => Trip(x, s[1], s[2], D)
      BY <2>1 DEF Calm, Trip
    <3>9. Fits(x, s, D) /\ Due(x, s, D)
      BY <3>3, <3>5, <3>6, <3>7, <3>8, PlainDue DEF Fits, Zones, Told
    <3>. QED
      BY <3>3, <3>4, <3>9, Push1
  <2>4. CASE f.fn = "except_next"
    <3>. DEFINE x == Do("activate_next", Root, NextComp(f.arg))
    <3>1. /\ f.arg \in Comp /\ AllReady(f.arg, D) /\ f.arg \in D /\ Parent[f.arg] = Root
      BY <1>2, <2>4 DEF Good, Components, Catches, Jump
    <3>2. NextComp(f.arg) \in Comp =>
            NextComp(f.arg) \in Components(Root) /\ AllReady(NextComp(f.arg), D)
      BY <3>1, NextAtTop, NextReady DEF Passed
    <3>3. x \in Call /\ x.fn = "activate_next" /\ x.arg = NextComp(f.arg)
      BY <1>1, <2>2, DoCall DEF Fn, JobFn, DbFn, Do
    <3>4. Handler(f, e) = <<x>>
      BY <2>4 DEF Handler
    <3>. HIDE DEF x
    <3>5. Good(x, D)
      BY <3>1, <3>2, <3>3 DEF Good, Told
    <3>. QED
      BY <2>1, <3>3, <3>4, <3>5, Plain DEF Placed, Tails, Told
  <2>5. CASE f.fn = "except_cancelled"
    <3>. DEFINE x == Do("cancel_subtasks_and_close", Root, None)
    <3>1. x \in Call /\ x.fn = "cancel_subtasks_and_close"
      BY Args, DoCall DEF Fn, JobFn, DbFn, Do
    <3>2. Handler(f, e) = <<x>>
      BY <2>5 DEF Handler
    <3>. HIDE DEF x
    <3>3. Good(x, D)
      BY <3>1 DEF Good, Told
    <3>. QED
      BY <2>1, <3>1, <3>2, <3>3, Plain DEF Placed, Tails, Told
  <2>6. CASE f.fn = "except_end"
    <3>. DEFINE x == Set(Root, f.arg)
    <3>1. x \in Call /\ x.fn = "set" /\ x.obj = Root /\ x.arg # "EXECUTION"
      BY <1>1, <1>2, <2>6, SetCall DEF Good, Set, Do
    <3>2. Handler(f, e) = <<x>>
      BY <2>6 DEF Handler
    <3>. HIDE DEF x
    <3>3. Good(x, D)
      BY <3>1 DEF Good, Told
    <3>. QED
      BY <2>1, <3>1, <3>2, <3>3, Plain DEF Placed, Tails, Told
  <2>7. CASE f.fn \in Worked
    <3>. DEFINE x == Set(Root, "PAUSED")
                y == Do("fail_job", f.obj, None)
    <3>1. x \in Call /\ x.fn = "set" /\ x.obj = Root /\ x.arg = "PAUSED"
      BY SetCall, Args DEF ProcStatus, Set, Do
    <3>2. y \in Call /\ y.fn = "fail_job"
      <4>1. f.obj \in System
        BY <2>7 DEF Call, JobFn, Worked
      <4>. QED
        BY <4>1, JobCall DEF JobFn, Do
    <3>3. Handler(f, e) = <<x, y>> \/ Handler(f, e) = <<y>>
      BY <2>7 DEF Handler, Worked
    <3>. HIDE DEF x, y
    <3>4. Good(x, D) /\ Good(y, D)
      BY <3>1, <3>2 DEF Good, Told
    <3>5. Fits(y, s, D) /\ Lawful(<<y>> \o s, D)
      BY <2>1, <3>2, <3>4, Plain DEF Placed, Tails, Told
    <3>6. Zone(x, y) /\ Zones(x, s)
      BY <3>1, FreeZone, FreeZones DEF Tails, Told
    <3>7. Above(x, y, s, D)
      BY <3>1, <3>2, <3>4, <3>6, PlainAbove DEF Placed, Told, Jump
    <3>8. Lawful(<<x, y>> \o s, D)
      BY <3>1, <3>2, <3>5, <3>7, Push2 DEF Told
    <3>. QED
      BY <3>3, <3>5, <3>8
  <2>. QED
    BY <1>3, <1>7, <2>3, <2>4, <2>5, <2>6, <2>7 DEF Except, Worked
<1>. QED
  BY <1>4, <1>5, <1>6, <1>7

\* TaskClosed tells the caller of activate_task that the component has ended.
Heard(s, e, D) ==
  e = "TaskClosed" /\ Len(s) >= 1 =>
    s[1].fn \in Catcher /\ (s[1].fn \in Jump => s[1].arg \in D \ Task)

LEMMA UnwoundLawful ==
  ASSUME TasksLast, NEW D, NEW s \in Seq(Call), Stack(s, D), NEW e, Heard(s, e, D)
  PROVE  Lawful(Unwound(s, e), D)
<1>. DEFINE H == {i \in 1 .. Len(s) : e \in Catches(s[i].fn)}
            h == CHOOSE i \in H : \A j \in H : i <= j
<1>1. CASE H = {}
  <2>1. Unwound(s, e) = <<>>
    BY <1>1 DEF Unwound
  <2>. QED
    BY <2>1, NoCalls
<1>2. CASE H # {}
  <2>1. H \in SUBSET Nat
    OBVIOUS
  <2>. HIDE DEF H
  <2>2. \E i \in H : \A j \in H : i <= j
    BY <1>2, <2>1, LeastNumber
  <2>3. h \in H /\ \A j \in H : h <= j
    BY <2>2
  <2>4. h \in 1 .. Len(s) /\ e \in Catches(s[h].fn)
    BY <2>3 DEF H
  <2>5. Unwound(s, e) = Handler(s[h], e) \o SubSeq(s, h + 1, Len(s))
    BY <1>2 DEF Unwound, H, h
  <2>. HIDE DEF h
  <2>6. /\ SubSeq(s, h + 1, Len(s)) \in Seq(Call) /\ Stack(SubSeq(s, h + 1, Len(s)), D)
        /\ Fits(s[h], SubSeq(s, h + 1, Len(s)), D)
    BY <2>4, Suffix
  <2>7. s[h] \in Call
    BY <2>4
  <2>8. ASSUME e = "TaskClosed", s[h].fn \in Jump PROVE s[h].arg \in D \ Task
    <3>1. CASE h = 1
      BY <2>4, <2>8, <3>1 DEF Heard
    <3>2. CASE h # 1
      <4>1. 1 \in 1 .. Len(s) /\ 1 < h /\ Len(s) >= 1
        BY <2>4, <3>2
      <4>2. 1 \notin H
        BY <2>3, <2>4, <4>1
      <4>3. e \notin Catches(s[1].fn)
        BY <4>1, <4>2 DEF H
      <4>4. s[1].fn \in {"except_sibling", "except_cancelled"}
        BY <2>8, <4>1, <4>3 DEF Heard, Catcher, Catches
      <4>5. Zone(s[1], s[h])
        BY <2>4, <4>1 DEF Stack
      <4>. QED
        BY <2>8, <4>4, <4>5 DEF Zone, Tails, Worked, Jump
    <3>. QED
      BY <3>1, <3>2
  <2>9. Lawful(Handler(s[h], e) \o SubSeq(s, h + 1, Len(s)), D)
    BY <2>4, <2>6, <2>7, <2>8, HandlerLawful
  <2>. QED
    BY <2>5, <2>9
<1>. QED
  BY <1>1, <1>2
-----------------------------------------------------------------------------
(* The invariant *)

Stacks == \A a \in Actor : Lawful(calls[a], Done)

\* What ran was to run.
InTurn ==
  \A c \in Comp : status[c] \in {"EXECUTION", "COMPLETED", "REJECTED"} => AllReady(c, Done)

IInv == TypeOK /\ Stacks /\ InTurn

\* The call on top and those that wait for it
LEMMA Running ==
  ASSUME TypeOK, Stacks, NEW a \in Actor, calls[a] # <<>>
  PROVE  /\ Top(a) \in Call /\ Tail(calls[a]) \in Seq(Call)
         /\ Top(a).fn \in Fn /\ Top(a).obj \in Comp \cup {Root} /\ Top(a).arg \in Arg
         /\ Top(a).todo \in SUBSET Comp
         /\ Stack(Tail(calls[a]), Done) /\ Fits(Top(a), Tail(calls[a]), Done)
         /\ Due(Top(a), Tail(calls[a]), Done)
<1>1. calls[a] \in Seq(Call) /\ Lawful(calls[a], Done)
  BY DEF TypeOK, Stacks
<1>. QED
  BY <1>1, TopCall, Uncons DEF Lawful, Top

LEMMA Continued ==
  ASSUME TypeOK, NEW a \in Actor, NEW s, Continue(a, s)
  PROVE  /\ calls'[a] = s \o Tail(calls[a])
         /\ \A b \in Actor \ {a} : calls'[b] = calls[b]
BY DEF TypeOK, Continue

LEMMA Thrown ==
  ASSUME TypeOK, NEW a \in Actor, NEW e, Throw(a, e)
  PROVE  /\ calls'[a] = Unwound(Tail(calls[a]), e)
         /\ \A b \in Actor \ {a} : calls'[b] = calls[b]
BY DEF TypeOK, Throw

LEMMA Begun ==
  ASSUME TypeOK, NEW a \in Actor, NEW s, Begin(a, s)
  PROVE  calls'[a] = s /\ \A b \in Actor \ {a} : calls'[b] = calls[b]
BY DEF TypeOK, Begin

\* A step of a that leaves a lawful stack
Kept(a) ==
  /\ Lawful(calls'[a], Done)
  /\ \A b \in Actor \ {a} : calls'[b] = calls[b]

LEMMA KeptReturn ==
  ASSUME TypeOK, Stacks, NEW a \in Actor, calls[a] # <<>>, Continue(a, <<>>),
         Top(a).fn \notin {"set", "cancel_task"}
  PROVE  Kept(a)
<1>1. calls'[a] = <<>> \o Tail(calls[a]) /\ \A b \in Actor \ {a} : calls'[b] = calls[b]
  BY Continued
<1>2. <<>> \o Tail(calls[a]) = Tail(calls[a])
  BY Running, ConcatEmptySeq
<1>. QED
  BY <1>1, <1>2, Running, QuietDue DEF Kept

LEMMA KeptThrow ==
  ASSUME TasksLast, TypeOK, Stacks, NEW a \in Actor, calls[a] # <<>>, NEW e, Throw(a, e),
         Heard(Tail(calls[a]), e, Done)
  PROVE  Kept(a)
BY Thrown, Running, UnwoundLawful DEF Kept

LEMMA KeptContinue ==
  ASSUME TypeOK, NEW a \in Actor, NEW s, Continue(a, s), Lawful(s \o Tail(calls[a]), Done)
  PROVE  Kept(a)
BY Continued DEF Kept

\* Methods that make one call, or two, of which none has to be in its place
LEMMA KeptPlain ==
  ASSUME TypeOK, Stacks, NEW a \in Actor, calls[a] # <<>>, Calm(Tail(calls[a]), Done),
         NEW x \in Call, Good(x, Done),
         x.fn \notin Placed \cup Tails \cup {"activate_process"},
         x.fn # "set" \/ x.obj # Root \/ x.arg # "EXECUTION"
  PROVE  /\ Continue(a, <<x>>) => Kept(a)
         /\ \A y \in Call :
              /\ Fits(y, Tail(calls[a]), Done) /\ y.fn \notin Told \cup Jump \cup {"raise"}
              /\ Continue(a, <<x, y>>)
              => Kept(a)
<1>. DEFINE t == Tail(calls[a])
<1>1. t \in Seq(Call) /\ Stack(t, Done)
  BY Running
<1>. HIDE DEF t
<1>2. Fits(x, t, Done) /\ Lawful(<<x>> \o t, Done)
  BY <1>1, Plain DEF t
<1>3. ASSUME NEW y \in Call, Fits(y, t, Done), y.fn \notin Told \cup Jump \cup {"raise"}
      PROVE  Lawful(<<x, y>> \o t, Done)
  <2>1. Zone(x, y) /\ Zones(x, t)
    BY FreeZone, FreeZones
  <2>2. Above(x, y, t, Done)
    BY <1>3, <2>1, PlainAbove
  <2>. QED
    BY <1>1, <1>3, <2>2, Push2 DEF Tails, Placed
<1>. QED
  BY <1>2, <1>3, KeptContinue DEF t
-----------------------------------------------------------------------------
(* Starting components *)

\* The stacks of calls with which activate_task may go on
LEMMA Starting ==
  ASSUME NEW D, NEW s \in Seq(Call), Stack(s, D), NEW f \in Call, Fits(f, s, D),
         f.fn = "activate_task"
  PROVE  /\ f.obj \in Comp /\ AllReady(f.obj, D)
         /\ Lawful(<<Do("cancel_task", f.obj, None), Raise("TaskCancelled")>> \o s, D)
         /\ Lawful(<<Set(f.obj, "EXECUTION")>> \o s, D)
         /\ \A y \in Call :
              /\ f.obj \notin Task /\ y.fn \in {"activate_each", "activate_first"}
              /\ y.obj = f.obj /\ Good(y, D)
              => Lawful(<<Set(f.obj, "EXECUTION"), y, Do("except_activate", f.obj, None)>> \o s, D)
<1>. DEFINE c == f.obj
            x == Set(c, "EXECUTION")
            z == Do("except_activate", c, None)
<1>1. c \in Comp /\ c # Root /\ AllReady(c, D)
  BY AllReadyUp, TreeAssumption DEF Fits, Good
<1>2. x \in Call /\ z \in Call
  BY <1>1, DoCall, SetCall, Args DEF CompStatus, Fn, Except, JobFn, DbFn
<1>3. /\ x.fn = "set" /\ x.obj = c /\ x.arg = "EXECUTION"
      /\ z.fn = "except_activate" /\ z.obj = c
  BY DEF Do, Set
<1>4. /\ Len(s) >= 1 => s[1].fn \in Catcher /\ (s[1].fn \in Jump => s[1].arg = c)
      /\ Len(s) >= 2 => ~Closes(s[1])
  BY DEF Fits, Over, Closes, Catcher
<1>. HIDE DEF c, x, z
<1>5. Good(x, D) /\ (c \notin Task => Good(z, D))
  BY <1>1, <1>3 DEF Good, Told
<1>6. Zones(x, s) /\ Zones(z, s) /\ \A g : Zone(x, g)
  BY <1>1, <1>3, FreeZone, FreeZones DEF Tails, Told
<1>7. Len(s) >= 1 => Over(x, s[1], D) /\ Over(z, s[1], D)
  BY <1>3, <1>4 DEF Over, Catcher, Told, Jump
<1>8. Fits(x, s, D) /\ (c \notin Task => Fits(z, s, D))
  BY <1>4, <1>5, <1>6, <1>7 DEF Fits, Trip, Zones
<1>9. Lawful(<<x>> \o s, D)
  BY <1>2, <1>3, <1>8, PlainDue, Push1 DEF Told
<1>10. ASSUME c \notin Task, NEW y \in Call, y.fn \in {"activate_each", "activate_first"},
              y.obj = c, Good(y, D)
       PROVE  Lawful(<<x, y, z>> \o s, D)
  <2>1. Zone(y, z) /\ Zones(y, s)
    BY <1>10, FreeZone, FreeZones DEF Tails, Told
  <2>2. Over(y, z, D) /\ Over(x, y, D)
    BY <1>3, <1>10 DEF Over, Told, Jump
  <2>3. \A g : Trip(y, z, g, D) /\ Trip(x, y, g, D)
    BY <1>3, <1>10 DEF Trip, Closes
  <2>4. Above(y, z, s, D)
    BY <1>10, <2>1, <2>2, <2>3 DEF Above
  <2>. QED
    BY <1>2, <1>3, <1>5, <1>6, <1>8, <1>10, <2>2, <2>3, <2>4, Push3 DEF Told
<1>11. Lawful(<<Do("cancel_task", c, None), Raise("TaskCancelled")>> \o s, D)
  BY <1>1, GiveUp DEF c
<1>. QED
  BY <1>1, <1>9, <1>10, <1>11 DEF c, x, z

LEMMA ActivateTaskKept ==
  ASSUME TypeOK, Stacks, NEW a \in Actor, ActivateTask(a)
  PROVE  Kept(a)
<1>. DEFINE f == Top(a)
            t == Tail(calls[a])
            c == f.obj
<1>1. calls[a] # <<>> /\ f.fn = "activate_task"
  BY DEF ActivateTask, At
<1>2. /\ f \in Call /\ t \in Seq(Call) /\ Stack(t, Done) /\ Fits(f, t, Done)
  BY <1>1, Running
<1>. HIDE DEF f, t
<1>3. /\ c \in Comp /\ AllReady(c, Done)
      /\ Lawful(<<Do("cancel_task", c, None), Raise("TaskCancelled")>> \o t, Done)
      /\ Lawful(<<Set(c, "EXECUTION")>> \o t, Done)
      /\ \A y \in Call :
           /\ c \notin Task /\ y.fn \in {"activate_each", "activate_first"}
           /\ y.obj = c /\ Good(y, Done)
           => Lawful(<<Set(c, "EXECUTION"), y, Do("except_activate", c, None)>> \o t, Done)
  BY <1>1, <1>2, Starting
<1>. HIDE DEF c
<1>4. \/ Continue(a, <<Do("cancel_task", c, None), Raise("TaskCancelled")>>)
      \/ Continue(a, <<Set(c, "EXECUTION")>>)
      \/ /\ Kind[c] = "sequential"
         /\ Continue(a, <<Set(c, "EXECUTION"), Do("activate_first", c, First(c)),
                          Do("except_activate", c, None)>>)
      \/ /\ Kind[c] \in {"parallel", "completion"}
         /\ Continue(a, <<Set(c, "EXECUTION"), Each("activate_each", c, Components(c)),
                          Do("except_activate", c, None)>>)
  BY DEF ActivateTask, c, f
<1>5. CASE Kind[c] = "sequential"
  <2>. DEFINE y == Do("activate_first", c, First(c))
  <2>1. y \in Call /\ y.fn = "activate_first" /\ y.obj = c /\ y.arg = First(c)
    BY <1>3, FirstIn, DoCall DEF Fn, JobFn, DbFn, Arg, Do
  <2>2. First(c) \in Comp => First(c) \in Components(c) /\ AllReady(First(c), Done)
    BY <1>3, FirstReady
  <2>3. c \notin Task
    BY <1>5 DEF Task, TaskKind
  <2>. HIDE DEF y
  <2>4. Good(y, Done)
    BY <1>3, <1>5, <2>1, <2>2 DEF Good, Told
  <2>5. Lawful(<<Set(c, "EXECUTION"), y, Do("except_activate", c, None)>> \o t, Done)
    BY <1>3, <2>1, <2>3, <2>4
  <2>. QED
    BY <1>3, <1>4, <1>5, <2>5, KeptContinue DEF t, y
<1>6. CASE Kind[c] \in {"parallel", "completion"}
  <2>. DEFINE y == Each("activate_each", c, Components(c))
  <2>1. Components(c) \in SUBSET Comp
    BY DEF Components
  <2>2. y \in Call /\ y.fn = "activate_each" /\ y.obj = c /\ y.todo = Components(c)
    BY <1>3, <2>1, EachCall DEF Fn, JobFn, DbFn, Each
  <2>3. c \notin Task
    BY <1>6 DEF Task, TaskKind
  <2>. HIDE DEF y
  <2>4. Good(y, Done)
    BY <1>3, <1>6, <2>2 DEF Good, Told
  <2>5. Lawful(<<Set(c, "EXECUTION"), y, Do("except_activate", c, None)>> \o t, Done)
    BY <1>3, <2>2, <2>3, <2>4
  <2>. QED
    BY <1>3, <1>4, <1>6, <2>5, KeptContinue DEF t, y
<1>. QED
  BY <1>3, <1>4, <1>5, <1>6, KeptContinue DEF t

\* activate_task is called for a component, in the try block of the call y.
LEMMA Tried ==
  ASSUME NEW D, NEW s \in Seq(Call), Stack(s, D), NEW c \in Comp, AllReady(c, D),
         NEW y \in Call, Fits(y, s, D), y.fn \in Catcher, y.fn \in Jump => y.arg = c
  PROVE  /\ Do("activate_task", c, None) \in Call
         /\ Above(Do("activate_task", c, None), y, s, D)
         /\ Lawful(<<Do("activate_task", c, None), y>> \o s, D)
<1>. DEFINE x == Do("activate_task", c, None)
<1>1. x \in Call /\ x.fn = "activate_task" /\ x.obj = c
  BY DoCall, Args DEF Fn, JobFn, DbFn, Do
<1>. HIDE DEF x
<1>2. Good(x, D)
  BY <1>1 DEF Good, Told
<1>3. Zone(x, y) /\ Zones(x, s)
  BY <1>1, FreeZone, FreeZones DEF Tails, Told
<1>4. Over(x, y, D)
  BY <1>1 DEF Over, Catcher, Jump, Told
<1>5. \A g : Trip(x, y, g, D)
  BY DEF Trip, Closes, Catcher
<1>6. Above(x, y, s, D)
  BY <1>2, <1>3, <1>4, <1>5 DEF Above
<1>7. Lawful(<<x, y>> \o s, D)
  BY <1>1, <1>6, Push2 DEF Told
<1>. QED
  BY <1>1, <1>6, <1>7 DEF x

LEMMA ActivateEachKept ==
  ASSUME TasksLast, TypeOK, Stacks, NEW a \in Actor, ActivateEach(a)
  PROVE  Kept(a)
<1>. DEFINE f == Top(a)
            t == Tail(calls[a])
<1>1. calls[a] # <<>> /\ f.fn = "activate_each"
  BY DEF ActivateEach, At
<1>2. /\ f \in Call /\ t \in Seq(Call) /\ Stack(t, Done) /\ Fits(f, t, Done)
      /\ f.obj \in Comp \cup {Root} /\ f.todo \in SUBSET Comp
  BY <1>1, Running
<1>. HIDE DEF f, t
<1>3. /\ f.obj \in Comp /\ Kind[f.obj] \in {"parallel", "completion"}
      /\ f.todo \subseteq Components(f.obj) /\ AllReady(f.obj, Done)
  BY <1>1, <1>2 DEF Fits, Good
<1>4. Len(t) >= 1 => t[1].fn = "except_activate" /\ t[1].obj = f.obj
  BY <1>1, <1>2 DEF Fits, Over
<1>5. ASSUME NEW d \in f.todo,
             Continue(a, <<Do("activate_task", d, None), Do("except_pass", f.obj, None),
                           Each("activate_each", f.obj, f.todo \ {d})>>)
      PROVE  Kept(a)
  <2>. DEFINE x == Do("activate_task", d, None)
              y == Do("except_pass", f.obj, None)
              z == Each("activate_each", f.obj, f.todo \ {d})
  <2>1. x \in Call /\ y \in Call /\ z \in Call
    BY <1>2, DoCall, EachCall, Args DEF Fn, Except, JobFn, DbFn
  <2>2. /\ x.fn = "activate_task" /\ x.obj = d /\ y.fn = "except_pass"
        /\ z.fn = "activate_each" /\ z.obj = f.obj /\ z.todo = f.todo \ {d}
    BY DEF Do, Each
  <2>. HIDE DEF x, y, z
  <2>3. AllReady(d, Done)
    BY <1>3, PartsReady
  <2>4. Good(x, Done) /\ Good(y, Done) /\ Good(z, Done)
    BY <1>3, <2>2, <2>3 DEF Good, Told
  <2>5. /\ Zones(x, t) /\ Zones(y, t) /\ Zones(z, t)
        /\ \A g : Zone(x, g) /\ Zone(y, g)
    BY <2>2, FreeZone, FreeZones DEF Tails, Told
  <2>6. Len(t) >= 1 => Over(z, t[1], Done)
    BY <1>4, <2>2 DEF Over, Jump, Told
  <2>7. Len(t) >= 2 => Trip(z, t[1], t[2], Done)
    BY <1>4 DEF Trip, Closes
  <2>8. Fits(z, t, Done)
    BY <2>4, <2>5, <2>6, <2>7 DEF Fits, Zones
  <2>9. Above(y, z, t, Done)
    BY <2>2, <2>4, <2>5, PlainAbove DEF Placed, Told, Jump
  <2>10. Over(x, y, Done) /\ Trip(x, y, z, Done)
    BY <2>2 DEF Over, Trip, Closes, Catcher, Jump, Told
  <2>11. Lawful(<<x, y, z>> \o t, Done)
    BY <1>2, <2>1, <2>2, <2>4, <2>5, <2>8, <2>9, <2>10, Push3 DEF Told
  <2>. QED
    BY <1>5, <2>11, KeptContinue DEF x, y, z, t
<1>6. ASSUME NEW e, Throw(a, e) PROVE Kept(a)
  <2>1. Heard(t, e, Done)
    BY <1>4 DEF Heard, Catcher, Jump
  <2>. QED
    BY <1>1, <1>6, <2>1, KeptThrow DEF t
<1>7. CASE Continue(a, <<>>)
  BY <1>1, <1>7, KeptReturn DEF f
<1>. QED
  BY <1>5, <1>6, <1>7 DEF ActivateEach, f

LEMMA ActivateFirstKept ==
  ASSUME TasksLast, TypeOK, Stacks, NEW a \in Actor, ActivateFirst(a)
  PROVE  Kept(a)
<1>. DEFINE f == Top(a)
            t == Tail(calls[a])
<1>1. calls[a] # <<>> /\ f.fn = "activate_first"
  BY DEF ActivateFirst, At
<1>2. /\ f \in Call /\ t \in Seq(Call) /\ Stack(t, Done) /\ Fits(f, t, Done)
  BY <1>1, Running
<1>. HIDE DEF f, t
<1>3. /\ f.obj \in Comp /\ Kind[f.obj] = "sequential"
      /\ f.arg \in Comp => f.arg \in Components(f.obj) /\ AllReady(f.arg, Done)
  BY <1>1, <1>2 DEF Fits, Good
<1>4. Len(t) >= 1 => t[1].fn = "except_activate" /\ t[1].obj = f.obj
  BY <1>1, <1>2 DEF Fits, Over
<1>5. CASE f.arg \in Comp
  <2>. DEFINE y == Do("except_first", f.obj, f.arg)
  <2>1. y \in Call /\ y.fn = "except_first" /\ y.obj = f.obj /\ y.arg = f.arg
    BY <1>3, <1>5, DoCall, Args DEF Fn, Except, JobFn, DbFn, Do
  <2>. HIDE DEF y
  <2>2. Good(y, Done)
    BY <1>3, <1>5, <2>1 DEF Good, Told
  <2>3. Zones(y, t)
    BY <2>1, FreeZones DEF Tails, Told
  <2>4. Len(t) >= 1 => Over(y, t[1], Done)
    BY <1>4, <2>1 DEF Over, Jump, Told
  <2>5. Len(t) >= 2 => Trip(y, t[1], t[2], Done)
    BY <1>4 DEF Trip, Closes
  <2>6. Fits(y, t, Done)
    BY <2>2, <2>3, <2>4, <2>5 DEF Fits, Zones
  <2>7. Lawful(<<Do("activate_task", f.arg, None), y>> \o t, Done)
    BY <1>2, <1>3, <1>5, <2>1, <2>6, Tried DEF Catcher
  <2>8. Continue(a, <<Do("activate_task", f.arg, None), y>>)
    BY <1>5 DEF ActivateFirst, f, y
  <2>. QED
    BY <2>7, <2>8, KeptContinue DEF t
<1>6. CASE f.arg \notin Comp
  <2>1. Throw(a, "TaskClosed")
    BY <1>6 DEF ActivateFirst, f
  <2>2. Heard(t, "TaskClosed", Done)
    BY <1>4 DEF Heard, Catcher, Jump
  <2>. QED
    BY <1>1, <2>1, <2>2, KeptThrow DEF t
<1>. QED
  BY <1>5, <1>6
-----------------------------------------------------------------------------
(* Cancelling components *)

LEMMA CancelTaskKept ==
  ASSUME TypeOK, Stacks, NEW a \in Actor, CancelTask(a)
  PROVE  Kept(a)
<1>. DEFINE f == Top(a)
            t == Tail(calls[a])
            c == f.obj
            x == Do("cancel_subtasks", c, None)
            y == Set(c, "DISCARDED")
<1>1. calls[a] # <<>> /\ f.fn = "cancel_task"
  BY DEF CancelTask, At
<1>2. /\ f \in Call /\ t \in Seq(Call) /\ Stack(t, Done) /\ Fits(f, t, Done)
  BY <1>1, Running
<1>. HIDE DEF f, t
<1>3. c \in Comp /\ c # Root
  BY <1>1, <1>2, TreeAssumption DEF Fits, Good
<1>4. x \in Call /\ y \in Call
  BY <1>3, DoCall, SetCall, Args DEF CompStatus, Fn, JobFn, DbFn
<1>5. x.fn = "cancel_subtasks" /\ y.fn = "set" /\ y.obj = c /\ y.arg = "DISCARDED"
  BY DEF Do, Set
<1>6. Continue(a, <<y>>) \/ Continue(a, <<x, y>>)
  BY DEF CancelTask, f
<1>7. f.obj = c
  OBVIOUS
<1>. HIDE DEF c, x, y
<1>8. Good(x, Done) /\ Good(y, Done)
  BY <1>5 DEF Good, Told
<1>9. Zone(x, y) /\ Zones(x, t) /\ Zones(y, t)
  BY <1>3, <1>5, FreeZone, FreeZones DEF Tails, Told
<1>10. Len(t) >= 1 => Over(y, t[1], Done)
  <2>1. Len(t) >= 1 => t[1].fn \notin Jump
    BY <1>1, <1>2 DEF Fits, Over
  <2>2. Len(t) >= 1 /\ t[1].fn \in Told => Passed(t[1].arg, Done) \/ Ends(y, t[1].arg, Done)
    BY <1>1, <1>2, <1>5, <1>7 DEF Fits, Over, Ends
  <2>. QED
    BY <1>5, <2>1, <2>2 DEF Over
<1>11. Len(t) >= 2 => Trip(y, t[1], t[2], Done)
  BY <1>1, <1>2 DEF Fits, Trip
<1>12. Fits(y, t, Done)
  BY <1>8, <1>9, <1>10, <1>11 DEF Fits, Zones
<1>13. Lawful(<<y>> \o t, Done)
  BY <1>2, <1>4, <1>5, <1>12, PlainDue, Push1 DEF Told
<1>14. Above(x, y, t, Done)
  BY <1>5, <1>8, <1>9, PlainAbove DEF Placed, Told, Jump
<1>15. Lawful(<<x, y>> \o t, Done)
  BY <1>2, <1>4, <1>5, <1>12, <1>14, Push2 DEF Told
<1>. QED
  BY <1>6, <1>13, <1>15, KeptContinue DEF t

LEMMA CancelSubtasksKept ==
  ASSUME TypeOK, Stacks, NEW a \in Actor, CancelSubtasks(a) \/ CancelEach(a)
  PROVE  Kept(a)
<1>. DEFINE f == Top(a)
            t == Tail(calls[a])
<1>1. calls[a] # <<>> /\ f.fn \in {"cancel_subtasks", "cancel_each"}
  BY DEF CancelSubtasks, CancelEach, At
<1>2. /\ f \in Call /\ t \in Seq(Call) /\ Stack(t, Done) /\ Fits(f, t, Done)
      /\ f.obj \in Comp \cup {Root} /\ f.todo \in SUBSET Comp
  BY <1>1, Running
<1>. HIDE DEF f, t
<1>3. Calm(t, Done)
  BY <1>1, <1>2, QuietCalm
<1>4. ASSUME NEW S \in SUBSET Comp
      PROVE  /\ Each("cancel_each", f.obj, S) \in Call
             /\ Each("cancel_each", f.obj, S).fn = "cancel_each"
             /\ Fits(Each("cancel_each", f.obj, S), t, Done)
             /\ Lawful(<<Each("cancel_each", f.obj, S)>> \o t, Done)
  <2>. DEFINE y == Each("cancel_each", f.obj, S)
  <2>1. y \in Call /\ y.fn = "cancel_each"
    BY <1>2, EachCall DEF Fn, JobFn, DbFn, Each
  <2>. HIDE DEF y
  <2>2. Good(y, Done)
    BY <2>1 DEF Good, Told
  <2>3. Fits(y, t, Done) /\ Lawful(<<y>> \o t, Done)
    BY <1>2, <1>3, <2>1, <2>2, Plain DEF Placed, Tails, Told
  <2>. QED
    BY <2>1, <2>3 DEF y
<1>5. CASE CancelSubtasks(a)
  <2>1. Pending(Components(f.obj)) \in SUBSET Comp
    BY DEF Pending, Components
  <2>2. Continue(a, <<Each("cancel_each", f.obj, Pending(Components(f.obj)))>>)
    BY <1>5 DEF CancelSubtasks, f
  <2>. QED
    BY <1>4, <2>1, <2>2, KeptContinue DEF t
<1>6. ASSUME NEW d \in f.todo,
             Continue(a, <<Do("cancel_task", d, None), Each("cancel_each", f.obj, f.todo \ {d})>>)
      PROVE  Kept(a)
  <2>. DEFINE x == Do("cancel_task", d, None)
              y == Each("cancel_each", f.obj, f.todo \ {d})
  <2>1. y \in Call /\ y.fn = "cancel_each" /\ Fits(y, t, Done)
    BY <1>2, <1>4
  <2>2. x \in Call /\ x.fn = "cancel_task" /\ x.obj \in Comp
    BY <1>2, DoCall, Args DEF Fn, JobFn, DbFn, Do
  <2>3. Continue(a, <<x, y>>)
    BY <1>6
  <2>. HIDE DEF x, y
  <2>4. Good(x, Done)
    BY <2>2 DEF Good, Told
  <2>. QED
    BY <1>1, <1>3, <2>1, <2>2, <2>3, <2>4, KeptPlain DEF Placed, Tails, Told, Jump, t
<1>7. CASE f.fn = "cancel_each" /\ Continue(a, <<>>)
  BY <1>1, <1>7, KeptReturn DEF f
<1>. QED
  BY <1>5, <1>6, <1>7 DEF CancelSubtasks, CancelEach, At, f
-----------------------------------------------------------------------------
(* Groups that hear of their components *)

\* A component has ended: the call on top tells its parent.
LEMMA Hearing ==
  ASSUME TypeOK, Stacks, NEW a \in Actor, calls[a] # <<>>, Top(a).fn \in Told
  PROVE  /\ Bottom(Tail(calls[a])) /\ Calm(Tail(calls[a]), Done)
         /\ Top(a).arg \in Comp /\ Top(a).obj = Parent[Top(a).arg]
         /\ Passed(Top(a).arg, Done)
         /\ Top(a).obj \in Comp => AllReady(Top(a).obj, Done)
<1>1. /\ Top(a) \in Call /\ Tail(calls[a]) \in Seq(Call)
      /\ Fits(Top(a), Tail(calls[a]), Done) /\ Due(Top(a), Tail(calls[a]), Done)
  BY Running
<1>2. Top(a).arg \in Comp /\ Top(a).obj = Parent[Top(a).arg]
  BY <1>1 DEF Fits, Good
<1>3. Passed(Top(a).arg, Done)
  BY <1>1 DEF Due
<1>4. Bottom(Tail(calls[a])) /\ Calm(Tail(calls[a]), Done)
  BY <1>1, TailBottom, BottomCalm DEF Tails
<1>5. Top(a).obj \in Comp => AllReady(Top(a).obj, Done)
  BY <1>2, <1>3, AllReadyUp DEF Passed
<1>. QED
  BY <1>2, <1>3, <1>4, <1>5

\* A call that does not have to be in its place, at the end of a method that is
\* called last
LEMMA EndCall ==
  ASSUME NEW D, NEW s \in Seq(Call), Stack(s, D), Bottom(s)
  PROVE  /\ Do("end_completion", Completion, None) \in Call
         /\ Fits(Do("end_completion", Completion, None), s, D)
         /\ Lawful(<<Do("end_completion", Completion, None)>> \o s, D)
<1>. DEFINE x == Do("end_completion", Completion, None)
<1>1. x \in Call /\ x.fn = "end_completion"
  BY TreeAssumption, DoCall, Args DEF Fn, JobFn, DbFn, Do
<1>. HIDE DEF x
<1>2. Good(x, D)
  BY <1>1 DEF Good, Told
<1>3. Fits(x, s, D)
  BY <1>1, <1>2, LastFits DEF Tails
<1>4. Lawful(<<x>> \o s, D)
  BY <1>1, <1>3, PlainDue, Push1 DEF Told
<1>. QED
  BY <1>1, <1>3, <1>4 DEF x

\* cancel_subtasks before the calls of a list
LEMMA CancelFirst ==
  ASSUME NEW D, NEW s \in Seq(Call), Stack(s, D), NEW g \in Comp \cup {Root}, NEW y \in Call
  PROVE  /\ Do("cancel_subtasks", g, None) \in Call
         /\ y.fn \notin Told \cup Jump \cup {"raise"} =>
              /\ Above(Do("cancel_subtasks", g, None), y, s, D)
              /\ Fits(y, s, D) => Lawful(<<Do("cancel_subtasks", g, None), y>> \o s, D)
              /\ \A z \in Call :
                   Fits(z, s, D) /\ Above(y, z, s, D)
                     => Lawful(<<Do("cancel_subtasks", g, None), y, z>> \o s, D)
<1>. DEFINE x == Do("cancel_subtasks", g, None)
<1>1. x \in Call /\ x.fn = "cancel_subtasks"
  BY DoCall, Args DEF Fn, JobFn, DbFn, Do
<1>. HIDE DEF x
<1>2. Good(x, D)
  BY <1>1 DEF Good, Told
<1>3. Zones(x, s) /\ \A f : Zone(x, f)
  BY <1>1, FreeZone, FreeZones DEF Tails, Told
<1>4. ASSUME y.fn \notin Told \cup Jump \cup {"raise"}
      PROVE  /\ Above(x, y, s, D)
             /\ Fits(y, s, D) => Lawful(<<x, y>> \o s, D)
             /\ \A z \in Call :
                  Fits(z, s, D) /\ Above(y, z, s, D) => Lawful(<<x, y, z>> \o s, D)
  <2>1. Above(x, y, s, D)
    BY <1>1, <1>2, <1>3, <1>4, PlainAbove DEF Placed
  <2>2. Fits(y, s, D) => Lawful(<<x, y>> \o s, D)
    BY <1>1, <2>1, Push2 DEF Told
  <2>3. \A z : Trip(x, y, z, D)
    BY <1>4 DEF Trip, Closes
  <2>4. \A z \in Call : Fits(z, s, D) /\ Above(y, z, s, D) => Lawful(<<x, y, z>> \o s, D)
    BY <1>1, <1>2, <1>3, <2>1, <2>3, Push3 DEF Above, Told
  <2>. QED
    BY <2>1, <2>2, <2>4
<1>. QED
  BY <1>1, <1>4 DEF x

\* A group ends, after or before its components are cancelled, and its parent is
\* told.
LEMMA EndGroup ==
  ASSUME NEW D, NEW s \in Seq(Call), Stack(s, D), Bottom(s), NEW g \in Comp
  PROVE  /\ \A fn \in Told :
              Lawful(<<Do("cancel_subtasks", g, None), Set(g, "COMPLETED"),
                       Do(fn, Parent[g], g)>> \o s, D)
         /\ Lawful(<<Set(g, "REJECTED"), Do("cancel_subtasks", g, None),
                     Do("propagate_refuse", Parent[g], g)>> \o s, D)
<1>. DEFINE c == Do("cancel_subtasks", g, None)
            x == Set(g, "COMPLETED")
            y == Set(g, "REJECTED")
            r == Do("propagate_refuse", Parent[g], g)
<1>1. x \in Call /\ y \in Call /\ c \in Call
  BY SetCall, CancelFirst, Args DEF CompStatus
<1>2. /\ x.fn = "set" /\ x.obj = g /\ x.arg = "COMPLETED"
      /\ y.fn = "set" /\ y.obj = g /\ y.arg = "REJECTED"
      /\ c.fn = "cancel_subtasks" /\ r.fn = "propagate_refuse"
  BY DEF Set, Do
<1>3. g # Root
  BY TreeAssumption
<1>4. \A fn \in Told \cup {"propagate_refuse"} :
        Do(fn, Parent[g], g) \in Call /\ Fits(Do(fn, Parent[g], g), s, D)
  <2>1. Ends(x, g, D)
    BY <1>2 DEF Ends
  <2>. HIDE DEF x
  <2>. QED
    BY <1>1, <1>2, <2>1, EndAndTell
<1>5. ASSUME NEW fn \in Told
      PROVE  Lawful(<<c, x, Do(fn, Parent[g], g)>> \o s, D)
  <2>. DEFINE z == Do(fn, Parent[g], g)
  <2>1. z \in Call /\ Fits(z, s, D) /\ z.fn = fn /\ z.arg = g
    BY <1>4 DEF Do
  <2>. HIDE DEF c, x, z
  <2>2. Good(x, D) /\ Zone(x, z) /\ Zones(x, s)
    BY <1>2, <1>3, FreeZone, FreeZones DEF Good, Tails, Told
  <2>3. Over(x, z, D) /\ \A f : Trip(x, z, f, D)
    BY <1>2, <2>1 DEF Over, Ends, Trip, Closes, Told, Jump
  <2>4. Above(x, z, s, D)
    BY <2>2, <2>3 DEF Above
  <2>. QED
    BY <1>1, <1>2, <2>1, <2>4, CancelFirst DEF Told, Jump, c, z
<1>6. Lawful(<<y, c, r>> \o s, D)
  <2>1. r \in Call /\ Fits(r, s, D)
    BY <1>4
  <2>2. Above(c, r, s, D)
    BY <1>2, <2>1, CancelFirst DEF Told, Jump
  <2>. HIDE DEF c, y, r
  <2>3. /\ Good(y, D) /\ Zone(y, c) /\ Zone(y, r) /\ Zones(y, s)
        /\ Over(y, c, D) /\ Trip(y, c, r, D)
    BY <1>2, <1>3, FreeZone, FreeZones DEF Good, Tails, Told, Over, Jump, Trip, Closes
  <2>. QED
    BY <1>1, <1>2, <2>1, <2>2, <2>3, Push3 DEF Told
<1>. QED
  BY <1>5, <1>6

LEMMA DoneKept ==
  ASSUME TypeOK, Stacks, NEW a \in Actor,
         ParallelDone(a) \/ SequentialDone(a) \/ CompletionDone(a)
  PROVE  Kept(a)
<1>. DEFINE t == Tail(calls[a])
            g == Top(a).obj
            c == Top(a).arg
            n == NextSibling(c)
<1>1. calls[a] # <<>> /\ Top(a).fn = "propagate_done"
  BY DEF ParallelDone, SequentialDone, CompletionDone, At
<1>2. t \in Seq(Call) /\ Stack(t, Done) /\ g \in Comp \cup {Root}
  BY <1>1, Running
<1>3. /\ Bottom(t) /\ Calm(t, Done) /\ c \in Comp /\ g = Parent[c] /\ Passed(c, Done)
      /\ g \in Comp => AllReady(g, Done)
  BY <1>1, Hearing DEF Told
<1>4. Continue(a, <<>>) => Kept(a)
  BY <1>1, KeptReturn
<1>. HIDE DEF t
<1>5. g \in Comp /\ Continue(a, Closed(g)) => Kept(a)
  BY <1>2, <1>3, ClosingLawful, KeptContinue DEF t
<1>6. CASE ParallelDone(a)
  BY <1>2, <1>4, <1>5, <1>6 DEF ParallelDone
<1>7. CASE CompletionDone(a)
  <2>1. g = Completion
    BY <1>7 DEF CompletionDone
  <2>2. Continue(a, <<>>) \/ Continue(a, <<Do("end_completion", Completion, None)>>)
    BY <1>7, <2>1 DEF CompletionDone
  <2>. QED
    BY <1>2, <1>3, <1>4, <2>2, EndCall, KeptContinue DEF t
<1>8. CASE SequentialDone(a)
  <2>1. g \in Comp
    BY <1>2, <1>8 DEF SequentialDone
  <2>. DEFINE y == Do("except_sibling", g, None)
  <2>2. CASE n \in Comp
    <3>1. y \in Call /\ y.fn = "except_sibling" /\ y.obj = g
      BY <2>1, Args DEF Do, Call, Fn, Except, JobFn, DbFn, Arg
    <3>. HIDE DEF y
    <3>2. Good(y, Done)
      BY <1>3, <2>1, <3>1 DEF Good, Told
    <3>3. Fits(y, t, Done)
      BY <1>2, <1>3, <3>1, <3>2, LastFits DEF Tails
    <3>4. AllReady(n, Done)
      BY <1>3, <2>2, NextReady
    <3>5. Lawful(<<Do("activate_task", n, None), y>> \o t, Done)
      BY <1>2, <2>2, <3>1, <3>3, <3>4, Tried DEF Catcher, Jump
    <3>6. Continue(a, <<Do("activate_task", n, None), y>>)
      BY <1>8, <2>2 DEF SequentialDone, y
    <3>. QED
      BY <3>5, <3>6, KeptContinue DEF t
  <2>3. CASE n \notin Comp
    BY <1>5, <1>8, <2>1, <2>3 DEF SequentialDone
  <2>. QED
    BY <2>2, <2>3
<1>. QED
  BY <1>6, <1>7, <1>8

LEMMA FinishKept ==
  ASSUME TypeOK, Stacks, NEW a \in Actor, GroupFinish(a)
  PROVE  Kept(a)
<1>. DEFINE t == Tail(calls[a])
            g == Top(a).obj
            x == Do("cancel_subtasks", g, None)
            e == Do("end_completion", g, None)
<1>1. calls[a] # <<>> /\ Top(a).fn = "propagate_finish"
  BY DEF GroupFinish, At
<1>2. t \in Seq(Call) /\ Stack(t, Done) /\ g \in Comp
  BY <1>1, Running DEF GroupFinish
<1>3. Bottom(t)
  BY <1>1, Hearing DEF Told
<1>4. x \in Call /\ Set(g, "COMPLETED") \in Call /\ Do("propagate_done", Parent[g], g) \in Call
  BY <1>2, ParentIn, SetCall, DoCall, Args DEF CompStatus, Fn, JobFn, DbFn
<1>. HIDE DEF t, g, x, e
<1>5. CASE g = Completion
  <2>1. e \in Call /\ Fits(e, t, Done) /\ e.fn = "end_completion"
    BY <1>2, <1>3, <1>5, EndCall DEF e, Do
  <2>2. Lawful(<<x, e>> \o t, Done)
    BY <1>2, <2>1, CancelFirst DEF x, Told, Jump
  <2>3. <<x>> \o <<e>> = <<x, e>>
    BY <1>4, <2>1, Lists
  <2>4. Continue(a, <<x>> \o <<e>>)
    BY <1>5 DEF GroupFinish, g, x, e
  <2>. QED
    BY <2>2, <2>3, <2>4, KeptContinue DEF t
<1>6. CASE g # Completion
  <2>. DEFINE y == Set(g, "COMPLETED")
              z == Do("propagate_done", Parent[g], g)
  <2>1. Lawful(<<x, y, z>> \o t, Done)
    BY <1>2, <1>3, EndGroup DEF x, Told
  <2>2. Closed(g) = <<y, z>>
    BY DEF Closed
  <2>3. y \in Call /\ z \in Call
    BY <1>4
  <2>. HIDE DEF y, z
  <2>4. <<x>> \o <<y, z>> = <<x, y, z>>
    BY <1>4, <2>3, Lists
  <2>5. Continue(a, <<x>> \o <<y, z>>)
    BY <1>6, <2>2 DEF GroupFinish, g, x
  <2>. QED
    BY <2>1, <2>4, <2>5, KeptContinue DEF t
<1>. QED
  BY <1>5, <1>6

LEMMA CancelledKept ==
  ASSUME TypeOK, Stacks, NEW a \in Actor,
         ParallelCancel(a) \/ SequentialCancel(a) \/ CompletionCancel(a)
  PROVE  Kept(a)
<1>. DEFINE t == Tail(calls[a])
            g == Top(a).obj
<1>1. calls[a] # <<>> /\ Top(a).fn = "propagate_cancel"
  BY DEF ParallelCancel, SequentialCancel, CompletionCancel, At
<1>2. t \in Seq(Call) /\ Stack(t, Done) /\ g \in Comp \cup {Root}
  BY <1>1, Running
<1>3. Bottom(t) /\ (g \in Comp => AllReady(g, Done))
  BY <1>1, Hearing DEF Told
<1>4. Continue(a, <<>>) => Kept(a)
  BY <1>1, KeptReturn
<1>. HIDE DEF t
<1>5. CASE ParallelCancel(a)
  <2>1. g \in Comp
    BY <1>2, <1>5 DEF ParallelCancel
  <2>2. Lawful(Cancelled(g) \o t, Done) /\ Lawful(Closed(g) \o t, Done)
    BY <1>2, <1>3, <2>1, ClosingLawful
  <2>3. Continue(a, Cancelled(g)) \/ Continue(a, Closed(g)) \/ Continue(a, <<>>)
    BY <1>5 DEF ParallelCancel
  <2>. QED
    BY <1>4, <2>2, <2>3, KeptContinue DEF t
<1>6. CASE SequentialCancel(a)
  <2>1. g \in Comp
    BY <1>2, <1>6 DEF SequentialCancel
  <2>2. Lawful(<<Do("cancel_subtasks", g, None), Set(g, "COMPLETED"),
                 Do("propagate_cancel", Parent[g], g)>> \o t, Done)
    BY <1>2, <1>3, <2>1, EndGroup DEF Told
  <2>3. Continue(a, <<Do("cancel_subtasks", g, None), Set(g, "COMPLETED"),
                      Do("propagate_cancel", Parent[g], g)>>)
    BY <1>6 DEF SequentialCancel
  <2>. QED
    BY <2>2, <2>3, KeptContinue DEF t
<1>7. CASE CompletionCancel(a)
  <2>1. Continue(a, <<>>) \/ Continue(a, <<Do("end_completion", Completion, None)>>)
    BY <1>7 DEF CompletionCancel
  <2>. QED
    BY <1>2, <1>3, <1>4, <2>1, EndCall, KeptContinue DEF t
<1>. QED
  BY <1>5, <1>6, <1>7

LEMMA EndCompletionKept ==
  ASSUME TypeOK, Stacks, NEW a \in Actor, EndCompletion(a)
  PROVE  Kept(a)
<1>. DEFINE t == Tail(calls[a])
<1>1. calls[a] # <<>> /\ Top(a).fn = "end_completion"
  BY DEF EndCompletion, At
<1>2. t \in Seq(Call) /\ Stack(t, Done) /\ Fits(Top(a), t, Done)
  BY <1>1, Running
<1>3. Bottom(t)
  BY <1>1, <1>2, TailBottom DEF Tails
<1>4. Lawful(Closed(Completion) \o t, Done) /\ Lawful(Cancelled(Completion) \o t, Done)
  BY <1>2, <1>3, ClosingLawful, CompletionReady, TreeAssumption
<1>5. Continue(a, Closed(Completion)) \/ Continue(a, Cancelled(Completion))
  BY DEF EndCompletion
<1>. QED
  BY <1>4, <1>5, KeptContinue

LEMMA RefuseKept ==
  ASSUME TypeOK, Stacks, NEW a \in Actor, GroupRefuse(a)
  PROVE  Kept(a)
<1>. DEFINE t == Tail(calls[a])
            g == Top(a).obj
<1>1. calls[a] # <<>> /\ Top(a).fn = "propagate_refuse"
  BY DEF GroupRefuse, At
<1>2. t \in Seq(Call) /\ Stack(t, Done) /\ Fits(Top(a), t, Done) /\ g \in Comp
  BY <1>1, Running DEF GroupRefuse
<1>3. Bottom(t)
  BY <1>1, <1>2, TailBottom DEF Tails
<1>4. Lawful(<<Set(g, "REJECTED"), Do("cancel_subtasks", g, None),
               Do("propagate_refuse", Parent[g], g)>> \o t, Done)
  BY <1>2, <1>3, EndGroup
<1>5. Continue(a, <<Set(g, "REJECTED"), Do("cancel_subtasks", g, None),
                    Do("propagate_refuse", Parent[g], g)>>)
  BY DEF GroupRefuse
<1>. QED
  BY <1>4, <1>5, KeptContinue

LEMMA ComponentStepKept ==
  ASSUME TasksLast, TypeOK, Stacks, NEW a \in Actor, ComponentStep(a)
  PROVE  Kept(a)
BY ActivateTaskKept, ActivateEachKept, ActivateFirstKept, CancelTaskKept, CancelSubtasksKept,
   DoneKept, FinishKept, CancelledKept, EndCompletionKept, RefuseKept DEF ComponentStep
-----------------------------------------------------------------------------
(* The process *)

LEMMA StartKept ==
  ASSUME TypeOK, Stacks, NEW a \in Actor, ActivateProcess(a)
  PROVE  Kept(a)
<1>. DEFINE t == Tail(calls[a])
            x == Set(Root, "EXECUTION")
            y == Do("activate_tasks", Root, None)
            z == Do("except_cancelled", Root, None)
<1>1. calls[a] # <<>> /\ Top(a).fn = "activate_process"
  BY DEF ActivateProcess, At
<1>2. t \in Seq(Call) /\ Fits(Top(a), t, Done)
  BY <1>1, Running
<1>3. t = <<>>
  <2>1. \A j \in 1 .. Len(t) : FALSE
    BY <1>1, <1>2 DEF Fits, Zone
  <2>. QED
    BY <1>2, <2>1, EmptySeq
<1>4. x \in Call /\ y \in Call /\ z \in Call
  BY SetCall, DoCall, Args DEF ProcStatus, Fn, Except, JobFn, DbFn
<1>5. /\ x.fn = "set" /\ x.obj = Root /\ y.fn = "activate_tasks" /\ z.fn = "except_cancelled"
  BY DEF Set, Do
<1>6. Continue(a, <<x>>) \/ Continue(a, <<x, y, z>>)
  BY DEF ActivateProcess
<1>. HIDE DEF t, x, y, z
<1>7. Good(x, Done) /\ Good(y, Done) /\ Good(z, Done)
  BY <1>5 DEF Good, Told
<1>8. Stack(t, Done) /\ Calm(t, Done) /\ Len(t) = 0
  BY <1>3, NoCalls
<1>9. Zone(x, y) /\ Zone(x, z) /\ Zone(y, z)
  BY <1>5 DEF Zone, Tails, Told
<1>10. Fits(x, t, Done) /\ Fits(z, t, Done)
  BY <1>7, <1>8 DEF Fits
<1>11. Over(x, y, Done) /\ Over(y, z, Done) /\ Trip(x, y, z, Done)
  BY <1>5 DEF Over, Catcher, Jump, Told, Trip, Closes
<1>12. Lawful(<<x>> \o t, Done)
  BY <1>2, <1>4, <1>5, <1>8, <1>10, PlainDue, Push1 DEF Told
<1>13. Above(y, z, t, Done)
  BY <1>7, <1>8, <1>9, <1>11 DEF Above, Zones
<1>14. Zones(x, t) /\ x.fn \notin Told \cup {"raise"}
  BY <1>5, <1>8 DEF Zones, Told
<1>15. Lawful(<<x, y, z>> \o t, Done)
  BY <1>2, <1>4, <1>7, <1>8, <1>9, <1>10, <1>11, <1>13, <1>14, Push3
<1>. QED
  BY <1>6, <1>12, <1>15, KeptContinue DEF t

LEMMA ActivateTasksKept ==
  ASSUME TypeOK, Stacks, NEW a \in Actor, ActivateTasks(a)
  PROVE  Kept(a)
<1>. DEFINE t == Tail(calls[a])
            x == Do("end_process", Root, "COMPLETED")
            y == Do("activate_task", First(Root), None)
<1>1. calls[a] # <<>> /\ Top(a).fn = "activate_tasks"
  BY DEF ActivateTasks, At
<1>2. t \in Seq(Call) /\ Stack(t, Done) /\ Fits(Top(a), t, Done)
  BY <1>1, Running
<1>. HIDE DEF t
<1>3. CASE Components(Root) = {}
  <2>1. x \in Call /\ x.fn = "end_process" /\ x.arg = "COMPLETED"
    BY DoCall, Args DEF ProcStatus, Fn, JobFn, DbFn, Do
  <2>2. Continue(a, <<x>>)
    BY <1>3 DEF ActivateTasks
  <2>. HIDE DEF x
  <2>3. Good(x, Done)
    BY <2>1 DEF Good, Told
  <2>4. Calm(t, Done)
    BY <1>1, <1>2, QuietCalm
  <2>. QED
    BY <1>1, <2>1, <2>2, <2>3, <2>4, KeptPlain DEF Placed, Tails, Told, t
<1>4. CASE Components(Root) # {}
  <2>1. First(Root) \in Comp
    <3>1. Components(Root) \in SUBSET Comp
      BY DEF Components
    <3>. QED
      BY <1>4, <3>1, LeastIn DEF First
  <2>2. AllReady(First(Root), Done)
    BY <2>1, FirstReady, TreeAssumption
  <2>3. y \in Call /\ y.fn = "activate_task" /\ y.obj = First(Root)
    BY <2>1, DoCall, Args DEF Fn, JobFn, DbFn, Do
  <2>4. Continue(a, <<y>>)
    BY <1>4 DEF ActivateTasks
  <2>. HIDE DEF y
  <2>5. Good(y, Done)
    BY <2>2, <2>3 DEF Good, Told
  <2>6. Zones(y, t)
    BY <2>3, FreeZones DEF Tails, Told
  <2>7. Len(t) >= 1 => t[1].fn \in Catcher \ Jump
    BY <1>1, <1>2 DEF Fits, Over
  <2>8. Len(t) >= 1 => Over(y, t[1], Done)
    BY <2>3, <2>7 DEF Over, Catcher, Told
  <2>9. Len(t) >= 2 => Trip(y, t[1], t[2], Done)
    BY <2>7 DEF Trip, Closes, Catcher
  <2>10. Fits(y, t, Done) /\ Due(y, t, Done)
    BY <2>3, <2>5, <2>6, <2>8, <2>9, PlainDue DEF Fits, Zones, Told
  <2>. QED
    BY <1>2, <2>3, <2>4, <2>10, Push1, KeptContinue DEF t
<1>. QED
  BY <1>3, <1>4

LEMMA NextStepKept ==
  ASSUME TypeOK, Stacks, NEW a \in Actor, ProcessDone(a) \/ ActivateNext(a)
  PROVE  Kept(a)
<1>. DEFINE t == Tail(calls[a])
            c == Top(a).arg
<1>1. calls[a] # <<>> /\ Top(a).fn \in {"propagate_done", "activate_next"}
  BY DEF ProcessDone, ActivateNext, At
<1>2. t \in Seq(Call) /\ Stack(t, Done) /\ Fits(Top(a), t, Done) /\ c \in Arg
  BY <1>1, Running
<1>3. Calm(t, Done)
  BY <1>1, <1>2, QuietCalm
<1>. HIDE DEF t
<1>4. CASE ProcessDone(a)
  <2>. DEFINE x == Do("activate_next", Root, NextComp(c))
              y == Do("except_cancelled", Root, None)
  <2>1. Top(a).fn = "propagate_done" /\ Top(a).obj = Root
    BY <1>4 DEF ProcessDone, At
  <2>2. Bottom(t) /\ c \in Comp /\ Parent[c] = Root /\ Passed(c, Done)
    BY <1>1, <2>1, Hearing DEF Told, t
  <2>3. NextComp(c) \in Comp => NextComp(c) \in Components(Root) /\ AllReady(NextComp(c), Done)
    BY <2>2, NextAtTop, NextReady
  <2>4. /\ x \in Call /\ x.fn = "activate_next" /\ x.arg = NextComp(c)
        /\ y \in Call /\ y.fn = "except_cancelled"
    BY DoCall, Args DEF NextComp, Arg, Fn, Except, JobFn, DbFn, Do
  <2>5. Continue(a, <<x, y>>)
    BY <1>4 DEF ProcessDone
  <2>. HIDE DEF x, y, c
  <2>6. Good(x, Done) /\ Good(y, Done)
    BY <2>3, <2>4 DEF Good, Told
  <2>7. Fits(y, t, Done)
    BY <1>2, <2>2, <2>4, <2>6, LastFits DEF Tails
  <2>. QED
    BY <1>1, <1>3, <2>4, <2>5, <2>6, <2>7, KeptPlain DEF Placed, Tails, Told, Jump, t
<1>5. CASE ActivateNext(a) /\ c \in Comp
  <2>. DEFINE y == Do("except_next", Root, c)
  <2>1. Top(a).fn = "activate_next"
    BY <1>5 DEF ActivateNext, At
  <2>2. c \in Components(Root) /\ AllReady(c, Done)
    BY <1>2, <1>5, <2>1 DEF Fits, Good
  <2>3. y \in Call /\ y.fn = "except_next" /\ y.arg = c
    BY <1>2, DoCall DEF Fn, Except, JobFn, DbFn, Do
  <2>4. Continue(a, <<Do("activate_task", c, None), y>>)
    BY <1>5 DEF ActivateNext
  <2>. HIDE DEF y, c
  <2>5. Good(y, Done)
    BY <2>2, <2>3 DEF Good, Told
  <2>6. Fits(y, t, Done)
    BY <1>2, <1>3, <2>3, <2>5, Plain DEF Placed, Tails, Told
  <2>7. Lawful(<<Do("activate_task", c, None), y>> \o t, Done)
    BY <1>2, <1>5, <2>2, <2>3, <2>6, Tried DEF Catcher
  <2>. QED
    BY <2>4, <2>7, KeptContinue DEF t
<1>6. CASE ActivateNext(a) /\ c \notin Comp
  <2>. DEFINE x == Do("end_process", Root, "COMPLETED")
  <2>1. x \in Call /\ x.fn = "end_process" /\ x.arg = "COMPLETED"
    BY DoCall, Args DEF ProcStatus, Fn, JobFn, DbFn, Do
  <2>2. Continue(a, <<x>>)
    BY <1>6 DEF ActivateNext
  <2>. HIDE DEF x
  <2>3. Good(x, Done)
    BY <2>1 DEF Good, Told
  <2>. QED
    BY <1>1, <1>3, <2>1, <2>2, <2>3, KeptPlain DEF Placed, Tails, Told, t
<1>. QED
  BY <1>4, <1>5, <1>6

\* cancel_subtasks of the process, then a call that says how the process ends
LEMMA CancelAndEnd ==
  ASSUME TypeOK, Stacks, NEW a \in Actor, calls[a] # <<>>, Calm(Tail(calls[a]), Done),
         NEW s \in {"COMPLETED", "FAILED"},
         Continue(a, <<Do("cancel_subtasks", Root, None), Do("end_process", Root, s)>>)
  PROVE  Kept(a)
<1>. DEFINE t == Tail(calls[a])
            y == Do("end_process", Root, s)
<1>1. t \in Seq(Call) /\ Stack(t, Done)
  BY Running
<1>2. y \in Call /\ y.fn = "end_process" /\ y.arg = s
  BY DoCall, Args DEF ProcStatus, Fn, JobFn, DbFn, Do
<1>3. Continue(a, <<Do("cancel_subtasks", Root, None), y>>)
  OBVIOUS
<1>. HIDE DEF t, y
<1>4. Good(y, Done)
  BY <1>2 DEF Good, Told
<1>5. Fits(y, t, Done)
  BY <1>1, <1>2, <1>4, Plain DEF Placed, Tails, Told, t
<1>6. Lawful(<<Do("cancel_subtasks", Root, None), y>> \o t, Done)
  BY <1>1, <1>2, <1>5, CancelFirst DEF Told, Jump
<1>. QED
  BY <1>3, <1>6, KeptContinue DEF t

LEMMA EndStepKept ==
  ASSUME TypeOK, Stacks, NEW a \in Actor, ProcessFinish(a) \/ ProcessCancel(a) \/ CancelProcess(a)
  PROVE  Kept(a)
<1>. DEFINE t == Tail(calls[a])
<1>1. /\ calls[a] # <<>>
      /\ Top(a).fn \in {"cancel_subtasks_and_close", "propagate_finish", "propagate_cancel",
                        "cancel_process", "propagate_refuse"}
  BY DEF ProcessFinish, ProcessCancel, CancelProcess, At
<1>2. t \in Seq(Call) /\ Stack(t, Done) /\ Fits(Top(a), t, Done)
  BY <1>1, Running
<1>3. Calm(t, Done)
  BY <1>1, <1>2, QuietCalm
<1>4. CASE ProcessFinish(a)
  BY <1>1, <1>3, <1>4, CancelAndEnd DEF ProcessFinish
<1>5. CASE CancelProcess(a)
  BY <1>1, <1>3, <1>5, CancelAndEnd DEF CancelProcess
<1>6. CASE ProcessCancel(a)
  <2>. DEFINE c == Top(a).arg
              x == Do("propagate_done", Root, c)
              y == Do("cancel_process", Root, None)
  <2>1. Top(a).fn = "propagate_cancel" /\ Top(a).obj = Root
    BY <1>6 DEF ProcessCancel, At
  <2>2. Bottom(t) /\ c \in Comp /\ Parent[c] = Root /\ Passed(c, Done)
    BY <1>1, <2>1, Hearing DEF Told
  <2>3. /\ x \in Call /\ x.fn = "propagate_done" /\ x.obj = Root /\ x.arg = c
        /\ y \in Call /\ y.fn = "cancel_process"
    BY <2>2, DoCall, Args DEF Fn, JobFn, DbFn, Do
  <2>4. Continue(a, <<x>>) \/ Continue(a, <<y>>)
    BY <1>6 DEF ProcessCancel
  <2>. HIDE DEF t, c, x, y
  <2>5. Good(x, Done) /\ Good(y, Done)
    BY <2>2, <2>3 DEF Good, Told
  <2>6. Fits(x, t, Done)
    BY <1>2, <2>2, <2>3, <2>5, LastFits DEF Tails, Told
  <2>7. Due(x, t, Done)
    BY <2>2, <2>3 DEF Due, Closes
  <2>8. Lawful(<<x>> \o t, Done)
    BY <1>2, <2>3, <2>6, <2>7, Push1
  <2>9. Continue(a, <<x>>) => Kept(a)
    BY <2>8, KeptContinue DEF t
  <2>10. Continue(a, <<y>>) => Kept(a)
    BY <1>1, <1>3, <2>3, <2>5, KeptPlain DEF Placed, Tails, Told, t
  <2>. QED
    BY <2>4, <2>9, <2>10
<1>. QED
  BY <1>4, <1>5, <1>6

LEMMA DismissKept ==
  ASSUME TypeOK, Stacks, NEW a \in Actor, DismissProcess(a) \/ DismissCompletion(a)
  PROVE  Kept(a)
<1>. DEFINE t == Tail(calls[a])
<1>1. calls[a] # <<>> /\ Top(a).fn \in {"dismiss_process", "dismiss_completion"}
  BY DEF DismissProcess, DismissCompletion, At
<1>2. t \in Seq(Call) /\ Stack(t, Done) /\ Fits(Top(a), t, Done)
  BY <1>1, Running
<1>3. Calm(t, Done)
  BY <1>1, <1>2, QuietCalm
<1>. HIDE DEF t
<1>4. CASE DismissProcess(a)
  <2>. DEFINE x == Do("cancel_subtasks", Root, None)
              y == Do("dismiss_completion", Root, None)
              z == Set(Root, "DISCARDED")
  <2>1. y \in Call /\ z \in Call
    BY DoCall, SetCall, Args DEF ProcStatus, Fn, JobFn, DbFn
  <2>2. y.fn = "dismiss_completion" /\ z.fn = "set" /\ z.obj = Root /\ z.arg = "DISCARDED"
    BY DEF Do, Set
  <2>3. Continue(a, <<x, y, z>>)
    BY <1>4 DEF DismissProcess
  <2>. HIDE DEF y, z
  <2>4. Good(y, Done) /\ Good(z, Done)
    BY <2>2 DEF Good, Told
  <2>5. Fits(z, t, Done)
    BY <1>2, <1>3, <2>1, <2>2, <2>4, Plain DEF Placed, Tails, Told
  <2>6. Zone(y, z) /\ Zones(y, t)
    BY <2>2, FreeZone, FreeZones DEF Tails, Told
  <2>7. Above(y, z, t, Done)
    BY <2>2, <2>4, <2>6, PlainAbove DEF Placed, Told, Jump
  <2>8. Lawful(<<x, y, z>> \o t, Done)
    BY <1>2, <2>1, <2>2, <2>5, <2>7, CancelFirst DEF Told, Jump
  <2>. QED
    BY <2>3, <2>8, KeptContinue DEF t
<1>5. CASE DismissCompletion(a)
  <2>. DEFINE x == Do("cancel_task", Completion, None)
  <2>1. x \in Call /\ x.fn = "cancel_task" /\ x.obj \in Comp
    BY TreeAssumption, DoCall, Args DEF Fn, JobFn, DbFn, Do
  <2>2. Continue(a, <<x>>) \/ Continue(a, <<>>)
    BY <1>5 DEF DismissCompletion
  <2>. HIDE DEF x
  <2>3. Good(x, Done)
    BY <2>1 DEF Good, Told
  <2>4. Continue(a, <<x>>) => Kept(a)
    BY <1>1, <1>3, <2>1, <2>3, KeptPlain DEF Placed, Tails, Told, t
  <2>. QED
    BY <1>1, <2>2, <2>4, KeptReturn
<1>. QED
  BY <1>4, <1>5

LEMMA EndProcessKept ==
  ASSUME TypeOK, Stacks, NEW a \in Actor, EndProcess(a)
  PROVE  Kept(a)
<1>. DEFINE t == Tail(calls[a])
            s == Top(a).arg
            x == Set(Root, s)
            y == Do("except_end", Root, s)
<1>1. calls[a] # <<>> /\ Top(a).fn = "end_process"
  BY DEF EndProcess, At
<1>2. t \in Seq(Call) /\ Stack(t, Done) /\ Fits(Top(a), t, Done) /\ s \in Arg
  BY <1>1, Running
<1>3. Calm(t, Done)
  BY <1>1, <1>2, QuietCalm
<1>4. s # "EXECUTION"
  BY <1>1, <1>2 DEF Fits, Good
<1>5. x \in Call /\ y \in Call
  BY <1>2, DoCall, SetCall DEF Fn, Except, JobFn, DbFn
<1>6. /\ x.fn = "set" /\ x.obj = Root /\ x.arg = s /\ y.fn = "except_end" /\ y.arg = s
  BY DEF Do, Set
<1>7. Continue(a, <<x>>) \/ Continue(a, <<Do("activate_task", Completion, None), y>>)
  BY DEF EndProcess
<1>. HIDE DEF t, s, x, y
<1>8. Good(x, Done) /\ Good(y, Done)
  BY <1>4, <1>6 DEF Good, Told
<1>9. Continue(a, <<x>>) => Kept(a)
  BY <1>1, <1>3, <1>4, <1>5, <1>6, <1>8, KeptPlain DEF Placed, Tails, Told, t
<1>10. Fits(y, t, Done)
  BY <1>2, <1>3, <1>5, <1>6, <1>8, Plain DEF Placed, Tails, Told
<1>11. Lawful(<<Do("activate_task", Completion, None), y>> \o t, Done)
  BY <1>2, <1>5, <1>6, <1>10, CompletionReady, TreeAssumption, Tried DEF Catcher, Jump
<1>. QED
  BY <1>7, <1>9, <1>11, KeptContinue DEF t

LEMMA ProcessStepKept ==
  ASSUME TypeOK, Stacks, NEW a \in Actor, ProcessStep(a)
  PROVE  Kept(a)
BY StartKept, ActivateTasksKept, NextStepKept, EndStepKept, DismissKept, EndProcessKept
   DEF ProcessStep
-----------------------------------------------------------------------------
(* Jobs, exceptions and the operations that begin *)

LEMMA RunJobKept ==
  ASSUME TasksLast, "completed" \notin Outcomes, TypeOK, Stacks, NEW a \in Actor, RunJob(a)
  PROVE  Kept(a)
<1>. DEFINE t == Tail(calls[a])
            c == Top(a).obj
            x == Do("cancel_task", c, None)
            y == Set(Root, "PAUSED")
            z == Do("cancel_process", Root, None)
<1>1. calls[a] # <<>> /\ Top(a).fn = "run_job"
  BY DEF RunJob, At
<1>2. /\ t \in Seq(Call) /\ Stack(t, Done) /\ Fits(Top(a), t, Done) /\ c \in Comp
  BY <1>1, Running, TopCall DEF JobFn, System
<1>3. Bottom(t) /\ Calm(t, Done)
  BY <1>1, <1>2, TailBottom, BottomCalm DEF Tails
<1>4. x \in Call /\ y \in Call /\ z \in Call
  BY <1>2, DoCall, SetCall, Args DEF ProcStatus, Fn, JobFn, DbFn
<1>5. /\ x.fn = "cancel_task" /\ x.obj = c
      /\ y.fn = "set" /\ y.obj = Root /\ y.arg = "PAUSED" /\ z.fn = "cancel_process"
  BY DEF Do, Set
<1>6. \/ Continue(a, Closing(c, FALSE)) \/ Continue(a, Refusing(c))
      \/ Continue(a, <<x>>) \/ Continue(a, <<y>>) \/ Continue(a, <<z>>)
      \/ Throw(a, "ElementsError") \/ Continue(a, <<>>)
  BY DEF RunJob
<1>. HIDE DEF t, c, x, y, z
<1>7. Good(x, Done) /\ Good(y, Done) /\ Good(z, Done)
  BY <1>2, <1>5 DEF Good, Told
<1>8. Continue(a, Closing(c, FALSE)) \/ Continue(a, Refusing(c)) => Kept(a)
  BY <1>2, <1>3, ClosingLawful, KeptContinue DEF t
<1>9. Continue(a, <<x>>) => Kept(a)
  BY <1>1, <1>3, <1>4, <1>5, <1>7, KeptPlain DEF Placed, Tails, Told, t
<1>10. Continue(a, <<y>>) => Kept(a)
  BY <1>1, <1>3, <1>4, <1>5, <1>7, KeptPlain DEF Placed, Tails, Told, t
<1>11. Continue(a, <<z>>) => Kept(a)
  BY <1>1, <1>3, <1>4, <1>5, <1>7, KeptPlain DEF Placed, Tails, Told, t
<1>12. Throw(a, "ElementsError") => Kept(a)
  BY <1>1, KeptThrow DEF Heard
<1>13. Continue(a, <<>>) => Kept(a)
  BY <1>1, KeptReturn
<1>. QED
  BY <1>6, <1>8, <1>9, <1>10, <1>11, <1>12, <1>13

LEMMA JobStepKept ==
  ASSUME TasksLast, "completed" \notin Outcomes, TypeOK, Stacks, NEW a \in Actor, JobStep(a)
  PROVE  Kept(a)
<1>1. CASE RunJob(a)
  BY <1>1, RunJobKept
<1>2. CASE FailJob(a)
  BY <1>2, KeptReturn DEF FailJob, At
<1>3. CASE DbComplete(a) \/ DbDiscard(a) \/ DbDiscardEach(a)
  <2>1. calls[a] # <<>> /\ Top(a).fn \in DbFn
    BY <1>3 DEF DbComplete, DbDiscard, DbDiscardEach, At, DbFn
  <2>. QED
    BY <2>1, TopCall
<1>. QED
  BY <1>1, <1>2, <1>3 DEF JobStep

LEMMA ExceptionKept ==
  ASSUME TasksLast, TypeOK, Stacks, NEW a \in Actor,
         LeaveTry(a) \/ RaiseAgain(a) \/ RefuseState(a) \/ FailState(a) \/ Crash(a)
  PROVE  Kept(a)
<1>1. CASE LeaveTry(a)
  BY <1>1, KeptReturn DEF LeaveTry, Except
<1>2. CASE RaiseAgain(a)
  <2>. DEFINE t == Tail(calls[a])
              e == Top(a).arg
  <2>1. calls[a] # <<>> /\ Top(a).fn = "raise" /\ Throw(a, e)
    BY <1>2 DEF RaiseAgain, At
  <2>2. Fits(Top(a), t, Done) /\ Due(Top(a), t, Done)
    BY <2>1, Running
  <2>3. Heard(t, e, Done)
    BY <2>1, <2>2 DEF Heard, Fits, Over, Due, Closes
  <2>. QED
    BY <2>1, <2>3, KeptThrow
<1>3. CASE RefuseState(a) \/ FailState(a)
  <2>1. calls[a] # <<>> /\ Throw(a, "ElementsError")
    BY <1>3 DEF RefuseState, FailState, At
  <2>. QED
    BY <2>1, KeptThrow DEF Heard
<1>4. CASE Crash(a)
  <2>1. calls'[a] = <<>> /\ \A b \in Actor \ {a} : calls'[b] = calls[b]
    BY <1>4 DEF Crash, TypeOK
  <2>. QED
    BY <2>1, NoCalls DEF Kept
<1>. QED
  BY <1>1, <1>2, <1>3, <1>4

\* A call that begins an operation
LEMMA FirstCall ==
  ASSUME NEW D, NEW x \in Call, Good(x, D), x.fn \notin Told \cup {"raise"}
  PROVE  Lawful(<<x>>, D)
<1>. DEFINE n == <<>>
<1>1. n \in Seq(Call) /\ Stack(n, D) /\ <<x>> \o n = <<x>> /\ Len(n) = 0
  BY NoCalls
<1>. HIDE DEF n
<1>2. Fits(x, n, D)
  BY <1>1 DEF Fits
<1>3. Lawful(<<x>> \o n, D)
  BY <1>1, <1>2, PlainDue, Push1
<1>. QED
  BY <1>1, <1>3

LEMMA ProcessOperationKept ==
  ASSUME TypeOK, NEW a \in Actor, ProcessOperation(a)
  PROVE  Kept(a)
<1>1. \A fn \in {"activate_process", "cancel_process", "dismiss_process"} :
        Lawful(<<Do(fn, Root, None)>>, Done)
  <2>1. ASSUME NEW fn \in {"activate_process", "cancel_process", "dismiss_process"}
        PROVE  Lawful(<<Do(fn, Root, None)>>, Done)
    <3>. DEFINE x == Do(fn, Root, None)
    <3>1. x \in Call /\ x.fn = fn
      BY DoCall, Args DEF Fn, JobFn, DbFn, Do
    <3>. HIDE DEF x
    <3>2. Good(x, Done)
      BY <3>1 DEF Good, Told
    <3>3. Lawful(<<x>>, Done)
      BY <3>1, <3>2, FirstCall DEF Told
    <3>. QED
      BY <3>3 DEF x
  <2>. QED
    BY <2>1
<1>2. Lawful(<<Set(Root, "PAUSED")>>, Done)
  <2>. DEFINE x == Set(Root, "PAUSED")
  <2>1. x \in Call /\ x.fn = "set" /\ x.arg = "PAUSED"
    BY SetCall, Args DEF ProcStatus, Set, Do
  <2>. HIDE DEF x
  <2>2. Good(x, Done)
    BY <2>1 DEF Good, Told
  <2>3. Lawful(<<x>>, Done)
    BY <2>1, <2>2, FirstCall DEF Told
  <2>. QED
    BY <2>3 DEF x
<1>3. \E s : Begin(a, s) /\ Lawful(s, Done)
  BY <1>1, <1>2 DEF ProcessOperation, op_activate_process, op_onhold_process, op_cancel_process,
     op_dismiss_process
<1>. QED
  BY <1>3, Begun DEF Kept

\* Closing or refusing a task
LEMMA FirstClosing ==
  ASSUME NEW D, NEW c \in Comp
  PROVE  /\ \A forwarded \in BOOLEAN : Lawful(Closing(c, forwarded), D)
         /\ Lawful(Refusing(c), D)
<1>. DEFINE n == <<>>
<1>1. n \in Seq(Call) /\ Stack(n, D) /\ Bottom(n) /\ \A s \in Seq(Call) : s \o n = s
  BY NoCalls, ConcatEmptySeq
<1>2. /\ \A forwarded \in BOOLEAN : Closing(c, forwarded) \in Seq(Call)
      /\ Refusing(c) \in Seq(Call)
  BY ClosingCalls, RefusingCalls
<1>. HIDE DEF n
<1>3. /\ \A forwarded \in BOOLEAN : Lawful(Closing(c, forwarded) \o n, D)
      /\ Lawful(Refusing(c) \o n, D)
  BY <1>1, ClosingLawful
<1>. QED
  BY <1>1, <1>2, <1>3

LEMMA TaskOperationKept ==
  ASSUME TypeOK, NEW a \in Actor, NEW c \in Task, TaskOperation(a, c)
  PROVE  Kept(a)
<1>1. c \in Comp
  BY DEF Task
<1>2. \E s : Begin(a, s) /\ Lawful(s, Done)
  BY <1>1, FirstClosing DEF TaskOperation, op_close_task, op_forward_task, op_refuse_task
<1>. QED
  BY <1>2, Begun DEF Kept

\* The job of a worker: its calls and the queue's last resort
LEMMA FirstJob ==
  ASSUME NEW D, NEW c \in System
  PROVE  /\ Lawful(<<Set(Root, "PAUSED"), Do("except_mq", c, None)>>, D)
         /\ Lawful(<<Do("run_job", c, None), Do("except_job", c, None),
                     Do("except_mq", c, None)>>, D)
         /\ Lawful(<<Do("cancel_task", c, None)>>, D)
<1>. DEFINE n == <<>>
            p == Set(Root, "PAUSED")
            x == Do("run_job", c, None)
            y == Do("except_job", c, None)
            z == Do("except_mq", c, None)
            k == Do("cancel_task", c, None)
<1>1. /\ n \in Seq(Call) /\ Stack(n, D) /\ Bottom(n) /\ Calm(n, D) /\ Len(n) = 0
      /\ \A s \in Seq(Call) : s \o n = s
  BY NoCalls, ConcatEmptySeq
<1>2. x \in Call /\ y \in Call /\ z \in Call
  BY JobCall DEF JobFn
<1>3. p \in Call /\ k \in Call /\ c \in Comp
  BY DoCall, SetCall, Args DEF System, ProcStatus, Fn, JobFn, DbFn
<1>4. /\ p.fn = "set" /\ p.obj = Root /\ p.arg = "PAUSED" /\ x.fn = "run_job"
      /\ y.fn = "except_job" /\ z.fn = "except_mq" /\ k.fn = "cancel_task" /\ k.obj = c
  BY DEF Do, Set
<1>. HIDE DEF n, p, x, y, z, k
<1>5. Good(p, D) /\ Good(x, D) /\ Good(y, D) /\ Good(z, D) /\ Good(k, D)
  BY <1>3, <1>4 DEF Good, Told
<1>6. Fits(z, n, D)
  BY <1>1, <1>5 DEF Fits
<1>7. Zone(p, z) /\ Zone(x, y) /\ Zone(x, z) /\ Zone(y, z)
  BY <1>4 DEF Zone, Tails, Told, Worked
<1>8. Above(p, z, n, D) /\ Above(y, z, n, D) /\ Zones(x, n)
  <2>1. Zones(p, n) /\ Zones(y, n) /\ Zones(x, n)
    BY <1>1 DEF Zones
  <2>2. p.fn \notin Placed /\ y.fn \notin Placed /\ z.fn \notin Told \cup Jump \cup {"raise"}
    BY <1>4 DEF Placed, Told, Jump
  <2>. QED
    BY <1>5, <1>7, <2>1, <2>2, PlainAbove
<1>9. Over(x, y, D) /\ Trip(x, y, z, D)
  BY <1>4 DEF Over, Trip, Closes, Told, Jump
<1>10. Lawful(<<p, z>> \o n, D)
  BY <1>1, <1>2, <1>3, <1>4, <1>6, <1>8, Push2 DEF Told
<1>11. Lawful(<<x, y, z>> \o n, D)
  BY <1>1, <1>2, <1>4, <1>5, <1>6, <1>7, <1>8, <1>9, Push3 DEF Told
<1>12. <<p, z>> \o n = <<p, z>> /\ <<x, y, z>> \o n = <<x, y, z>>
  BY <1>1, <1>2, <1>3, Tuples
<1>13. Lawful(<<k>>, D)
  BY <1>3, <1>4, <1>5, FirstCall DEF Told
<1>. QED
  BY <1>10, <1>11, <1>12, <1>13 DEF p, x, y, z, k

LEMMA QueueKept ==
  ASSUME TypeOK, Stacks, NEW a \in Actor, NEW c \in System, TakeJob(a, c) \/ Callback(a, c)
  PROVE  Kept(a)
<1>1. c \in Comp
  BY DEF System
<1>2. UNCHANGED calls \/ \E s : Begin(a, s) /\ Lawful(s, Done)
  BY <1>1, FirstJob, FirstClosing
     DEF TakeJob, Callback, convert_files_done, convert_files_failed
<1>3. UNCHANGED calls => Kept(a)
  BY DEF Kept, Stacks
<1>. QED
  BY <1>2, <1>3, Begun DEF Kept
-----------------------------------------------------------------------------
(* Transitions of the life cycles *)

\* A step that leaves the statuses alone
LEMMA SameStatus ==
  ASSUME TypeOK, Stacks, InTurn, UNCHANGED status, NEW a \in Actor, Kept(a)
  PROVE  Stacks' /\ InTurn'
<1>1. Done' = Done
  BY DEF Done
<1>2. \A b \in Actor : Lawful(calls'[b], Done)
  BY DEF Kept, Stacks
<1>3. Stacks'
  BY <1>1, <1>2 DEF Stacks
<1>4. InTurn'
  BY <1>1 DEF InTurn
<1>. QED
  BY <1>3, <1>4

\* The transition was made: what remains may go on.
LEMMA SetReturn ==
  ASSUME NEW D, NEW s \in Seq(Call), Stack(s, D), NEW f, Fits(f, s, D), f.fn = "set",
         \A c \in Comp : Ends(f, c, D) => Passed(c, D)
  PROVE  Lawful(s, D)
<1>1. CASE s = <<>>
  BY <1>1, NoCalls
<1>2. CASE s # <<>>
  <2>1. Len(s) >= 1 /\ Head(s) = s[1] /\ 1 \in 1 .. Len(s)
    BY <1>2, EmptySeq
  <2>2. s[1].fn \in Told => Passed(s[1].arg, D)
    <3>1. Good(s[1], D)
      BY <2>1 DEF Stack
    <3>. QED
      BY <2>1, <3>1 DEF Fits, Over, Good
  <2>3. Len(Tail(s)) = Len(s) - 1 /\ Len(Tail(s)) \in Nat
    BY <1>2
  <2>4. Len(Tail(s)) >= 1 => Len(s) >= 2 /\ Tail(s)[1] = s[2]
    BY <1>2, <2>3
  <2>5. Len(s) >= 2 => Trip(f, s[1], s[2], D) /\ Good(s[2], D)
    BY DEF Fits, Stack
  <2>6. Len(Tail(s)) >= 1 /\ Closes(s[1]) /\ Tail(s)[1].fn \in Jump => Tail(s)[1].arg \in D \ Task
    <3>1. ASSUME Len(Tail(s)) >= 1, Closes(s[1]), Tail(s)[1].fn \in Jump
          PROVE  Tail(s)[1].arg \in D \ Task
      <4>1. s[2].arg \in Comp
        BY <2>4, <2>5, <3>1 DEF Good, Jump, Components
      <4>2. f.obj = s[2].arg /\ f.arg = "COMPLETED" => s[2].arg \in D
        BY <4>1 DEF Ends, Passed
      <4>. QED
        BY <2>4, <2>5, <3>1, <4>2 DEF Trip
    <3>. QED
      BY <3>1
  <2>. QED
    BY <2>1, <2>2, <2>6 DEF Lawful, Due
<1>. QED
  BY <1>1, <1>2

\* A component changes its status: if it starts, it is its turn.
LEMMA SetComponentKept ==
  ASSUME TypeOK, Stacks, InTurn, NEW a \in Actor, SetComponent(a)
  PROVE  /\ Stacks' /\ InTurn'
         /\ \E c \in Comp : Ordered!Start(c) \/ Ordered!Skip(c) \/ Ordered!End(c)
<1>. DEFINE f == Top(a)
            t == Tail(calls[a])
            c == f.obj
            s == f.arg
            D == Done
            E == Done'
<1>1. /\ calls[a] # <<>> /\ f.fn = "set" /\ c \in Comp /\ <<status[c], s>> \in CompSteps
      /\ status' = [status EXCEPT ![c] = s]
      /\ Continue(a, <<>>)
  BY DEF SetComponent, At
<1>2. t \in Seq(Call) /\ Stack(t, D) /\ Fits(f, t, D)
  BY <1>1, Running
<1>3. calls'[a] = t /\ \A b \in Actor \ {a} : calls'[b] = calls[b]
  BY <1>1, <1>2, Continued, ConcatEmptySeq
<1>4. /\ status'[c] = s /\ \A d \in Comp \ {c} : status'[d] = status[d]
      /\ status[c] \notin Terminal
      /\ s \in {"EXECUTION", "COMPLETED", "REJECTED", "DISCARDED"}
      /\ s = "EXECUTION" => status[c] = "NEW"
      /\ s \in {"COMPLETED", "REJECTED"} => status[c] = "EXECUTION"
      /\ status[c] \in {"NEW", "EXECUTION"}
  BY <1>1 DEF TypeOK, CompSteps, Terminal
<1>5. E = IF s \in Terminal THEN D \cup {c} ELSE D
  BY <1>1, <1>4 DEF Done
<1>6. D \subseteq E
  BY <1>5
<1>7. s \in {"EXECUTION", "COMPLETED", "REJECTED"} => AllReady(c, D)
  <2>1. c # Root
    BY <1>1, TreeAssumption
  <2>2. s = "EXECUTION" => AllReady(c, D)
    BY <1>1, <1>2, <2>1 DEF Fits, Good
  <2>. QED
    BY <1>1, <1>4, <2>2 DEF InTurn
<1>8. \E d \in Comp : Ordered!Start(d) \/ Ordered!Skip(d) \/ Ordered!End(d)
  <2>1. CASE s = "EXECUTION"
    <3>1. Ready(c, D)
      BY <1>7, <2>1, AllReadyUp
    <3>2. \A b \in Comp : Ordered!Precedes(b, c) => status[b] \in Ordered!Terminal
      BY <3>1 DEF Ready, Done, Terminal, Ordered!Terminal
    <3>3. Ordered!Start(c)
      BY <1>1, <1>4, <2>1, <3>2 DEF Ordered!Start
    <3>. QED
      BY <1>1, <3>3
  <2>2. CASE s # "EXECUTION" /\ status[c] = "EXECUTION"
    <3>1. s \in Ordered!Terminal
      BY <1>4, <2>2 DEF Ordered!Terminal
    <3>2. Ordered!End(c)
      BY <1>1, <2>2, <3>1 DEF Ordered!End
    <3>. QED
      BY <1>1, <3>2
  <2>3. CASE s # "EXECUTION" /\ status[c] = "NEW"
    <3>1. Ordered!Skip(c)
      BY <1>1, <1>4, <2>3 DEF Ordered!Skip
    <3>. QED
      BY <1>1, <3>1
  <2>. QED
    BY <1>4, <2>1, <2>2, <2>3
<1>9. \A d \in Comp : Ends(f, d, D) \/ Ends(f, d, E) => d = c
  BY DEF Ends
<1>. HIDE DEF f, t, c, s, D, E
<1>10. Stack(t, E) /\ Fits(f, t, E)
  <2>1. Stack(t, E)
    BY <1>2, <1>6, Grows
  <2>2. Fits(f, t, E)
    BY <1>2, <1>6, Grows DEF Fits
  <2>. QED
    BY <2>1, <2>2
<1>11. \A d \in Comp : Ends(f, d, E) => Passed(d, E)
  <2>1. ASSUME Ends(f, c, E) PROVE Passed(c, E)
    <3>1. s \in Terminal
      BY <1>1, <2>1 DEF Ends, Terminal, c, s
    <3>2. AllReady(c, E)
      BY <1>1, <1>6, <1>7, <2>1, ReadyGrows DEF Ends, s
    <3>. QED
      BY <1>5, <3>1, <3>2 DEF Passed
  <2>. QED
    BY <1>9, <2>1
<1>12. Lawful(t, E)
  BY <1>1, <1>2, <1>10, <1>11, SetReturn
<1>13. \A b \in Actor \ {a} : Lawful(calls'[b], E)
  BY <1>3, <1>6, Grows DEF Stacks, D
<1>14. \A b \in Actor : Lawful(calls'[b], E)
  BY <1>3, <1>12, <1>13
<1>15. Stacks'
  BY <1>14 DEF Stacks, E
<1>16. \A d \in Comp : status'[d] \in {"EXECUTION", "COMPLETED", "REJECTED"} => AllReady(d, E)
  <2>1. ASSUME NEW d \in Comp, status'[d] \in {"EXECUTION", "COMPLETED", "REJECTED"}
        PROVE  AllReady(d, D)
    BY <1>4, <1>7, <2>1 DEF InTurn, D
  <2>. QED
    BY <1>6, <2>1, ReadyGrows
<1>17. InTurn'
  BY <1>16 DEF InTurn, E
<1>. QED
  BY <1>8, <1>15, <1>17

\* The process changes its status.
LEMMA SetProcessKept ==
  ASSUME TypeOK, Stacks, NEW a \in Actor, ResumeProcess(a) \/ LeaveProcess(a)
  PROVE  Kept(a)
<1>. DEFINE f == Top(a)
            t == Tail(calls[a])
<1>1. calls[a] # <<>> /\ f.fn = "set" /\ f.obj = Root /\ Continue(a, <<>>)
  BY DEF ResumeProcess, LeaveProcess, At
<1>2. t \in Seq(Call) /\ Stack(t, Done) /\ Fits(f, t, Done)
  BY <1>1, Running
<1>3. \A c \in Comp : ~Ends(f, c, Done)
  BY <1>1, TreeAssumption DEF Ends
<1>4. Lawful(t, Done)
  BY <1>1, <1>2, <1>3, SetReturn
<1>5. <<>> \o t = t
  BY <1>2, ConcatEmptySeq
<1>. QED
  BY <1>1, <1>4, <1>5, KeptContinue

\* The process starts: everything is new, and only activate_tasks is to come.
LEMMA StartProcessKept ==
  ASSUME TypeOK, Stacks, NEW a \in Actor, StartProcess(a),
         \A b \in Actor \ {a} : Idle(b)
  PROVE  Stacks' /\ InTurn' /\ Ordered!Reset
<1>. DEFINE f == Top(a)
            t == Tail(calls[a])
            D == Done
<1>1. /\ calls[a] # <<>> /\ f.fn = "set" /\ f.obj = Root /\ f.arg = "EXECUTION"
      /\ status' = [c \in Comp |-> "NEW"]
      /\ Continue(a, <<>>)
  BY DEF StartProcess, At
<1>2. t \in Seq(Call) /\ Stack(t, D) /\ Fits(f, t, D)
  BY <1>1, Running
<1>3. calls'[a] = t /\ \A b \in Actor \ {a} : calls'[b] = calls[b]
  BY <1>1, <1>2, Continued, ConcatEmptySeq
<1>4. \A i \in 1 .. Len(t) : t[i].fn \in {"activate_tasks", "except_cancelled"}
  BY <1>1, <1>2 DEF Fits, Zone
<1>5. Done' = {}
  BY <1>1 DEF Done, Terminal
<1>. HIDE DEF f, t, D
<1>6. Stack(t, {})
  <2>1. \A i \in 1 .. Len(t) : Good(t[i], {})
    BY <1>4 DEF Good, Told
  <2>2. \A i, j \in 1 .. Len(t) : i < j => Zone(t[i], t[j])
    BY <1>2 DEF Stack
  <2>3. \A i \in 1 .. Len(t) - 1 : Over(t[i], t[i + 1], {})
    <3>1. ASSUME NEW i \in 1 .. Len(t) - 1 PROVE Over(t[i], t[i + 1], {})
      <4>1. i \in 1 .. Len(t) /\ i + 1 \in 1 .. Len(t)
        BY <1>2
      <4>2. Over(t[i], t[i + 1], D)
        BY <1>2 DEF Stack
      <4>. QED
        BY <1>4, <4>1, <4>2 DEF Over, Told, Jump
    <3>. QED
      BY <3>1
  <2>4. \A i \in 1 .. Len(t) - 2 : Trip(t[i], t[i + 1], t[i + 2], {})
    <3>1. ASSUME NEW i \in 1 .. Len(t) - 2 PROVE Trip(t[i], t[i + 1], t[i + 2], {})
      <4>1. i + 1 \in 1 .. Len(t)
        BY <1>2
      <4>. QED
        BY <1>4, <4>1 DEF Trip, Closes
    <3>. QED
      BY <3>1
  <2>. QED
    BY <2>1, <2>2, <2>3, <2>4 DEF Stack
<1>7. t # <<>> => Due(Head(t), Tail(t), {})
  <2>1. ASSUME t # <<>> PROVE Due(Head(t), Tail(t), {})
    <3>1. Head(t) = t[1] /\ 1 \in 1 .. Len(t)
      BY <1>2, <2>1, EmptySeq
    <3>. QED
      BY <1>4, <3>1 DEF Due, Told, Closes
  <2>. QED
    BY <2>1
<1>8. Lawful(t, {})
  BY <1>6, <1>7 DEF Lawful
<1>9. \A b \in Actor : Lawful(calls'[b], {})
  BY <1>3, <1>8, NoCalls DEF Idle
<1>10. Stacks'
  BY <1>5, <1>9 DEF Stacks
<1>11. InTurn'
  BY <1>1 DEF InTurn
<1>. QED
  BY <1>1, <1>10, <1>11 DEF Ordered!Reset
-----------------------------------------------------------------------------
(* Every step *)

\* Nobody else is at work when the process leaves NEW.
Alone ==
  \A a \in Actor : StartProcess(a) => \A b \in Actor \ {a} : Idle(b)

StartsAlone == [][Alone]_vars

LEMMA InitIInv == Init => IInv
<1>. SUFFICES ASSUME Init PROVE IInv
  OBVIOUS
<1>1. TypeOK
  BY InitType
<1>2. Stacks
  BY NoCalls DEF Init, Stacks
<1>3. InTurn
  BY DEF Init, InTurn
<1>. QED
  BY <1>1, <1>2, <1>3 DEF IInv

LEMMA StepOrdered ==
  ASSUME TasksLast, "completed" \notin Outcomes, IInv, NEW a \in Actor,
         Step(a) \/ FailState(a) \/ Crash(a), Alone
  PROVE  Stacks' /\ InTurn' /\ [Ordered!Next]_status
<1>. USE DEF IInv
<1>1. CASE SetComponent(a)
  BY <1>1, SetComponentKept DEF Ordered!Next
<1>2. CASE StartProcess(a)
  BY <1>2, StartProcessKept DEF Alone, Ordered!Next
<1>3. CASE ResumeProcess(a) \/ LeaveProcess(a)
  <2>1. UNCHANGED status
    BY <1>3 DEF ResumeProcess, LeaveProcess
  <2>. QED
    BY <1>3, <2>1, SetProcessKept, SameStatus
<1>4. CASE LeaveTry(a) \/ RaiseAgain(a) \/ RefuseState(a) \/ FailState(a) \/ Crash(a)
  <2>1. UNCHANGED status
    BY <1>4, MethodFrame, FaultFrame
  <2>. QED
    BY <1>4, <2>1, ExceptionKept, SameStatus
<1>5. CASE ComponentStep(a) \/ ProcessStep(a) \/ JobStep(a)
  <2>1. UNCHANGED status
    BY <1>5, MethodFrame, JobFrame
  <2>2. Kept(a)
    BY <1>5, ComponentStepKept, ProcessStepKept, JobStepKept
  <2>. QED
    BY <2>1, <2>2, SameStatus
<1>. QED
  BY <1>1, <1>2, <1>3, <1>4, <1>5 DEF Step, StateStep

LEMMA OperationOrdered ==
  ASSUME IInv, NEW a \in Actor,
         ProcessOperation(a) \/ \E c \in Task : TaskOperation(a, c)
  PROVE  Stacks' /\ InTurn' /\ UNCHANGED status
<1>1. UNCHANGED status
  BY OperationFrame
<1>2. Kept(a)
  BY ProcessOperationKept, TaskOperationKept DEF IInv
<1>. QED
  BY <1>1, <1>2, SameStatus DEF IInv

LEMMA QueueOrdered ==
  ASSUME IInv, NEW a \in Actor, NEW c \in System,
         TakeJob(a, c) \/ Callback(a, c) \/ RestartJob(c)
  PROVE  Stacks' /\ InTurn' /\ UNCHANGED status
<1>1. UNCHANGED status
  BY QueueFrame
<1>2. Kept(a)
  <2>1. RestartJob(c) => Kept(a)
    BY DEF RestartJob, Kept, IInv, Stacks
  <2>. QED
    BY <2>1, QueueKept DEF IInv
<1>. QED
  BY <1>1, <1>2, SameStatus DEF IInv

LEMMA NextOrdered ==
  ASSUME TasksLast, "completed" \notin Outcomes, IInv, [Next]_vars, [Alone]_vars
  PROVE  IInv' /\ [Ordered!Next]_status
<1>1. TypeOK'
  BY NextType DEF IInv
<1>2. CASE UNCHANGED vars
  <2>1. UNCHANGED <<status, calls>>
    BY <1>2 DEF vars
  <2>2. Done' = Done
    BY <2>1 DEF Done
  <2>. QED
    BY <1>1, <2>1, <2>2 DEF IInv, Stacks, InTurn
<1>3. CASE Next /\ Alone
  <2>1. ASSUME NEW a \in Actor, Step(a) \/ FailState(a) \/ Crash(a)
        PROVE  Stacks' /\ InTurn' /\ [Ordered!Next]_status
    BY <1>3, <2>1, StepOrdered
  <2>2. ASSUME NEW a \in Session, ProcessOperation(a) \/ \E c \in Task : TaskOperation(a, c)
        PROVE  Stacks' /\ InTurn' /\ [Ordered!Next]_status
    BY <2>2, OperationOrdered DEF Actor
  <2>3. ASSUME NEW a \in Worker, NEW c \in System, TakeJob(a, c)
        PROVE  Stacks' /\ InTurn' /\ [Ordered!Next]_status
    BY <2>3, QueueOrdered DEF Actor
  <2>4. ASSUME NEW a \in Acs, NEW c \in System, Callback(a, c)
        PROVE  Stacks' /\ InTurn' /\ [Ordered!Next]_status
    BY <2>4, QueueOrdered DEF Actor
  <2>5. ASSUME NEW c \in System, RestartJob(c)
        PROVE  Stacks' /\ InTurn' /\ [Ordered!Next]_status
    <3>1. CASE Actor = {}
      <4>1. UNCHANGED <<status, calls>>
        BY <2>5 DEF RestartJob
      <4>2. Done' = Done
        BY <4>1 DEF Done
      <4>. QED
        BY <4>1, <4>2 DEF IInv, Stacks, InTurn
    <3>2. CASE Actor # {}
      <4>1. PICK a \in Actor : TRUE
        BY <3>2
      <4>. QED
        BY <2>5, <4>1, QueueOrdered
    <3>. QED
      BY <3>1, <3>2
  <2>. QED
    BY <1>1, <1>3, <2>1, <2>2, <2>3, <2>4, <2>5 DEF Next, IInv
<1>. QED
  BY <1>2, <1>3

\* The engine works the components off in the order Schedule asks for: a
\* component starts only when all components before it in the process or in its
\* sequential group have ended (DoneNext in taskgroups.py, propagate_done in
\* processes.py), for every schema, however sessions, workers and conversion
\* servers interleave and wherever they fail - if nobody else is at work when the
\* process is started, if every sequential group that another component follows
\* has a last component (TasksLast), and if no system task closes the process
\* behind the back of its parent.
THEOREM WorkflowImplementsSchedule ==
  ASSUME TasksLast, "completed" \notin Outcomes
  PROVE  Spec /\ StartsAlone => OrderedSpec
<1>1. Init => IInv /\ Ordered!Init
  BY InitIInv DEF Init, Ordered!Init
<1>2. IInv /\ [Next]_vars /\ [Alone]_vars => IInv' /\ [Ordered!Next]_status
  BY NextOrdered
<1>. QED
  BY <1>1, <1>2, PTL DEF Spec, StartsAlone, OrderedSpec, Ordered!Spec
-----------------------------------------------------------------------------
(* Two uses of the engine in which nobody else is at work at the start: one *)
(* operation at a time, and one session.                                    *)

OneAtATime == \A a, b \in Actor : ~Idle(a) /\ ~Idle(b) => a = b

LEMMA NextAlone ==
  ASSUME MaxBusy = 1, IsFiniteSet(Actor), TypeOK, OneAtATime, [Next]_vars
  PROVE  OneAtATime'
<1>1. CASE UNCHANGED calls
  BY <1>1 DEF OneAtATime, Idle
<1>2. ASSUME NEW a \in Actor, calls[a] # <<>>, \A b \in Actor \ {a} : calls'[b] = calls[b]
      PROVE  OneAtATime'
  BY <1>2 DEF OneAtATime, Idle
<1>3. ASSUME NEW a \in Actor, NEW s, Begin(a, s) PROVE OneAtATime'
  <2>. DEFINE busy == {b \in Actor : ~Idle(b)}
  <2>1. IsFiniteSet(busy) /\ Cardinality(busy) \in Nat
    <3>1. busy \subseteq Actor
      OBVIOUS
    <3>. QED
      BY <3>1, FS_Subset, FS_CardinalityType
  <2>2. Cardinality(busy) < 1
    BY <1>3 DEF Begin
  <2>3. busy = {}
    <3>. HIDE DEF busy
    <3>1. Cardinality(busy) = 0
      BY <2>1, <2>2
    <3>. QED
      BY <2>1, <3>1, FS_EmptySet
  <2>4. \A b \in Actor \ {a} : calls'[b] = <<>>
    BY <1>3, <2>3 DEF Begin, Idle, TypeOK
  <2>. QED
    BY <2>4 DEF OneAtATime, Idle
<1>. QED
  BY <1>1, <1>2, <1>3, NextMoves

\* As long as the process is new, only sessions are at work, and not on a job.
Fresh ==
  procStatus = "NEW" =>
    /\ \A t \in System : conversions[t] = 0
    /\ \A a \in Actor \ Session : Idle(a)
    /\ \A a \in Session : Light(calls[a])

\* No step makes the process new again.
LEMMA NewBefore ==
  ASSUME TypeOK, [Next]_vars, procStatus' = "NEW"
  PROVE  procStatus = "NEW"
<1>1. ASSUME NEW a \in Actor, Step(a) \/ FailState(a) \/ Crash(a) PROVE procStatus = "NEW"
  <2>1. LeaveProcess(a) => procStatus' # "NEW"
    BY DEF LeaveProcess, ProcSteps
  <2>2. ~StartProcess(a) /\ ~ResumeProcess(a)
    BY DEF StartProcess, ResumeProcess
  <2>3. SetComponent(a) => procStatus' = procStatus
    BY DEF SetComponent, procVars
  <2>. QED
    BY <1>1, <2>1, <2>2, <2>3, MethodFrame, FaultFrame, JobFrame DEF Step, StateStep
<1>2. ASSUME NEW a \in Session, ProcessOperation(a) \/ \E t \in Task : TaskOperation(a, t)
      PROVE  procStatus = "NEW"
  BY <1>2, OperationFrame DEF Actor
<1>3. ASSUME NEW t \in System, NEW a \in Worker, TakeJob(a, t) PROVE procStatus = "NEW"
  BY <1>3, QueueFrame DEF Actor
<1>4. ASSUME NEW t \in System, NEW a \in Acs, Callback(a, t) PROVE procStatus = "NEW"
  BY <1>4, QueueFrame DEF Actor
<1>5. ASSUME NEW t \in System, RestartJob(t) PROVE procStatus = "NEW"
  BY <1>5 DEF RestartJob, procVars
<1>6. CASE UNCHANGED vars
  BY <1>6 DEF vars
<1>. QED
  BY <1>1, <1>2, <1>3, <1>4, <1>5, <1>6 DEF Next

LEMMA NextFresh == ASSUME TypeOK, Fresh, [Next]_vars PROVE Fresh'
<1>. DEFINE quiet == /\ \A t \in System : conversions'[t] = 0
                     /\ \A a \in Actor \ Session : calls'[a] = <<>>
                     /\ \A a \in Session : Light(calls'[a])
<1>. SUFFICES ASSUME procStatus' = "NEW" PROVE quiet
  BY DEF Fresh, Idle
<1>1. /\ procStatus = "NEW"
      /\ \A t \in System : conversions[t] = 0
      /\ \A a \in Actor \ Session : calls[a] = <<>>
      /\ \A a \in Session : Light(calls[a])
  BY NewBefore DEF Fresh, Idle
<1>2. ASSUME NEW a \in Actor, Step(a) \/ FailState(a) \/ Crash(a)
      PROVE  /\ UNCHANGED conversions /\ a \in Session /\ Light(calls'[a])
             /\ \A b \in Actor \ {a} : calls'[b] = calls[b]
  <2>1. calls[a] # <<>> /\ \A b \in Actor \ {a} : calls'[b] = calls[b]
    BY <1>2, StepMoves
  <2>2. a \in Session /\ Light(calls[a])
    BY <1>1, <2>1
  <2>3. ~RunJob(a) /\ Light(calls'[a])
    BY <1>2, <2>2, LightStep
  <2>4. UNCHANGED conversions
    <3>. USE DEF data, jobVars
    <3>1. CASE FailState(a) \/ Crash(a)
      BY <3>1 DEF FailState, Crash
    <3>2. CASE LeaveTry(a) \/ RaiseAgain(a) \/ StateStep(a)
      BY <3>2 DEF LeaveTry, RaiseAgain, StateStep, SetComponent, StartProcess,
         ResumeProcess, LeaveProcess, RefuseState
    <3>3. CASE ComponentStep(a)
      BY <3>3 DEF ComponentStep, ActivateTask, ActivateEach,
         ActivateFirst, CancelTask, CancelSubtasks, CancelEach, ParallelDone,
         SequentialDone, CompletionDone, GroupFinish, ParallelCancel,
         SequentialCancel, CompletionCancel, EndCompletion, GroupRefuse
    <3>4. CASE ProcessStep(a)
      BY <3>4 DEF ProcessStep, ActivateProcess, ActivateTasks, ProcessDone,
         ActivateNext, ProcessFinish, ProcessCancel, CancelProcess, DismissProcess,
         DismissCompletion, EndProcess
    <3>5. CASE JobStep(a)
      BY <2>3, <3>5 DEF JobStep, DbComplete, DbDiscard, DbDiscardEach, FailJob
    <3>. QED
      BY <1>2, <3>1, <3>2, <3>3, <3>4, <3>5 DEF Step
  <2>. QED
    BY <2>1, <2>2, <2>3, <2>4
<1>3. ASSUME NEW a \in Session, ProcessOperation(a) \/ \E t \in Task : TaskOperation(a, t)
      PROVE  /\ UNCHANGED conversions /\ Light(calls'[a])
             /\ \A b \in Actor \ {a} : calls'[b] = calls[b]
  <2>1. UNCHANGED conversions
    BY <1>3 DEF ProcessOperation, TaskOperation, op_activate_process, op_onhold_process,
       op_cancel_process, op_dismiss_process, op_close_task, op_forward_task,
       op_refuse_task, data, jobVars
  <2>2. \E s : Light(s) /\ Begin(a, s)
    BY <1>3, LightTuples, LightCalls, LightClosings
       DEF ProcessOperation, TaskOperation, op_activate_process, op_onhold_process,
       op_cancel_process, op_dismiss_process, op_close_task, op_forward_task,
       op_refuse_task
  <2>3. a \in Actor
    BY DEF Actor
  <2>. QED
    BY <2>1, <2>2, <2>3 DEF Begin, TypeOK
<1>4. ASSUME NEW a \in Worker, NEW t \in System, TakeJob(a, t)
      PROVE  UNCHANGED <<conversions, calls>>
  BY <1>1, <1>4 DEF TakeJob
<1>5. ASSUME NEW a \in Acs, NEW t \in System, Callback(a, t) PROVE FALSE
  <2>1. conversions[t] > 0 /\ conversions[t] = 0
    BY <1>1, <1>5 DEF Callback, convert_files_done, convert_files_failed
  <2>. QED
    BY <2>1
<1>6. ASSUME NEW t \in System, RestartJob(t) PROVE UNCHANGED <<conversions, calls>>
  BY <1>6 DEF RestartJob
<1>7. UNCHANGED <<conversions, calls>> => quiet
  BY <1>1
<1>8. ASSUME NEW a \in Session, UNCHANGED conversions, Light(calls'[a]),
             \A b \in Actor \ {a} : calls'[b] = calls[b]
      PROVE  quiet
  <2>1. Session \subseteq Actor
    BY DEF Actor
  <2>. QED
    BY <1>1, <1>8, <2>1
<1>. HIDE DEF quiet
<1>9. CASE UNCHANGED vars
  BY <1>7, <1>9 DEF vars
<1>10. ASSUME NEW a \in Actor, Step(a) \/ FailState(a) \/ Crash(a) PROVE quiet
  <2>1. UNCHANGED conversions /\ Light(calls'[a]) /\ a \in Session
        /\ \A b \in Actor \ {a} : calls'[b] = calls[b]
    BY <1>2, <1>10
  <2>. QED
    BY <1>8, <2>1
<1>11. ASSUME NEW a \in Session, ProcessOperation(a) \/ \E t \in Task : TaskOperation(a, t)
       PROVE  quiet
  <2>1. UNCHANGED conversions /\ Light(calls'[a]) /\ a \in Session
        /\ \A b \in Actor \ {a} : calls'[b] = calls[b]
    BY <1>3, <1>11
  <2>. QED
    BY <1>8, <2>1
<1>. QED
  BY <1>4, <1>5, <1>6, <1>7, <1>9, <1>10, <1>11 DEF Next

\* Nobody disturbs the start when there is one session or one operation at a time.
LEMMA NoDisturbance ==
  ASSUME TypeOK, Fresh, [Next]_vars,
         OneAtATime \/ \A s, u \in Session : s = u
  PROVE  Alone
<1>. SUFFICES ASSUME NEW a \in Actor, StartProcess(a), NEW b \in Actor \ {a}
              PROVE  Idle(b)
  BY DEF Alone
<1>1. ~Idle(a) /\ procStatus = "NEW"
  BY DEF StartProcess, At, Idle
<1>2. CASE OneAtATime
  BY <1>1, <1>2 DEF OneAtATime
<1>3. CASE \A s, u \in Session : s = u
  <2>1. a \in Session
    BY <1>1 DEF Fresh
  <2>2. b \notin Session
    BY <1>3, <2>1
  <2>. QED
    BY <1>1, <2>2 DEF Fresh
<1>. QED
  BY <1>2, <1>3

\* Without the assumption on the start: with one session next to any number of
\* workers and conversion servers, the order of Schedule holds for every schema
\* and every interleaving.
THEOREM OneSessionImplementsSchedule ==
  ASSUME TasksLast, "completed" \notin Outcomes, \A s, u \in Session : s = u
  PROVE  Spec => OrderedSpec
<1>1. Init => TypeOK /\ Fresh
  BY InitType, LightTuples DEF Init, Fresh, Idle, Actor
<1>2. TypeOK /\ Fresh /\ [Next]_vars => (TypeOK /\ Fresh)' /\ [Alone]_vars
  BY NextType, NextFresh, NoDisturbance
<1>3. Spec => StartsAlone
  BY <1>1, <1>2, PTL DEF Spec, StartsAlone
<1>. QED
  BY <1>3, WorkflowImplementsSchedule

\* The same for any number of sessions whose operations run one after another,
\* as in the serial runs.
THEOREM SerialImplementsSchedule ==
  ASSUME TasksLast, "completed" \notin Outcomes, MaxBusy = 1, IsFiniteSet(Actor)
  PROVE  Spec => OrderedSpec
<1>1. Init => TypeOK /\ OneAtATime /\ Fresh
  BY InitType, LightTuples DEF Init, Fresh, OneAtATime, Idle, Actor
<1>2. TypeOK /\ OneAtATime /\ Fresh /\ [Next]_vars
      => (TypeOK /\ OneAtATime /\ Fresh)' /\ [Alone]_vars
  BY NextType, NextAlone, NextFresh, NoDisturbance
<1>3. Spec => StartsAlone
  BY <1>1, <1>2, PTL DEF Spec, StartsAlone
<1>. QED
  BY <1>3, WorkflowImplementsSchedule
=============================================================================
