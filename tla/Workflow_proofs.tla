--------------------------- MODULE Workflow_proofs ---------------------------
(***************************************************************************)
(* Proofs about the workflow engine, for every schema, every set of        *)
(* sessions, workers and conversion servers, and every bound.              *)
(***************************************************************************)
EXTENDS WorkflowProps, SequenceTheorems, WellFoundedInduction, TLAPS

Arg == Comp \cup {None} \cup CompStatus \cup ProcStatus \cup Exception

\* A non-empty set of numbers has a least element.
LEMMA LeastNumber ==
  ASSUME NEW T \in SUBSET Nat, T # {}
  PROVE  \E x \in T : \A y \in T : x <= y
<1>. DEFINE Less == {p \in Nat \X Nat : p[1] < p[2]}
<1>1. IsWellFoundedOn(Less, Nat)
  BY NatLessThanWellFounded DEF OpToRel
<1>. HIDE DEF Less
<1>2. PICK x \in T : \A y \in T : ~ (<<y, x>> \in Less)
  BY <1>1, WFMin, Zenon
<1>3. x \in Nat /\ \A y \in T : y \in Nat /\ ~ (y < x)
  BY <1>2 DEF Less
<1>. QED
  BY <1>3

\* Least finds a component.
LEMMA LeastIn ==
  ASSUME NEW S \in SUBSET Comp, S # {}
  PROVE  Least(S) \in S
<1>. DEFINE T == {Position[c] : c \in S}
<1>1. T \in SUBSET Nat /\ T # {}
  BY TreeAssumption
<1>. HIDE DEF T
<1>2. PICK x \in T : \A y \in T : x <= y
  BY <1>1, LeastNumber
<1>3. \E c \in S : \A d \in S : Position[c] <= Position[d]
  BY <1>2 DEF T
<1>. QED
  BY <1>3 DEF Least

LEMMA FirstIn == ASSUME NEW p PROVE First(p) \in Comp \cup {None}
BY LeastIn DEF First, Components

\* A call with arguments in their domains, no job call among them, is a Call.
LEMMA DoCall ==
  ASSUME NEW fn \in Fn \ (JobFn \cup DbFn \cup {"except_sibling"}),
         NEW obj \in Comp \cup {Root}, NEW arg \in Arg
  PROVE  Do(fn, obj, arg) \in Call
BY DEF Do, Call, Arg

LEMMA EachCall ==
  ASSUME NEW fn \in Fn \ (JobFn \cup DbFn \cup {"except_sibling"}),
         NEW obj \in Comp \cup {Root}, NEW S \in SUBSET Comp
  PROVE  Each(fn, obj, S) \in Call
BY DEF Each, Call

LEMMA JobCall ==
  ASSUME NEW fn \in JobFn, NEW t \in System
  PROVE  Do(fn, t, None) \in Call
<1>1. fn \in Fn /\ fn \notin DbFn /\ fn # "except_sibling" /\ t \in Comp
  BY DEF JobFn, Fn, Except, DbFn, System
<1>. QED
  BY <1>1 DEF Do, Call

LEMMA SetCall ==
  ASSUME NEW obj \in Comp \cup {Root}, NEW s \in Arg
  PROVE  Set(obj, s) \in Call
BY DoCall DEF Set, Fn, JobFn, DbFn

LEMMA RaiseCall == ASSUME NEW e \in Arg PROVE Raise(e) \in Call
BY DoCall DEF Raise, Fn, JobFn, DbFn

\* What an except clause does next is a sequence of calls.
LEMMA HandlerCalls ==
  ASSUME NEW f \in Call, NEW e \in Arg
  PROVE  Handler(f, e) \in Seq(Call)
<1>1. f.obj \in Comp \cup {Root} /\ f.arg \in Arg
  BY DEF Call, Arg
<1>2. f.fn \in JobFn => f.obj \in System
  BY DEF Call
<1>3. f.fn = "except_sibling" => f.obj \in Comp /\ Parent[f.obj] \in Comp \cup {Root}
  BY TreeAssumption DEF Call
<1>4. None \in Arg /\ "COMPLETED" \in Arg /\ "PAUSED" \in Arg
  BY DEF Arg, CompStatus, ProcStatus
<1>5. NextComp(f.arg) \in Arg
  BY DEF NextComp, Arg
<1>. HIDE DEF Arg
<1>6. Do("cancel_task", f.obj, None) \in Call /\ Set(f.obj, "COMPLETED") \in Call /\ Raise(e) \in Call
  BY <1>1, <1>4, DoCall, SetCall, RaiseCall DEF Fn, JobFn, DbFn
<1>7. /\ Do("activate_first", f.obj, NextComp(f.arg)) \in Call
      /\ Do("activate_next", Root, NextComp(f.arg)) \in Call
  BY <1>1, <1>5, DoCall DEF Fn, JobFn, DbFn
<1>8. f.fn = "except_sibling" => Do("propagate_cancel", Parent[f.obj], f.obj) \in Call
  BY <1>3, DoCall DEF Fn, JobFn, DbFn, Arg
<1>9. /\ Do("cancel_subtasks_and_close", Root, None) \in Call
      /\ Set(Root, f.arg) \in Call /\ Set(Root, "PAUSED") \in Call
  BY <1>1, <1>4, DoCall, SetCall DEF Fn, JobFn, DbFn
<1>10. f.fn \in JobFn => Do("fail_job", f.obj, None) \in Call
  BY <1>2, JobCall DEF JobFn
<1>. QED
  BY <1>6, <1>7, <1>8, <1>9, <1>10 DEF Handler, JobFn

\* Raising an exception leaves a stack of calls.
LEMMA UnwoundCalls ==
  ASSUME NEW s \in Seq(Call), NEW e \in Arg
  PROVE  Unwound(s, e) \in Seq(Call)
<1>. DEFINE H == {i \in 1 .. Len(s) : e \in Catches(s[i].fn)}
            h == CHOOSE i \in H : \A j \in H : i <= j
<1>1. CASE H = {}
  BY <1>1 DEF Unwound
<1>2. CASE H # {}
  <2>1. H \in SUBSET Nat
    OBVIOUS
  <2>. HIDE DEF H
  <2>2. \E i \in H : \A j \in H : i <= j
    BY <1>2, <2>1, LeastNumber
  <2>3. h \in H
    BY <2>2
  <2>4. h \in 1 .. Len(s)
    BY <2>3 DEF H
  <2>. HIDE DEF h
  <2>5. s[h] \in Call /\ SubSeq(s, h + 1, Len(s)) \in Seq(Call)
    BY <2>4
  <2>6. Handler(s[h], e) \in Seq(Call)
    BY <2>5, HandlerCalls
  <2>7. Handler(s[h], e) \o SubSeq(s, h + 1, Len(s)) \in Seq(Call)
    BY <2>5, <2>6
  <2>. QED
    BY <1>2, <2>7 DEF Unwound, H, h
<1>. QED
  BY <1>1, <1>2
-----------------------------------------------------------------------------
\* The call on top of a stack, and what is left to do after it.
LEMMA TopCall ==
  ASSUME TypeOK, NEW a \in Actor, calls[a] # <<>>
  PROVE  /\ Top(a) \in Call /\ Tail(calls[a]) \in Seq(Call)
         /\ Top(a).fn \in Fn /\ Top(a).obj \in Comp \cup {Root}
         /\ Top(a).arg \in Arg /\ Top(a).todo \in SUBSET Comp
         /\ Top(a).fn \in JobFn => Top(a).obj \in System
         /\ Top(a).fn \in DbFn => "completed" \in Outcomes
<1>1. Top(a) \in Call /\ Tail(calls[a]) \in Seq(Call)
  BY DEF TypeOK, Top
<1>. QED
  BY <1>1 DEF Call, Arg

LEMMA ContinueType ==
  ASSUME TypeOK, NEW a \in Actor, calls[a] # <<>>,
         NEW s \in Seq(Call), Continue(a, s)
  PROVE  calls' \in [Actor -> Seq(Call)]
<1>1. s \o Tail(calls[a]) \in Seq(Call)
  BY TopCall
<1>. QED
  BY <1>1 DEF Continue, TypeOK

LEMMA Tuples ==
  /\ <<>> \in Seq(Call)
  /\ \A x \in Call : <<x>> \in Seq(Call)
  /\ \A x, y \in Call : <<x, y>> \in Seq(Call)
  /\ \A x, y, z \in Call : <<x, y, z>> \in Seq(Call)
OBVIOUS

\* The stack after a method made up to three calls
LEMMA Continues ==
  ASSUME TypeOK, NEW a \in Actor, calls[a] # <<>>
  PROVE  /\ Continue(a, <<>>) => calls' \in [Actor -> Seq(Call)]
         /\ \A x \in Call : Continue(a, <<x>>) => calls' \in [Actor -> Seq(Call)]
         /\ \A x, y \in Call : Continue(a, <<x, y>>) => calls' \in [Actor -> Seq(Call)]
         /\ \A x, y, z \in Call :
              Continue(a, <<x, y, z>>) => calls' \in [Actor -> Seq(Call)]
BY Tuples, ContinueType

LEMMA ThrowType ==
  ASSUME TypeOK, NEW a \in Actor, calls[a] # <<>>, NEW e \in Arg, Throw(a, e)
  PROVE  calls' \in [Actor -> Seq(Call)]
<1>1. Unwound(Tail(calls[a]), e) \in Seq(Call)
  BY TopCall, UnwoundCalls
<1>. QED
  BY <1>1 DEF Throw, TypeOK

LEMMA BeginType ==
  ASSUME TypeOK, NEW a \in Actor, NEW s \in Seq(Call), Begin(a, s)
  PROVE  calls' \in [Actor -> Seq(Call)]
BY DEF Begin, TypeOK

\* A step that changes the stacks only
LEMMA CallsOnly ==
  ASSUME TypeOK, UNCHANGED data, calls' \in [Actor -> Seq(Call)]
  PROVE  TypeOK'
BY DEF TypeOK, data, procVars, jobVars, bounds

\* The domains of the constants that occur as arguments
LEMMA Args ==
  /\ None \in Arg /\ Comp \subseteq Arg /\ CompStatus \subseteq Arg
  /\ ProcStatus \subseteq Arg /\ Exception \subseteq Arg
BY DEF Arg

LEMMA ParentIn == \A c \in Comp : Parent[c] \in Comp \cup {Root}
BY TreeAssumption

\* Closing, refusing and cancelling
LEMMA ClosingCalls ==
  ASSUME NEW c \in Comp, NEW forwarded \in BOOLEAN
  PROVE  Closing(c, forwarded) \in Seq(Call)
<1>1. Set(c, "COMPLETED") \in Call
  BY SetCall, Args DEF CompStatus
<1>2. /\ Do("propagate_finish", Parent[c], c) \in Call
      /\ Do("propagate_done", Parent[c], c) \in Call
  BY DoCall, ParentIn, Args DEF Fn, JobFn, DbFn
<1>. QED
  BY <1>1, <1>2 DEF Closing

LEMMA RefusingCalls == ASSUME NEW c \in Comp PROVE Refusing(c) \in Seq(Call)
<1>1. Set(c, "REJECTED") \in Call
  BY SetCall, Args DEF CompStatus
<1>2. /\ Do("propagate_finish", Parent[c], c) \in Call
      /\ Do("propagate_done", Parent[c], c) \in Call
      /\ Do("propagate_refuse", Parent[c], c) \in Call
  BY DoCall, ParentIn, Args DEF Fn, JobFn, DbFn
<1>. QED
  BY <1>1, <1>2 DEF Refusing

LEMMA ClosedCalls ==
  ASSUME NEW g \in Comp
  PROVE  Closed(g) \in Seq(Call) /\ Cancelled(g) \in Seq(Call)
<1>1. Set(g, "COMPLETED") \in Call
  BY SetCall, Args DEF CompStatus
<1>2. /\ Do("propagate_done", Parent[g], g) \in Call
      /\ Do("propagate_cancel", Parent[g], g) \in Call
      /\ Do("cancel_task", g, None) \in Call
  BY DoCall, ParentIn, Args DEF Fn, JobFn, DbFn
<1>. QED
  BY <1>1, <1>2 DEF Closed, Cancelled
-----------------------------------------------------------------------------
(* Every step keeps the types. *)

LEMMA StateStepType ==
  ASSUME TypeOK, NEW a \in Actor, StateStep(a) \/ FailState(a)
  PROVE  TypeOK'
<1>. USE DEF procVars, jobVars, bounds
<1>1. <<>> \in Seq(Call) /\ "ElementsError" \in Arg
  BY Args DEF Exception
<1>2. CASE SetComponent(a)
  <2>1. calls' \in [Actor -> Seq(Call)]
    BY <1>1, <1>2, ContinueType DEF SetComponent, At
  <2>2. status' \in [Comp -> CompStatus]
    BY <1>2 DEF SetComponent, CompSteps, CompStatus, TypeOK
  <2>3. jobs' \in [System -> Nat]
    BY <1>2 DEF SetComponent, Enqueued, TypeOK
  <2>. QED
    BY <1>2, <2>1, <2>2, <2>3 DEF SetComponent, TypeOK
<1>3. CASE StartProcess(a)
  <2>1. calls' \in [Actor -> Seq(Call)]
    BY <1>1, <1>3, ContinueType DEF StartProcess, At
  <2>. QED
    BY <1>3, <2>1 DEF StartProcess, TypeOK, CompStatus, ProcStatus
<1>4. CASE ResumeProcess(a)
  <2>1. calls' \in [Actor -> Seq(Call)]
    BY <1>1, <1>4, ContinueType DEF ResumeProcess, At
  <2>2. jobs' \in [System -> Nat]
    BY <1>4 DEF ResumeProcess, TypeOK
  <2>. QED
    BY <1>4, <2>1, <2>2 DEF ResumeProcess, TypeOK, ProcStatus
<1>5. CASE LeaveProcess(a)
  <2>1. calls' \in [Actor -> Seq(Call)]
    BY <1>1, <1>5, ContinueType DEF LeaveProcess, At
  <2>2. procStatus' \in ProcStatus
    BY <1>5 DEF LeaveProcess, ProcSteps, ProcStatus
  <2>3. process_is_onhold' \in BOOLEAN
    BY <1>5 DEF LeaveProcess
  <2>. QED
    BY <1>5, <2>1, <2>2, <2>3 DEF LeaveProcess, TypeOK
<1>6. CASE RefuseState(a)
  <2>1. calls' \in [Actor -> Seq(Call)]
    BY <1>1, <1>6, ThrowType DEF RefuseState, At
  <2>. QED
    BY <1>6, <2>1, CallsOnly DEF RefuseState
<1>7. CASE FailState(a)
  <2>1. calls' \in [Actor -> Seq(Call)]
    BY <1>1, <1>7, ThrowType DEF FailState, At
  <2>. QED
    BY <1>7, <2>1 DEF FailState, TypeOK
<1>. QED
  BY <1>2, <1>3, <1>4, <1>5, <1>6, <1>7 DEF StateStep

LEMMA ControlStepType ==
  ASSUME TypeOK, NEW a \in Actor, LeaveTry(a) \/ RaiseAgain(a)
  PROVE  TypeOK'
<1>1. CASE LeaveTry(a)
  <2>. <<>> \in Seq(Call)
    OBVIOUS
  <2>1. calls' \in [Actor -> Seq(Call)]
    BY <1>1, ContinueType DEF LeaveTry
  <2>. QED
    BY <1>1, <2>1, CallsOnly DEF LeaveTry
<1>2. CASE RaiseAgain(a)
  <2>1. calls' \in [Actor -> Seq(Call)]
    BY <1>2, ThrowType, TopCall DEF RaiseAgain, At
  <2>. QED
    BY <1>2, <2>1, CallsOnly DEF RaiseAgain
<1>. QED
  BY <1>1, <1>2

\* Steps of tasks and task groups: the calls they make are in their domains.
LEMMA ActivateStepType ==
  ASSUME TypeOK, NEW a \in Actor, ActivateTask(a) \/ ActivateEach(a) \/ ActivateFirst(a)
  PROVE  TypeOK'
<1>. DEFINE c == Top(a).obj
            todo == Top(a).todo
<1>1. calls[a] # <<>> /\ UNCHANGED data
  BY DEF ActivateTask, ActivateEach, ActivateFirst, At
<1>2. c \in Comp \cup {Root} /\ Top(a).arg \in Arg /\ todo \in SUBSET Comp
  BY <1>1, TopCall
<1>3. /\ Do("cancel_task", c, None) \in Call /\ Do("except_activate", c, None) \in Call
      /\ Do("except_pass", c, None) \in Call /\ Do("activate_first", c, First(c)) \in Call
      /\ Do("activate_task", c, None) \in Call
  BY <1>2, DoCall, Args, FirstIn DEF Fn, Except, JobFn, DbFn
<1>4. Set(c, "EXECUTION") \in Call /\ Raise("TaskCancelled") \in Call
  BY <1>2, SetCall, RaiseCall, Args DEF CompStatus, Exception
<1>5. \A S \in SUBSET Comp : Each("activate_each", c, S) \in Call
  BY <1>2, EachCall DEF Fn, JobFn, DbFn
<1>6. Components(c) \in SUBSET Comp
  BY DEF Components
<1>7. "TaskCancelled" \in Arg /\ "TaskClosed" \in Arg
  BY Args DEF Exception
<1>. HIDE DEF c, todo
<1>8. CASE ActivateTask(a)
  <2>1. calls' \in [Actor -> Seq(Call)]
    BY <1>8, <1>1, <1>3, <1>4, <1>5, <1>6, Continues DEF ActivateTask, c
  <2>. QED
    BY <1>1, <2>1, CallsOnly
<1>9. CASE ActivateEach(a)
  <2>1. ASSUME NEW d \in todo,
               Continue(a, <<Do("activate_task", d, None), Do("except_pass", c, None),
                             Each("activate_each", c, todo \ {d})>>)
        PROVE  calls' \in [Actor -> Seq(Call)]
    <3>1. Do("activate_task", d, None) \in Call
      BY <1>2, DoCall, Args DEF Fn, JobFn, DbFn
    <3>2. Each("activate_each", c, todo \ {d}) \in Call
      BY <1>2, <1>5
    <3>. QED
      BY <1>1, <1>3, <2>1, <3>1, <3>2, Continues
  <2>2. ASSUME Throw(a, "TaskCancelled") \/ Throw(a, "TaskClosed") \/ Continue(a, <<>>)
        PROVE  calls' \in [Actor -> Seq(Call)]
    BY <1>1, <1>7, <2>2, ThrowType, Continues
  <2>. QED
    BY <1>1, <1>9, <2>1, <2>2, CallsOnly DEF ActivateEach, c, todo
<1>10. CASE ActivateFirst(a)
  <2>1. CASE Top(a).arg \in Comp
    <3>1. /\ Do("activate_task", Top(a).arg, None) \in Call
          /\ Do("except_first", c, Top(a).arg) \in Call
      BY <1>2, <2>1, DoCall, Args DEF Fn, Except, JobFn, DbFn
    <3>2. calls' \in [Actor -> Seq(Call)]
      BY <1>1, <1>10, <2>1, <3>1, Continues DEF ActivateFirst, c
    <3>. QED
      BY <1>1, <3>2, CallsOnly
  <2>2. CASE Top(a).arg \notin Comp
    BY <1>1, <1>7, <1>10, <2>2, ThrowType, CallsOnly DEF ActivateFirst
  <2>. QED
    BY <2>1, <2>2
<1>. QED
  BY <1>8, <1>9, <1>10

LEMMA CancelStepType ==
  ASSUME TypeOK, NEW a \in Actor, CancelTask(a) \/ CancelSubtasks(a) \/ CancelEach(a)
  PROVE  TypeOK'
<1>. DEFINE c == Top(a).obj
            todo == Top(a).todo
<1>1. calls[a] # <<>> /\ UNCHANGED data
  BY DEF CancelTask, CancelSubtasks, CancelEach, At
<1>2. c \in Comp \cup {Root} /\ todo \in SUBSET Comp
  BY <1>1, TopCall
<1>3. Set(c, "DISCARDED") \in Call /\ Do("cancel_subtasks", c, None) \in Call
  BY <1>2, SetCall, DoCall, Args DEF CompStatus, Fn, JobFn, DbFn
<1>4. \A S \in SUBSET Comp : Each("cancel_each", c, S) \in Call
  BY <1>2, EachCall DEF Fn, JobFn, DbFn
<1>. HIDE DEF c, todo
<1>5. CASE CancelTask(a)
  <2>1. calls' \in [Actor -> Seq(Call)]
    BY <1>1, <1>3, <1>5, Continues DEF CancelTask, c
  <2>. QED
    BY <1>1, <2>1, CallsOnly
<1>6. CASE CancelSubtasks(a)
  <2>1. Pending(Components(c)) \in SUBSET Comp
    BY DEF Pending, Components
  <2>2. calls' \in [Actor -> Seq(Call)]
    BY <1>1, <1>4, <1>6, <2>1, Continues DEF CancelSubtasks, c
  <2>. QED
    BY <1>1, <2>2, CallsOnly
<1>7. CASE CancelEach(a)
  <2>1. ASSUME NEW d \in todo,
               Continue(a, <<Do("cancel_task", d, None), Each("cancel_each", c, todo \ {d})>>)
        PROVE  calls' \in [Actor -> Seq(Call)]
    <3>1. Do("cancel_task", d, None) \in Call
      BY <1>2, DoCall, Args DEF Fn, JobFn, DbFn
    <3>2. Each("cancel_each", c, todo \ {d}) \in Call
      BY <1>2, <1>4
    <3>. QED
      BY <1>1, <2>1, <3>1, <3>2, Continues
  <2>2. ASSUME Continue(a, <<>>) PROVE calls' \in [Actor -> Seq(Call)]
    BY <1>1, <2>2, Continues
  <2>. QED
    BY <1>1, <1>7, <2>1, <2>2, CallsOnly DEF CancelEach, c, todo
<1>. QED
  BY <1>5, <1>6, <1>7

LEMMA GroupStepType ==
  ASSUME TypeOK, NEW a \in Actor,
         \/ ParallelDone(a) \/ SequentialDone(a) \/ CompletionDone(a) \/ GroupFinish(a)
         \/ ParallelCancel(a) \/ SequentialCancel(a) \/ CompletionCancel(a)
         \/ EndCompletion(a) \/ GroupRefuse(a)
  PROVE  TypeOK'
<1>. DEFINE g == Top(a).obj
            T == calls' \in [Actor -> Seq(Call)]
<1>1. calls[a] # <<>> /\ UNCHANGED data
  BY DEF ParallelDone, SequentialDone, CompletionDone, GroupFinish, ParallelCancel,
         SequentialCancel, CompletionCancel, EndCompletion, GroupRefuse, At
<1>2. g \in Comp \cup {Root}
  BY <1>1, TopCall
<1>3. Completion \in Comp
  BY TreeAssumption
<1>. HIDE DEF g
<1>4. \A h \in Comp : (Continue(a, Closed(h)) \/ Continue(a, Cancelled(h))) => T
  BY <1>1, ClosedCalls, ContinueType
<1>5. /\ Do("end_completion", g, None) \in Call /\ Do("cancel_subtasks", g, None) \in Call
      /\ Do("except_sibling", g, None) \in Call \/ g = Root
  <2>1. g \in Comp => Do("except_sibling", g, None) \in Call
    BY Args DEF Do, Call, Fn, Except, JobFn, DbFn
  <2>. QED
    BY <1>2, <2>1, DoCall, Args DEF Fn, JobFn, DbFn
<1>6. CASE ParallelDone(a)
  BY <1>1, <1>2, <1>4, <1>6, Continues, CallsOnly DEF ParallelDone, g
<1>7. CASE SequentialDone(a)
  <2>. DEFINE n == NextSibling(Top(a).arg)
  <2>1. n \in Comp => Do("activate_task", n, None) \in Call
    BY DoCall, Args DEF Fn, JobFn, DbFn
  <2>. HIDE DEF n
  <2>2. g # Root /\ (\/ n \in Comp /\ Continue(a, <<Do("activate_task", n, None),
                                                    Do("except_sibling", g, None)>>)
                     \/ Continue(a, Closed(g)))
    BY <1>7 DEF SequentialDone, g, n
  <2>. QED
    BY <1>1, <1>2, <1>4, <1>5, <2>1, <2>2, Continues, CallsOnly
<1>8. CASE CompletionDone(a)
  BY <1>1, <1>5, <1>8, Continues, CallsOnly DEF CompletionDone, g
<1>9. CASE GroupFinish(a)
  <2>1. /\ <<Do("cancel_subtasks", g, None)>> \o <<Do("end_completion", g, None)>> \in Seq(Call)
        /\ g \in Comp => <<Do("cancel_subtasks", g, None)>> \o Closed(g) \in Seq(Call)
    BY <1>5, ClosedCalls
  <2>. QED
    BY <1>1, <1>2, <1>9, <2>1, ContinueType, CallsOnly DEF GroupFinish, g
<1>10. CASE ParallelCancel(a)
  BY <1>1, <1>2, <1>4, <1>10, Continues, CallsOnly DEF ParallelCancel, g
<1>11. CASE SequentialCancel(a)
  <2>1. g \in Comp
    BY <1>2, <1>11 DEF SequentialCancel, g
  <2>2. Set(g, "COMPLETED") \in Call /\ Do("propagate_cancel", Parent[g], g) \in Call
    BY <2>1, SetCall, DoCall, ParentIn, Args DEF CompStatus, Fn, JobFn, DbFn
  <2>. QED
    BY <1>1, <1>5, <1>11, <2>2, Continues, CallsOnly DEF SequentialCancel, g
<1>12. CASE CompletionCancel(a)
  BY <1>1, <1>5, <1>12, Continues, CallsOnly DEF CompletionCancel, g
<1>13. CASE EndCompletion(a)
  BY <1>1, <1>3, <1>4, <1>13, CallsOnly DEF EndCompletion
<1>14. CASE GroupRefuse(a)
  <2>1. g \in Comp
    BY <1>2, <1>14 DEF GroupRefuse, g
  <2>2. Set(g, "REJECTED") \in Call /\ Do("propagate_refuse", Parent[g], g) \in Call
    BY <2>1, SetCall, DoCall, ParentIn, Args DEF CompStatus, Fn, JobFn, DbFn
  <2>. QED
    BY <1>1, <1>5, <1>14, <2>2, Continues, CallsOnly DEF GroupRefuse, g
<1>. QED
  BY <1>6, <1>7, <1>8, <1>9, <1>10, <1>11, <1>12, <1>13, <1>14

\* Steps of the process
LEMMA ProcessStepType ==
  ASSUME TypeOK, NEW a \in Actor, ProcessStep(a)
  PROVE  TypeOK'
<1>. DEFINE x == Top(a).arg
            T == calls' \in [Actor -> Seq(Call)]
<1>1. calls[a] # <<>>
  BY DEF ProcessStep, ActivateProcess, ActivateTasks, ProcessDone, ActivateNext,
         ProcessFinish, ProcessCancel, CancelProcess, DismissProcess,
         DismissCompletion, EndProcess, At
<1>2. x \in Arg /\ NextComp(x) \in Arg /\ Completion \in Comp
  BY <1>1, TopCall, TreeAssumption DEF NextComp, Arg
<1>3. /\ Set(Root, "EXECUTION") \in Call /\ Set(Root, "DISCARDED") \in Call
      /\ Set(Root, x) \in Call
  BY <1>2, SetCall, Args DEF CompStatus
<1>4. /\ Do("activate_tasks", Root, None) \in Call
      /\ Do("except_cancelled", Root, None) \in Call
      /\ Do("cancel_subtasks", Root, None) \in Call
      /\ Do("cancel_process", Root, None) \in Call
      /\ Do("dismiss_completion", Root, None) \in Call
      /\ Do("activate_next", Root, NextComp(x)) \in Call
      /\ Do("propagate_done", Root, x) \in Call
      /\ Do("except_end", Root, x) \in Call
  BY <1>2, DoCall, Args DEF Fn, Except, JobFn, DbFn
<1>5. Do("end_process", Root, "COMPLETED") \in Call /\ Do("end_process", Root, "FAILED") \in Call
  BY DoCall, Args DEF Fn, JobFn, DbFn, ProcStatus
<1>6. /\ Do("activate_task", Completion, None) \in Call
      /\ Do("cancel_task", Completion, None) \in Call
  BY <1>2, DoCall, Args DEF Fn, JobFn, DbFn
<1>. HIDE DEF x
<1>7. CASE ActivateProcess(a)
  BY <1>1, <1>3, <1>4, <1>7, Continues, CallsOnly DEF ActivateProcess
<1>8. CASE ActivateTasks(a)
  <2>1. Components(Root) # {} => Do("activate_task", First(Root), None) \in Call
    BY LeastIn, DoCall, Args DEF First, Components, Fn, JobFn, DbFn
  <2>. QED
    BY <1>1, <1>5, <1>8, <2>1, Continues, CallsOnly DEF ActivateTasks
<1>9. CASE ProcessDone(a)
  BY <1>1, <1>4, <1>9, Continues, CallsOnly DEF ProcessDone, x
<1>10. CASE ActivateNext(a)
  <2>1. x \in Comp => Do("activate_task", x, None) \in Call /\ Do("except_next", Root, x) \in Call
    BY DoCall, Args DEF Fn, Except, JobFn, DbFn
  <2>. QED
    BY <1>1, <1>5, <1>10, <2>1, Continues, CallsOnly DEF ActivateNext, x
<1>11. CASE ProcessFinish(a)
  BY <1>1, <1>4, <1>5, <1>11, Continues, CallsOnly DEF ProcessFinish
<1>12. CASE ProcessCancel(a)
  BY <1>1, <1>4, <1>12, Continues, CallsOnly DEF ProcessCancel, x
<1>13. CASE CancelProcess(a)
  <2>1. T
    BY <1>1, <1>4, <1>5, <1>13, Continues DEF CancelProcess
  <2>. QED
    BY <1>13, <2>1 DEF CancelProcess, TypeOK, jobVars, bounds
<1>14. CASE DismissProcess(a)
  <2>1. T
    BY <1>1, <1>3, <1>4, <1>14, Continues DEF DismissProcess
  <2>. QED
    BY <1>14, <2>1 DEF DismissProcess, TypeOK, jobVars, bounds
<1>15. CASE DismissCompletion(a)
  BY <1>1, <1>6, <1>15, Continues, CallsOnly DEF DismissCompletion
<1>16. CASE EndProcess(a)
  BY <1>1, <1>3, <1>4, <1>6, <1>16, Continues, CallsOnly DEF EndProcess, x
<1>. QED
  BY <1>7, <1>8, <1>9, <1>10, <1>11, <1>12, <1>13, <1>14, <1>15, <1>16 DEF ProcessStep

\* Steps of the workers
LEMMA JobStepType ==
  ASSUME TypeOK, NEW a \in Actor, JobStep(a)
  PROVE  TypeOK'
<1>. DEFINE t == Top(a).obj
            T == calls' \in [Actor -> Seq(Call)]
<1>1. calls[a] # <<>>
  BY DEF JobStep, RunJob, DbComplete, DbDiscard, DbDiscardEach, FailJob, At
<1>2. /\ Top(a).todo \in SUBSET Comp
      /\ Top(a).fn \in JobFn => t \in System
      /\ Top(a).fn \in DbFn => "completed" \in Outcomes
  BY <1>1, TopCall
<1>. HIDE DEF t
<1>3. System \subseteq Comp
  BY DEF System
<1>4. CASE RunJob(a)
  <2>1. t \in System /\ t \in Comp
    BY <1>2, <1>3, <1>4 DEF RunJob, At, JobFn
  <2>2. /\ Do("cancel_task", t, None) \in Call /\ Do("cancel_process", Root, None) \in Call
        /\ Do("end_process", Root, "COMPLETED") \in Call /\ Set(Root, "PAUSED") \in Call
    BY <2>1, DoCall, SetCall, Args DEF Fn, JobFn, DbFn, ProcStatus
  <2>3. "completed" \in Outcomes =>
           Do("db_complete", t, None) \in Call /\ Do("db_discard", Root, None) \in Call
    BY <2>1, Args DEF Do, Call, Fn, JobFn, DbFn
  <2>4. /\ Closing(t, FALSE) \in Seq(Call) /\ Refusing(t) \in Seq(Call)
        /\ "ElementsError" \in Arg
    BY <2>1, ClosingCalls, RefusingCalls, Args DEF Exception
  <2>5. \/ Continue(a, Closing(t, FALSE)) \/ Continue(a, Refusing(t))
        \/ Continue(a, <<Do("cancel_task", t, None)>>)
        \/ Continue(a, <<Set(Root, "PAUSED")>>)
        \/ Continue(a, <<Do("cancel_process", Root, None)>>)
        \/ /\ "completed" \in Outcomes
           /\ Continue(a, <<Do("end_process", Root, "COMPLETED"), Do("db_complete", t, None),
                            Do("db_discard", Root, None)>>)
        \/ Throw(a, "ElementsError") \/ Continue(a, <<>>)
    BY <1>4 DEF RunJob, t
  <2>6. T
    BY <1>1, <2>2, <2>3, <2>4, <2>5, Continues, ContinueType, ThrowType
  <2>7. conversions' \in [System -> Nat]
    <3>1. CASE UNCHANGED conversions
      BY <3>1 DEF TypeOK
    <3>2. ASSUME NEW n \in 1 .. MaxConversions,
                 conversions' = [conversions EXCEPT ![t] = @ + n]
          PROVE  conversions' \in [System -> Nat]
      BY <2>1, <3>2, BoundAssumption DEF TypeOK
    <3>. QED
      BY <1>4, <3>1, <3>2 DEF RunJob, t
  <2>. QED
    BY <1>4, <2>6, <2>7 DEF RunJob, TypeOK, procVars, bounds
<1>5. CASE DbComplete(a)
  <2>1. T
    BY <1>1, <1>5, Continues DEF DbComplete
  <2>. QED
    BY <1>5, <2>1 DEF DbComplete, TypeOK, CompStatus, procVars, jobVars, bounds
<1>6. CASE DbDiscard(a)
  <2>1. Each("db_discard_each", Root, Pending(Comp)) \in Call
    BY <1>2, <1>6, Args DEF DbDiscard, At, Each, Call, Pending, Fn, JobFn, DbFn
  <2>. QED
    BY <1>1, <1>6, <2>1, Continues, CallsOnly DEF DbDiscard
<1>7. CASE DbDiscardEach(a)
  <2>1. \A c \in Top(a).todo : Each("db_discard_each", Root, Top(a).todo \ {c}) \in Call
    BY <1>2, <1>7, Args DEF DbDiscardEach, At, Each, Call, Fn, JobFn, DbFn
  <2>2. T
    BY <1>1, <1>7, <2>1, Continues DEF DbDiscardEach
  <2>3. status' \in [Comp -> CompStatus]
    BY <1>7 DEF DbDiscardEach, TypeOK, CompStatus
  <2>. QED
    BY <1>7, <2>2, <2>3 DEF DbDiscardEach, TypeOK, procVars, jobVars, bounds
<1>8. CASE FailJob(a)
  <2>1. T
    BY <1>1, <1>8, Continues DEF FailJob
  <2>2. t \in System
    BY <1>2, <1>8 DEF FailJob, At, JobFn
  <2>. QED
    BY <1>8, <2>1, <2>2 DEF FailJob, TypeOK, procVars, t, bounds
<1>. QED
  BY <1>4, <1>5, <1>6, <1>7, <1>8 DEF JobStep

\* What users, workers, conversion servers and administrators start
LEMMA ProcessOperationType ==
  ASSUME TypeOK, NEW a \in Actor, ProcessOperation(a)
  PROVE  TypeOK'
<1>. USE DEF data, procVars, jobVars, bounds
<1>1. /\ <<Do("activate_process", Root, None)>> \in Seq(Call)
      /\ <<Do("cancel_process", Root, None)>> \in Seq(Call)
      /\ <<Do("dismiss_process", Root, None)>> \in Seq(Call)
      /\ <<Set(Root, "PAUSED")>> \in Seq(Call)
  <2>1. /\ Do("activate_process", Root, None) \in Call
        /\ Do("cancel_process", Root, None) \in Call
        /\ Do("dismiss_process", Root, None) \in Call
        /\ Set(Root, "PAUSED") \in Call
    BY DoCall, SetCall, Args DEF Fn, JobFn, DbFn, ProcStatus
  <2>. QED
    BY <2>1
<1>2. CASE op_activate_process(a)
  <2>1. calls' \in [Actor -> Seq(Call)]
    BY <1>1, <1>2, BeginType DEF op_activate_process
  <2>2. resumes' \in Nat
    BY <1>2 DEF op_activate_process, TypeOK
  <2>. QED
    BY <1>2, <2>1, <2>2 DEF op_activate_process, TypeOK
<1>3. CASE op_onhold_process(a)
  BY <1>1, <1>3, BeginType, CallsOnly DEF op_onhold_process
<1>4. CASE op_cancel_process(a)
  BY <1>1, <1>4, BeginType, CallsOnly DEF op_cancel_process
<1>5. CASE op_dismiss_process(a)
  BY <1>1, <1>5, BeginType, CallsOnly DEF op_dismiss_process
<1>. QED
  BY <1>2, <1>3, <1>4, <1>5 DEF ProcessOperation

LEMMA TaskOperationType ==
  ASSUME TypeOK, NEW a \in Actor, NEW t \in Task, TaskOperation(a, t)
  PROVE  TypeOK'
<1>1. /\ Closing(t, FALSE) \in Seq(Call) /\ Closing(t, TRUE) \in Seq(Call)
      /\ Refusing(t) \in Seq(Call)
  BY ClosingCalls, RefusingCalls DEF Task
<1>2. CASE op_close_task(a, t)
  BY <1>1, <1>2, BeginType, CallsOnly DEF op_close_task
<1>3. CASE op_forward_task(a, t)
  BY <1>1, <1>3, BeginType, CallsOnly DEF op_forward_task
<1>4. CASE op_refuse_task(a, t)
  BY <1>1, <1>4, BeginType, CallsOnly DEF op_refuse_task
<1>. QED
  BY <1>2, <1>3, <1>4 DEF TaskOperation

LEMMA QueueType ==
  ASSUME TypeOK, NEW a \in Actor, NEW t \in System,
         TakeJob(a, t) \/ Callback(a, t)
  PROVE  TypeOK'
<1>. USE DEF procVars, jobVars, bounds
<1>1. t \in Comp
  BY DEF System
<1>2. /\ Do("run_job", t, None) \in Call /\ Do("except_job", t, None) \in Call
      /\ Do("except_mq", t, None) \in Call
  BY JobCall DEF JobFn
<1>3. Set(Root, "PAUSED") \in Call /\ Do("cancel_task", t, None) \in Call
  BY <1>1, DoCall, SetCall, Args DEF Fn, JobFn, DbFn, ProcStatus
<1>4. /\ <<Set(Root, "PAUSED"), Do("except_mq", t, None)>> \in Seq(Call)
      /\ <<Do("run_job", t, None), Do("except_job", t, None), Do("except_mq", t, None)>> \in Seq(Call)
      /\ <<Do("cancel_task", t, None)>> \in Seq(Call)
      /\ Closing(t, FALSE) \in Seq(Call)
  BY <1>1, <1>2, <1>3, ClosingCalls, Tuples
<1>5. CASE TakeJob(a, t)
  <2>1. calls' \in [Actor -> Seq(Call)]
    BY <1>4, <1>5, BeginType DEF TakeJob, TypeOK
  <2>2. jobs' \in [System -> Nat]
    BY <1>5 DEF TakeJob, TypeOK
  <2>. QED
    BY <1>5, <2>1, <2>2 DEF TakeJob, TypeOK
<1>6. CASE convert_files_done(a, t)
  <2>1. calls' \in [Actor -> Seq(Call)]
    BY <1>4, <1>6, BeginType DEF convert_files_done
  <2>2. conversions' \in [System -> Nat]
    BY <1>6 DEF convert_files_done, TypeOK
  <2>. QED
    BY <1>6, <2>1, <2>2 DEF convert_files_done, TypeOK
<1>7. CASE convert_files_failed(a, t)
  <2>1. calls' \in [Actor -> Seq(Call)]
    BY <1>4, <1>7, BeginType DEF convert_files_failed, TypeOK
  <2>2. conversions' \in [System -> Nat]
    BY <1>7 DEF convert_files_failed, TypeOK
  <2>. QED
    BY <1>7, <2>1, <2>2 DEF convert_files_failed, TypeOK
<1>. QED
  BY <1>5, <1>6, <1>7 DEF Callback

LEMMA RestartType == ASSUME TypeOK, NEW t \in System, RestartJob(t) PROVE TypeOK'
<1>1. jobs' \in [System -> Nat]
  BY DEF RestartJob, TypeOK
<1>. QED
  BY <1>1 DEF RestartJob, TypeOK, procVars, bounds

LEMMA CrashType == ASSUME TypeOK, NEW a \in Actor, Crash(a) PROVE TypeOK'
BY DEF Crash, TypeOK, procVars, jobVars

LEMMA InitType == Init => TypeOK
<1>. SUFFICES ASSUME Init PROVE TypeOK
  OBVIOUS
<1>1. calls \in [Actor -> Seq(Call)]
  BY Tuples DEF Init
<1>2. jobs \in [System -> Nat] /\ conversions \in [System -> Nat]
  BY DEF Init
<1>. QED
  BY <1>1, <1>2 DEF Init, TypeOK, CompStatus, ProcStatus

LEMMA NextType == TypeOK /\ [Next]_vars => TypeOK'
<1>. SUFFICES ASSUME TypeOK, [Next]_vars PROVE TypeOK'
  OBVIOUS
<1>1. ASSUME NEW a \in Actor, Step(a) PROVE TypeOK'
  BY <1>1, ControlStepType, StateStepType, ActivateStepType, CancelStepType,
     GroupStepType, ProcessStepType, JobStepType DEF Step, ComponentStep
<1>2. ASSUME NEW a \in Actor, FailState(a) \/ Crash(a) PROVE TypeOK'
  BY <1>2, StateStepType, CrashType
<1>3. ASSUME NEW a \in Session, ProcessOperation(a) PROVE TypeOK'
  BY <1>3, ProcessOperationType DEF Actor
<1>4. ASSUME NEW a \in Session, NEW t \in Task, TaskOperation(a, t) PROVE TypeOK'
  BY <1>4, TaskOperationType DEF Actor
<1>5. ASSUME NEW a \in Worker, NEW t \in System, TakeJob(a, t) PROVE TypeOK'
  BY <1>5, QueueType DEF Actor
<1>6. ASSUME NEW t \in System, RestartJob(t) PROVE TypeOK'
  BY <1>6, RestartType
<1>7. ASSUME NEW a \in Acs, NEW t \in System, Callback(a, t) PROVE TypeOK'
  BY <1>7, QueueType DEF Actor
<1>8. CASE UNCHANGED vars
  BY <1>8 DEF TypeOK, vars
<1>. QED
  BY <1>1, <1>2, <1>3, <1>4, <1>5, <1>6, <1>7, <1>8 DEF Next

\* The variables and every stack of pending calls stay in their domains, so no
\* method is called on something that is not there and no job without its task.
THEOREM TypeCorrect == Spec => []TypeOK
BY InitType, NextType, PTL DEF Spec
-----------------------------------------------------------------------------
(* The steps that leave the statuses and the on-hold mark alone *)

LEMMA MethodFrame ==
  ASSUME NEW a \in Actor,
         LeaveTry(a) \/ RaiseAgain(a) \/ ComponentStep(a) \/ ProcessStep(a)
  PROVE  UNCHANGED <<status, procStatus, process_is_onhold>>
<1>. USE DEF data, procVars
<1>1. CASE LeaveTry(a) \/ RaiseAgain(a) \/ ComponentStep(a)
  BY <1>1 DEF LeaveTry, RaiseAgain, ComponentStep, ActivateTask, ActivateEach,
     ActivateFirst, CancelTask, CancelSubtasks, CancelEach, ParallelDone,
     SequentialDone, CompletionDone, GroupFinish, ParallelCancel,
     SequentialCancel, CompletionCancel, EndCompletion, GroupRefuse
<1>2. CASE ProcessStep(a)
  BY <1>2 DEF ProcessStep, ActivateProcess, ActivateTasks, ProcessDone,
     ActivateNext, ProcessFinish, ProcessCancel, CancelProcess, DismissProcess,
     DismissCompletion, EndProcess
<1>. QED
  BY <1>1, <1>2

LEMMA OperationFrame ==
  ASSUME NEW a \in Actor, ProcessOperation(a) \/ \E t \in Task : TaskOperation(a, t)
  PROVE  UNCHANGED <<status, procStatus, process_is_onhold>>
BY DEF ProcessOperation, TaskOperation, op_activate_process, op_onhold_process,
   op_cancel_process, op_dismiss_process, op_close_task, op_forward_task,
   op_refuse_task, data, procVars

LEMMA QueueFrame ==
  ASSUME NEW a \in Actor, NEW t \in System,
         TakeJob(a, t) \/ RestartJob(t) \/ Callback(a, t)
  PROVE  UNCHANGED <<status, procStatus, process_is_onhold>>
BY DEF TakeJob, RestartJob, Callback, convert_files_done, convert_files_failed,
   procVars

LEMMA FaultFrame ==
  ASSUME NEW a \in Actor, FailState(a) \/ Crash(a) \/ RefuseState(a)
  PROVE  UNCHANGED <<status, procStatus, process_is_onhold>>
BY DEF FailState, Crash, RefuseState, data, procVars

\* A worker writes statuses directly only where an implementation may close
\* the process.
LEMMA JobFrame ==
  ASSUME TypeOK, NEW a \in Actor, JobStep(a)
  PROVE  /\ UNCHANGED <<procStatus, process_is_onhold>>
         /\ "completed" \notin Outcomes => UNCHANGED status
<1>. USE DEF data, procVars
<1>1. CASE RunJob(a) \/ FailJob(a) \/ DbDiscard(a)
  BY <1>1 DEF RunJob, FailJob, DbDiscard
<1>2. CASE DbComplete(a) \/ DbDiscardEach(a)
  <2>1. calls[a] # <<>> /\ Top(a).fn \in DbFn
    BY <1>2 DEF DbComplete, DbDiscardEach, At, DbFn
  <2>2. "completed" \in Outcomes
    BY <2>1, TopCall
  <2>. QED
    BY <1>2, <2>2 DEF DbComplete, DbDiscardEach
<1>. QED
  BY <1>1, <1>2 DEF JobStep
-----------------------------------------------------------------------------
(* Pausing *)

LEMMA NextOnHold == TypeOK /\ OnHold /\ [Next]_vars => OnHold'
<1>. SUFFICES ASSUME TypeOK, OnHold, [Next]_vars PROVE OnHold'
  OBVIOUS
<1>. USE DEF OnHold
<1>1. ASSUME NEW a \in Actor, Step(a) PROVE OnHold'
  <2>1. CASE SetComponent(a)
    BY <2>1 DEF SetComponent, procVars
  <2>2. CASE StartProcess(a)
    BY <2>2 DEF StartProcess
  <2>3. CASE ResumeProcess(a)
    BY <2>3 DEF ResumeProcess
  <2>4. CASE LeaveProcess(a)
    BY <2>4 DEF LeaveProcess, ProcSteps, TypeOK
  <2>. QED
    BY <1>1, <2>1, <2>2, <2>3, <2>4, FaultFrame, MethodFrame, JobFrame
       DEF Step, StateStep
<1>2. ASSUME NEW a \in Actor, FailState(a) \/ Crash(a) PROVE OnHold'
  BY <1>2, FaultFrame
<1>3. ASSUME NEW a \in Session, ProcessOperation(a) \/ \E t \in Task : TaskOperation(a, t)
      PROVE  OnHold'
  BY <1>3, OperationFrame DEF Actor
<1>4. ASSUME NEW a \in Worker, NEW t \in System, TakeJob(a, t) PROVE OnHold'
  BY <1>4, QueueFrame DEF Actor
<1>5. ASSUME NEW t \in System, RestartJob(t) PROVE OnHold'
  BY <1>5 DEF RestartJob, procVars
<1>6. ASSUME NEW a \in Acs, NEW t \in System, Callback(a, t) PROVE OnHold'
  BY <1>6, QueueFrame DEF Actor
<1>7. CASE UNCHANGED vars
  BY <1>7 DEF vars
<1>. QED
  BY <1>1, <1>2, <1>3, <1>4, <1>5, <1>6, <1>7 DEF Next

\* The components are marked as on hold exactly while the process is paused:
\* PAUSED.post sets the mark, EXECUTION.post and FAILED.post take it away, and
\* there is no other way out of that status.
THEOREM OnHoldCorrect == Spec => []OnHold
<1>1. Init => OnHold
  BY DEF Init, OnHold
<1>. QED
  BY <1>1, NextOnHold, TypeCorrect, PTL DEF Spec
-----------------------------------------------------------------------------
(* What has ended *)

LEMMA NextStable ==
  ASSUME "completed" \notin Outcomes, TypeOK, [Next]_vars,
         NEW c \in Comp, status[c] \in Terminal, status'[c] # status[c]
  PROVE  procStatus = "NEW" /\ procStatus' = "EXECUTION"
<1>. SUFFICES ASSUME status' # status,
                     ~(procStatus = "NEW" /\ procStatus' = "EXECUTION")
              PROVE  FALSE
  OBVIOUS
<1>1. ASSUME NEW a \in Actor, Step(a) PROVE FALSE
  <2>1. CASE SetComponent(a)
    BY <2>1 DEF SetComponent, CompSteps, Terminal, TypeOK
  <2>2. CASE StartProcess(a)
    BY <2>2 DEF StartProcess
  <2>3. CASE ResumeProcess(a) \/ LeaveProcess(a)
    BY <2>3 DEF ResumeProcess, LeaveProcess
  <2>. QED
    BY <1>1, <2>1, <2>2, <2>3, FaultFrame, MethodFrame, JobFrame DEF Step, StateStep
<1>2. ASSUME NEW a \in Actor, FailState(a) \/ Crash(a) PROVE FALSE
  BY <1>2, FaultFrame
<1>3. ASSUME NEW a \in Session, ProcessOperation(a) \/ \E t \in Task : TaskOperation(a, t)
      PROVE  FALSE
  BY <1>3, OperationFrame DEF Actor
<1>4. ASSUME NEW a \in Worker, NEW t \in System, TakeJob(a, t) PROVE FALSE
  BY <1>4, QueueFrame DEF Actor
<1>5. ASSUME NEW t \in System, RestartJob(t) PROVE FALSE
  BY <1>5 DEF RestartJob
<1>6. ASSUME NEW a \in Acs, NEW t \in System, Callback(a, t) PROVE FALSE
  BY <1>6, QueueFrame DEF Actor
<1>7. CASE UNCHANGED vars
  BY <1>7 DEF vars
<1>. QED
  BY <1>1, <1>2, <1>3, <1>4, <1>5, <1>6, <1>7 DEF Next

\* What has ended stays as it ended, whoever acts at the same time, unless an
\* implementation closes the process: close_process of
\* task_external_process.py passes the life cycle by and is excluded here.
THEOREM StableCorrect == "completed" \notin Outcomes => (Spec => Stable)
<1>. SUFFICES ASSUME "completed" \notin Outcomes PROVE Spec => Stable
  OBVIOUS
<1>1. TypeOK /\ [Next]_vars =>
        [\A c \in Comp : status[c] \in Terminal /\ status'[c] # status[c]
           => procStatus = "NEW" /\ procStatus' = "EXECUTION"]_vars
  BY NextStable
<1>. QED
  BY <1>1, TypeCorrect, PTL DEF Spec, Stable
-----------------------------------------------------------------------------
(* What a step does to the stack of its actor *)

\* A call other than the two that a worker's job consists of
LightCall(f) ==
  /\ f.fn \notin {"run_job", "db_complete"}
  /\ f.fn = "raise" => f.arg \in Exception

Light(s) ==
  /\ \E S : s \in Seq(S)
  /\ \A i \in 1 .. Len(s) : LightCall(s[i])

LEMMA LightTuples ==
  /\ Light(<<>>)
  /\ \A x : LightCall(x) => Light(<<x>>)
  /\ \A x, y : LightCall(x) /\ LightCall(y) => Light(<<x, y>>)
  /\ \A x, y, z : LightCall(x) /\ LightCall(y) /\ LightCall(z) => Light(<<x, y, z>>)
<1>1. Light(<<>>)
  BY DEF Light
<1>2. ASSUME NEW x, LightCall(x) PROVE Light(<<x>>)
  <2>1. <<x>> \in Seq({x}) /\ Len(<<x>>) = 1 /\ <<x>>[1] = x
    OBVIOUS
  <2>2. \E S : <<x>> \in Seq(S)
    BY <2>1
  <2>3. \A i \in 1 .. 1 : i = 1
    OBVIOUS
  <2>4. \A i \in 1 .. Len(<<x>>) : LightCall(<<x>>[i])
    BY <1>2, <2>1, <2>3
  <2>. QED
    BY <2>2, <2>4 DEF Light
<1>3. ASSUME NEW x, NEW y, LightCall(x), LightCall(y) PROVE Light(<<x, y>>)
  <2>1. /\ <<x, y>> \in Seq({x, y}) /\ Len(<<x, y>>) = 2
        /\ <<x, y>>[1] = x /\ <<x, y>>[2] = y
    OBVIOUS
  <2>2. \E S : <<x, y>> \in Seq(S)
    BY <2>1
  <2>3. \A i \in 1 .. 2 : i = 1 \/ i = 2
    OBVIOUS
  <2>4. \A i \in 1 .. Len(<<x, y>>) : LightCall(<<x, y>>[i])
    BY <1>3, <2>1, <2>3
  <2>. QED
    BY <2>2, <2>4 DEF Light
<1>4. ASSUME NEW x, NEW y, NEW z, LightCall(x), LightCall(y), LightCall(z)
      PROVE  Light(<<x, y, z>>)
  <2>1. /\ <<x, y, z>> \in Seq({x, y, z}) /\ Len(<<x, y, z>>) = 3
        /\ <<x, y, z>>[1] = x /\ <<x, y, z>>[2] = y /\ <<x, y, z>>[3] = z
    OBVIOUS
  <2>2. \E S : <<x, y, z>> \in Seq(S)
    BY <2>1
  <2>3. \A i \in 1 .. 3 : i = 1 \/ i = 2 \/ i = 3
    OBVIOUS
  <2>4. \A i \in 1 .. Len(<<x, y, z>>) : LightCall(<<x, y, z>>[i])
    BY <1>4, <2>1, <2>3
  <2>. QED
    BY <2>2, <2>4 DEF Light
<1>. QED
  BY <1>1, <1>2, <1>3, <1>4

LEMMA LightPair ==
  ASSUME NEW x, NEW s, LightCall(x), Light(s)
  PROVE  Light(<<x>> \o s)
<1>1. PICK S : s \in Seq(S)
  BY DEF Light
<1>. DEFINE T == S \cup {x}
<1>2. s \in Seq(T) /\ <<x>> \in Seq(T)
  BY <1>1
<1>. HIDE DEF T
<1>3. <<x>> \o s \in Seq(T) /\ Len(<<x>> \o s) = 1 + Len(s)
  BY <1>2
<1>4. \A i \in 1 .. Len(<<x>> \o s) :
        (<<x>> \o s)[i] = IF i = 1 THEN x ELSE s[i - 1]
  BY <1>2
<1>5. \A i \in 1 .. Len(<<x>> \o s) : i = 1 \/ i - 1 \in 1 .. Len(s)
  BY <1>2, <1>3
<1>. QED
  BY <1>3, <1>4, <1>5 DEF Light

LEMMA LightCalls ==
  /\ \A fn, obj, arg : fn \notin {"run_job", "db_complete", "raise"} => LightCall(Do(fn, obj, arg))
  /\ \A fn, obj, S : fn \notin {"run_job", "db_complete", "raise"} => LightCall(Each(fn, obj, S))
  /\ \A obj, s : LightCall(Set(obj, s))
  /\ \A e \in Exception : LightCall(Raise(e))
BY DEF LightCall, Do, Each, Set, Raise

LEMMA LightClosings ==
  /\ \A c, forwarded : Light(Closing(c, forwarded))
  /\ \A c : Light(Refusing(c)) /\ Light(Closed(c)) /\ Light(Cancelled(c))
BY LightTuples, LightCalls DEF Closing, Refusing, Closed, Cancelled

LEMMA StateShape ==
  ASSUME NEW a \in Actor, StateStep(a) \/ LeaveTry(a) \/ RaiseAgain(a)
  PROVE  \/ \E s : Light(s) /\ Continue(a, s)
         \/ \E e \in Exception : Throw(a, e)
         \/ RaiseAgain(a)
BY LightTuples DEF StateStep, SetComponent, StartProcess, ResumeProcess, LeaveProcess,
   RefuseState, LeaveTry, Exception

LEMMA ComponentShape ==
  ASSUME NEW a \in Actor, ComponentStep(a)
  PROVE  (\E s : Light(s) /\ Continue(a, s)) \/ (\E e \in Exception : Throw(a, e))
<1>1. CASE ActivateTask(a)
  BY <1>1, LightTuples, LightCalls DEF ActivateTask, Exception
<1>2. CASE ActivateEach(a) \/ ActivateFirst(a)
  BY <1>2, LightTuples, LightCalls DEF ActivateEach, ActivateFirst, Exception
<1>3. CASE CancelTask(a) \/ CancelSubtasks(a) \/ CancelEach(a)
  BY <1>3, LightTuples, LightCalls DEF CancelTask, CancelSubtasks, CancelEach
<1>4. CASE ParallelDone(a) \/ SequentialDone(a) \/ CompletionDone(a)
  BY <1>4, LightTuples, LightCalls, LightClosings
     DEF ParallelDone, SequentialDone, CompletionDone
<1>5. CASE GroupFinish(a)
  <2>1. \A g : Light(<<Do("cancel_subtasks", g, None)>> \o <<Do("end_completion", g, None)>>)
    BY LightPair, LightTuples, LightCalls
  <2>2. \A g : Light(<<Do("cancel_subtasks", g, None)>> \o Closed(g))
    BY LightPair, LightCalls, LightClosings
  <2>. QED
    BY <1>5, <2>1, <2>2 DEF GroupFinish
<1>6. CASE ParallelCancel(a) \/ SequentialCancel(a) \/ CompletionCancel(a)
  BY <1>6, LightTuples, LightCalls, LightClosings
     DEF ParallelCancel, SequentialCancel, CompletionCancel
<1>7. CASE EndCompletion(a) \/ GroupRefuse(a)
  BY <1>7, LightTuples, LightCalls, LightClosings DEF EndCompletion, GroupRefuse
<1>. QED
  BY <1>1, <1>2, <1>3, <1>4, <1>5, <1>6, <1>7 DEF ComponentStep

LEMMA ProcessShape ==
  ASSUME NEW a \in Actor, ProcessStep(a)
  PROVE  \E s : Light(s) /\ Continue(a, s)
<1>1. CASE ActivateProcess(a) \/ ActivateTasks(a)
  BY <1>1, LightTuples, LightCalls DEF ActivateProcess, ActivateTasks
<1>2. CASE ProcessDone(a) \/ ActivateNext(a)
  BY <1>2, LightTuples, LightCalls DEF ProcessDone, ActivateNext
<1>3. CASE ProcessFinish(a) \/ ProcessCancel(a) \/ CancelProcess(a)
  BY <1>3, LightTuples, LightCalls DEF ProcessFinish, ProcessCancel, CancelProcess
<1>4. CASE DismissProcess(a) \/ DismissCompletion(a) \/ EndProcess(a)
  BY <1>4, LightTuples, LightCalls DEF DismissProcess, DismissCompletion, EndProcess
<1>. QED
  BY <1>1, <1>2, <1>3, <1>4 DEF ProcessStep

\* Every method replaces its call by the calls it makes or raises an exception;
\* only the run of a job makes calls that belong to one.
LEMMA StepShape ==
  ASSUME NEW a \in Actor, Step(a), ~RunJob(a)
  PROVE  \/ \E s : Light(s) /\ Continue(a, s)
         \/ \E e \in Exception : Throw(a, e)
         \/ RaiseAgain(a)
<1>1. CASE JobStep(a)
  BY <1>1, LightTuples, LightCalls DEF JobStep, DbComplete, DbDiscard, DbDiscardEach, FailJob
<1>. QED
  BY <1>1, StateShape, ComponentShape, ProcessShape DEF Step

\* Only actors with a call make a step.
LEMMA StepOn == ASSUME NEW a \in Actor, Step(a) PROVE calls[a] # <<>>
<1>1. LeaveTry(a) \/ RaiseAgain(a) \/ StateStep(a) => calls[a] # <<>>
  BY DEF LeaveTry, RaiseAgain, StateStep, SetComponent, StartProcess, ResumeProcess,
     LeaveProcess, RefuseState, At
<1>2. ComponentStep(a) => calls[a] # <<>>
  BY DEF ComponentStep, ActivateTask, ActivateEach, ActivateFirst, CancelTask,
     CancelSubtasks, CancelEach, ParallelDone, SequentialDone, CompletionDone,
     GroupFinish, ParallelCancel, SequentialCancel, CompletionCancel, EndCompletion,
     GroupRefuse, At
<1>3. ProcessStep(a) => calls[a] # <<>>
  BY DEF ProcessStep, ActivateProcess, ActivateTasks, ProcessDone, ActivateNext,
     ProcessFinish, ProcessCancel, CancelProcess, DismissProcess, DismissCompletion,
     EndProcess, At
<1>4. JobStep(a) => calls[a] # <<>>
  BY DEF JobStep, RunJob, DbComplete, DbDiscard, DbDiscardEach, FailJob, At
<1>. QED
  BY <1>1, <1>2, <1>3, <1>4 DEF Step

\* A step moves the stack of its actor only.
LEMMA StepMoves ==
  ASSUME TypeOK, NEW a \in Actor, Step(a) \/ FailState(a) \/ Crash(a)
  PROVE  calls[a] # <<>> /\ \A b \in Actor \ {a} : calls'[b] = calls[b]
<1>1. calls \in [Actor -> Seq(Call)]
  BY DEF TypeOK
<1>2. calls[a] # <<>>
  BY StepOn DEF FailState, Crash, At, Idle
<1>3. (\E s : Continue(a, s)) \/ (\E e : Throw(a, e)) \/ calls' = [calls EXCEPT ![a] = <<>>]
  <2>1. CASE RunJob(a)
    BY <2>1 DEF RunJob
  <2>2. CASE Step(a) /\ ~RunJob(a)
    BY <2>2, StepShape DEF RaiseAgain
  <2>3. CASE FailState(a) \/ Crash(a)
    BY <2>3 DEF FailState, Crash
  <2>. QED
    BY <2>1, <2>2, <2>3
<1>4. \A s : Continue(a, s) => \A b \in Actor \ {a} : calls'[b] = calls[b]
  BY <1>1 DEF Continue
<1>5. \A e : Throw(a, e) => \A b \in Actor \ {a} : calls'[b] = calls[b]
  BY <1>1 DEF Throw
<1>6. calls' = [calls EXCEPT ![a] = <<>>] => \A b \in Actor \ {a} : calls'[b] = calls[b]
  BY <1>1
<1>. QED
  BY <1>2, <1>3, <1>4, <1>5, <1>6

\* Only an operation that begins makes an idle actor busy.
LEMMA NextMoves ==
  ASSUME TypeOK, [Next]_vars
  PROVE  \/ UNCHANGED calls
         \/ \E a \in Actor : calls[a] # <<>> /\ \A b \in Actor \ {a} : calls'[b] = calls[b]
         \/ \E a \in Actor : \E s : Begin(a, s)
<1>1. ASSUME NEW a \in Actor, Step(a) \/ FailState(a) \/ Crash(a)
      PROVE  calls[a] # <<>> /\ \A b \in Actor \ {a} : calls'[b] = calls[b]
  BY <1>1, StepMoves
<1>2. ASSUME NEW a \in Session, ProcessOperation(a) \/ \E t \in Task : TaskOperation(a, t)
      PROVE  \E s : Begin(a, s)
  BY <1>2 DEF ProcessOperation, TaskOperation, op_activate_process, op_onhold_process,
     op_cancel_process, op_dismiss_process, op_close_task, op_forward_task,
     op_refuse_task
<1>3. ASSUME NEW a \in Worker, NEW t \in System, TakeJob(a, t)
      PROVE  UNCHANGED calls \/ \E s : Begin(a, s)
  BY <1>3 DEF TakeJob
<1>4. ASSUME NEW a \in Acs, NEW t \in System, Callback(a, t)
      PROVE  UNCHANGED calls \/ \E s : Begin(a, s)
  BY <1>4 DEF Callback, convert_files_done, convert_files_failed
<1>5. ASSUME NEW t \in System, RestartJob(t) PROVE UNCHANGED calls
  BY <1>5 DEF RestartJob
<1>6. CASE UNCHANGED vars
  BY <1>6 DEF vars
<1>. QED
  BY <1>1, <1>2, <1>3, <1>4, <1>5, <1>6 DEF Next, Actor

LEMMA LightPushed ==
  ASSUME NEW r, Light(r), NEW q, Light(q)
  PROVE  Light(r \o q)
<1>1. PICK R : r \in Seq(R)
  BY DEF Light
<1>2. PICK Q : q \in Seq(Q)
  BY DEF Light
<1>. DEFINE S == R \cup Q
<1>3. r \in Seq(S) /\ q \in Seq(S)
  BY <1>1, <1>2
<1>. HIDE DEF S
<1>. DEFINE n == r \o q
<1>4. /\ n \in Seq(S) /\ Len(n) = Len(r) + Len(q) /\ Len(r) \in Nat /\ Len(q) \in Nat
      /\ \A i \in 1 .. Len(n) : n[i] = IF i <= Len(r) THEN r[i] ELSE q[i - Len(r)]
  BY <1>3
<1>. HIDE DEF n
<1>5. ASSUME NEW i \in 1 .. Len(n) PROVE LightCall(n[i])
  <2>1. CASE i <= Len(r)
    <3>1. i \in 1 .. Len(r) /\ n[i] = r[i]
      BY <1>4, <2>1
    <3>. QED
      BY <3>1 DEF Light
  <2>2. CASE ~(i <= Len(r))
    <3>1. i - Len(r) \in 1 .. Len(q) /\ n[i] = q[i - Len(r)]
      BY <1>4, <2>2
    <3>. QED
      BY <3>1 DEF Light
  <2>. QED
    BY <2>1, <2>2
<1>6. Light(n)
  BY <1>4, <1>5 DEF Light
<1>. QED
  BY <1>6 DEF n

LEMMA LightRest ==
  ASSUME NEW s, Light(s), NEW h \in 0 .. Len(s)
  PROVE  Light(SubSeq(s, h + 1, Len(s)))
<1>1. PICK S : s \in Seq(S)
  BY DEF Light
<1>. DEFINE n == SubSeq(s, h + 1, Len(s))
<1>2. /\ n \in Seq(S) /\ Len(n) = Len(s) - h /\ Len(s) \in Nat
      /\ \A i \in 1 .. Len(n) : n[i] = s[i + h]
  BY <1>1
<1>. HIDE DEF n
<1>3. ASSUME NEW i \in 1 .. Len(n) PROVE LightCall(n[i])
  <2>1. i + h \in 1 .. Len(s) /\ n[i] = s[i + h]
    BY <1>2
  <2>. QED
    BY <2>1 DEF Light
<1>4. Light(n)
  BY <1>2, <1>3 DEF Light
<1>. QED
  BY <1>4 DEF n

LEMMA LightUnwound ==
  ASSUME NEW s, Light(s), NEW e \in Exception
  PROVE  Light(Unwound(s, e))
<1>. DEFINE H == {i \in 1 .. Len(s) : e \in Catches(s[i].fn)}
            h == CHOOSE i \in H : \A j \in H : i <= j
<1>1. CASE H = {}
  BY <1>1, LightTuples DEF Unwound
<1>2. CASE H # {}
  <2>1. H \in SUBSET Nat
    OBVIOUS
  <2>. HIDE DEF H
  <2>2. \E i \in H : \A j \in H : i <= j
    BY <1>2, <2>1, LeastNumber
  <2>3. h \in H
    BY <2>2
  <2>. HIDE DEF h
  <2>4. h \in 0 .. Len(s)
    BY <2>3 DEF H
  <2>5. Light(SubSeq(s, h + 1, Len(s)))
    BY <2>4, LightRest
  <2>6. Light(Handler(s[h], e))
    BY LightTuples, LightCalls DEF Handler
  <2>7. Light(Handler(s[h], e) \o SubSeq(s, h + 1, Len(s)))
    BY <2>5, <2>6, LightPushed
  <2>. QED
    BY <1>2, <2>7 DEF Unwound, H, h
<1>. QED
  BY <1>1, <1>2

\* An operation of a session never comes to run a job.
LEMMA LightStep ==
  ASSUME TypeOK, NEW a \in Actor, Light(calls[a]), Step(a) \/ FailState(a) \/ Crash(a)
  PROVE  ~RunJob(a) /\ Light(calls'[a])
<1>1. calls \in [Actor -> Seq(Call)] /\ calls[a] # <<>> /\ calls[a] \in Seq(Call)
  BY StepMoves DEF TypeOK
<1>2. Len(calls[a]) \in Nat /\ Len(calls[a]) >= 1 /\ Head(calls[a]) = calls[a][1]
  BY <1>1, EmptySeq
<1>3. LightCall(Top(a))
  <2>1. 1 \in 1 .. Len(calls[a])
    BY <1>2
  <2>. QED
    BY <1>2, <2>1 DEF Light, Top
<1>4. ~RunJob(a)
  BY <1>3 DEF RunJob, At, LightCall
<1>5. Light(Tail(calls[a]))
  <2>1. 1 \in 0 .. Len(calls[a])
    BY <1>2
  <2>2. Tail(calls[a]) = SubSeq(calls[a], 1 + 1, Len(calls[a]))
    BY <1>1
  <2>3. Light(SubSeq(calls[a], 1 + 1, Len(calls[a])))
    BY <2>1, LightRest
  <2>. QED
    BY <2>2, <2>3, Zenon
<1>6. ASSUME NEW s, Light(s), Continue(a, s) PROVE Light(calls'[a])
  <2>1. calls'[a] = s \o Tail(calls[a])
    BY <1>1, <1>6 DEF Continue
  <2>. QED
    BY <1>5, <1>6, <2>1, LightPushed
<1>7. ASSUME NEW e \in Exception, Throw(a, e) PROVE Light(calls'[a])
  <2>1. calls'[a] = Unwound(Tail(calls[a]), e)
    BY <1>1, <1>7 DEF Throw
  <2>. QED
    BY <1>5, <2>1, LightUnwound
<1>8. RaiseAgain(a) => \E e \in Exception : Throw(a, e)
  BY <1>3 DEF RaiseAgain, At, LightCall
<1>9. FailState(a) => \E e \in Exception : Throw(a, e)
  BY DEF FailState, Exception
<1>10. Crash(a) => Light(calls'[a])
  BY <1>1, LightTuples DEF Crash
<1>. QED
  BY <1>4, <1>6, <1>7, <1>8, <1>9, <1>10, StepShape
-----------------------------------------------------------------------------
(* No running system task is forgotten by the queue, as long as no operating *)
(* system process dies and no transaction fails.                             *)
(*                                                                           *)
(* That a frame of the task is on some stack is not enough to go on with:    *)
(* the last frame of a job is dropped when the job ends.  The invariant says *)
(* what the actor at work is about to do: it runs the task, ends it, pauses  *)
(* the process, or has the statement that completes the task still to come,  *)
(* with the except clause that pauses the process below it.                  *)

(* The stack of a job *)

\* Where the calls of a job are: what the except clauses catch is known, the
\* run of a job is at the bottom, in its two try blocks, and so is the
\* direct update of its task.
JobShape(s) ==
  /\ \A i \in 1 .. Len(s) : s[i].fn = "raise" => s[i].arg \in Exception
  /\ \A i \in 1 .. Len(s) : s[i].fn = "run_job" =>
       /\ i + 2 = Len(s)
       /\ s[i + 1].fn = "except_job" /\ s[i + 1].obj = s[i].obj
       /\ s[i + 2].fn = "except_mq" /\ s[i + 2].obj = s[i].obj
  /\ \A i \in 1 .. Len(s) : s[i].fn = "db_complete" =>
       /\ i + 3 = Len(s)
       /\ s[i + 1].fn = "db_discard"
       /\ s[i + 2].fn = "except_job" /\ s[i + 2].obj = s[i].obj

\* The actor of stack s sees to task t.
SeesTo(s, t) ==
  \/ s # <<>> /\ s[1].obj = t /\ s[1].fn \in {"run_job", "cancel_task"}
  \/ s # <<>> /\ s[1].obj = t /\ s[1].fn = "set" /\ s[1].arg \in Terminal
  \/ /\ s # <<>> /\ s[1].obj = Root /\ s[1].fn = "set" /\ s[1].arg = "PAUSED"
     /\ \E i \in 1 .. Len(s) : s[i].obj = t
  \/ \E i \in 1 .. Len(s) : s[i].fn = "db_complete" /\ s[i].obj = t

JobShapes == \A a \in Actor : JobShape(calls[a])

SeenTo ==
  procStatus = "EXECUTION" =>
    \A t \in System : status[t] = "EXECUTION" =>
      jobs[t] > 0 \/ conversions[t] > 0 \/ \E a \in Actor : SeesTo(calls[a], t)

LEMMA LightJobShape == ASSUME NEW s, Light(s) PROVE JobShape(s)
BY DEF Light, LightCall, JobShape

\* The elements of a sequence put on top of another
LEMMA Shift ==
  ASSUME NEW r, NEW S, r \in Seq(S), NEW q \in Seq(Call)
  PROVE  /\ Len(r) \in Nat /\ Len(q) \in Nat /\ Len(r \o q) = Len(r) + Len(q)
         /\ \A i \in 1 .. Len(r) : (r \o q)[i] = r[i]
         /\ \A i \in 1 .. Len(q) : (r \o q)[Len(r) + i] = q[i]
<1>1. Len(r) \in Nat /\ Len(q) \in Nat
  OBVIOUS
<1>2. Len(r \o q) = Len(r) + Len(q)
  OBVIOUS
<1>3. \A i \in 1 .. Len(r) : (r \o q)[i] = r[i]
  OBVIOUS
<1>4. \A i \in 1 .. Len(q) : (r \o q)[Len(r) + i] = q[i]
  OBVIOUS
<1>. QED
  BY <1>1, <1>2, <1>3, <1>4

LEMMA PushShape ==
  ASSUME NEW r, Light(r), NEW q \in Seq(Call), JobShape(q)
  PROVE  JobShape(r \o q)
<1>1. PICK S : r \in Seq(S)
  BY DEF Light
<1>. DEFINE n == r \o q
            l == Len(r)
<1>2. /\ l \in Nat /\ Len(q) \in Nat /\ Len(n) = l + Len(q)
      /\ \A i \in 1 .. l : n[i] = r[i]
      /\ \A i \in 1 .. Len(q) : n[l + i] = q[i]
  BY <1>1, Shift
<1>. HIDE DEF n
<1>3. \A i \in 1 .. l : LightCall(n[i])
  BY <1>2 DEF Light
<1>. HIDE DEF l
<1>4. ASSUME NEW i \in 1 .. Len(n), ~LightCall(n[i])
      PROVE  i - l \in 1 .. Len(q) /\ n[i] = q[i - l]
             /\ \A k \in 1 .. 3 : i - l + k <= Len(q) => n[i + k] = q[i - l + k]
  <2>1. i > l /\ i - l \in 1 .. Len(q)
    BY <1>2, <1>3, <1>4
  <2>2. l + (i - l) = i /\ \A k \in 1 .. 3 : l + (i - l + k) = i + k
    BY <1>2, <2>1
  <2>3. \A k \in 1 .. 3 : i - l + k <= Len(q) => i - l + k \in 1 .. Len(q)
    BY <1>2, <2>1
  <2>. QED
    BY <1>2, <2>1, <2>2, <2>3
<1>5. \A i \in 1 .. Len(n) : n[i].fn = "raise" => n[i].arg \in Exception
  BY <1>4 DEF JobShape, LightCall
<1>6. ASSUME NEW i \in 1 .. Len(n), n[i].fn = "run_job"
      PROVE  /\ i + 2 = Len(n)
             /\ n[i + 1].fn = "except_job" /\ n[i + 1].obj = n[i].obj
             /\ n[i + 2].fn = "except_mq" /\ n[i + 2].obj = n[i].obj
  <2>1. i - l \in 1 .. Len(q) /\ n[i] = q[i - l]
        /\ \A k \in 1 .. 3 : i - l + k <= Len(q) => n[i + k] = q[i - l + k]
    BY <1>4, <1>6 DEF LightCall
  <2>2. /\ i - l + 2 = Len(q)
        /\ q[i - l + 1].fn = "except_job" /\ q[i - l + 1].obj = q[i - l].obj
        /\ q[i - l + 2].fn = "except_mq" /\ q[i - l + 2].obj = q[i - l].obj
    BY <1>6, <2>1 DEF JobShape
  <2>3. i - l + 1 <= Len(q) /\ i - l + 2 <= Len(q) /\ i + 2 = Len(n)
    BY <1>2, <2>2
  <2>. QED
    BY <2>1, <2>2, <2>3
<1>7. ASSUME NEW i \in 1 .. Len(n), n[i].fn = "db_complete"
      PROVE  /\ i + 3 = Len(n)
             /\ n[i + 1].fn = "db_discard"
             /\ n[i + 2].fn = "except_job" /\ n[i + 2].obj = n[i].obj
  <2>1. i - l \in 1 .. Len(q) /\ n[i] = q[i - l]
        /\ \A k \in 1 .. 3 : i - l + k <= Len(q) => n[i + k] = q[i - l + k]
    BY <1>4, <1>7 DEF LightCall
  <2>2. /\ i - l + 3 = Len(q)
        /\ q[i - l + 1].fn = "db_discard"
        /\ q[i - l + 2].fn = "except_job" /\ q[i - l + 2].obj = q[i - l].obj
    BY <1>7, <2>1 DEF JobShape
  <2>3. i - l + 1 <= Len(q) /\ i - l + 2 <= Len(q) /\ i + 3 = Len(n)
    BY <1>2, <2>2
  <2>. QED
    BY <2>1, <2>2, <2>3
<1>8. JobShape(n)
  BY <1>5, <1>6, <1>7 DEF JobShape
<1>. QED
  BY <1>8 DEF n

\* What is left of a stack when the calls on top are gone
LEMMA SuffixShape ==
  ASSUME NEW s \in Seq(Call), JobShape(s), NEW h \in 0 .. Len(s)
  PROVE  /\ SubSeq(s, h + 1, Len(s)) \in Seq(Call)
         /\ Len(SubSeq(s, h + 1, Len(s))) = Len(s) - h
         /\ \A i \in 1 .. Len(s) - h : SubSeq(s, h + 1, Len(s))[i] = s[i + h]
         /\ JobShape(SubSeq(s, h + 1, Len(s)))
<1>. DEFINE n == SubSeq(s, h + 1, Len(s))
<1>1. /\ n \in Seq(Call) /\ Len(n) = Len(s) - h /\ Len(n) \in Nat
      /\ \A i \in 1 .. Len(n) : n[i] = s[i + h]
  OBVIOUS
<1>. HIDE DEF n
<1>2. ASSUME NEW i \in 1 .. Len(n)
      PROVE  /\ i + h \in 1 .. Len(s)
             /\ \A k \in 1 .. 3 : i + h + k <= Len(s) => n[i + k] = s[i + h + k]
  <2>1. i + h \in 1 .. Len(s)
    BY <1>1
  <2>2. ASSUME NEW k \in 1 .. 3, i + h + k <= Len(s) PROVE n[i + k] = s[i + h + k]
    <3>1. i + k \in 1 .. Len(n) /\ (i + k) + h = i + h + k
      BY <1>1, <2>2
    <3>. QED
      BY <1>1, <3>1
  <2>. QED
    BY <2>1, <2>2
<1>3. \A i \in 1 .. Len(n) : n[i].fn = "raise" => n[i].arg \in Exception
  BY <1>1, <1>2 DEF JobShape
<1>4. ASSUME NEW i \in 1 .. Len(n), n[i].fn = "run_job"
      PROVE  /\ i + 2 = Len(n)
             /\ n[i + 1].fn = "except_job" /\ n[i + 1].obj = n[i].obj
             /\ n[i + 2].fn = "except_mq" /\ n[i + 2].obj = n[i].obj
  <2>1. /\ i + h + 2 = Len(s)
        /\ s[i + h + 1].fn = "except_job" /\ s[i + h + 1].obj = s[i + h].obj
        /\ s[i + h + 2].fn = "except_mq" /\ s[i + h + 2].obj = s[i + h].obj
    BY <1>1, <1>2, <1>4 DEF JobShape
  <2>2. i + h + 1 <= Len(s) /\ i + h + 2 <= Len(s) /\ i + 2 = Len(n)
    BY <1>1, <2>1
  <2>3. n[i] = s[i + h] /\ n[i + 1] = s[i + h + 1] /\ n[i + 2] = s[i + h + 2]
    BY <1>1, <1>2, <2>2
  <2>. QED
    BY <2>1, <2>2, <2>3
<1>5. ASSUME NEW i \in 1 .. Len(n), n[i].fn = "db_complete"
      PROVE  /\ i + 3 = Len(n)
             /\ n[i + 1].fn = "db_discard"
             /\ n[i + 2].fn = "except_job" /\ n[i + 2].obj = n[i].obj
  <2>1. /\ i + h + 3 = Len(s)
        /\ s[i + h + 1].fn = "db_discard"
        /\ s[i + h + 2].fn = "except_job" /\ s[i + h + 2].obj = s[i + h].obj
    BY <1>1, <1>2, <1>5 DEF JobShape
  <2>2. i + h + 1 <= Len(s) /\ i + h + 2 <= Len(s) /\ i + 3 = Len(n)
    BY <1>1, <2>1
  <2>3. n[i] = s[i + h] /\ n[i + 1] = s[i + h + 1] /\ n[i + 2] = s[i + h + 2]
    BY <1>1, <1>2, <2>2
  <2>. QED
    BY <2>1, <2>2, <2>3
<1>6. JobShape(n)
  BY <1>3, <1>4, <1>5 DEF JobShape
<1>. QED
  BY <1>1, <1>6 DEF n

\* The calls below the one on top
LEMMA Below ==
  ASSUME NEW s \in Seq(Call), s # <<>>, JobShape(s)
  PROVE  /\ Len(s) >= 1 /\ Head(s) = s[1]
         /\ Tail(s) \in Seq(Call) /\ Len(Tail(s)) = Len(s) - 1
         /\ \A i \in 1 .. Len(s) - 1 : Tail(s)[i] = s[i + 1]
         /\ JobShape(Tail(s))
<1>1. Len(s) >= 1 /\ Head(s) = s[1] /\ 1 \in 0 .. Len(s)
  BY EmptySeq
<1>2. Tail(s) = SubSeq(s, 1 + 1, Len(s))
  BY <1>1
<1>3. /\ SubSeq(s, 1 + 1, Len(s)) \in Seq(Call) /\ Len(SubSeq(s, 1 + 1, Len(s))) = Len(s) - 1
      /\ \A i \in 1 .. Len(s) - 1 : SubSeq(s, 1 + 1, Len(s))[i] = s[i + 1]
      /\ JobShape(SubSeq(s, 1 + 1, Len(s)))
  BY <1>1, SuffixShape
<1>. QED
  BY <1>1, <1>2, <1>3, Zenon

\* Where an exception goes
LEMMA Caught ==
  ASSUME NEW s \in Seq(Call), NEW e,
         NEW k \in 1 .. Len(s), e \in Catches(s[k].fn)
  PROVE  \E h \in 1 .. k :
           /\ e \in Catches(s[h].fn)
           /\ Unwound(s, e) = Handler(s[h], e) \o SubSeq(s, h + 1, Len(s))
<1>. DEFINE H == {i \in 1 .. Len(s) : e \in Catches(s[i].fn)}
            h == CHOOSE i \in H : \A j \in H : i <= j
<1>1. H \in SUBSET Nat /\ k \in H /\ H # {}
  OBVIOUS
<1>. HIDE DEF H
<1>2. \E i \in H : \A j \in H : i <= j
  BY <1>1, LeastNumber
<1>3. h \in H /\ \A j \in H : h <= j
  BY <1>2
<1>. HIDE DEF h
<1>4. h \in 1 .. k /\ e \in Catches(s[h].fn)
  <2>1. h \in 1 .. Len(s) /\ e \in Catches(s[h].fn)
    BY <1>3 DEF H
  <2>. QED
    BY <1>1, <1>3, <2>1
<1>5. Unwound(s, e) = Handler(s[h], e) \o SubSeq(s, h + 1, Len(s))
  BY <1>1 DEF Unwound, H, h
<1>. QED
  BY <1>4, <1>5

LEMMA HandlerLight == ASSUME NEW f, NEW e \in Exception PROVE Light(Handler(f, e))
BY LightTuples, LightCalls DEF Handler

LEMMA UnwoundShape ==
  ASSUME NEW s \in Seq(Call), JobShape(s), NEW e \in Exception
  PROVE  JobShape(Unwound(s, e))
<1>1. CASE \E k \in 1 .. Len(s) : e \in Catches(s[k].fn)
  <2>1. PICK h \in 1 .. Len(s) :
               Unwound(s, e) = Handler(s[h], e) \o SubSeq(s, h + 1, Len(s))
    <3>1. PICK k \in 1 .. Len(s) : e \in Catches(s[k].fn)
      BY <1>1
    <3>2. PICK h \in 1 .. k :
                 Unwound(s, e) = Handler(s[h], e) \o SubSeq(s, h + 1, Len(s))
      BY <3>1, Caught
    <3>3. h \in 1 .. Len(s)
      OBVIOUS
    <3>. QED
      BY <3>2, <3>3
  <2>2. h \in 0 .. Len(s)
    OBVIOUS
  <2>. QED
    BY <2>1, <2>2, SuffixShape, HandlerLight, PushShape
<1>2. CASE ~ \E k \in 1 .. Len(s) : e \in Catches(s[k].fn)
  <2>1. {i \in 1 .. Len(s) : e \in Catches(s[i].fn)} = {}
    BY <1>2
  <2>2. Unwound(s, e) = <<>>
    BY <2>1 DEF Unwound
  <2>. QED
    BY <2>2, LightTuples, LightJobShape
<1>. QED
  BY <1>1, <1>2
-----------------------------------------------------------------------------
(* Every step keeps the shape of the stacks. *)

\* The stacks after a step of a
LEMMA After ==
  ASSUME TypeOK, NEW a \in Actor
  PROVE  /\ \A s : Continue(a, s) => calls'[a] = s \o Tail(calls[a])
         /\ \A e : Throw(a, e) => calls'[a] = Unwound(Tail(calls[a]), e)
         /\ \A s : Begin(a, s) => calls[a] = <<>> /\ calls'[a] = s
         /\ \A s, e : Continue(a, s) \/ Throw(a, e) \/ Begin(a, s) =>
              \A b \in Actor \ {a} : calls'[b] = calls[b]
<1>1. calls \in [Actor -> Seq(Call)]
  BY DEF TypeOK
<1>. QED
  BY <1>1 DEF Continue, Throw, Begin, Idle

\* The task whose run is on top of the stack
LEMMA JobOnTop ==
  ASSUME TypeOK, NEW a \in Actor, JobShape(calls[a]), At(a, "run_job")
  PROVE  /\ Top(a).obj \in System
         /\ Tail(calls[a]) \in Seq(Call) /\ Len(Tail(calls[a])) = 2
         /\ JobShape(Tail(calls[a]))
         /\ Tail(calls[a])[1].fn = "except_job" /\ Tail(calls[a])[1].obj = Top(a).obj
         /\ Tail(calls[a])[2].fn = "except_mq" /\ Tail(calls[a])[2].obj = Top(a).obj
<1>. DEFINE s == calls[a]
<1>1. s \in Seq(Call) /\ s # <<>> /\ Top(a) = Head(s) /\ Top(a).fn = "run_job"
  BY DEF TypeOK, At, Top
<1>2. Top(a).obj \in System
  BY <1>1, TopCall DEF JobFn
<1>. HIDE DEF s
<1>3. /\ Len(s) >= 1 /\ Head(s) = s[1] /\ Tail(s) \in Seq(Call) /\ Len(Tail(s)) = Len(s) - 1
      /\ \A i \in 1 .. Len(s) - 1 : Tail(s)[i] = s[i + 1]
      /\ JobShape(Tail(s))
  BY <1>1, Below DEF s
<1>4. /\ 1 + 2 = Len(s)
      /\ s[1 + 1].fn = "except_job" /\ s[1 + 1].obj = s[1].obj
      /\ s[1 + 2].fn = "except_mq" /\ s[1 + 2].obj = s[1].obj
  <2>1. 1 \in 1 .. Len(s) /\ s[1].fn = "run_job"
    BY <1>1, <1>3
  <2>2. JobShape(s)
    BY DEF s
  <2>. QED
    BY <2>1, <2>2 DEF JobShape
<1>5. Tail(s)[1] = s[1 + 1] /\ Tail(s)[2] = s[1 + 2]
  BY <1>3, <1>4
<1>. QED
  BY <1>1, <1>2, <1>3, <1>4, <1>5 DEF s

\* close_process of a system task: the process is ended first.
Completed(t) ==
  <<Do("end_process", Root, "COMPLETED"), Do("db_complete", t, None), Do("db_discard", Root, None)>>

LEMMA CompletedShape ==
  ASSUME NEW t, NEW q \in Seq(Call), Len(q) = 2, JobShape(q),
         q[1].fn = "except_job", q[1].obj = t, q[2].fn = "except_mq", q[2].obj = t
  PROVE  /\ Len(Completed(t) \o q) = 5
         /\ (Completed(t) \o q)[2].fn = "db_complete" /\ (Completed(t) \o q)[2].obj = t
         /\ JobShape(Completed(t) \o q)
<1>. DEFINE x == Do("end_process", Root, "COMPLETED")
            y == Do("db_complete", t, None)
            z == Do("db_discard", Root, None)
            r == <<x, y, z>>
            n == r \o q
<1>1. /\ x.fn = "end_process" /\ y.fn = "db_complete" /\ y.obj = t /\ z.fn = "db_discard"
  BY DEF Do
<1>. HIDE DEF x, y, z
<1>2. r \in Seq({x, y, z}) /\ Len(r) = 3 /\ r[1] = x /\ r[2] = y /\ r[3] = z
  OBVIOUS
<1>. HIDE DEF r
<1>3. /\ Len(n) = 5 /\ n[1] = x /\ n[2] = y /\ n[3] = z /\ n[4] = q[1] /\ n[5] = q[2]
  <2>1. /\ Len(n) = 3 + 2
        /\ \A i \in 1 .. 3 : n[i] = r[i]
        /\ \A i \in 1 .. 2 : n[3 + i] = q[i]
    <3>1. PICK S : r \in Seq(S)
      BY <1>2
    <3>2. /\ Len(n) = Len(r) + Len(q)
          /\ \A i \in 1 .. Len(r) : n[i] = r[i]
          /\ \A i \in 1 .. Len(q) : n[Len(r) + i] = q[i]
      BY <3>1, Shift
    <3>. QED
      BY <1>2, <3>2
  <2>2. 3 + 1 = 4 /\ 3 + 2 = 5 /\ {1, 2} \subseteq 1 .. 2 /\ {1, 2, 3} \subseteq 1 .. 3
    OBVIOUS
  <2>. HIDE DEF n
  <2>. QED
    BY <1>2, <2>1, <2>2
<1>4. \A i \in 1 .. Len(n) : i = 1 \/ i = 2 \/ i = 3 \/ i = 4 \/ i = 5
  BY <1>3
<1>. HIDE DEF n
<1>5. JobShape(n)
  BY <1>1, <1>3, <1>4 DEF JobShape
<1>. QED
  BY <1>1, <1>3, <1>5 DEF n, r, x, y, z, Completed

LEMMA RunJobShape ==
  ASSUME TypeOK, NEW a \in Actor, JobShape(calls[a]), RunJob(a)
  PROVE  JobShape(calls'[a])
<1>. DEFINE q == Tail(calls[a])
            t == Top(a).obj
<1>1. /\ q \in Seq(Call) /\ Len(q) = 2 /\ JobShape(q)
      /\ q[1].fn = "except_job" /\ q[1].obj = t /\ q[2].fn = "except_mq" /\ q[2].obj = t
  BY JobOnTop DEF RunJob
<1>2. \/ \E s : Light(s) /\ Continue(a, s)
      \/ Continue(a, Completed(t))
      \/ Throw(a, "ElementsError")
  <2>1. /\ Light(Closing(t, FALSE)) /\ Light(Refusing(t)) /\ Light(<<>>)
        /\ Light(<<Do("cancel_task", t, None)>>) /\ Light(<<Set(Root, "PAUSED")>>)
        /\ Light(<<Do("cancel_process", Root, None)>>)
    BY LightTuples, LightCalls, LightClosings
  <2>2. \/ Continue(a, Closing(t, FALSE)) \/ Continue(a, Refusing(t)) \/ Continue(a, <<>>)
        \/ Continue(a, <<Do("cancel_task", t, None)>>) \/ Continue(a, <<Set(Root, "PAUSED")>>)
        \/ Continue(a, <<Do("cancel_process", Root, None)>>)
        \/ Continue(a, Completed(t)) \/ Throw(a, "ElementsError")
    BY DEF RunJob, Completed
  <2>. QED
    BY <2>1, <2>2
<1>. HIDE DEF q, t
<1>3. ASSUME NEW s, Light(s), Continue(a, s) PROVE JobShape(calls'[a])
  <2>1. q \in Seq(Call) /\ JobShape(q)
    BY <1>1
  <2>2. calls'[a] = s \o q
    BY <1>3, After DEF q
  <2>. QED
    BY <1>3, <2>1, <2>2, PushShape
<1>4. CASE Continue(a, Completed(t))
  <2>1. calls'[a] = Completed(t) \o q
    BY <1>4, After DEF q
  <2>. QED
    BY <1>1, <2>1, CompletedShape
<1>5. CASE Throw(a, "ElementsError")
  BY <1>1, <1>5, After, UnwoundShape DEF q, Exception
<1>. QED
  BY <1>2, <1>3, <1>4, <1>5

LEMMA StepShapes ==
  ASSUME TypeOK, NEW a \in Actor, JobShape(calls[a]), Step(a)
  PROVE  JobShape(calls'[a]) /\ \A b \in Actor \ {a} : calls'[b] = calls[b]
<1>1. CASE RunJob(a)
  <2>1. \A b \in Actor \ {a} : calls'[b] = calls[b]
    <3>1. (\E s : Continue(a, s)) \/ (\E e : Throw(a, e))
      BY <1>1 DEF RunJob
    <3>. QED
      BY <3>1, After
  <2>. QED
    BY <1>1, <2>1, RunJobShape
<1>2. CASE ~RunJob(a)
  <2>1. calls[a] # <<>> /\ calls[a] \in Seq(Call)
    BY StepOn DEF TypeOK
  <2>2. Tail(calls[a]) \in Seq(Call) /\ JobShape(Tail(calls[a]))
    BY <2>1, Below
  <2>3. CASE RaiseAgain(a)
    <3>1. Throw(a, Top(a).arg) /\ Top(a).fn = "raise"
      BY <2>3 DEF RaiseAgain, At
    <3>2. Top(a).arg \in Exception
      <4>1. 1 \in 1 .. Len(calls[a]) /\ Top(a) = calls[a][1]
        BY <2>1, Below DEF Top
      <4>. QED
        BY <3>1, <4>1 DEF JobShape
    <3>. QED
      BY <2>2, <3>1, <3>2, After, UnwoundShape
  <2>4. ASSUME NEW e \in Exception, Throw(a, e)
        PROVE  JobShape(calls'[a]) /\ \A b \in Actor \ {a} : calls'[b] = calls[b]
    BY <2>2, <2>4, After, UnwoundShape
  <2>5. ASSUME NEW s, Light(s), Continue(a, s)
        PROVE  JobShape(calls'[a]) /\ \A b \in Actor \ {a} : calls'[b] = calls[b]
    BY <2>2, <2>5, After, PushShape
  <2>. QED
    BY <1>2, <2>3, <2>4, <2>5, StepShape
<1>. QED
  BY <1>1, <1>2

\* An operation, a job or an answer begins.
LEMMA BeginShapes ==
  ASSUME TypeOK, NEW a \in Actor, JobShape(calls[a]),
         \/ ProcessOperation(a)
         \/ \E t \in Task : TaskOperation(a, t)
         \/ \E t \in System : TakeJob(a, t) \/ Callback(a, t)
  PROVE  JobShape(calls'[a]) /\ \A b \in Actor \ {a} : calls'[b] = calls[b]
<1>1. ASSUME NEW s, Light(s), Begin(a, s)
      PROVE  JobShape(calls'[a]) /\ \A b \in Actor \ {a} : calls'[b] = calls[b]
  BY <1>1, After, LightJobShape
<1>2. ASSUME NEW t, Begin(a, <<Do("run_job", t, None), Do("except_job", t, None),
                               Do("except_mq", t, None)>>)
      PROVE  JobShape(calls'[a]) /\ \A b \in Actor \ {a} : calls'[b] = calls[b]
  <2>. DEFINE x == Do("run_job", t, None)
              y == Do("except_job", t, None)
              z == Do("except_mq", t, None)
              n == <<x, y, z>>
  <2>1. /\ x.fn = "run_job" /\ y.fn = "except_job" /\ z.fn = "except_mq"
        /\ y.obj = x.obj /\ z.obj = x.obj
    BY DEF Do
  <2>. HIDE DEF x, y, z
  <2>2. Len(n) = 3 /\ n[1] = x /\ n[2] = y /\ n[3] = z
    OBVIOUS
  <2>3. \A i \in 1 .. Len(n) : i = 1 \/ i = 2 \/ i = 3
    BY <2>2
  <2>. HIDE DEF n
  <2>4. JobShape(n)
    BY <2>1, <2>2, <2>3 DEF JobShape
  <2>5. Begin(a, n)
    BY <1>2 DEF n, x, y, z
  <2>. QED
    BY <2>4, <2>5, After
<1>3. CASE ProcessOperation(a)
  <2>1. \E s : Light(s) /\ Begin(a, s)
    BY <1>3, LightTuples, LightCalls
       DEF ProcessOperation, op_activate_process, op_onhold_process, op_cancel_process,
           op_dismiss_process
  <2>. QED
    BY <1>1, <2>1
<1>4. CASE \E t \in Task : TaskOperation(a, t)
  <2>1. \E s : Light(s) /\ Begin(a, s)
    BY <1>4, LightClosings DEF TaskOperation, op_close_task, op_forward_task, op_refuse_task
  <2>. QED
    BY <1>1, <2>1
<1>5. ASSUME NEW t \in System, TakeJob(a, t)
      PROVE  JobShape(calls'[a]) /\ \A b \in Actor \ {a} : calls'[b] = calls[b]
  <2>1. Light(<<Set(Root, "PAUSED"), Do("except_mq", t, None)>>)
    BY LightTuples, LightCalls
  <2>. QED
    BY <1>1, <1>2, <1>5, <2>1 DEF TakeJob
<1>6. ASSUME NEW t \in System, Callback(a, t)
      PROVE  JobShape(calls'[a]) /\ \A b \in Actor \ {a} : calls'[b] = calls[b]
  <2>1. Light(<<Do("cancel_task", t, None)>>) /\ Light(Closing(t, FALSE))
    BY LightTuples, LightCalls, LightClosings
  <2>. QED
    BY <1>1, <1>6, <2>1 DEF Callback, convert_files_done, convert_files_failed
<1>. QED
  BY <1>3, <1>4, <1>5, <1>6

LEMMA FailShapes ==
  ASSUME TypeOK, NEW a \in Actor, JobShape(calls[a]), FailState(a) \/ Crash(a)
  PROVE  JobShape(calls'[a]) /\ \A b \in Actor \ {a} : calls'[b] = calls[b]
<1>1. CASE FailState(a)
  <2>1. calls[a] # <<>> /\ calls[a] \in Seq(Call) /\ Throw(a, "ElementsError")
    BY <1>1 DEF TypeOK, FailState, At
  <2>2. Tail(calls[a]) \in Seq(Call) /\ JobShape(Tail(calls[a]))
    BY <2>1, Below
  <2>3. "ElementsError" \in Exception
    BY DEF Exception
  <2>. QED
    BY <2>1, <2>2, <2>3, After, UnwoundShape
<1>2. CASE Crash(a)
  <2>1. JobShape(<<>>)
    BY LightTuples, LightJobShape
  <2>. QED
    BY <1>2, <2>1 DEF Crash, TypeOK
<1>. QED
  BY <1>1, <1>2

LEMMA NextShapes == ASSUME TypeOK, JobShapes, [Next]_vars PROVE JobShapes'
<1>1. ASSUME NEW a \in Actor, JobShape(calls'[a]) /\ \A b \in Actor \ {a} : calls'[b] = calls[b]
      PROVE  JobShapes'
  BY <1>1 DEF JobShapes
<1>2. ASSUME UNCHANGED calls PROVE JobShapes'
  BY <1>2 DEF JobShapes
<1>3. \A a \in Actor : JobShape(calls[a])
  BY DEF JobShapes
<1>4. ASSUME NEW a \in Actor, Step(a) \/ FailState(a) \/ Crash(a) PROVE JobShapes'
  BY <1>1, <1>3, <1>4, StepShapes, FailShapes
<1>5. ASSUME NEW a \in Session, ProcessOperation(a) \/ \E t \in Task : TaskOperation(a, t)
      PROVE  JobShapes'
  BY <1>1, <1>3, <1>5, BeginShapes DEF Actor
<1>6. ASSUME NEW a \in Worker, NEW t \in System, TakeJob(a, t) PROVE JobShapes'
  BY <1>1, <1>3, <1>6, BeginShapes DEF Actor
<1>7. ASSUME NEW t \in System, RestartJob(t) PROVE JobShapes'
  BY <1>2, <1>7 DEF RestartJob
<1>8. ASSUME NEW a \in Acs, NEW t \in System, Callback(a, t) PROVE JobShapes'
  BY <1>1, <1>3, <1>8, BeginShapes DEF Actor
<1>9. CASE UNCHANGED vars
  BY <1>2, <1>9 DEF vars
<1>. QED
  BY <1>4, <1>5, <1>6, <1>7, <1>8, <1>9 DEF Next
-----------------------------------------------------------------------------
(* An actor that sees to a task goes on until it is seen to. *)

\* A call is answered by the method of its name.
LEMMA Dispatch ==
  ASSUME NEW a \in Actor, Step(a)
  PROVE  /\ At(a, "run_job") => RunJob(a)
         /\ At(a, "cancel_task") => CancelTask(a)
         /\ At(a, "set") => StateStep(a)
         /\ At(a, "db_complete") => DbComplete(a)
<1>. DEFINE fn == Top(a).fn
<1>1. calls[a] # <<>>
  BY StepOn
<1>2. LeaveTry(a) \/ RaiseAgain(a) => fn \in Except \cup {"raise"}
  BY DEF LeaveTry, RaiseAgain, At
<1>3. StateStep(a) => fn = "set"
  BY DEF StateStep, SetComponent, StartProcess, ResumeProcess, LeaveProcess, RefuseState, At
<1>4. ComponentStep(a) =>
        \/ CancelTask(a) /\ fn = "cancel_task"
        \/ fn \notin {"run_job", "cancel_task", "set", "db_complete"}
  BY DEF ComponentStep, ActivateTask, ActivateEach, ActivateFirst, CancelTask,
     CancelSubtasks, CancelEach, ParallelDone, SequentialDone, CompletionDone,
     GroupFinish, ParallelCancel, SequentialCancel, CompletionCancel, EndCompletion,
     GroupRefuse, At
<1>5. ProcessStep(a) => fn \notin {"run_job", "cancel_task", "set", "db_complete"}
  BY DEF ProcessStep, ActivateProcess, ActivateTasks, ProcessDone, ActivateNext,
     ProcessFinish, ProcessCancel, CancelProcess, DismissProcess, DismissCompletion,
     EndProcess, At
<1>6. JobStep(a) =>
        \/ RunJob(a) /\ fn = "run_job"
        \/ DbComplete(a) /\ fn = "db_complete"
        \/ fn \notin {"run_job", "cancel_task", "set", "db_complete"}
  BY DEF JobStep, RunJob, DbComplete, DbDiscard, DbDiscardEach, FailJob, At
<1>. QED
  BY <1>1, <1>2, <1>3, <1>4, <1>5, <1>6 DEF Step, At, Except

\* Jobs and conversions are only added by the methods.
LEMMA JobsGrow ==
  ASSUME TypeOK, NEW a \in Actor, Step(a), NEW t \in System
  PROVE  jobs'[t] >= jobs[t] /\ conversions'[t] >= conversions[t]
<1>. USE DEF data, jobVars
<1>1. jobs[t] \in Nat /\ conversions[t] \in Nat
      /\ jobs \in [System -> Nat] /\ conversions \in [System -> Nat]
  BY DEF TypeOK
<1>2. CASE LeaveTry(a) \/ RaiseAgain(a) \/ ComponentStep(a)
  BY <1>1, <1>2 DEF LeaveTry, RaiseAgain, ComponentStep, ActivateTask, ActivateEach,
     ActivateFirst, CancelTask, CancelSubtasks, CancelEach, ParallelDone,
     SequentialDone, CompletionDone, GroupFinish, ParallelCancel,
     SequentialCancel, CompletionCancel, EndCompletion, GroupRefuse
<1>3. CASE ProcessStep(a)
  BY <1>1, <1>3 DEF ProcessStep, ActivateProcess, ActivateTasks, ProcessDone,
     ActivateNext, ProcessFinish, ProcessCancel, CancelProcess, DismissProcess,
     DismissCompletion, EndProcess
<1>4. CASE SetComponent(a)
  <2>1. conversions' = conversions
    BY <1>4 DEF SetComponent
  <2>2. jobs' = jobs \/ \E c : jobs' = [jobs EXCEPT ![c] = @ + 1]
    BY <1>4 DEF SetComponent, Enqueued
  <2>3. CASE jobs' = jobs
    BY <1>1, <2>1, <2>3
  <2>4. CASE \E c : jobs' = [jobs EXCEPT ![c] = @ + 1]
    <3>1. PICK c : jobs' = [jobs EXCEPT ![c] = @ + 1]
      BY <2>4
    <3>2. jobs'[t] = jobs[t] \/ jobs'[t] = jobs[t] + 1
      BY <1>1, <3>1
    <3>. QED
      BY <1>1, <2>1, <3>2
  <2>. QED
    BY <2>2, <2>3, <2>4
<1>5. CASE ResumeProcess(a)
  BY <1>1, <1>5 DEF ResumeProcess
<1>6. CASE StartProcess(a) \/ LeaveProcess(a) \/ RefuseState(a)
  <2>1. UNCHANGED <<jobs, conversions>>
    BY <1>6 DEF StartProcess, LeaveProcess, RefuseState
  <2>. QED
    BY <1>1, <2>1
<1>7. CASE RunJob(a)
  <2>1. jobs' = jobs
    BY <1>7 DEF RunJob
  <2>2. conversions' = conversions \/ \E n \in 1 .. MaxConversions :
          conversions' = [conversions EXCEPT ![Top(a).obj] = @ + n]
    BY <1>7 DEF RunJob
  <2>3. \A n \in 1 .. MaxConversions : n \in Nat
    BY BoundAssumption
  <2>. QED
    BY <1>1, <2>1, <2>2, <2>3
<1>8. CASE DbComplete(a) \/ DbDiscard(a) \/ DbDiscardEach(a) \/ FailJob(a)
  BY <1>1, <1>8 DEF DbComplete, DbDiscard, DbDiscardEach, FailJob
<1>. QED
  BY <1>2, <1>3, <1>4, <1>5, <1>6, <1>7, <1>8 DEF Step, StateStep, JobStep

\* What a stack looks like when calls were put on top of others
LEMMA PutOnTop ==
  ASSUME NEW q \in Seq(Call)
  PROVE  /\ \A x : <<x>> \o q # <<>> /\ (<<x>> \o q)[1] = x
         /\ \A x, y : /\ <<x, y>> \o q # <<>> /\ (<<x, y>> \o q)[1] = x
                      /\ (<<x, y>> \o q)[2] = y
         /\ \A x : \A i \in 1 .. Len(q) : (<<x>> \o q)[i + 1] = q[i]
         /\ \A x : Len(<<x>> \o q) = Len(q) + 1
         /\ \A x, y : Len(<<x, y>> \o q) = Len(q) + 2
OBVIOUS

\* An actor that is to run, cancel or end the task, or to pause the process
LEMMA TopSees ==
  ASSUME NEW q \in Seq(Call), NEW t
  PROVE  /\ SeesTo(<<Do("cancel_task", t, None)>> \o q, t)
         /\ \A s \in Terminal : SeesTo(<<Set(t, s)>> \o q, t)
         /\ \A s \in Terminal : \A x : SeesTo(<<Set(t, s), x>> \o q, t)
         /\ Len(q) >= 1 /\ q[1].obj = t => SeesTo(<<Set(Root, "PAUSED")>> \o q, t)
         /\ SeesTo(<<Set(Root, "PAUSED"), Do("fail_job", t, None)>> \o q, t)
<1>1. SeesTo(<<Do("cancel_task", t, None)>> \o q, t)
  BY PutOnTop DEF SeesTo, Do
<1>2. \A s \in Terminal : SeesTo(<<Set(t, s)>> \o q, t)
  BY PutOnTop DEF SeesTo, Do, Set
<1>3. \A s \in Terminal : \A x : SeesTo(<<Set(t, s), x>> \o q, t)
  BY PutOnTop DEF SeesTo, Do, Set
<1>4. ASSUME Len(q) >= 1, q[1].obj = t PROVE SeesTo(<<Set(Root, "PAUSED")>> \o q, t)
  <2>. DEFINE x == Set(Root, "PAUSED")
              n == <<x>> \o q
  <2>1. x.fn = "set" /\ x.obj = Root /\ x.arg = "PAUSED"
    BY DEF Set, Do
  <2>. HIDE DEF x
  <2>2. n # <<>> /\ n[1] = x /\ n[1 + 1] = q[1] /\ Len(n) = Len(q) + 1 /\ Len(q) \in Nat
    BY <1>4, PutOnTop
  <2>. HIDE DEF n
  <2>3. 1 + 1 \in 1 .. Len(n) /\ n[1 + 1].obj = t
    BY <1>4, <2>2
  <2>4. SeesTo(n, t)
    BY <2>1, <2>2, <2>3 DEF SeesTo
  <2>. QED
    BY <2>4 DEF n, x
<1>5. SeesTo(<<Set(Root, "PAUSED"), Do("fail_job", t, None)>> \o q, t)
  <2>. DEFINE x == Set(Root, "PAUSED")
              y == Do("fail_job", t, None)
              n == <<x, y>> \o q
  <2>1. x.fn = "set" /\ x.obj = Root /\ x.arg = "PAUSED" /\ y.obj = t
    BY DEF Set, Do
  <2>. HIDE DEF x, y
  <2>2. n # <<>> /\ n[1] = x /\ n[2] = y /\ Len(n) = Len(q) + 2 /\ Len(q) \in Nat
    BY PutOnTop
  <2>. HIDE DEF n
  <2>3. 2 \in 1 .. Len(n)
    BY <2>2
  <2>4. SeesTo(n, t)
    BY <2>1, <2>2, <2>3 DEF SeesTo
  <2>. QED
    BY <2>4 DEF n, x, y
<1>. QED
  BY <1>1, <1>2, <1>3, <1>4, <1>5

\* The run of a job fails: the process is paused.
LEMMA ErrorSees ==
  ASSUME NEW q \in Seq(Call), Len(q) >= 1, q[1].fn = "except_job", NEW t, q[1].obj = t
  PROVE  SeesTo(Unwound(q, "ElementsError"), t)
<1>1. 1 \in 1 .. Len(q) /\ "ElementsError" \in Catches(q[1].fn)
  BY DEF Catches, Exception
<1>2. PICK h \in 1 .. 1 :
        Unwound(q, "ElementsError") = Handler(q[h], "ElementsError") \o SubSeq(q, h + 1, Len(q))
  BY <1>1, Caught
<1>3. h = 1
  OBVIOUS
<1>4. Handler(q[1], "ElementsError") = <<Set(Root, "PAUSED"), Do("fail_job", t, None)>>
  BY DEF Handler
<1>5. SubSeq(q, 1 + 1, Len(q)) \in Seq(Call)
  OBVIOUS
<1>. QED
  BY <1>2, <1>3, <1>4, <1>5, TopSees

LEMMA RunSees ==
  ASSUME TypeOK, "aborted" \notin Outcomes, NEW a \in Actor, JobShape(calls[a]), RunJob(a)
  PROVE  conversions'[Top(a).obj] > 0 \/ SeesTo(calls'[a], Top(a).obj)
<1>. DEFINE q == Tail(calls[a])
            t == Top(a).obj
<1>1. /\ t \in System /\ q \in Seq(Call) /\ Len(q) = 2 /\ JobShape(q)
      /\ q[1].fn = "except_job" /\ q[1].obj = t /\ q[2].fn = "except_mq" /\ q[2].obj = t
  BY JobOnTop DEF RunJob
<1>2. \/ Continue(a, Closing(t, FALSE)) \/ Continue(a, Refusing(t))
      \/ \E n \in 1 .. MaxConversions : conversions' = [conversions EXCEPT ![t] = @ + n]
      \/ Continue(a, <<Do("cancel_task", t, None)>>) \/ Continue(a, <<Set(Root, "PAUSED")>>)
      \/ Continue(a, Completed(t)) \/ Throw(a, "ElementsError")
  BY DEF RunJob, Completed
<1>3. (\A s : Continue(a, s) => calls'[a] = s \o q)
      /\ (Throw(a, "ElementsError") => calls'[a] = Unwound(q, "ElementsError"))
  BY After
<1>. HIDE DEF q, t
<1>4. PICK n : n = calls'[a]
  OBVIOUS
<1>5. CASE Continue(a, Closing(t, FALSE)) \/ Continue(a, Refusing(t))
  <2>1. \E s \in Terminal : \E x : n = <<Set(t, s), x>> \o q
    <3>1. CASE Continue(a, Closing(t, FALSE))
      BY <1>3, <1>4, <3>1 DEF Closing, Terminal
    <3>2. CASE Continue(a, Refusing(t))
      <4>1. \E x : Refusing(t) = <<Set(t, "REJECTED"), x>>
        BY DEF Refusing
      <4>. QED
        BY <1>3, <1>4, <3>2, <4>1 DEF Terminal
    <3>. QED
      BY <1>5, <3>1, <3>2
  <2>2. SeesTo(n, t)
    BY <1>1, <2>1, TopSees
  <2>. QED
    BY <1>4, <2>2 DEF t
<1>6. ASSUME NEW k \in 1 .. MaxConversions, conversions' = [conversions EXCEPT ![t] = @ + k]
      PROVE  conversions'[t] > 0
  <2>1. MaxConversions \in Nat
    BY BoundAssumption
  <2>2. k \in Nat /\ k > 0
    BY <2>1
  <2>3. conversions \in [System -> Nat]
    BY DEF TypeOK
  <2>4. conversions[t] \in Nat /\ conversions'[t] = conversions[t] + k
    BY <1>1, <1>6, <2>3
  <2>. QED
    BY <2>2, <2>4
<1>7. CASE Continue(a, <<Do("cancel_task", t, None)>>) \/ Continue(a, <<Set(Root, "PAUSED")>>)
  <2>1. n = <<Do("cancel_task", t, None)>> \o q \/ n = <<Set(Root, "PAUSED")>> \o q
    BY <1>3, <1>4, <1>7
  <2>2. Len(q) >= 1 /\ q[1].obj = t /\ q \in Seq(Call)
    BY <1>1
  <2>3. SeesTo(<<Do("cancel_task", t, None)>> \o q, t) /\ SeesTo(<<Set(Root, "PAUSED")>> \o q, t)
    BY <2>2, TopSees
  <2>4. SeesTo(n, t)
    BY <2>1, <2>3
  <2>. QED
    BY <1>4, <2>4 DEF t
<1>8. CASE Continue(a, Completed(t))
  <2>1. n = Completed(t) \o q
    BY <1>3, <1>4, <1>8
  <2>2. Len(n) = 5 /\ n[2].fn = "db_complete" /\ n[2].obj = t
    BY <1>1, <2>1, CompletedShape
  <2>3. 2 \in 1 .. Len(n)
    BY <2>2
  <2>4. SeesTo(n, t)
    BY <2>2, <2>3 DEF SeesTo
  <2>. QED
    BY <1>4, <2>4 DEF t
<1>9. CASE Throw(a, "ElementsError")
  <2>1. n = Unwound(q, "ElementsError")
    BY <1>3, <1>4, <1>9
  <2>2. SeesTo(n, t)
    BY <1>1, <2>1, ErrorSees
  <2>. QED
    BY <1>4, <2>2 DEF t
<1>. QED
  BY <1>2, <1>5, <1>6, <1>7, <1>8, <1>9 DEF t

\* The statement that completes the task is still to come: it stays so, or the
\* exception that prevents it pauses the process.
LEMMA UpdateSees ==
  ASSUME TypeOK, NEW a \in Actor, JobShape(calls[a]), Step(a), NEW t,
         \E i \in 1 .. Len(calls[a]) : calls[a][i].fn = "db_complete" /\ calls[a][i].obj = t
  PROVE  (At(a, "db_complete") /\ Top(a).obj = t) \/ SeesTo(calls'[a], t)
<1>1. PICK s : s = calls[a]
  OBVIOUS
<1>2. PICK n : n = calls'[a]
  OBVIOUS
<1>3. s \in Seq(Call) /\ s # <<>> /\ JobShape(s)
  BY <1>1, StepOn DEF TypeOK
<1>4. PICK i \in 1 .. Len(s) : s[i].fn = "db_complete" /\ s[i].obj = t
  BY <1>1
<1>5. i + 3 = Len(s) /\ s[i + 1].fn = "db_discard" /\ s[i + 2].fn = "except_job" /\ s[i + 2].obj = t
  BY <1>3, <1>4 DEF JobShape
<1>6. PICK q : q = Tail(s)
  OBVIOUS
<1>7. /\ q \in Seq(Call) /\ Len(q) = Len(s) - 1 /\ Len(s) >= 1 /\ Head(s) = s[1]
      /\ \A j \in 1 .. Len(s) - 1 : q[j] = s[j + 1]
  BY <1>3, <1>6, Below
<1>8. CASE i = 1
  BY <1>1, <1>3, <1>4, <1>7, <1>8 DEF At, Top
<1>9. CASE i # 1
  <2>1. i \in Nat /\ i >= 2 /\ i - 1 \in 1 .. Len(q) /\ i + 1 \in 1 .. Len(q) /\ i \in 1 .. Len(q)
    BY <1>5, <1>7, <1>9
  <2>2. (i - 1) + 1 = i /\ (i + 1) + 1 = i + 2
    BY <2>1
  <2>3. /\ q[i - 1].fn = "db_complete" /\ q[i - 1].obj = t
        /\ q[i].fn = "db_discard" /\ q[i + 1].fn = "except_job" /\ q[i + 1].obj = t
    BY <1>4, <1>5, <1>7, <2>1, <2>2
  <2>4. ~RunJob(a)
    <3>1. ASSUME RunJob(a) PROVE FALSE
      <4>1. At(a, "run_job")
        BY <3>1 DEF RunJob
      <4>2. s[1].fn = "run_job" /\ 1 \in 1 .. Len(s)
        BY <1>1, <1>7, <4>1 DEF At, Top
      <4>3. 1 + 2 = Len(s)
        BY <1>3, <4>2 DEF JobShape
      <4>4. i \in Nat /\ i >= 2
        BY <2>1
      <4>5. i + 3 = 1 + 2
        BY <1>5, <4>3, Zenon
      <4>. QED
        BY <4>4, <4>5
    <3>. QED
      BY <3>1
  <2>5. ASSUME NEW r, Light(r), Continue(a, r) PROVE SeesTo(n, t)
    <3>1. PICK S : r \in Seq(S)
      BY <2>5 DEF Light
    <3>2. n = r \o q
      BY <1>1, <1>2, <1>6, <2>5, After
    <3>3. /\ Len(r) \in Nat /\ Len(n) = Len(r) + Len(q)
          /\ \A j \in 1 .. Len(q) : n[Len(r) + j] = q[j]
      BY <1>7, <3>1, <3>2, Shift
    <3>4. PICK k : k = Len(r) + (i - 1)
      OBVIOUS
    <3>5. k \in 1 .. Len(n) /\ n[k] = q[i - 1]
      BY <1>7, <2>1, <3>3, <3>4
    <3>. QED
      BY <2>3, <3>5 DEF SeesTo
  <2>6. ASSUME NEW e \in Exception, Throw(a, e) PROVE SeesTo(n, t)
    <3>. DEFINE k == i + 1
    <3>1. k \in 1 .. Len(q) /\ e \in Catches(q[k].fn)
      BY <2>1, <2>3 DEF Catches
    <3>. HIDE DEF k
    <3>2. PICK h \in 1 .. k :
             /\ e \in Catches(q[h].fn)
             /\ Unwound(q, e) = Handler(q[h], e) \o SubSeq(q, h + 1, Len(q))
      BY <1>7, <3>1, Caught
    <3>3. h # i - 1 /\ h # i
      BY <2>3, <3>2 DEF Catches
    <3>4. n = Handler(q[h], e) \o SubSeq(q, h + 1, Len(q))
      BY <1>1, <1>2, <1>6, <2>6, <3>2, After
    <3>5. h \in 1 .. Len(q) /\ h <= i + 1 /\ JobShape(q)
      BY <1>3, <1>6, <1>7, <3>1, Below DEF k
    <3>6. PICK p : p = SubSeq(q, h + 1, Len(q))
      OBVIOUS
    <3>7. /\ p \in Seq(Call) /\ Len(p) = Len(q) - h
          /\ \A j \in 1 .. Len(q) - h : p[j] = q[j + h]
      BY <1>7, <3>5, <3>6, SuffixShape
    <3>8. CASE h = i + 1
      <4>1. Handler(q[h], e) = <<Set(Root, "PAUSED"), Do("fail_job", t, None)>>
        BY <2>3, <3>8 DEF Handler
      <4>. QED
        BY <3>4, <3>6, <3>7, <4>1, TopSees
    <3>9. CASE h < i - 1
      <4>1. PICK r : r = Handler(q[h], e)
        OBVIOUS
      <4>2. PICK S : r \in Seq(S)
        BY <4>1, HandlerLight DEF Light
      <4>3. /\ Len(r) \in Nat /\ Len(n) = Len(r) + Len(p)
            /\ \A j \in 1 .. Len(p) : n[Len(r) + j] = p[j]
        BY <3>4, <3>6, <3>7, <4>1, <4>2, Shift
      <4>4. PICK j : j = i - 1 - h
        OBVIOUS
      <4>5. j \in 1 .. Len(q) - h /\ j + h = i - 1
        BY <1>7, <2>1, <3>9, <4>4
      <4>6. j \in 1 .. Len(p) /\ p[j] = q[i - 1]
        BY <3>7, <4>5
      <4>7. Len(r) + j \in 1 .. Len(n) /\ n[Len(r) + j] = q[i - 1]
        BY <1>7, <3>5, <3>7, <4>3, <4>6
      <4>. QED
        BY <2>3, <4>7 DEF SeesTo
    <3>. QED
      BY <2>1, <3>3, <3>5, <3>8, <3>9
  <2>7. RaiseAgain(a) => \E e \in Exception : Throw(a, e)
    <3>1. ASSUME RaiseAgain(a) PROVE \E e \in Exception : Throw(a, e)
      <4>1. Throw(a, s[1].arg) /\ s[1].fn = "raise" /\ 1 \in 1 .. Len(s)
        BY <1>1, <1>7, <3>1 DEF RaiseAgain, At, Top
      <4>2. s[1].arg \in Exception
        BY <1>3, <4>1 DEF JobShape
      <4>. QED
        BY <4>1, <4>2
    <3>. QED
      BY <3>1
  <2>. QED
    BY <1>2, <2>4, <2>5, <2>6, <2>7, StepShape
<1>. QED
  BY <1>8, <1>9

\* A running task of a running process is still seen to after the step.
LEMMA StepSees ==
  ASSUME TypeOK, "aborted" \notin Outcomes, NEW a \in Actor, JobShape(calls[a]), Step(a),
         NEW t \in System, SeesTo(calls[a], t),
         procStatus = "EXECUTION", procStatus' = "EXECUTION",
         status[t] = "EXECUTION", status'[t] = "EXECUTION"
  PROVE  conversions'[t] > 0 \/ SeesTo(calls'[a], t)
<1>1. calls[a] # <<>> /\ calls[a] \in Seq(Call) /\ Head(calls[a]) = calls[a][1]
  BY StepOn, Below DEF TypeOK
<1>2. t \in Comp /\ t # Root /\ t \in Task
  BY TreeAssumption DEF System, Task, TaskKind
<1>3. \/ At(a, "run_job") /\ Top(a).obj = t
      \/ At(a, "cancel_task") /\ Top(a).obj = t
      \/ At(a, "set") /\ Top(a).obj = t /\ Top(a).arg \in Terminal
      \/ At(a, "set") /\ Top(a).obj = Root /\ Top(a).arg = "PAUSED"
      \/ \E i \in 1 .. Len(calls[a]) : calls[a][i].fn = "db_complete" /\ calls[a][i].obj = t
  BY <1>1 DEF SeesTo, At, Top
<1>4. CASE At(a, "run_job") /\ Top(a).obj = t
  BY <1>4, Dispatch, RunSees
<1>5. CASE At(a, "cancel_task") /\ Top(a).obj = t
  <2>1. Continue(a, <<Set(t, "DISCARDED")>>)
    <3>1. CancelTask(a)
      BY <1>5, Dispatch
    <3>. QED
      BY <1>2, <1>5, <3>1 DEF CancelTask
  <2>2. calls'[a] = <<Set(t, "DISCARDED")>> \o Tail(calls[a])
    <3>1. PICK r : r = <<Set(t, "DISCARDED")>>
      OBVIOUS
    <3>2. calls'[a] = r \o Tail(calls[a])
      BY <2>1, <3>1, After
    <3>. QED
      BY <3>1, <3>2
  <2>3. SeesTo(<<Set(t, "DISCARDED")>> \o Tail(calls[a]), t)
    <3>1. PICK q : q = Tail(calls[a])
      OBVIOUS
    <3>2. q \in Seq(Call) /\ "DISCARDED" \in Terminal
      BY <1>1, <3>1 DEF Terminal
    <3>3. SeesTo(<<Set(t, "DISCARDED")>> \o q, t)
      BY <3>2, TopSees
    <3>. QED
      BY <3>1, <3>3
  <2>. QED
    BY <2>2, <2>3
<1>6. CASE At(a, "set") /\ Top(a).obj = t /\ Top(a).arg \in Terminal
  <2>1. SetComponent(a) \/ RefuseState(a)
    BY <1>2, <1>6, Dispatch DEF StateStep, StartProcess, ResumeProcess, LeaveProcess
  <2>2. CASE SetComponent(a)
    <3>1. status' = [status EXCEPT ![t] = Top(a).arg]
      BY <1>6, <2>2 DEF SetComponent
    <3>2. status'[t] = Top(a).arg
      BY <1>2, <3>1 DEF TypeOK
    <3>. QED
      BY <1>6, <3>2 DEF Terminal
  <2>3. CASE RefuseState(a)
    BY <1>2, <1>6, <2>3 DEF RefuseState, CompSteps, Terminal
  <2>. QED
    BY <2>1, <2>2, <2>3
<1>7. CASE At(a, "set") /\ Top(a).obj = Root /\ Top(a).arg = "PAUSED"
  <2>1. LeaveProcess(a) \/ RefuseState(a)
    BY <1>7, TreeAssumption, Dispatch DEF StateStep, SetComponent, StartProcess, ResumeProcess
  <2>2. ~LeaveProcess(a)
    BY <1>7 DEF LeaveProcess
  <2>3. ~RefuseState(a)
    BY <1>7 DEF RefuseState, ProcSteps
  <2>. QED
    BY <2>1, <2>2, <2>3
<1>8. CASE \E i \in 1 .. Len(calls[a]) : calls[a][i].fn = "db_complete" /\ calls[a][i].obj = t
  <2>1. CASE At(a, "db_complete") /\ Top(a).obj = t
    <3>1. status' = [status EXCEPT ![t] = "COMPLETED"]
      BY <2>1, Dispatch DEF DbComplete
    <3>. QED
      BY <1>2, <3>1 DEF TypeOK
  <2>. QED
    BY <1>8, <2>1, UpdateSees
<1>. QED
  BY <1>3, <1>4, <1>5, <1>6, <1>7, <1>8
-----------------------------------------------------------------------------
(* Every step keeps the running tasks attended. *)

\* Who starts or resumes the process, and who starts a task
LEMMA StartsSeen ==
  ASSUME TypeOK, NEW a \in Actor, Step(a), NEW t \in System,
         procStatus' = "EXECUTION", status'[t] = "EXECUTION"
  PROVE  (procStatus = "EXECUTION" /\ status[t] = "EXECUTION") \/ jobs'[t] > 0
<1>1. t \in Comp /\ jobs[t] \in Nat /\ jobs \in [System -> Nat] /\ status \in [Comp -> CompStatus]
  BY DEF TypeOK, System
<1>2. CASE SetComponent(a)
  <2>1. procStatus' = procStatus /\ status' = [status EXCEPT ![Top(a).obj] = Top(a).arg]
        /\ jobs' = Enqueued(Top(a).obj, Top(a).arg) /\ Top(a).obj \in Comp
    BY <1>2 DEF SetComponent, procVars
  <2>2. CASE status[t] = "EXECUTION"
    BY <2>1, <2>2
  <2>3. CASE status[t] # "EXECUTION"
    <3>1. Top(a).obj = t /\ Top(a).arg = "EXECUTION"
      BY <1>1, <2>1, <2>3
    <3>2. jobs' = [jobs EXCEPT ![t] = @ + 1]
      BY <2>1, <3>1 DEF Enqueued
    <3>3. jobs'[t] = jobs[t] + 1
      BY <1>1, <3>2
    <3>. QED
      BY <1>1, <3>3
  <2>. QED
    BY <2>2, <2>3
<1>3. CASE StartProcess(a)
  <2>1. status' = [c \in Comp |-> "NEW"]
    BY <1>3 DEF StartProcess
  <2>. QED
    BY <1>1, <2>1
<1>4. CASE ResumeProcess(a)
  <2>1. status' = status
        /\ jobs' = [x \in System |-> IF status[x] = "EXECUTION" THEN jobs[x] + 1 ELSE jobs[x]]
    BY <1>4 DEF ResumeProcess
  <2>2. jobs'[t] = jobs[t] + 1
    BY <2>1
  <2>. QED
    BY <1>1, <2>2
<1>5. CASE LeaveProcess(a)
  BY <1>5 DEF LeaveProcess
<1>6. CASE DbComplete(a)
  <2>1. procStatus' = procStatus /\ status' = [status EXCEPT ![Top(a).obj] = "COMPLETED"]
    BY <1>6 DEF DbComplete, procVars
  <2>. QED
    BY <1>1, <2>1
<1>7. CASE DbDiscardEach(a)
  <2>1. procStatus' = procStatus
        /\ (UNCHANGED status \/ \E c : status' = [status EXCEPT ![c] = "DISCARDED"])
    BY <1>7 DEF DbDiscardEach, procVars
  <2>2. ASSUME NEW c, status' = [status EXCEPT ![c] = "DISCARDED"] PROVE status[t] = "EXECUTION"
    BY <1>1, <2>2
  <2>. QED
    BY <2>1, <2>2
<1>8. CASE RunJob(a) \/ DbDiscard(a) \/ FailJob(a) \/ RefuseState(a)
  <2>1. UNCHANGED <<status, procStatus>>
    BY <1>8 DEF RunJob, DbDiscard, FailJob, RefuseState, data, procVars
  <2>. QED
    BY <2>1
<1>9. CASE LeaveTry(a) \/ RaiseAgain(a) \/ ComponentStep(a) \/ ProcessStep(a)
  BY <1>9, MethodFrame
<1>. QED
  BY <1>2, <1>3, <1>4, <1>5, <1>6, <1>7, <1>8, <1>9 DEF Step, StateStep, JobStep

LEMMA StepSeenTo ==
  ASSUME TypeOK, "aborted" \notin Outcomes, JobShapes, SeenTo, NEW a \in Actor, Step(a)
  PROVE  SeenTo'
<1>. SUFFICES ASSUME procStatus' = "EXECUTION", NEW t \in System, status'[t] = "EXECUTION"
              PROVE  jobs'[t] > 0 \/ conversions'[t] > 0 \/ \E b \in Actor : SeesTo(calls'[b], t)
  BY DEF SeenTo
<1>1. JobShape(calls[a])
  BY DEF JobShapes
<1>2. /\ jobs[t] \in Nat /\ jobs'[t] \in Nat /\ jobs'[t] >= jobs[t]
      /\ conversions[t] \in Nat /\ conversions'[t] \in Nat /\ conversions'[t] >= conversions[t]
  <2>1. TypeOK'
    BY NextType DEF Next
  <2>2. jobs[t] \in Nat /\ jobs'[t] \in Nat /\ conversions[t] \in Nat /\ conversions'[t] \in Nat
    BY <2>1 DEF TypeOK
  <2>. QED
    BY <2>2, JobsGrow
<1>3. CASE procStatus = "EXECUTION" /\ status[t] = "EXECUTION"
  <2>1. jobs[t] > 0 \/ conversions[t] > 0 \/ \E b \in Actor : SeesTo(calls[b], t)
    BY <1>3 DEF SeenTo
  <2>2. ASSUME NEW b \in Actor, SeesTo(calls[b], t)
        PROVE  conversions'[t] > 0 \/ \E d \in Actor : SeesTo(calls'[d], t)
    <3>1. CASE b = a
      <4>1. conversions'[t] > 0 \/ SeesTo(calls'[a], t)
        BY <1>1, <1>3, <2>2, <3>1, StepSees
      <4>. QED
        BY <4>1
    <3>2. CASE b # a
      <4>1. calls'[b] = calls[b]
        BY <1>1, <3>2, StepShapes
      <4>. QED
        BY <2>2, <4>1
    <3>. QED
      BY <3>1, <3>2
  <2>3. jobs[t] > 0 => jobs'[t] > 0
    BY <1>2
  <2>4. conversions[t] > 0 => conversions'[t] > 0
    BY <1>2
  <2>. QED
    BY <2>1, <2>2, <2>3, <2>4
<1>. QED
  BY <1>3, StartsSeen

\* An operation of a session takes nothing from the queue.
LEMMA OperationSeenTo ==
  ASSUME TypeOK, SeenTo, NEW a \in Actor,
         ProcessOperation(a) \/ \E c \in Task : TaskOperation(a, c)
  PROVE  SeenTo'
<1>1. UNCHANGED <<status, procStatus, jobs, conversions>>
  BY DEF ProcessOperation, TaskOperation, op_activate_process, op_onhold_process,
     op_cancel_process, op_dismiss_process, op_close_task, op_forward_task,
     op_refuse_task, data, procVars, jobVars
<1>2. \E s : Begin(a, s)
  BY DEF ProcessOperation, TaskOperation, op_activate_process, op_onhold_process,
     op_cancel_process, op_dismiss_process, op_close_task, op_forward_task,
     op_refuse_task
<1>3. calls[a] = <<>> /\ \A b \in Actor \ {a} : calls'[b] = calls[b]
  BY <1>2, After
<1>4. \A t : ~SeesTo(<<>>, t)
  BY DEF SeesTo
<1>5. \A b \in Actor, t \in System : SeesTo(calls[b], t) => SeesTo(calls'[b], t)
  BY <1>3, <1>4
<1>. QED
  BY <1>1, <1>5 DEF SeenTo

\* The job that a worker takes and the answer that a conversion server gives
LEMMA QueueSees ==
  ASSUME TypeOK, NEW a \in Actor, NEW t \in System, procStatus = "EXECUTION",
         status[t] = "EXECUTION", TakeJob(a, t) \/ Callback(a, t)
  PROVE  SeesTo(calls'[a], t)
<1>1. \/ Begin(a, <<Set(Root, "PAUSED"), Do("except_mq", t, None)>>)
      \/ Begin(a, <<Do("run_job", t, None), Do("except_job", t, None), Do("except_mq", t, None)>>)
      \/ Begin(a, Closing(t, FALSE))
      \/ Begin(a, <<Do("cancel_task", t, None)>>)
  BY DEF TakeJob, Callback, convert_files_done, convert_files_failed
<1>2. ASSUME NEW s, Begin(a, s), SeesTo(s, t) PROVE SeesTo(calls'[a], t)
  BY <1>2, After
<1>3. SeesTo(<<Set(Root, "PAUSED"), Do("except_mq", t, None)>>, t)
  <2>. DEFINE x == Set(Root, "PAUSED")
              y == Do("except_mq", t, None)
              n == <<x, y>>
  <2>1. x.fn = "set" /\ x.obj = Root /\ x.arg = "PAUSED" /\ y.obj = t
    BY DEF Set, Do
  <2>. HIDE DEF x, y
  <2>2. n # <<>> /\ n[1] = x /\ n[2] = y /\ Len(n) = 2
    OBVIOUS
  <2>. HIDE DEF n
  <2>3. 2 \in 1 .. Len(n)
    BY <2>2
  <2>4. SeesTo(n, t)
    BY <2>1, <2>2, <2>3 DEF SeesTo
  <2>. QED
    BY <2>4 DEF n, x, y
<1>4. SeesTo(<<Do("run_job", t, None), Do("except_job", t, None), Do("except_mq", t, None)>>, t)
  BY DEF SeesTo, Do
<1>5. SeesTo(Closing(t, FALSE), t)
  BY DEF SeesTo, Closing, Set, Do, Terminal
<1>6. SeesTo(<<Do("cancel_task", t, None)>>, t)
  BY DEF SeesTo, Do
<1>. QED
  BY <1>1, <1>2, <1>3, <1>4, <1>5, <1>6

LEMMA QueueSeenTo ==
  ASSUME TypeOK, SeenTo, NEW a \in Actor, NEW c \in System, TakeJob(a, c) \/ Callback(a, c)
  PROVE  SeenTo'
<1>1. UNCHANGED <<status, procStatus>>
  BY QueueFrame
<1>2. calls[a] = <<>> /\ \A b \in Actor \ {a} : calls'[b] = calls[b]
  <2>1. CASE UNCHANGED calls
    BY <2>1 DEF TakeJob, Callback, convert_files_done, convert_files_failed, Begin, Idle
  <2>2. CASE \E s : Begin(a, s)
    BY <2>2, After
  <2>. QED
    BY <2>1, <2>2 DEF TakeJob, Callback, convert_files_done, convert_files_failed
<1>3. \A b \in Actor, t \in System : SeesTo(calls[b], t) => SeesTo(calls'[b], t)
  <2>1. \A t : ~SeesTo(<<>>, t)
    BY DEF SeesTo
  <2>. QED
    BY <1>2, <2>1
<1>4. \A t \in System \ {c} : jobs'[t] = jobs[t] /\ conversions'[t] = conversions[t]
  BY DEF TakeJob, Callback, convert_files_done, convert_files_failed, TypeOK
<1>. SUFFICES ASSUME procStatus = "EXECUTION", NEW t \in System, status[t] = "EXECUTION"
              PROVE  jobs'[t] > 0 \/ conversions'[t] > 0 \/ \E b \in Actor : SeesTo(calls'[b], t)
  BY <1>1 DEF SeenTo
<1>5. CASE t = c
  BY <1>5, QueueSees
<1>6. CASE t # c
  BY <1>3, <1>4, <1>6 DEF SeenTo
<1>. QED
  BY <1>5, <1>6

LEMMA RestartSeenTo ==
  ASSUME TypeOK, SeenTo, NEW c \in System, RestartJob(c)
  PROVE  SeenTo'
<1>1. UNCHANGED <<status, procStatus, conversions, calls>> /\ jobs' = [jobs EXCEPT ![c] = @ + 1]
  BY DEF RestartJob, procVars
<1>2. \A t \in System : jobs[t] > 0 => jobs'[t] > 0
  <2>1. ASSUME NEW t \in System, jobs[t] > 0 PROVE jobs'[t] > 0
    <3>1. jobs[t] \in Nat /\ (jobs'[t] = jobs[t] \/ jobs'[t] = jobs[t] + 1)
      BY <1>1 DEF TypeOK
    <3>. QED
      BY <2>1, <3>1
  <2>. QED
    BY <2>1
<1>. QED
  BY <1>1, <1>2 DEF SeenTo

JobInv == TypeOK /\ JobShapes /\ SeenTo

LEMMA InitJobInv == Init => JobInv
<1>. SUFFICES ASSUME Init PROVE JobInv
  OBVIOUS
<1>1. JobShapes
  BY LightTuples, LightJobShape DEF Init, JobShapes
<1>2. SeenTo
  BY DEF Init, SeenTo
<1>. QED
  BY <1>1, <1>2, InitType DEF JobInv

LEMMA NextJobInv ==
  ASSUME MaxFaults = 0, "aborted" \notin Outcomes, JobInv, [Next]_vars
  PROVE  JobInv'
<1>. USE DEF JobInv
<1>1. TypeOK' /\ JobShapes'
  BY NextType, NextShapes
<1>2. SeenTo'
  <2>1. ASSUME NEW a \in Actor, Step(a) PROVE SeenTo'
    BY <2>1, StepSeenTo
  <2>2. ASSUME NEW a \in Actor, FailState(a) \/ Crash(a) PROVE FALSE
    <3>1. faults < MaxFaults /\ faults \in Nat
      BY <2>2 DEF FailState, Crash, TypeOK
    <3>. QED
      BY <3>1
  <2>3. ASSUME NEW a \in Session, ProcessOperation(a) \/ \E t \in Task : TaskOperation(a, t)
        PROVE  SeenTo'
    BY <2>3, OperationSeenTo DEF Actor
  <2>4. ASSUME NEW a \in Worker, NEW t \in System, TakeJob(a, t) PROVE SeenTo'
    BY <2>4, QueueSeenTo DEF Actor
  <2>5. ASSUME NEW t \in System, RestartJob(t) PROVE SeenTo'
    BY <2>5, RestartSeenTo
  <2>6. ASSUME NEW a \in Acs, NEW t \in System, Callback(a, t) PROVE SeenTo'
    BY <2>6, QueueSeenTo DEF Actor
  <2>7. CASE UNCHANGED vars
    <3>1. UNCHANGED <<status, procStatus, jobs, conversions, calls>>
      BY <2>7 DEF vars
    <3>. QED
      BY <3>1 DEF SeenTo
  <2>. QED
    BY <2>1, <2>2, <2>3, <2>4, <2>5, <2>6, <2>7 DEF Next
<1>. QED
  BY <1>1, <1>2

\* While the process runs, a running system task has a job in the queue, an
\* actor at work on it or conversions under way, for every schema and every
\* interleaving of sessions, workers and conversion servers: EXECUTION.post
\* enqueues the job, resuming enqueues it again, and a worker that drops it
\* ends the task or pauses the process (wfqueue.py, task_external_process.py).
\* Crashes may lose the job that a worker took, and are excluded; whether a job
\* that aborts its process always ends its own task is only model-checked.
THEOREM JobKeptCorrect ==
  ASSUME MaxFaults = 0, "aborted" \notin Outcomes
  PROVE  Spec => []JobKept
<1>1. JobInv => JobKept
  <2>1. ASSUME NEW s \in Seq(Call), NEW t, SeesTo(s, t)
        PROVE  \E i \in DOMAIN s : s[i].obj = t
    <3>1. s # <<>> => 1 \in 1 .. Len(s)
      BY EmptySeq
    <3>2. DOMAIN s = 1 .. Len(s)
      OBVIOUS
    <3>. QED
      BY <2>1, <3>1, <3>2 DEF SeesTo
  <2>2. TypeOK => \A a \in Actor : calls[a] \in Seq(Call)
    BY DEF TypeOK
  <2>. QED
    BY <2>1, <2>2 DEF JobInv, SeenTo, JobKept
<1>2. JobInv /\ [Next]_vars => JobInv'
  BY NextJobInv
<1>. QED
  BY <1>1, <1>2, InitJobInv, PTL DEF Spec
=============================================================================
