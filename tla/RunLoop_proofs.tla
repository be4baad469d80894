--------------------------- MODULE RunLoop_proofs ---------------------------
(***************************************************************************)
(* The run loop for every number of sessions and workers, every            *)
(* max_cycles and all conditions.                                          *)
(***************************************************************************)
EXTENDS RunLoop, SequenceTheorems, FiniteSetTheorems, WellFoundedInduction, TLAPS

\* Workers are at one call at a time; a session may have to end the process in
\* the end.
WorkerFn ==
  {"run", "run_loop", "start", "create", "copy", "close_task", "cancel_task", "cancel_cycle",
   "fail"}
SessionFn == {"cancel_subtasks", "cancel_task", "cancel_cycle"}

WorkerStack(s) == s \in Seq(Fn) /\ Len(s) <= 1 /\ (Len(s) = 1 => s[1] \in WorkerFn)
SessionStack(s) ==
  /\ s \in Seq(Fn) /\ Len(s) <= 2 /\ (Len(s) = 2 => s[2] = "end_process")
  /\ Len(s) >= 1 => s[1] \in SessionFn \cup {"end_process"}

Stacks ==
  /\ calls \in [Actor -> Seq(Fn)]
  /\ \A a \in Worker : WorkerStack(calls[a])
  /\ \A a \in Session : SessionStack(calls[a])

TaskStatus == {"NEW", "EXECUTION", "COMPLETED", "DISCARDED"}
Locals == local \in [Worker -> [status : TaskStatus, number : Nat, cycle : Nat]]

\* No cycle and no worker is ahead of current_cycle.
NotAhead ==
  /\ \A k \in DOMAIN Cycles : Cycles[k].number <= current_cycle
  /\ \A a \in Worker : local[a].number <= current_cycle

\* A worker starts a cycle that exists.
Chosen == \A a \in Worker : At(a, "start") => local[a].cycle # 0

\* The current cycle is cancelled only after the task has ended.
TaskFirst == \A a \in Actor : At(a, "cancel_cycle") => status # "EXECUTION"

IInv == TypeOK /\ Stacks /\ Locals /\ NotAhead /\ Chosen /\ TaskFirst /\ GoesOn
-----------------------------------------------------------------------------
\* What is below the top of a stack of at most two calls, and pushing a call.
LEMMA Popped ==
  ASSUME NEW S, NEW s \in Seq(S), s # <<>>
  PROVE  /\ Tail(s) \in Seq(S) /\ Len(Tail(s)) = Len(s) - 1
         /\ Len(s) \in Nat \ {0} /\ s[1] \in S /\ Head(s) = s[1]
         /\ Len(s) = 2 => Tail(s)[1] = s[2]
  <1> DEFINE t == Tail(s)
  <1>1. t \in Seq(S) /\ Len(t) = Len(s) - 1 /\ \A i \in 1 .. Len(t) : t[i] = s[i + 1]
    OBVIOUS
  <1>2. Len(s) \in Nat \ {0} /\ s[1] \in S /\ Head(s) = s[1]
    OBVIOUS
  <1> HIDE DEF t
  <1>3. Len(s) = 2 => t[1] = s[2]
    BY <1>1, <1>2
  <1> QED
    BY <1>1, <1>2, <1>3 DEF t

LEMMA Pushed ==
  ASSUME NEW S, NEW s \in Seq(S), NEW g \in S
  PROVE  /\ <<>> \o s = s
         /\ <<g>> \o s \in Seq(S) /\ Len(<<g>> \o s) = Len(s) + 1
         /\ (<<g>> \o s)[1] = g /\ (Len(s) = 1 => (<<g>> \o s)[2] = s[1])
  <1> DEFINE t == <<g>> \o s
  <1>1. t \in Seq(S) /\ Len(t) = Len(s) + 1 /\ Len(s) \in Nat
    OBVIOUS
  <1>2. \A i \in 1 .. Len(t) : t[i] = IF i <= 1 THEN g ELSE s[i - 1]
    BY ConcatProperties
  <1>3. <<>> \o s = s
    OBVIOUS
  <1> HIDE DEF t
  <1>4. t[1] = g /\ (Len(s) = 1 => t[2] = s[1])
    BY <1>1, <1>2
  <1> QED
    BY <1>1, <1>3, <1>4 DEF t

\* What remains of a stack, and what it is with a new call on top.
LEMMA WorkerPops ==
  ASSUME NEW s, WorkerStack(s), s # <<>>
  PROVE  Head(s) \in WorkerFn /\ Tail(s) = <<>>
  <1> DEFINE t == Tail(s)
  <1>1. /\ t \in Seq(Fn) /\ Len(t) = Len(s) - 1
        /\ Len(s) \in Nat \ {0} /\ s[1] \in Fn /\ Head(s) = s[1]
    BY Popped DEF WorkerStack
  <1> HIDE DEF t
  <1>2. Len(s) = 1 /\ Len(t) = 0
    BY <1>1 DEF WorkerStack
  <1>3. t = <<>>
    BY <1>1, <1>2
  <1> QED BY <1>1, <1>2, <1>3 DEF WorkerStack, t

LEMMA SessionPops ==
  ASSUME NEW s, SessionStack(s), s # <<>>
  PROVE  /\ Head(s) \in SessionFn \cup {"end_process"}
         /\ SessionStack(Tail(s)) /\ Len(Tail(s)) <= 1
         /\ Tail(s) # <<>> => Head(Tail(s)) = "end_process" /\ Tail(s)[1] = "end_process"
  <1> DEFINE t == Tail(s)
  <1>1. /\ t \in Seq(Fn) /\ Len(t) = Len(s) - 1
        /\ Len(s) \in Nat \ {0} /\ s[1] \in Fn /\ Head(s) = s[1]
        /\ Len(s) = 2 => t[1] = s[2]
    BY Popped DEF SessionStack
  <1> HIDE DEF t
  <1>2. Len(t) = 1 => t[1] = "end_process"
    BY <1>1 DEF SessionStack
  <1>3. Len(t) \in {0, 1}
    BY <1>1 DEF SessionStack
  <1>4. t # <<>> => Len(t) = 1 /\ Head(t) = t[1]
    BY <1>1, <1>3
  <1> QED
    BY <1>1, <1>2, <1>3, <1>4 DEF SessionStack, t

LEMMA WorkerPushes ==
  ASSUME NEW g \in WorkerFn
  PROVE  WorkerStack(<<g>>) /\ <<g>> # <<>> /\ Head(<<g>>) = g
  BY DEF WorkerStack, WorkerFn, Fn

LEMMA SessionPushes ==
  ASSUME NEW g \in SessionFn, NEW s \in Seq(Fn), Len(s) <= 1, s # <<>> => s[1] = "end_process"
  PROVE  SessionStack(<<g>> \o s) /\ <<g>> \o s # <<>> /\ Head(<<g>> \o s) = g
  <1> DEFINE t == <<g>> \o s
  <1>1. g \in Fn
    BY DEF SessionFn, Fn
  <1>2. /\ t \in Seq(Fn) /\ Len(t) = Len(s) + 1 /\ t[1] = g
        /\ Len(s) = 1 => t[2] = s[1]
    BY <1>1, Pushed
  <1> HIDE DEF t
  <1>3. Len(s) \in {0, 1}
    <2> DEFINE n == Len(s)
    <2>1. n \in Nat /\ n <= 1
      OBVIOUS
    <2> HIDE DEF n
    <2>2. n \in {0, 1}
      BY <2>1
    <2> QED BY <2>2 DEF n
  <1>4. Len(s) = 1 => s # <<>>
    OBVIOUS
  <1>5. Len(t) = 2 => t[2] = "end_process"
    BY <1>2, <1>3, <1>4
  <1>6. t # <<>> /\ Head(t) = g
    BY <1>2, <1>3
  <1> QED
    BY <1>2, <1>3, <1>5, <1>6 DEF SessionStack, t

LEMMA EmptyStack == WorkerStack(<<>>) /\ SessionStack(<<>>) /\ <<>> \in Seq(Fn)
  BY DEF WorkerStack, SessionStack

LEMMA NewStack ==
  ASSUME Stacks, NEW a \in Actor, NEW s, calls' = [calls EXCEPT ![a] = s],
         a \in Worker => WorkerStack(s), a \in Session => SessionStack(s)
  PROVE  /\ Stacks' /\ calls'[a] = s
         /\ \A b \in Actor \ {a} : calls'[b] = calls[b]
  <1>1. s \in Seq(Fn)
    BY DEF Actor, WorkerStack, SessionStack
  <1>2. /\ calls' \in [Actor -> Seq(Fn)] /\ calls'[a] = s
        /\ \A b \in Actor \ {a} : calls'[b] = calls[b]
    BY <1>1 DEF Stacks
  <1> QED
    BY <1>2 DEF Stacks, Actor

LEMMA TopFn ==
  ASSUME Stacks, NEW a \in Actor, NEW f, At(a, f)
  PROVE  /\ a \in Worker => f \in WorkerFn
         /\ a \in Session => f \in SessionFn \cup {"end_process"}
  BY WorkerPops, SessionPops DEF Stacks, At

\* A call returns, makes another call, or raises an exception.
LEMMA Returned ==
  ASSUME Stacks, NEW a \in Actor, NEW f, At(a, f), Continue(a, <<>>)
  PROVE  /\ Stacks' /\ (a \in Worker => calls'[a] = <<>>)
         /\ \A g \in Fn \ {"end_process"} : ~ At(a, g)'
         /\ \A b \in Actor \ {a} : calls'[b] = calls[b]
  <1>1. calls[a] # <<>> /\ calls[a] \in Seq(Fn)
    BY DEF Stacks, At
  <1>2. Tail(calls[a]) \in Seq(Fn)
    BY <1>1, Popped
  <1>3. calls' = [calls EXCEPT ![a] = Tail(calls[a])]
    BY <1>2, Pushed DEF Continue
  <1>4. /\ a \in Worker => Tail(calls[a]) = <<>>
        /\ a \in Session => SessionStack(Tail(calls[a]))
        /\ Tail(calls[a]) # <<>> => Head(Tail(calls[a])) = "end_process"
    BY <1>1, WorkerPops, SessionPops DEF Stacks, Actor
  <1>5. /\ Stacks' /\ calls'[a] = Tail(calls[a])
        /\ \A b \in Actor \ {a} : calls'[b] = calls[b]
    BY <1>3, <1>4, NewStack, EmptyStack
  <1> QED
    BY <1>4, <1>5 DEF At

LEMMA Called ==
  ASSUME Stacks, NEW a \in Actor, NEW f, At(a, f), NEW g \in Fn, Continue(a, <<g>>),
         a \in Worker => g \in WorkerFn, a \in Session => g \in SessionFn
  PROVE  /\ Stacks' /\ At(a, g)' /\ calls'[a] # <<>>
         /\ \A b \in Actor \ {a} : calls'[b] = calls[b]
  <1>1. calls[a] # <<>> /\ calls[a] \in Seq(Fn)
    BY DEF Stacks, At
  <1> DEFINE t == <<g>> \o Tail(calls[a])
  <1>2. calls' = [calls EXCEPT ![a] = t]
    BY DEF Continue
  <1>3. CASE a \in Worker
    <2>1. Tail(calls[a]) = <<>>
      BY <1>1, <1>3, WorkerPops DEF Stacks
    <2>2. <<g>> \o <<>> = <<g>>
      OBVIOUS
    <2>3. WorkerStack(t) /\ t # <<>> /\ Head(t) = g /\ a \notin Session
      BY <1>3, <2>1, <2>2, WorkerPushes, LoopAssumption
    <2> HIDE DEF t
    <2> QED BY <1>2, <1>3, <2>3, NewStack DEF At
  <1>4. CASE a \in Session
    <2>1. Tail(calls[a]) \in Seq(Fn)
      BY <1>1, Popped
    <2>2. Len(Tail(calls[a])) <= 1 /\ (Tail(calls[a]) # <<>> => Tail(calls[a])[1] = "end_process")
      BY <1>1, <1>4, SessionPops DEF Stacks
    <2>3. SessionStack(t) /\ t # <<>> /\ Head(t) = g /\ a \notin Worker
      BY <1>4, <2>1, <2>2, SessionPushes, LoopAssumption
    <2> HIDE DEF t
    <2> QED BY <1>2, <1>4, <2>3, NewStack DEF At
  <1> QED BY <1>3, <1>4 DEF Actor

LEMMA Thrown ==
  ASSUME Stacks, NEW a \in Actor, Throw(a)
  PROVE  /\ Stacks' /\ (a \in Worker => At(a, "fail")' /\ calls'[a] # <<>>)
         /\ \A g : At(a, g)' => g = "fail"
         /\ \A b \in Actor \ {a} : calls'[b] = calls[b]
  <1>1. "fail" \in WorkerFn /\ (a \in Worker => a \notin Session)
    BY LoopAssumption DEF WorkerFn
  <1>2. CASE a \in Worker
    <2>1. calls' = [calls EXCEPT ![a] = <<"fail">>]
      BY <1>2 DEF Throw
    <2> QED BY <1>1, <1>2, <2>1, WorkerPushes, NewStack DEF At
  <1>3. CASE a \notin Worker
    <2>1. calls' = [calls EXCEPT ![a] = <<>>]
      BY <1>3 DEF Throw
    <2> QED BY <1>3, <2>1, EmptyStack, NewStack DEF At
  <1> QED BY <1>2, <1>3

-----------------------------------------------------------------------------
CycleStatus == Ended \cup {"NEW", "EXECUTION", "PAUSED"}

LEMMA CycleIn ==
  ASSUME TypeOK, NEW k \in DOMAIN Cycles
  PROVE  /\ k \in 1 .. Len(Cycles) /\ Len(Cycles) \in Nat /\ DOMAIN Cycles = 1 .. Len(Cycles)
         /\ Cycles[k] \in Cycle /\ Cycles[k].number \in Nat
         /\ Cycles[k].status \in CycleStatus /\ Cycles[k].completing_ok \in BOOLEAN
  <1>1. k \in 1 .. Len(Cycles) /\ Len(Cycles) \in Nat /\ DOMAIN Cycles = 1 .. Len(Cycles)
    BY DEF TypeOK
  <1>2. Cycles[k] \in Cycle
    BY DEF TypeOK
  <1> QED BY <1>1, <1>2 DEF Cycle, CycleStatus

\* There is a cycle with the highest number.
LEMMA CurrentCycleIn ==
  ASSUME TypeOK, NotAhead
  PROVE  CurrentCycle \in DOMAIN Cycles
  <1> DEFINE T == {current_cycle - Cycles[k].number : k \in DOMAIN Cycles}
  <1>0. \A k \in DOMAIN Cycles : /\ Cycles[k].number \in Nat
                               /\ current_cycle - Cycles[k].number \in Nat
    <2> SUFFICES ASSUME NEW k \in DOMAIN Cycles
                 PROVE  Cycles[k].number \in Nat /\ current_cycle - Cycles[k].number \in Nat
      OBVIOUS
    <2>1. Cycles[k].number \in Nat /\ current_cycle \in Nat
      BY CycleIn DEF TypeOK
    <2>2. Cycles[k].number <= current_cycle
      BY DEF NotAhead
    <2> QED BY <2>1, <2>2
  <1>1. T \in SUBSET Nat /\ T # {}
    BY <1>0 DEF TypeOK
  <1>2. \E x \in T : \A y \in T : x <= y
    <2> HIDE DEF T
    <2> DEFINE Less == {p \in Nat \X Nat : p[1] < p[2]}
    <2>1. IsWellFoundedOn(Less, Nat)
      BY NatLessThanWellFounded DEF OpToRel
    <2> HIDE DEF Less
    <2>2. PICK x \in T : \A y \in T : ~ (<<y, x>> \in Less)
      BY <1>1, <2>1, WFMin, Zenon
    <2>3. x \in Nat /\ \A y \in T : y \in Nat /\ ~ (y < x)
      BY <1>1, <2>2 DEF Less
    <2> QED BY <2>3
  <1>3. PICK k \in DOMAIN Cycles :
          \A i \in DOMAIN Cycles :
            current_cycle - Cycles[k].number <= current_cycle - Cycles[i].number
    BY <1>2
  <1>4. \A i \in DOMAIN Cycles : Cycles[i].number <= Cycles[k].number
    BY <1>0, <1>3 DEF TypeOK
  <1> QED BY <1>4 DEF CurrentCycle

\* Cycle k has status s now; its number and the other cycles are as before.
OneChanged(k, s) ==
  /\ Cycles' \in Seq(Cycle) /\ Cycles' # <<>> /\ Len(Cycles') = Len(Cycles)
  /\ DOMAIN Cycles' = DOMAIN Cycles
  /\ \A i \in DOMAIN Cycles : Cycles'[i].number = Cycles[i].number
  /\ \A i \in DOMAIN Cycles \ {k} : Cycles'[i].status = Cycles[i].status
  /\ Cycles'[k].status = s

LEMMA Changing ==
  ASSUME TypeOK, NEW k \in DOMAIN Cycles, NEW s \in CycleStatus, NEW b \in BOOLEAN
  PROVE  /\ Cycles' = [Cycles EXCEPT ![k].status = s, ![k].completing_ok = b] => OneChanged(k, s)
         /\ Cycles' = [Cycles EXCEPT ![k].status = s] => OneChanged(k, s)
         /\ Cycles' = [Cycles EXCEPT ![k].completing_ok = b] => OneChanged(k, Cycles[k].status)
  <1>1. /\ [Cycles[k] EXCEPT !.status = s, !.completing_ok = b] \in Cycle
        /\ [Cycles[k] EXCEPT !.status = s] \in Cycle
        /\ [Cycles[k] EXCEPT !.completing_ok = b] \in Cycle
    BY CycleIn DEF Cycle, CycleStatus
  <1>2. ASSUME NEW c \in Cycle, Cycles' = [Cycles EXCEPT ![k] = c],
               c.number = Cycles[k].number
        PROVE  OneChanged(k, c.status)
    <2>1. /\ Cycles' \in Seq(Cycle) /\ Len(Cycles') = Len(Cycles) /\ Cycles # <<>>
          /\ \A i \in 1 .. Len(Cycles) : Cycles'[i] = IF i = k THEN c ELSE Cycles[i]
      BY <1>2, CycleIn, ExceptSeq DEF TypeOK
    <2>2. DOMAIN Cycles' = DOMAIN Cycles /\ DOMAIN Cycles = 1 .. Len(Cycles) /\ Cycles' # <<>>
      BY <2>1 DEF TypeOK
    <2> QED BY <1>2, <2>1, <2>2 DEF OneChanged
  <1>3. Cycles[k] \in Cycle
    BY CycleIn
  <1>4. ASSUME Cycles' = [Cycles EXCEPT ![k].status = s, ![k].completing_ok = b]
        PROVE  OneChanged(k, s)
    <2>1. Cycles' = [Cycles EXCEPT ![k] = [Cycles[k] EXCEPT !.status = s, !.completing_ok = b]]
      BY <1>4
    <2> QED BY <1>1, <1>2, <1>3, <2>1 DEF Cycle
  <1>5. ASSUME Cycles' = [Cycles EXCEPT ![k].status = s]
        PROVE  OneChanged(k, s)
    BY <1>1, <1>2, <1>3, <1>5 DEF Cycle
  <1>6. ASSUME Cycles' = [Cycles EXCEPT ![k].completing_ok = b]
        PROVE  OneChanged(k, Cycles[k].status)
    BY <1>1, <1>2, <1>3, <1>6 DEF Cycle
  <1> QED BY <1>4, <1>5, <1>6

\* Pausing and resuming the parent changes many cycles.
ManyChanged(t) ==
  /\ Cycles' \in Seq(Cycle) /\ Cycles' # <<>> /\ Len(Cycles') = Len(Cycles)
  /\ DOMAIN Cycles' = DOMAIN Cycles
  /\ \A i \in DOMAIN Cycles :
       /\ Cycles'[i].number = Cycles[i].number
       /\ \/ Cycles'[i].status = Cycles[i].status
          \/ Cycles[i].status \in {"EXECUTION", "PAUSED"} /\ Cycles'[i].status = t

LEMMA Moving ==
  ASSUME TypeOK, NEW s \in {"EXECUTION", "PAUSED"}, NEW t \in {"EXECUTION", "PAUSED"},
         Cycles' = Moved(s, t)
  PROVE  ManyChanged(t)
  <1>1. DOMAIN Cycles = 1 .. Len(Cycles) /\ Len(Cycles) \in Nat /\ Cycles # <<>>
    BY DEF TypeOK
  <1>2. ASSUME NEW k \in DOMAIN Cycles
        PROVE  /\ Cycles'[k] \in Cycle /\ Cycles'[k].number = Cycles[k].number
               /\ \/ Cycles'[k].status = Cycles[k].status
                  \/ Cycles[k].status \in {"EXECUTION", "PAUSED"} /\ Cycles'[k].status = t
    <2>1. Cycles[k] \in Cycle
      BY CycleIn
    <2>2. Cycles'[k] = IF Cycles[k].status = s THEN [Cycles[k] EXCEPT !.status = t] ELSE Cycles[k]
      BY DEF Moved
    <2> QED BY <2>1, <2>2 DEF Cycle
  <1>3. DOMAIN Cycles' = 1 .. Len(Cycles) /\ Cycles' = [k \in 1 .. Len(Cycles) |-> Cycles'[k]]
    BY <1>1 DEF Moved
  <1>4. Cycles' \in Seq(Cycle) /\ Len(Cycles') = Len(Cycles)
    BY <1>1, <1>2, <1>3
  <1> QED BY <1>1, <1>2, <1>3, <1>4 DEF ManyChanged

\* The end of a cycle is counted, and a job enqueued, if task and parent run.
LEMMA Counting ==
  ASSUME TypeOK, newCycle
  PROVE  /\ current_cycle' \in {current_cycle, current_cycle + 1} /\ jobs' \in Nat /\ jobs' >= jobs
         /\ procStatus = "EXECUTION" /\ status = "EXECUTION"
              => jobs' > 0 /\ current_cycle' = current_cycle + 1
         /\ status # "EXECUTION" => UNCHANGED <<current_cycle, jobs>>
  BY DEF newCycle, TypeOK

LEMMA Cancelling ==
  ASSUME TypeOK, NEW k \in DOMAIN Cycles, CancelCycle(k)
  PROVE  \/ OneChanged(k, "FAILED") /\ newCycle
         \/ OneChanged(k, Cycles[k].status) /\ UNCHANGED <<current_cycle, jobs>>
  BY Changing DEF CancelCycle, CycleStatus, Ended

\* Something that changed one or many cycles and let current_cycle grow.
LEMMA NumbersKept ==
  ASSUME TypeOK, NotAhead, current_cycle' \in {current_cycle, current_cycle + 1}, UNCHANGED local,
         (\E k \in DOMAIN Cycles, s \in CycleStatus : OneChanged(k, s)) \/ (\E t : ManyChanged(t))
           \/ UNCHANGED Cycles
  PROVE  NotAhead' /\ \A a \in Worker : local'[a].cycle \in 0 .. Len(Cycles')
  <1>1. Len(Cycles') = Len(Cycles) /\ DOMAIN Cycles' = DOMAIN Cycles
    BY DEF OneChanged, ManyChanged
  <1>2. \A k \in DOMAIN Cycles : Cycles'[k].number = Cycles[k].number
    BY DEF OneChanged, ManyChanged
  <1>3. \A k \in DOMAIN Cycles : Cycles[k].number \in Nat
    BY CycleIn
  <1>4. current_cycle \in Nat /\ current_cycle <= current_cycle'
    BY DEF TypeOK
  <1>5. \A a \in Worker : local[a].number \in Nat /\ local[a].cycle \in 0 .. Len(Cycles)
    BY DEF TypeOK
  <1> QED BY <1>1, <1>2, <1>3, <1>4, <1>5 DEF NotAhead
-----------------------------------------------------------------------------
(* What a step leaves of the invariant, by what it changes. *)

LEMMA Typed ==
  ASSUME IInv, Stacks', UNCHANGED local, current_cycle' \in {current_cycle, current_cycle + 1},
         (\E k \in DOMAIN Cycles, s \in CycleStatus : OneChanged(k, s)) \/ (\E t : ManyChanged(t))
           \/ UNCHANGED Cycles,
         procStatus' \in {"EXECUTION", "COMPLETED", "FAILED", "PAUSED"},
         status' \in {"EXECUTION", "COMPLETED", "DISCARDED"},
         jobs' \in Nat, failed' \in BOOLEAN, resumes' \in Nat
  PROVE  TypeOK' /\ Locals' /\ NotAhead'
  <1>1. NotAhead' /\ \A a \in Worker : local'[a].cycle \in 0 .. Len(Cycles')
    BY NumbersKept DEF IInv
  <1>2. Cycles' \in Seq(Cycle) /\ Cycles' # <<>>
    BY DEF IInv, TypeOK, OneChanged, ManyChanged
  <1>3. current_cycle' \in Nat
    BY DEF IInv, TypeOK
  <1>4. calls' \in [Actor -> Seq(Fn)]
    BY DEF Stacks
  <1>5. \A a \in Worker : local'[a].number \in Nat
    BY DEF IInv, TypeOK
  <1>6. Locals'
    BY DEF IInv, Locals
  <1> QED BY <1>1, <1>2, <1>3, <1>4, <1>5, <1>6 DEF TypeOK

\* The stack of one actor changed.
LEMMA StackParts ==
  ASSUME Chosen, TaskFirst, NEW a \in Actor, \A b \in Actor \ {a} : calls'[b] = calls[b],
         status # "EXECUTION" => status' # "EXECUTION",
         At(a, "cancel_cycle")' => status' # "EXECUTION",
         \A w \in Worker \ {a} : local'[w] = local[w],
         a \in Worker /\ At(a, "start")' => local'[a].cycle # 0
  PROVE  Chosen' /\ TaskFirst'
  <1>1. \A b \in Actor \ {a} : \A f : At(b, f)' => At(b, f)
    BY DEF At
  <1>2. Chosen'
    BY <1>1 DEF Chosen, Actor
  <1>3. TaskFirst'
    BY <1>1 DEF TaskFirst
  <1> QED BY <1>2, <1>3

LEMMA NoStack ==
  ASSUME Chosen, TaskFirst, UNCHANGED <<calls, status, local>>
  PROVE  Chosen' /\ TaskFirst'
  BY DEF Chosen, TaskFirst, At

\* Nothing that lets the loop go on is lost.
LEMMA StillGoes ==
  ASSUME GoesOn, TypeOK, jobs' \in Nat, jobs' >= jobs,
         procStatus' = "EXECUTION" /\ status' = "EXECUTION"
           => procStatus = "EXECUTION" /\ status = "EXECUTION"
              /\ (Active # {} => Active' # {} \/ jobs' > 0)
              /\ \A w \in Worker : calls[w] # <<>>
                   => calls'[w] # <<>> \/ Active' # {} \/ jobs' > 0
  PROVE  GoesOn'
  BY DEF GoesOn, Idle, TypeOK

LEMMA Gone ==
  ASSUME procStatus' # "EXECUTION" \/ status' # "EXECUTION" \/ jobs' > 0
         \/ \E w \in Worker : calls'[w] # <<>>
  PROVE  GoesOn'
  BY DEF GoesOn, Idle
-----------------------------------------------------------------------------
(* Cancelling the task. *)

LEMMA CancelSubtasksStep ==
  ASSUME IInv, NEW a \in Actor, CancelSubtasks(a)
  PROVE  IInv'
  <1>1. At(a, "cancel_subtasks") /\ UNCHANGED <<procStatus, taskVars, Cycles, jobVars, resumes>>
    BY DEF CancelSubtasks
  <1>2. a \notin Worker /\ a \in Session
    BY <1>1, TopFn DEF IInv, WorkerFn, Actor
  <1>3. /\ Stacks' /\ ~ At(a, "cancel_cycle")'
        /\ \A b \in Actor \ {a} : calls'[b] = calls[b]
    <2>1. CASE status = "EXECUTION"
      <3>1. Continue(a, <<"cancel_task">>)
        BY <2>1 DEF CancelSubtasks
      <3>2. "cancel_task" \in Fn /\ "cancel_task" \in SessionFn
        BY DEF Fn, SessionFn
      <3> QED BY <1>1, <1>2, <3>1, <3>2, Called DEF IInv, At
    <2>2. CASE status # "EXECUTION"
      <3>1. Continue(a, <<>>)
        BY <2>2 DEF CancelSubtasks
      <3>2. "cancel_cycle" \in Fn \ {"end_process"}
        BY DEF Fn
      <3> QED BY <1>1, <1>2, <3>1, <3>2, Returned DEF IInv
    <2> QED BY <2>1, <2>2
  <1>4. TypeOK' /\ Locals' /\ NotAhead'
    BY <1>1, <1>3, Typed DEF IInv, TypeOK, taskVars, jobVars
  <1>5. Chosen' /\ TaskFirst'
    BY <1>1, <1>2, <1>3, StackParts DEF IInv, taskVars, jobVars
  <1>6. GoesOn'
    <2>1. \A w \in Worker : calls'[w] = calls[w]
      BY <1>2, <1>3 DEF Actor
    <2> QED BY <1>1, <2>1 DEF IInv, GoesOn, Idle, Active, taskVars, jobVars
  <1> QED BY <1>3, <1>4, <1>5, <1>6 DEF IInv

LEMMA CancelTaskStep ==
  ASSUME IInv, NEW a \in Actor, CancelTask(a)
  PROVE  IInv'
  <1>1. At(a, "cancel_task") /\ UNCHANGED <<procStatus, current_cycle, Cycles, jobVars, resumes>>
    BY DEF CancelTask
  <1>2. /\ Stacks' /\ ~ At(a, "start")' /\ status' \in {"EXECUTION", "COMPLETED", "DISCARDED"}
        /\ \A b \in Actor \ {a} : calls'[b] = calls[b]
        /\ status' # "EXECUTION"
    <2>1. CASE status = "EXECUTION"
      <3>1. Continue(a, <<"cancel_cycle">>) /\ status' = "DISCARDED"
        BY <2>1 DEF CancelTask
      <3>2. "cancel_cycle" \in Fn /\ "cancel_cycle" \in SessionFn /\ "cancel_cycle" \in WorkerFn
        BY DEF Fn, SessionFn, WorkerFn
      <3> QED BY <1>1, <3>1, <3>2, Called DEF IInv, At
    <2>2. CASE status # "EXECUTION"
      <3>1. Throw(a) /\ status' = status
        BY <2>2 DEF CancelTask
      <3> QED BY <2>2, <3>1, Thrown DEF IInv, TypeOK
    <2> QED BY <2>1, <2>2
  <1>4. TypeOK' /\ Locals' /\ NotAhead'
    BY <1>1, <1>2, Typed DEF IInv, TypeOK, jobVars
  <1>5. Chosen' /\ TaskFirst'
    BY <1>1, <1>2, StackParts DEF IInv, jobVars
  <1>6. GoesOn'
    BY <1>2 DEF GoesOn
  <1> QED BY <1>2, <1>4, <1>5, <1>6 DEF IInv

LEMMA CancelCurrentStep ==
  ASSUME IInv, NEW a \in Actor, CancelCurrent(a)
  PROVE  IInv'
  <1>1. At(a, "cancel_cycle") /\ UNCHANGED <<procStatus, status, failed, local, resumes>>
        /\ Continue(a, <<>>)
    BY DEF CancelCurrent
  <1>2. status # "EXECUTION"
    BY <1>1 DEF IInv, TaskFirst
  <1>3. /\ UNCHANGED <<current_cycle, jobs>>
        /\ (\E k \in DOMAIN Cycles, s \in CycleStatus : OneChanged(k, s)) \/ UNCHANGED Cycles
    <2>1. CASE Cycles[CurrentCycle].status = "EXECUTION"
      <3>1. CurrentCycle \in DOMAIN Cycles /\ CancelCycle(CurrentCycle)
        BY <2>1, CurrentCycleIn DEF CancelCurrent, IInv
      <3>2. PICK k \in DOMAIN Cycles : CancelCycle(k)
        BY <3>1
      <3>3. Cycles[k].status \in CycleStatus /\ "FAILED" \in CycleStatus
        BY CycleIn DEF IInv, CycleStatus, Ended
      <3>4. newCycle => UNCHANGED <<current_cycle, jobs>>
        BY <1>2, Counting DEF IInv
      <3> QED BY <3>2, <3>3, <3>4, Cancelling DEF IInv
    <2>2. CASE Cycles[CurrentCycle].status # "EXECUTION"
      BY <2>2 DEF CancelCurrent
    <2> QED BY <2>1, <2>2
  <1>4. /\ Stacks' /\ ~ At(a, "cancel_cycle")' /\ ~ At(a, "start")'
        /\ \A b \in Actor \ {a} : calls'[b] = calls[b]
    <2>1. "cancel_cycle" \in Fn \ {"end_process"} /\ "start" \in Fn \ {"end_process"}
      BY DEF Fn
    <2> QED BY <1>1, <2>1, Returned DEF IInv
  <1>5. TypeOK' /\ Locals' /\ NotAhead'
    BY <1>1, <1>3, <1>4, Typed DEF IInv, TypeOK
  <1>6. Chosen' /\ TaskFirst'
    BY <1>1, <1>4, StackParts DEF IInv
  <1>7. GoesOn'
    BY <1>1, <1>2 DEF GoesOn
  <1> QED BY <1>4, <1>5, <1>6, <1>7 DEF IInv

LEMMA EndProcessStep ==
  ASSUME IInv, NEW a \in Actor, EndProcess(a)
  PROVE  IInv'
  <1>1. At(a, "end_process") /\ UNCHANGED <<taskVars, Cycles, jobVars, resumes>>
    BY DEF EndProcess
  <1>2. a \notin Worker
    BY <1>1, TopFn DEF IInv, WorkerFn
  <1>3. /\ Stacks' /\ ~ At(a, "cancel_cycle")'
        /\ \A b \in Actor \ {a} : calls'[b] = calls[b]
        /\ procStatus' \in {"EXECUTION", "COMPLETED", "FAILED", "PAUSED"}
        /\ procStatus' # "EXECUTION"
    <2>1. CASE procStatus \in {"EXECUTION", "PAUSED"}
      <3>1. Continue(a, <<>>) /\ procStatus' = "FAILED"
        BY <2>1 DEF EndProcess
      <3>2. "cancel_cycle" \in Fn \ {"end_process"}
        BY DEF Fn
      <3> QED BY <1>1, <3>1, <3>2, Returned DEF IInv
    <2>2. CASE procStatus \notin {"EXECUTION", "PAUSED"}
      <3>1. Throw(a) /\ procStatus' = procStatus
        BY <2>2 DEF EndProcess
      <3> QED BY <2>2, <3>1, Thrown DEF IInv, TypeOK
    <2> QED BY <2>1, <2>2
  <1>4. TypeOK' /\ Locals' /\ NotAhead'
    BY <1>1, <1>3, Typed DEF IInv, TypeOK, taskVars, jobVars
  <1>5. Chosen' /\ TaskFirst'
    BY <1>1, <1>2, <1>3, StackParts DEF IInv, taskVars, jobVars
  <1>6. GoesOn'
    BY <1>3 DEF GoesOn
  <1> QED BY <1>3, <1>4, <1>5, <1>6 DEF IInv
-----------------------------------------------------------------------------
(* The job. *)

\* What worker a has read changes.
LEMMA Reading ==
  ASSUME IInv, NEW a \in Worker, NEW r \in [status : TaskStatus, number : Nat, cycle : Nat],
         local' = [local EXCEPT ![a] = r]
  PROVE  Locals' /\ local'[a] = r /\ \A w \in Worker \ {a} : local'[w] = local[w]
  BY DEF IInv, Locals

\* A step of worker a in the job that leaves task and process alone.
LEMMA JobStep ==
  ASSUME IInv, NEW a \in Worker, Stacks', calls'[a] # <<>>,
         \A b \in Actor \ {a} : calls'[b] = calls[b],
         NEW r \in [status : TaskStatus, number : Nat, cycle : Nat], local' = [local EXCEPT ![a] = r],
         r.number <= current_cycle, r.cycle \in DOMAIN Cycles \cup {0},
         ~ At(a, "cancel_cycle")', At(a, "start")' => r.cycle # 0,
         UNCHANGED <<procStatus, taskVars, Cycles, jobs, failed, resumes>>
  PROVE  IInv'
  <1>1. Locals' /\ local'[a] = r /\ \A w \in Worker \ {a} : local'[w] = local[w]
    BY Reading
  <1>2. calls' \in [Actor -> Seq(Fn)]
    BY DEF Stacks
  <1>3. DOMAIN Cycles = 1 .. Len(Cycles) /\ Len(Cycles) \in Nat
    BY DEF IInv, TypeOK
  <1>4. r.number \in Nat /\ r.cycle \in 0 .. Len(Cycles)
    BY <1>3
  <1>5. \A w \in Worker : local'[w].number \in Nat /\ local'[w].cycle \in 0 .. Len(Cycles)
    BY <1>1, <1>4 DEF IInv, TypeOK
  <1>6. TypeOK'
    BY <1>2, <1>5 DEF IInv, TypeOK, taskVars
  <1>7. NotAhead'
    BY <1>1 DEF IInv, NotAhead, taskVars
  <1>8. Chosen' /\ TaskFirst'
    BY <1>1, StackParts DEF IInv, taskVars, Actor
  <1>9. GoesOn'
    BY Gone
  <1> QED BY <1>1, <1>6, <1>7, <1>8, <1>9 DEF IInv

\* So is one that reads nothing.
LEMMA JobCall ==
  ASSUME IInv, NEW a \in Worker, Stacks', calls'[a] # <<>>,
         \A b \in Actor \ {a} : calls'[b] = calls[b],
         ~ At(a, "cancel_cycle")', ~ At(a, "start")',
         UNCHANGED <<procStatus, taskVars, Cycles, jobVars, resumes>>
  PROVE  IInv'
  <1> DEFINE r == local[a]
  <1>1. r \in [status : TaskStatus, number : Nat, cycle : Nat] /\ local' = [local EXCEPT ![a] = r]
    BY DEF IInv, Locals, jobVars
  <1>2. r.number <= current_cycle /\ r.cycle \in DOMAIN Cycles \cup {0}
    <2>1. r.cycle \in 0 .. Len(Cycles) /\ DOMAIN Cycles = 1 .. Len(Cycles) /\ Len(Cycles) \in Nat
      BY DEF IInv, TypeOK
    <2>2. r.cycle \in DOMAIN Cycles \cup {0}
      BY <2>1
    <2> QED BY <2>2 DEF IInv, NotAhead
  <1> HIDE DEF r
  <1> QED BY <1>1, <1>2, JobStep DEF jobVars

LEMMA RunStep ==
  ASSUME IInv, NEW a \in Actor, Run(a)
  PROVE  IInv'
  <1> DEFINE r == [status |-> status, number |-> current_cycle, cycle |-> 0]
  <1>1. /\ At(a, "run") /\ UNCHANGED <<procStatus, taskVars, Cycles, jobs, failed, resumes>>
        /\ Continue(a, <<"run_loop">>) /\ local' = [local EXCEPT ![a] = r]
    BY DEF Run
  <1>2. a \in Worker /\ a \notin Session
    BY <1>1, TopFn, LoopAssumption DEF IInv, SessionFn, Actor
  <1>3. Stacks' /\ At(a, "run_loop")' /\ calls'[a] # <<>>
        /\ \A b \in Actor \ {a} : calls'[b] = calls[b]
    <2>1. "run_loop" \in Fn /\ "run_loop" \in WorkerFn
      BY DEF Fn, WorkerFn
    <2> QED BY <1>1, <1>2, <2>1, Called DEF IInv
  <1>4. r \in [status : TaskStatus, number : Nat, cycle : Nat] /\ r.number <= current_cycle /\ r.cycle = 0
    <2>1. current_cycle \in Nat /\ status \in TaskStatus
      BY DEF IInv, TypeOK, TaskStatus
    <2> QED BY <2>1
  <1>5. ~ At(a, "cancel_cycle")' /\ ~ At(a, "start")'
    BY <1>3 DEF At
  <1> HIDE DEF r
  <1> QED BY <1>1, <1>2, <1>3, <1>4, <1>5, JobStep

LEMMA RunLoopStep ==
  ASSUME IInv, NEW a \in Actor, RunLoop(a)
  PROVE  IInv'
  <1> DEFINE r == [local[a] EXCEPT !.cycle = CurrentCycle]
  <1>1. /\ At(a, "run_loop") /\ UNCHANGED <<procStatus, taskVars, Cycles, jobs, failed, resumes>>
        /\ local' = [local EXCEPT ![a] = r]
    BY DEF RunLoop
  <1>2. a \in Worker /\ a \notin Session
    BY <1>1, TopFn, LoopAssumption DEF IInv, SessionFn, Actor
  <1>3. CurrentCycle \in DOMAIN Cycles
    BY CurrentCycleIn DEF IInv
  <1>4. CurrentCycle \in Nat \ {0}
    BY <1>3 DEF IInv, TypeOK
  <1>5. /\ r \in [status : TaskStatus, number : Nat, cycle : Nat]
        /\ r.number = local[a].number /\ r.cycle = CurrentCycle
    BY <1>2, <1>4 DEF IInv, Locals
  <1>6. r.number <= current_cycle
    BY <1>2, <1>5 DEF IInv, NotAhead
  <1>7. Stacks' /\ calls'[a] # <<>> /\ ~ At(a, "cancel_cycle")'
        /\ \A b \in Actor \ {a} : calls'[b] = calls[b]
    <2>1. CASE local[a].status # "EXECUTION" \/ procStatus # "EXECUTION"
      <3>1. Throw(a)
        BY <2>1 DEF RunLoop
      <3> QED BY <1>2, <3>1, Thrown DEF IInv
    <2>2. CASE ~ (local[a].status # "EXECUTION" \/ procStatus # "EXECUTION")
      <3>1. PICK g \in {"start", "close_task", "cancel_task", "create"} : Continue(a, <<g>>)
        BY <2>2 DEF RunLoop, Verdict
      <3>2. g \in Fn /\ g \in WorkerFn /\ g # "cancel_cycle"
        BY DEF Fn, WorkerFn
      <3> QED BY <1>1, <1>2, <3>1, <3>2, Called DEF IInv, At
    <2> QED BY <2>1, <2>2
  <1>8. r.cycle \in DOMAIN Cycles \cup {0} /\ r.cycle # 0
    BY <1>3, <1>4, <1>5
  <1> HIDE DEF r
  <1> QED BY <1>1, <1>2, <1>5, <1>6, <1>7, <1>8, JobStep

LEMMA CreateNewCycleStep ==
  ASSUME IInv, NEW a \in Actor, CreateNewCycle(a)
  PROVE  IInv'
  <1>1. At(a, "create") /\ UNCHANGED <<procStatus, taskVars, Cycles, jobVars, resumes>>
    BY DEF CreateNewCycle
  <1>2. a \in Worker /\ a \notin Session
    BY <1>1, TopFn, LoopAssumption DEF IInv, SessionFn, Actor
  <1>3. \/ Continue(a, <<"cancel_task">>)
        \/ Continue(a, <<"copy">>)
    BY DEF CreateNewCycle
  <1>4. {"cancel_task", "copy"} \subseteq Fn /\ {"cancel_task", "copy"} \subseteq WorkerFn
    BY DEF Fn, WorkerFn
  <1>5. /\ Stacks' /\ calls'[a] # <<>> /\ (At(a, "cancel_task")' \/ At(a, "copy")')
        /\ \A b \in Actor \ {a} : calls'[b] = calls[b]
    BY <1>1, <1>2, <1>3, <1>4, Called DEF IInv
  <1>6. ~ At(a, "cancel_cycle")' /\ ~ At(a, "start")'
    BY <1>5 DEF At
  <1> QED BY <1>1, <1>2, <1>5, <1>6, JobCall

\* The new cycle has the number the worker has read.
LEMMA Copied ==
  ASSUME TypeOK, Locals, NEW a \in Worker,
         Cycles' = Append(Cycles, [number |-> local[a].number, status |-> "NEW",
                                   completing_ok |-> TRUE])
  PROVE  /\ Cycles' \in Seq(Cycle) /\ Cycles' # <<>> /\ Len(Cycles') = Len(Cycles) + 1
         /\ Len(Cycles) \in Nat \ {0} /\ DOMAIN Cycles = 1 .. Len(Cycles)
         /\ DOMAIN Cycles' = 1 .. Len(Cycles) + 1
         /\ \A i \in 1 .. Len(Cycles) : Cycles'[i] = Cycles[i]
         /\ Cycles'[Len(Cycles')].number = local[a].number /\ Cycles'[Len(Cycles')].status = "NEW"
  <1> DEFINE c == [number |-> local[a].number, status |-> "NEW", completing_ok |-> TRUE]
  <1>1. c \in Cycle /\ c.number = local[a].number /\ c.status = "NEW"
    BY DEF Cycle, Locals
  <1>2. Cycles' = Append(Cycles, c) /\ Cycles \in Seq(Cycle) /\ Cycles # <<>>
    BY DEF TypeOK
  <1> HIDE DEF c
  <1>3. /\ Cycles' \in Seq(Cycle) /\ Len(Cycles') = Len(Cycles) + 1
        /\ \A i \in 1 .. Len(Cycles) : Cycles'[i] = Cycles[i]
        /\ Cycles'[Len(Cycles) + 1] = c
    BY <1>1, <1>2, AppendProperties
  <1>4. Len(Cycles) \in Nat \ {0} /\ DOMAIN Cycles = 1 .. Len(Cycles) /\ Cycles' # <<>>
        /\ DOMAIN Cycles' = 1 .. Len(Cycles')
    BY <1>2, <1>3
  <1> QED BY <1>1, <1>3, <1>4

LEMMA CopyCycleStep ==
  ASSUME IInv, NEW a \in Actor, CopyCycle(a)
  PROVE  IInv'
  <1>1. /\ At(a, "copy") /\ UNCHANGED <<procStatus, taskVars, jobs, failed, resumes>>
        /\ Cycles' = Append(Cycles, [number |-> local[a].number, status |-> "NEW",
                                     completing_ok |-> TRUE])
        /\ Continue(a, <<"start">>)
    BY DEF CopyCycle
  <1>2. a \in Worker /\ a \notin Session
    BY <1>1, TopFn, LoopAssumption DEF IInv, SessionFn, Actor
  <1>3. /\ Cycles' \in Seq(Cycle) /\ Cycles' # <<>> /\ Len(Cycles') = Len(Cycles) + 1
        /\ Len(Cycles) \in Nat \ {0} /\ DOMAIN Cycles = 1 .. Len(Cycles)
        /\ DOMAIN Cycles' = 1 .. Len(Cycles) + 1
        /\ \A i \in 1 .. Len(Cycles) : Cycles'[i] = Cycles[i]
        /\ Cycles'[Len(Cycles')].number = local[a].number
    BY <1>1, <1>2, Copied DEF IInv
  <1> DEFINE r == [local[a] EXCEPT !.cycle = Len(Cycles')]
  <1>4. local' = [local EXCEPT ![a] = r]
    BY DEF CopyCycle
  <1>5. /\ r \in [status : TaskStatus, number : Nat, cycle : Nat]
        /\ r.number = local[a].number /\ r.cycle = Len(Cycles) + 1
    BY <1>2, <1>3 DEF IInv, Locals
  <1> HIDE DEF r
  <1>6. Locals' /\ local'[a] = r /\ \A w \in Worker \ {a} : local'[w] = local[w]
    BY <1>2, <1>4, <1>5, Reading
  <1>7. Stacks' /\ At(a, "start")' /\ calls'[a] # <<>>
        /\ \A b \in Actor \ {a} : calls'[b] = calls[b]
    <2>1. "start" \in Fn /\ "start" \in WorkerFn
      BY DEF Fn, WorkerFn
    <2> QED BY <1>1, <1>2, <2>1, Called DEF IInv
  <1>8. \A w \in Worker : /\ local'[w].number \in Nat /\ local'[w].cycle \in 0 .. Len(Cycles')
                          /\ local'[w].number <= current_cycle
    <2>1. \A w \in Worker : /\ local[w].number \in Nat /\ local[w].cycle \in 0 .. Len(Cycles)
                            /\ local[w].number <= current_cycle
      BY DEF IInv, TypeOK, NotAhead
    <2> QED BY <1>2, <1>3, <1>5, <1>6, <2>1
  <1>9. TypeOK'
    BY <1>1, <1>3, <1>7, <1>8 DEF IInv, TypeOK, taskVars, Stacks
  <1>10. NotAhead'
    <2>1. \A k \in 1 .. Len(Cycles) : Cycles[k].number <= current_cycle
      BY <1>3 DEF IInv, NotAhead
    <2>2. local[a].number <= current_cycle
      BY <1>2 DEF IInv, NotAhead
    <2>3. ASSUME NEW k \in DOMAIN Cycles'
          PROVE  Cycles'[k].number <= current_cycle
      <3>1. k \in 1 .. Len(Cycles) \/ k = Len(Cycles')
        BY <1>3
      <3> QED BY <1>3, <2>1, <2>2, <3>1
    <2> QED BY <1>1, <1>8, <2>3 DEF NotAhead, taskVars
  <1>11. Chosen' /\ TaskFirst'
    <2>1. ~ At(a, "cancel_cycle")'
      BY <1>7 DEF At
    <2>2. local'[a].cycle # 0
      BY <1>3, <1>5, <1>6
    <2> QED BY <1>1, <1>6, <1>7, <2>1, <2>2, StackParts DEF IInv, taskVars
  <1>12. GoesOn'
    BY <1>2, <1>7, Gone
  <1> QED BY <1>6, <1>7, <1>9, <1>10, <1>11, <1>12 DEF IInv
LEMMA StartCycleStep ==
  ASSUME IInv, NEW a \in Actor, StartCycle(a)
  PROVE  IInv'
  <1>1. At(a, "start") /\ UNCHANGED <<procStatus, taskVars, jobVars, resumes>>
    BY DEF StartCycle
  <1>2. a \in Worker /\ a \notin Session
    BY <1>1, TopFn, LoopAssumption DEF IInv, SessionFn, Actor
  <1> DEFINE k == local[a].cycle
  <1>3. k \in DOMAIN Cycles
    <2>1. k # 0
      BY <1>1, <1>2 DEF IInv, Chosen
    <2>2. k \in 0 .. Len(Cycles) /\ DOMAIN Cycles = 1 .. Len(Cycles) /\ Len(Cycles) \in Nat
      BY <1>2 DEF IInv, TypeOK
    <2> QED BY <2>1, <2>2
  <1>4. /\ OneChanged(k, "EXECUTION") \/ UNCHANGED Cycles
        /\ \/ OneChanged(k, "EXECUTION") /\ Continue(a, <<>>)
           \/ Continue(a, <<"cancel_task">>)
    <2> DEFINE b == Cycles[k].completing_ok \/ Cycles[k].status = "NEW"
    <2>1. b \in BOOLEAN
      OBVIOUS
    <2>2. ASSUME Cycles' = [Cycles EXCEPT ![k].status = "EXECUTION",
                                          ![k].completing_ok = @ \/ Cycles[k].status = "NEW"]
          PROVE  OneChanged(k, "EXECUTION")
      <3>1. Cycles' = [Cycles EXCEPT ![k].status = "EXECUTION", ![k].completing_ok = b]
        BY <2>2, CycleIn DEF IInv, Cycle
      <3>2. "EXECUTION" \in CycleStatus
        BY DEF CycleStatus
      <3> HIDE DEF b, k
      <3> QED BY <1>3, <2>1, <3>1, <3>2, Changing DEF IInv
    <2> QED BY <2>2 DEF StartCycle
  <1> HIDE DEF k
  <1>5. /\ Stacks' /\ ~ At(a, "cancel_cycle")' /\ ~ At(a, "start")'
        /\ \A b \in Actor \ {a} : calls'[b] = calls[b]
        /\ calls'[a] # <<>> \/ OneChanged(k, "EXECUTION")
    <2>1. CASE OneChanged(k, "EXECUTION") /\ Continue(a, <<>>)
      <3>1. "cancel_cycle" \in Fn \ {"end_process"} /\ "start" \in Fn \ {"end_process"}
        BY DEF Fn
      <3> QED BY <1>1, <2>1, <3>1, Returned DEF IInv
    <2>2. CASE Continue(a, <<"cancel_task">>)
      <3>1. "cancel_task" \in Fn /\ "cancel_task" \in WorkerFn
        BY DEF Fn, WorkerFn
      <3> QED BY <1>1, <1>2, <2>2, <3>1, Called DEF IInv, At
    <2> QED BY <1>4, <2>1, <2>2
  <1>6. TypeOK' /\ Locals' /\ NotAhead'
    <2>1. "EXECUTION" \in CycleStatus
      BY DEF CycleStatus
    <2>2. (\E i \in DOMAIN Cycles, s \in CycleStatus : OneChanged(i, s)) \/ UNCHANGED Cycles
      BY <1>3, <1>4, <2>1
    <2> QED BY <1>1, <1>5, <2>2, Typed DEF IInv, TypeOK, taskVars, jobVars
  <1>7. Chosen' /\ TaskFirst'
    BY <1>1, <1>5, StackParts DEF IInv, taskVars, jobVars
  <1>8. GoesOn'
    <2>1. CASE calls'[a] # <<>>
      BY <1>2, <2>1, Gone
    <2>2. CASE OneChanged(k, "EXECUTION")
      <3>1. k \in Active'
        BY <1>3, <2>2 DEF OneChanged, Active
      <3> QED BY <3>1 DEF GoesOn
    <2> QED BY <1>5, <2>1, <2>2
  <1> QED BY <1>5, <1>6, <1>7, <1>8 DEF IInv

LEMMA CloseTaskStep ==
  ASSUME IInv, NEW a \in Actor, CloseTask(a)
  PROVE  IInv'
  <1>1. At(a, "close_task") /\ UNCHANGED <<procStatus, current_cycle, Cycles, jobVars, resumes>>
    BY DEF CloseTask
  <1>2. /\ Stacks' /\ ~ At(a, "cancel_cycle")' /\ ~ At(a, "start")'
        /\ \A b \in Actor \ {a} : calls'[b] = calls[b]
        /\ status' \in {"COMPLETED", "DISCARDED"}
    <2>1. CASE status = "EXECUTION"
      <3>1. Continue(a, <<>>) /\ status' = "COMPLETED"
        BY <2>1 DEF CloseTask
      <3>2. "cancel_cycle" \in Fn \ {"end_process"} /\ "start" \in Fn \ {"end_process"}
        BY DEF Fn
      <3> QED BY <1>1, <3>1, <3>2, Returned DEF IInv
    <2>2. CASE status # "EXECUTION"
      <3>1. Throw(a) /\ status' = status
        BY <2>2 DEF CloseTask
      <3> QED BY <2>2, <3>1, Thrown DEF IInv, TypeOK
    <2> QED BY <2>1, <2>2
  <1>3. TypeOK' /\ Locals' /\ NotAhead'
    BY <1>1, <1>2, Typed DEF IInv, TypeOK, jobVars
  <1>4. Chosen' /\ TaskFirst'
    BY <1>1, <1>2, StackParts DEF IInv, jobVars
  <1>5. GoesOn'
    BY <1>2 DEF GoesOn
  <1> QED BY <1>2, <1>3, <1>4, <1>5 DEF IInv

LEMMA FailStep ==
  ASSUME IInv, NEW a \in Actor, Fail(a)
  PROVE  IInv'
  <1>1. /\ At(a, "fail") /\ UNCHANGED <<taskVars, jobs, local, resumes>>
        /\ Continue(a, <<>>) /\ failed' \in {failed, TRUE}
    BY DEF Fail
  <1>2. /\ ManyChanged("PAUSED") \/ UNCHANGED Cycles
        /\ procStatus' \in {"COMPLETED", "FAILED", "PAUSED"}
    <2>1. CASE procStatus = "EXECUTION"
      <3>1. procStatus' = "PAUSED" /\ Cycles' = Moved("EXECUTION", "PAUSED")
        BY <2>1 DEF Fail, Pause
      <3> QED BY <3>1, Moving DEF IInv
    <2>2. CASE procStatus # "EXECUTION"
      BY <2>2 DEF Fail, IInv, TypeOK
    <2> QED BY <2>1, <2>2
  <1>3. /\ Stacks' /\ ~ At(a, "cancel_cycle")' /\ ~ At(a, "start")'
        /\ \A b \in Actor \ {a} : calls'[b] = calls[b]
    <2>1. "cancel_cycle" \in Fn \ {"end_process"} /\ "start" \in Fn \ {"end_process"}
      BY DEF Fn
    <2> QED BY <1>1, <2>1, Returned DEF IInv
  <1>4. TypeOK' /\ Locals' /\ NotAhead'
    BY <1>1, <1>2, <1>3, Typed DEF IInv, TypeOK, taskVars
  <1>5. Chosen' /\ TaskFirst'
    BY <1>1, <1>3, StackParts DEF IInv, taskVars
  <1>6. GoesOn'
    BY <1>2 DEF GoesOn
  <1> QED BY <1>3, <1>4, <1>5, <1>6 DEF IInv

LEMMA TakeJobStep ==
  ASSUME IInv, NEW a \in Worker, TakeJob(a)
  PROVE  IInv'
  <1>1. /\ Idle(a) /\ jobs > 0 /\ jobs' = jobs - 1
        /\ UNCHANGED <<procStatus, taskVars, Cycles, failed, local, resumes>>
    BY DEF TakeJob
  <1>2. /\ Stacks' /\ ~ At(a, "cancel_cycle")' /\ ~ At(a, "start")'
        /\ \A b \in Actor \ {a} : calls'[b] = calls[b]
        /\ procStatus # "EXECUTION" \/ calls'[a] # <<>>
    <2>1. CASE procStatus = "EXECUTION"
      <3>1. calls' = [calls EXCEPT ![a] = <<"run">>]
        BY <2>1 DEF TakeJob, Begin
      <3>2. a \notin Session /\ a \in Actor /\ "run" \in WorkerFn
        BY LoopAssumption DEF WorkerFn, Actor
      <3>3. WorkerStack(<<"run">>) /\ <<"run">> # <<>> /\ Head(<<"run">>) = "run"
        BY <3>2, WorkerPushes
      <3>4. Stacks' /\ calls'[a] = <<"run">> /\ \A b \in Actor \ {a} : calls'[b] = calls[b]
        BY <3>1, <3>2, <3>3, NewStack DEF IInv
      <3> QED BY <3>3, <3>4 DEF At
    <2>2. CASE procStatus # "EXECUTION"
      <3>1. calls' = calls
        BY <2>2 DEF TakeJob
      <3> QED BY <1>1, <2>2, <3>1 DEF IInv, Stacks, At, Idle
    <2> QED BY <2>1, <2>2
  <1>3. TypeOK' /\ Locals' /\ NotAhead'
    BY <1>1, <1>2, Typed DEF IInv, TypeOK, taskVars
  <1>4. Chosen' /\ TaskFirst'
    BY <1>1, <1>2, StackParts DEF IInv, taskVars, Actor
  <1>5. GoesOn'
    BY <1>1, <1>2 DEF GoesOn, Idle
  <1> QED BY <1>2, <1>3, <1>4, <1>5 DEF IInv
-----------------------------------------------------------------------------
(* Users. *)

\* A user begins to cancel.
LEMMA SessionBegins ==
  ASSUME IInv, NEW a \in Session, NEW s, SessionStack(s), s[1] = "cancel_subtasks", s # <<>>,
         Begin(a, s), UNCHANGED <<procStatus, taskVars, Cycles, jobVars, resumes>>
  PROVE  IInv'
  <1>1. calls' = [calls EXCEPT ![a] = s] /\ a \notin Worker /\ a \in Actor
    BY LoopAssumption DEF Begin, Actor
  <1>2. Stacks' /\ calls'[a] = s /\ \A b \in Actor \ {a} : calls'[b] = calls[b]
    BY <1>1, NewStack DEF IInv
  <1>3. Head(s) = "cancel_subtasks"
    BY DEF SessionStack
  <1>4. ~ At(a, "cancel_cycle")'
    BY <1>2, <1>3 DEF At
  <1>5. TypeOK' /\ Locals' /\ NotAhead'
    BY <1>2, Typed DEF IInv, TypeOK, taskVars, jobVars
  <1>6. Chosen' /\ TaskFirst'
    BY <1>1, <1>2, <1>4, StackParts DEF IInv, taskVars, jobVars
  <1>7. GoesOn'
    <2>1. \A w \in Worker : calls'[w] = calls[w]
      BY <1>1, <1>2 DEF Actor
    <2> QED BY <2>1 DEF IInv, GoesOn, Idle, Active, taskVars, jobVars
  <1> QED BY <1>2, <1>5, <1>6, <1>7 DEF IInv

LEMMA SessionStep ==
  ASSUME IInv, NEW a \in Session, op_cancel_process(a) \/ FinishSibling(a)
  PROVE  IInv'
  <1>1. CASE op_cancel_process(a)
    <2> DEFINE s == <<"cancel_subtasks", "end_process">>
    <2>1. SessionStack(s) /\ s[1] = "cancel_subtasks" /\ s # <<>>
      BY DEF SessionStack, SessionFn, Fn
    <2>2. Begin(a, s) /\ UNCHANGED <<procStatus, taskVars, Cycles, jobVars, resumes>>
      BY <1>1 DEF op_cancel_process
    <2> HIDE DEF s
    <2> QED BY <2>1, <2>2, SessionBegins
  <1>2. CASE FinishSibling(a)
    <2> DEFINE s == <<"cancel_subtasks">>
    <2>1. SessionStack(s) /\ s[1] = "cancel_subtasks" /\ s # <<>>
      BY DEF SessionStack, SessionFn, Fn
    <2>2. Begin(a, s) /\ UNCHANGED <<procStatus, taskVars, Cycles, jobVars, resumes>>
      BY <1>2 DEF FinishSibling
    <2> HIDE DEF s
    <2> QED BY <2>1, <2>2, SessionBegins
  <1> QED BY <1>1, <1>2

\* A step that calls nothing.
LEMMA Calm ==
  ASSUME IInv, UNCHANGED <<status, calls, local>>, GoesOn',
         current_cycle' \in {current_cycle, current_cycle + 1},
         (\E k \in DOMAIN Cycles, s \in CycleStatus : OneChanged(k, s)) \/ (\E t : ManyChanged(t))
           \/ UNCHANGED Cycles,
         procStatus' \in {"EXECUTION", "COMPLETED", "FAILED", "PAUSED"},
         jobs' \in Nat, failed' \in BOOLEAN, resumes' \in Nat
  PROVE  IInv'
  <1>1. Stacks'
    BY DEF IInv, Stacks
  <1>2. TypeOK' /\ Locals' /\ NotAhead'
    BY <1>1, Typed DEF IInv, TypeOK
  <1>3. Chosen' /\ TaskFirst'
    BY NoStack DEF IInv
  <1> QED BY <1>1, <1>2, <1>3 DEF IInv

LEMMA RestartJobStep ==
  ASSUME IInv, RestartJob
  PROVE  IInv'
  <1>1. /\ failed' = FALSE /\ jobs' = jobs + 1
        /\ UNCHANGED <<procStatus, taskVars, Cycles, calls, local, resumes>>
    BY DEF RestartJob
  <1>2. jobs' \in Nat /\ jobs' > 0
    BY <1>1 DEF IInv, TypeOK
  <1> QED BY <1>1, <1>2, Gone, Calm DEF IInv, TypeOK, taskVars

LEMMA op_onhold_processStep ==
  ASSUME IInv, op_onhold_process
  PROVE  IInv'
  <1>1. /\ procStatus' = "PAUSED" /\ Cycles' = Moved("EXECUTION", "PAUSED")
        /\ UNCHANGED <<taskVars, jobVars, calls, resumes>>
    BY DEF op_onhold_process, Pause
  <1>2. ManyChanged("PAUSED")
    BY <1>1, Moving DEF IInv
  <1>3. GoesOn'
    BY <1>1, Gone
  <1> QED BY <1>1, <1>2, <1>3, Calm DEF IInv, TypeOK, taskVars, jobVars

LEMMA op_activate_processStep ==
  ASSUME IInv, op_activate_process
  PROVE  IInv'
  <1>1. /\ procStatus' = "EXECUTION" /\ Cycles' = Moved("PAUSED", "EXECUTION")
        /\ resumes' = resumes + 1
        /\ jobs' = (IF status = "EXECUTION" THEN jobs + 1 ELSE jobs)
        /\ UNCHANGED <<taskVars, failed, local, calls>>
    BY DEF op_activate_process
  <1>2. ManyChanged("EXECUTION")
    BY <1>1, Moving DEF IInv
  <1>3. jobs' \in Nat /\ resumes' \in Nat /\ (status = "EXECUTION" => jobs' > 0)
    BY <1>1 DEF IInv, TypeOK
  <1>4. GoesOn'
    BY <1>1, <1>3, Gone DEF taskVars
  <1> QED BY <1>1, <1>2, <1>3, <1>4, Calm DEF IInv, TypeOK, taskVars

LEMMA CompleteProcessStep ==
  ASSUME IInv, CompleteProcess
  PROVE  IInv'
  <1>1. /\ procStatus' = "COMPLETED"
        /\ UNCHANGED <<taskVars, Cycles, jobVars, calls, resumes>>
    BY DEF CompleteProcess
  <1> QED BY <1>1, Gone, Calm DEF IInv, TypeOK, taskVars, jobVars

\* The end of a cycle is made up for by a job.
LEMMA EndCycleStep ==
  ASSUME IInv, NEW k \in DOMAIN Cycles, EndCycle(k)
  PROVE  IInv' /\ \E s \in {"COMPLETED", "FAILED"} : OneChanged(k, s) /\ newCycle
  <1>1. UNCHANGED <<procStatus, status, failed, local, calls, resumes>>
    BY DEF EndCycle
  <1>2. PICK s \in {"COMPLETED", "FAILED"} : End(k, s)
    BY DEF EndCycle
  <1>3. newCycle /\ s \in CycleStatus
    BY <1>2 DEF End, CycleStatus, Ended
  <1>4. OneChanged(k, s)
    <2> DEFINE b == Cycles[k].completing_ok /\ s = "COMPLETED"
    <2>1. b \in BOOLEAN
      OBVIOUS
    <2>2. Cycles' = [Cycles EXCEPT ![k].status = s, ![k].completing_ok = b]
      BY <1>2, CycleIn DEF IInv, End, Cycle
    <2> HIDE DEF b
    <2> QED BY <1>3, <2>1, <2>2, Changing DEF IInv
  <1>5. /\ current_cycle' \in {current_cycle, current_cycle + 1} /\ jobs' \in Nat
        /\ procStatus = "EXECUTION" /\ status = "EXECUTION" => jobs' > 0
    BY <1>3, Counting DEF IInv
  <1>6. GoesOn'
    BY <1>1, <1>5, Gone
  <1>7. IInv'
    BY <1>1, <1>3, <1>4, <1>5, <1>6, Calm DEF IInv, TypeOK
  <1> QED BY <1>3, <1>4, <1>7

\* One cycle changed, whose end is counted unless it goes on.
LEMMA OneCycle ==
  ASSUME IInv, NEW k \in DOMAIN Cycles, NEW s \in CycleStatus, OneChanged(k, s),
         UNCHANGED <<procStatus, status, failed, local, calls, resumes>>,
         \/ newCycle
         \/ /\ UNCHANGED <<current_cycle, jobs>>
            /\ Cycles[k].status \in {"EXECUTION", "PAUSED"} => s \in {"EXECUTION", "PAUSED"}
  PROVE  IInv'
  <1>1. current_cycle' \in {current_cycle, current_cycle + 1} /\ jobs' \in Nat
    BY Counting DEF IInv, TypeOK
  <1>2. GoesOn'
    <2>1. CASE newCycle
      <3>1. procStatus = "EXECUTION" /\ status = "EXECUTION" => jobs' > 0
        BY <2>1, Counting DEF IInv
      <3> QED BY <3>1, Gone
    <2>2. CASE /\ UNCHANGED <<current_cycle, jobs>>
               /\ Cycles[k].status \in {"EXECUTION", "PAUSED"} => s \in {"EXECUTION", "PAUSED"}
      <3>1. ASSUME NEW i \in Active
            PROVE  i \in Active'
        BY <2>2, <3>1 DEF Active, OneChanged
      <3>2. Active # {} => Active' # {}
        BY <3>1
      <3> HIDE DEF Active
      <3> QED BY <2>2, <3>2 DEF IInv, GoesOn, Idle
    <2> QED BY <2>1, <2>2
  <1> QED BY <1>1, <1>2, Calm DEF IInv, TypeOK

LEMMA op_onhold_cycleStep ==
  ASSUME IInv, NEW k \in DOMAIN Cycles, op_onhold_cycle(k)
  PROVE  IInv' /\ OneChanged(k, "PAUSED")
  <1>1. /\ Cycles' = [Cycles EXCEPT ![k].status = "PAUSED"]
        /\ UNCHANGED <<procStatus, taskVars, jobVars, calls, resumes>>
        /\ "PAUSED" \in CycleStatus
    BY DEF op_onhold_cycle, CycleStatus
  <1>2. OneChanged(k, "PAUSED")
    BY <1>1, Changing DEF IInv
  <1> QED BY <1>1, <1>2, OneCycle DEF taskVars, jobVars

LEMMA op_cancel_cycleStep ==
  ASSUME IInv, NEW k \in DOMAIN Cycles, op_cancel_cycle(k)
  PROVE  IInv'
  <1>1. CancelCycle(k) /\ UNCHANGED <<procStatus, status, failed, local, calls, resumes>>
    BY DEF op_cancel_cycle
  <1>2. "FAILED" \in CycleStatus /\ Cycles[k].status \in CycleStatus
    BY CycleIn DEF IInv, CycleStatus, Ended
  <1>3. \/ OneChanged(k, "FAILED") /\ newCycle
        \/ OneChanged(k, Cycles[k].status) /\ UNCHANGED <<current_cycle, jobs>>
    BY <1>1, Cancelling DEF IInv
  <1> QED BY <1>1, <1>2, <1>3, OneCycle

LEMMA op_dismiss_cycleStep ==
  ASSUME IInv, NEW k \in DOMAIN Cycles, op_dismiss_cycle(k)
  PROVE  IInv' /\ OneChanged(k, "DISCARDED")
  <1>1. /\ Cycles' = [Cycles EXCEPT ![k].status = "DISCARDED", ![k].completing_ok = FALSE]
        /\ UNCHANGED <<procStatus, taskVars, jobVars, calls, resumes>>
        /\ "DISCARDED" \in CycleStatus /\ Cycles[k].status \in {"NEW", "FAILED"}
    BY DEF op_dismiss_cycle, CycleStatus, Ended
  <1>2. OneChanged(k, "DISCARDED")
    BY <1>1, Changing DEF IInv
  <1> QED BY <1>1, <1>2, OneCycle DEF taskVars, jobVars
-----------------------------------------------------------------------------
(* The invariant. *)

LEMMA Initial == Init => IInv
  <1> SUFFICES ASSUME Init PROVE IInv
    OBVIOUS
  <1> DEFINE c == [number |-> 1, status |-> "NEW", completing_ok |-> TRUE]
  <1>1. c \in Cycle /\ c.number = 1 /\ c.status = "NEW"
    BY DEF Cycle
  <1>2. Cycles = <<c>> /\ procStatus = "EXECUTION" /\ status = "EXECUTION" /\ current_cycle = 1
        /\ jobs = 1 /\ failed = FALSE /\ resumes = 0
        /\ calls = [a \in Actor |-> <<>>]
        /\ local = [a \in Worker |-> [status |-> "NEW", number |-> 0, cycle |-> 0]]
    BY DEF Init
  <1> HIDE DEF c
  <1>3. Cycles \in Seq(Cycle) /\ Cycles # <<>> /\ Len(Cycles) = 1 /\ DOMAIN Cycles = {1}
        /\ Cycles[1] = c
    BY <1>1, <1>2
  <1>4. calls \in [Actor -> Seq(Fn)] /\ \A a \in Actor : calls[a] = <<>>
    BY <1>2, EmptyStack
  <1>5. /\ Locals /\ \A a \in Worker : local[a].number = 0 /\ local[a].cycle = 0
    BY <1>2 DEF Locals, TaskStatus
  <1>6. TypeOK
    <2>1. 0 \in 0 .. Len(Cycles)
      BY <1>3
    <2> QED BY <1>2, <1>3, <1>4, <1>5, <2>1 DEF TypeOK
  <1>7. Stacks
    BY <1>4, EmptyStack DEF Stacks, Actor
  <1>8. NotAhead
    BY <1>1, <1>2, <1>3, <1>5 DEF NotAhead
  <1>9. Chosen /\ TaskFirst
    BY <1>4 DEF Chosen, TaskFirst, At, Actor
  <1>10. GoesOn
    BY <1>2 DEF GoesOn
  <1> QED BY <1>5, <1>6, <1>7, <1>8, <1>9, <1>10 DEF IInv

LEMMA Stepping == IInv /\ [Next]_vars => IInv'
  <1> SUFFICES ASSUME IInv, [Next]_vars PROVE IInv'
    OBVIOUS
  <1>1. ASSUME NEW a \in Actor, Step(a) PROVE IInv'
    BY <1>1, CancelSubtasksStep, CancelTaskStep, CancelCurrentStep, EndProcessStep, RunStep,
       RunLoopStep, CreateNewCycleStep, CopyCycleStep, StartCycleStep, CloseTaskStep, FailStep
       DEF Step
  <1>2. ASSUME NEW a \in Worker, TakeJob(a) PROVE IInv'
    BY <1>2, TakeJobStep
  <1>3. ASSUME NEW a \in Session, op_cancel_process(a) \/ FinishSibling(a) PROVE IInv'
    BY <1>3, SessionStep
  <1>4. ASSUME NEW k \in DOMAIN Cycles,
               EndCycle(k) \/ op_onhold_cycle(k) \/ op_cancel_cycle(k) \/ op_dismiss_cycle(k)
        PROVE  IInv'
    BY <1>4, EndCycleStep, op_onhold_cycleStep, op_cancel_cycleStep, op_dismiss_cycleStep
  <1>5. CASE op_onhold_process \/ op_activate_process \/ CompleteProcess \/ RestartJob
    BY <1>5, op_onhold_processStep, op_activate_processStep, CompleteProcessStep, RestartJobStep
  <1>6. CASE UNCHANGED vars
    <2>1. UNCHANGED <<procStatus, status, current_cycle, Cycles, jobs, failed, calls, local, resumes>>
      BY <1>6 DEF vars
    <2>2. GoesOn'
      BY <2>1 DEF IInv, GoesOn, Active, Idle
    <2> QED BY <2>1, <2>2, Calm DEF IInv, TypeOK
  <1> QED BY <1>1, <1>2, <1>3, <1>4, <1>5, <1>6 DEF Next

LEMMA Invariant == Spec => []IInv
  BY Initial, Stepping, PTL DEF Spec

\* Whatever is asked for, the state of the loop is well-formed: there is a cycle,
\* the stacks hold calls of this module, and a worker has read a cycle that exists.
THEOREM TypeCorrect == Spec => []TypeOK
  <1>1. IInv => TypeOK
    BY DEF IInv
  <1> QED BY <1>1, Invariant, PTL

\* A running loop in a running process always gets on, with any number of workers
\* and whatever users do to cycles: newCycle enqueues the job in the transaction
\* that ends a cycle, resuming enqueues it, and a job that stops pauses the process.
THEOREM LoopGoesOn == Spec => []GoesOn
  <1>1. IInv => GoesOn
    BY DEF IInv
  <1> QED BY <1>1, Invariant, PTL

\* Cancelling the current cycle neither counts it nor enqueues the job, because
\* cancel_task has ended the task by then, whoever else is at work.
THEOREM NoneSpawnedCorrect == Spec => NoneSpawned
  <1>1. ASSUME IInv, [Next]_vars
        PROVE  [\A a \in Actor : CancelCurrent(a) => UNCHANGED <<current_cycle, jobs>>]_vars
    <2> SUFFICES ASSUME NEW a \in Actor, CancelCurrent(a)
                 PROVE  UNCHANGED <<current_cycle, jobs>>
      BY <1>1
    <2>1. status # "EXECUTION"
      BY <1>1 DEF IInv, TaskFirst, CancelCurrent
    <2>2. newCycle => UNCHANGED <<current_cycle, jobs>>
      BY <1>1, <2>1, Counting DEF IInv
    <2> QED BY <2>2 DEF CancelCurrent, CancelCycle
  <1> QED BY <1>1, Invariant, PTL DEF Spec, NoneSpawned
-----------------------------------------------------------------------------
(* With one worker the cycles follow each other. *)

OneWorker == \A v, w \in Worker : v = w

\* The cycles are numbered in their order, and all but the last have ended.
InOrder ==
  \A k \in DOMAIN Cycles :
    Cycles[k].number = k /\ (k < Len(Cycles) => Cycles[k].status \in Ended)

\* current_cycle is beyond the cycles only when the last one has ended.
Counted ==
  /\ current_cycle \in 1 .. Len(Cycles) + 1
  /\ current_cycle = Len(Cycles) + 1 => Cycles[Len(Cycles)].status \in Ended

\* A worker starts the last cycle, and creates the next one within the limit.
PlannedOf(a) ==
  /\ At(a, "run_loop") => local[a].number # 0
  /\ At(a, "start") => local[a].cycle = Len(Cycles)
  /\ At(a, "create") => local[a].number \in 2 .. max_cycles
  /\ At(a, "copy") => local[a].number = Len(Cycles) + 1 /\ local[a].number <= max_cycles
Planned == \A a \in Worker : PlannedOf(a)

SInv == Len(Cycles) <= max_cycles /\ InOrder /\ Counted /\ Planned

\* No cycle is renumbered, and an ended cycle remains ended.
Advance ==
  /\ Len(Cycles') = Len(Cycles) /\ DOMAIN Cycles' = DOMAIN Cycles
  /\ \A k \in DOMAIN Cycles :
       /\ Cycles'[k].number = Cycles[k].number
       /\ Cycles[k].status \in Ended => Cycles'[k].status \in Ended

LEMMA Advancing ==
  ASSUME TypeOK,
         \/ \E k \in DOMAIN Cycles : \E s : OneChanged(k, s) /\ (Cycles[k].status \in Ended => s \in Ended)
         \/ \E t : ManyChanged(t)
         \/ UNCHANGED Cycles
  PROVE  Advance
  <1>1. ASSUME NEW k \in DOMAIN Cycles, NEW s, OneChanged(k, s),
               Cycles[k].status \in Ended => s \in Ended
        PROVE  Advance
    BY <1>1 DEF OneChanged, Advance
  <1>2. ASSUME NEW t, ManyChanged(t)
        PROVE  Advance
    BY <1>2 DEF ManyChanged, Advance, Ended
  <1>3. CASE UNCHANGED Cycles
    BY <1>3 DEF Advance
  <1> QED BY <1>1, <1>2, <1>3

LEMMA LastCycle ==
  ASSUME IInv, InOrder
  PROVE  /\ Len(Cycles) \in DOMAIN Cycles /\ Len(Cycles) \in Nat \ {0}
         /\ DOMAIN Cycles = 1 .. Len(Cycles) /\ CurrentCycle = Len(Cycles)
         /\ \A k \in DOMAIN Cycles : Cycles[k].status \notin Ended => k = Len(Cycles)
  <1>1. /\ Len(Cycles) \in Nat \ {0} /\ DOMAIN Cycles = 1 .. Len(Cycles)
        /\ Len(Cycles) \in DOMAIN Cycles
    BY DEF IInv, TypeOK
  <1>2. \A k, i \in DOMAIN Cycles : Cycles[i].number <= Cycles[k].number <=> i <= k
    BY DEF InOrder
  <1>3. CurrentCycle \in DOMAIN Cycles
    BY CurrentCycleIn DEF IInv
  <1>4. \A i \in DOMAIN Cycles : Cycles[i].number <= Cycles[CurrentCycle].number
    <2>1. \A i \in DOMAIN Cycles : Cycles[i].number <= Cycles[Len(Cycles)].number
      BY <1>1, <1>2
    <2> QED BY <1>1, <2>1 DEF CurrentCycle
  <1>5. Len(Cycles) <= CurrentCycle
    BY <1>1, <1>2, <1>3, <1>4
  <1>6. CurrentCycle = Len(Cycles)
    <2> HIDE DEF CurrentCycle
    <2> QED BY <1>1, <1>3, <1>5
  <1>7. \A k \in DOMAIN Cycles : Cycles[k].status \notin Ended => k = Len(Cycles)
    BY <1>1 DEF InOrder
  <1> QED BY <1>1, <1>6, <1>7

\* current_cycle stays, or the last cycle has just ended.
LEMMA OrderKept ==
  ASSUME IInv, SInv, Advance,
         \/ UNCHANGED current_cycle
         \/ /\ current_cycle' = current_cycle + 1
            /\ Cycles[Len(Cycles)].status \notin Ended /\ Cycles'[Len(Cycles)].status \in Ended
  PROVE  Len(Cycles') <= max_cycles /\ InOrder' /\ Counted'
  <1>1. /\ Len(Cycles) \in DOMAIN Cycles /\ Len(Cycles) \in Nat \ {0}
        /\ DOMAIN Cycles = 1 .. Len(Cycles)
    BY LastCycle DEF SInv
  <1>2. Len(Cycles') <= max_cycles /\ Len(Cycles') = Len(Cycles)
    BY DEF SInv, Advance
  <1>3. InOrder'
    BY DEF SInv, InOrder, Advance
  <1>4. Cycles[Len(Cycles)].status \in Ended => Cycles'[Len(Cycles)].status \in Ended
    BY <1>1 DEF Advance
  <1>5. Counted'
    BY <1>1, <1>2, <1>4 DEF SInv, Counted
  <1> QED BY <1>2, <1>3, <1>5

\* What one actor has done changes no other plan.
LEMMA PlansKept ==
  ASSUME Planned, Len(Cycles') = Len(Cycles), NEW a \in Actor,
         \A b \in Actor \ {a} : calls'[b] = calls[b],
         \A w \in Worker \ {a} : local'[w] = local[w],
         a \in Worker => PlannedOf(a)'
  PROVE  Planned'
  <1>1. ASSUME NEW w \in Worker, w # a
        PROVE  PlannedOf(w)'
    <2>1. calls'[w] = calls[w] /\ local'[w] = local[w] /\ PlannedOf(w)
      BY <1>1 DEF Actor, Planned
    <2> QED BY <2>1 DEF PlannedOf, At
  <1> QED BY <1>1 DEF Planned

\* A call that neither reads nor creates.
LEMMA Aside ==
  ASSUME IInv, SInv, NEW a \in Actor, NEW f, At(a, f),
         \/ Continue(a, <<>>) \/ Throw(a)
         \/ Continue(a, <<"cancel_task">>) \/ Continue(a, <<"cancel_cycle">>),
         UNCHANGED <<local, current_cycle>>, Advance
  PROVE  SInv'
  <1>1. /\ \A b \in Actor \ {a} : calls'[b] = calls[b]
        /\ \A g \in {"run_loop", "start", "create", "copy"} : ~ At(a, g)'
    <2>1. CASE Continue(a, <<>>)
      <3>1. {"run_loop", "start", "create", "copy"} \subseteq Fn \ {"end_process"}
        BY DEF Fn
      <3> QED BY <2>1, <3>1, Returned DEF IInv
    <2>2. CASE Throw(a)
      BY <2>2, Thrown DEF IInv
    <2>3. ASSUME NEW g \in {"cancel_task", "cancel_cycle"}, Continue(a, <<g>>)
          PROVE  /\ \A b \in Actor \ {a} : calls'[b] = calls[b]
                 /\ \A h \in {"run_loop", "start", "create", "copy"} : ~ At(a, h)'
      <3>1. g \in Fn /\ g \in WorkerFn /\ g \in SessionFn
        BY DEF Fn, WorkerFn, SessionFn
      <3>2. At(a, g)' /\ \A b \in Actor \ {a} : calls'[b] = calls[b]
        BY <2>3, <3>1, Called DEF IInv
      <3> QED BY <3>2 DEF At
    <2> QED BY <2>1, <2>2, <2>3
  <1>2. PlannedOf(a)'
    BY <1>1 DEF PlannedOf
  <1>3. Planned'
    BY <1>1, <1>2, PlansKept DEF SInv, Advance
  <1> QED BY <1>3, OrderKept DEF SInv

\* Nothing is called.
LEMMA NoCall ==
  ASSUME IInv, SInv, UNCHANGED <<calls, local>>, Advance,
         \/ UNCHANGED current_cycle
         \/ /\ current_cycle' = current_cycle + 1
            /\ Cycles[Len(Cycles)].status \notin Ended /\ Cycles'[Len(Cycles)].status \in Ended
  PROVE  SInv'
  <1>1. Planned'
    BY DEF SInv, Planned, PlannedOf, At, Advance
  <1> QED BY <1>1, OrderKept DEF SInv

LEMMA CancelsInOrder ==
  ASSUME IInv, SInv, NEW a \in Actor,
         CancelSubtasks(a) \/ CancelTask(a) \/ EndProcess(a) \/ CloseTask(a)
  PROVE  SInv'
  <1>1. UNCHANGED <<local, current_cycle, Cycles>>
    BY DEF CancelSubtasks, CancelTask, EndProcess, CloseTask, taskVars, jobVars
  <1>2. Advance
    BY <1>1, Advancing DEF IInv
  <1>3. PICK f \in Fn : At(a, f)
    BY DEF CancelSubtasks, CancelTask, EndProcess, CloseTask, Fn
  <1>4. \/ Continue(a, <<>>) \/ Throw(a)
        \/ Continue(a, <<"cancel_task">>) \/ Continue(a, <<"cancel_cycle">>)
    BY DEF CancelSubtasks, CancelTask, EndProcess, CloseTask
  <1> QED BY <1>1, <1>2, <1>3, <1>4, Aside

LEMMA CancelCurrentInOrder ==
  ASSUME IInv, SInv, NEW a \in Actor, CancelCurrent(a)
  PROVE  SInv'
  <1>1. At(a, "cancel_cycle") /\ Continue(a, <<>>) /\ UNCHANGED local
    BY DEF CancelCurrent
  <1>2. UNCHANGED current_cycle /\ Advance
    <2>1. CASE Cycles[CurrentCycle].status = "EXECUTION"
      <3>1. PICK k \in DOMAIN Cycles : k = CurrentCycle
        BY CurrentCycleIn DEF IInv
      <3>2. CancelCycle(k)
        BY <2>1, <3>1 DEF CancelCurrent
      <3>3. \/ OneChanged(k, "FAILED") /\ newCycle
            \/ OneChanged(k, Cycles[k].status) /\ UNCHANGED <<current_cycle, jobs>>
        BY <3>2, Cancelling DEF IInv
      <3>4. newCycle => UNCHANGED <<current_cycle, jobs>>
        BY <1>1, Counting DEF IInv, TaskFirst
      <3>5. "FAILED" \in Ended
        BY DEF Ended
      <3> QED BY <3>3, <3>4, <3>5, Advancing DEF IInv
    <2>2. CASE Cycles[CurrentCycle].status # "EXECUTION"
      <3>1. UNCHANGED <<Cycles, current_cycle>>
        BY <2>2 DEF CancelCurrent
      <3> QED BY <3>1, Advancing DEF IInv
    <2> QED BY <2>1, <2>2
  <1> QED BY <1>1, <1>2, Aside

LEMMA FailInOrder ==
  ASSUME IInv, SInv, NEW a \in Actor, Fail(a)
  PROVE  SInv'
  <1>1. At(a, "fail") /\ Continue(a, <<>>) /\ UNCHANGED <<local, current_cycle>>
    BY DEF Fail, taskVars
  <1>2. ManyChanged("PAUSED") \/ UNCHANGED Cycles
    BY Moving DEF Fail, Pause, IInv
  <1>3. Advance
    BY <1>2, Advancing DEF IInv
  <1> QED BY <1>1, <1>3, Aside

LEMMA StartCycleInOrder ==
  ASSUME IInv, SInv, NEW a \in Actor, StartCycle(a)
  PROVE  SInv'
  <1> DEFINE k == local[a].cycle
  <1>1. At(a, "start") /\ UNCHANGED <<local, current_cycle>>
    BY DEF StartCycle, taskVars, jobVars
  <1>2. a \in Worker
    BY <1>1, TopFn DEF IInv, SessionFn, Actor
  <1>3. k = Len(Cycles) /\ k \in DOMAIN Cycles
    BY <1>1, <1>2, LastCycle DEF SInv, Planned, PlannedOf
  <1>4. Continue(a, <<>>) \/ Continue(a, <<"cancel_task">>)
    BY DEF StartCycle
  <1>5. \/ UNCHANGED Cycles
        \/ /\ Cycles[k].status \in {"NEW", "PAUSED"}
           /\ Cycles' = [Cycles EXCEPT ![k].status = "EXECUTION",
                                       ![k].completing_ok = @ \/ Cycles[k].status = "NEW"]
    BY DEF StartCycle
  <1> HIDE DEF k
  <1>6. \/ UNCHANGED Cycles
        \/ OneChanged(k, "EXECUTION") /\ Cycles[k].status \notin Ended
    <2> DEFINE b == Cycles[k].completing_ok \/ Cycles[k].status = "NEW"
    <2>1. b \in BOOLEAN /\ "EXECUTION" \in CycleStatus
      BY DEF CycleStatus
    <2>2. Cycles[k] \in Cycle
      BY <1>3, CycleIn DEF IInv
    <2>3. \/ UNCHANGED Cycles
          \/ /\ Cycles[k].status \in {"NEW", "PAUSED"}
             /\ Cycles' = [Cycles EXCEPT ![k].status = "EXECUTION", ![k].completing_ok = b]
      BY <1>5, <2>2 DEF Cycle
    <2> HIDE DEF b
    <2>4. Cycles' = [Cycles EXCEPT ![k].status = "EXECUTION", ![k].completing_ok = b]
            => OneChanged(k, "EXECUTION")
      BY <1>3, <2>1, Changing DEF IInv
    <2> QED BY <2>3, <2>4 DEF Ended
  <1>7. Advance
    BY <1>3, <1>6, Advancing DEF IInv
  <1> QED BY <1>1, <1>4, <1>7, Aside

LEMMA RunInOrder ==
  ASSUME IInv, SInv, NEW a \in Actor, Run(a)
  PROVE  SInv'
  <1> DEFINE r == [status |-> status, number |-> current_cycle, cycle |-> 0]
  <1>1. At(a, "run") /\ UNCHANGED <<current_cycle, Cycles>> /\ Continue(a, <<"run_loop">>)
        /\ local' = [local EXCEPT ![a] = r]
    BY DEF Run, taskVars
  <1>2. a \in Worker /\ a \notin Session
    BY <1>1, TopFn, LoopAssumption DEF IInv, SessionFn, Actor
  <1>3. At(a, "run_loop")' /\ \A b \in Actor \ {a} : calls'[b] = calls[b]
    <2>1. "run_loop" \in Fn /\ "run_loop" \in WorkerFn
      BY DEF Fn, WorkerFn
    <2> QED BY <1>1, <1>2, <2>1, Called DEF IInv
  <1>4. r \in [status : TaskStatus, number : Nat, cycle : Nat] /\ r.number = current_cycle
    <2>1. current_cycle \in Nat /\ status \in TaskStatus
      BY DEF IInv, TypeOK, TaskStatus
    <2> QED BY <2>1
  <1> HIDE DEF r
  <1>5. local'[a] = r /\ \A w \in Worker \ {a} : local'[w] = local[w]
    BY <1>1, <1>2, <1>4, Reading
  <1>6. Advance
    BY <1>1, Advancing DEF IInv
  <1>7. current_cycle # 0
    BY DEF SInv, Counted
  <1>8. PlannedOf(a)'
    BY <1>3, <1>4, <1>5, <1>7 DEF PlannedOf, At
  <1>9. Planned'
    BY <1>3, <1>5, <1>6, <1>8, PlansKept DEF SInv, Advance
  <1> QED BY <1>1, <1>6, <1>9, OrderKept DEF SInv

LEMMA RunLoopInOrder ==
  ASSUME IInv, SInv, NEW a \in Actor, RunLoop(a)
  PROVE  SInv'
  <1> DEFINE r == [local[a] EXCEPT !.cycle = CurrentCycle]
             n == local[a].number
             v == Verdict(n, Cycles[CurrentCycle].status)
  <1>1. At(a, "run_loop") /\ UNCHANGED <<current_cycle, Cycles>> /\ local' = [local EXCEPT ![a] = r]
    BY DEF RunLoop, taskVars
  <1>2. a \in Worker /\ a \notin Session
    BY <1>1, TopFn, LoopAssumption DEF IInv, SessionFn, Actor
  <1>3. CurrentCycle = Len(Cycles) /\ Len(Cycles) \in Nat
    BY LastCycle DEF SInv
  <1>4. /\ r \in [status : TaskStatus, number : Nat, cycle : Nat]
        /\ r.number = n /\ r.cycle = CurrentCycle
    BY <1>2, <1>3 DEF IInv, Locals
  <1>5. v \in {"start", "close_task", "cancel_task", "create"} /\ (v = "create" => n \in 2 .. max_cycles)
    <2>1. n \in Nat \ {0}
      BY <1>1, <1>2 DEF IInv, TypeOK, SInv, Planned, PlannedOf
    <2>2. max_cycles \in Nat
      BY LoopAssumption
    <2> HIDE DEF n
    <2> QED BY <2>1, <2>2 DEF Verdict, checkMaxCycles
  <1>6. PICK g \in {"start", "close_task", "cancel_task", "create"} :
          /\ g = "create" => n \in 2 .. max_cycles
          /\ Throw(a) \/ Continue(a, <<g>>)
    BY <1>5 DEF RunLoop
  <1> HIDE DEF r, n, v
  <1>7. local'[a] = r /\ \A w \in Worker \ {a} : local'[w] = local[w]
    BY <1>1, <1>2, <1>4, Reading
  <1>8. Advance
    BY <1>1, Advancing DEF IInv
  <1>9. /\ \A b \in Actor \ {a} : calls'[b] = calls[b]
        /\ At(a, "fail")' \/ At(a, g)'
    <2>1. CASE Throw(a)
      BY <1>2, <2>1, Thrown DEF IInv
    <2>2. CASE Continue(a, <<g>>)
      <3>1. g \in Fn /\ g \in WorkerFn
        BY DEF Fn, WorkerFn
      <3> QED BY <1>1, <1>2, <2>2, <3>1, Called DEF IInv
    <2> QED BY <1>6, <2>1, <2>2
  <1>10. PlannedOf(a)'
    <2>1. \A f : At(a, f)' => f = "fail" \/ f = g
      BY <1>9 DEF At
    <2>2. ~ At(a, "run_loop")' /\ ~ At(a, "copy")' /\ (At(a, "create")' => g = "create")
      BY <1>6, <2>1
    <2>3. At(a, "create")' => local'[a].number \in 2 .. max_cycles
      BY <1>4, <1>6, <1>7, <2>2
    <2>4. local'[a].cycle = Len(Cycles')
      BY <1>1, <1>3, <1>4, <1>7
    <2> QED BY <2>2, <2>3, <2>4 DEF PlannedOf
  <1>11. Planned'
    BY <1>7, <1>8, <1>9, <1>10, PlansKept DEF SInv, Advance
  <1> QED BY <1>1, <1>8, <1>11, OrderKept DEF SInv

\* A number that does not exist is the next one.
LEMMA CreateNewCycleInOrder ==
  ASSUME IInv, SInv, NEW a \in Actor, CreateNewCycle(a)
  PROVE  SInv'
  <1>1. At(a, "create") /\ UNCHANGED <<local, current_cycle, Cycles>>
    BY DEF CreateNewCycle, taskVars, jobVars
  <1>2. a \in Worker /\ a \notin Session
    BY <1>1, TopFn, LoopAssumption DEF IInv, SessionFn, Actor
  <1>3. Advance
    BY <1>1, Advancing DEF IInv
  <1>4. CASE \E k \in DOMAIN Cycles : Cycles[k].number = local[a].number
    <2>1. Continue(a, <<"cancel_task">>)
      BY <1>4 DEF CreateNewCycle
    <2> QED BY <1>1, <1>3, <2>1, Aside
  <1>5. CASE ~ \E k \in DOMAIN Cycles : Cycles[k].number = local[a].number
    <2>1. Continue(a, <<"copy">>) /\ "copy" \in Fn /\ "copy" \in WorkerFn
      BY <1>5 DEF CreateNewCycle, Fn, WorkerFn
    <2>2. At(a, "copy")' /\ \A b \in Actor \ {a} : calls'[b] = calls[b]
      BY <1>1, <1>2, <2>1, Called DEF IInv
    <2>3. local[a].number \in 2 .. max_cycles
      BY <1>1, <1>2 DEF SInv, Planned, PlannedOf
    <2>4. Len(Cycles) \in Nat /\ DOMAIN Cycles = 1 .. Len(Cycles)
      BY LastCycle DEF SInv
    <2>5. local[a].number \notin 1 .. Len(Cycles)
      BY <1>5, <2>4 DEF SInv, InOrder
    <2>6. local[a].number <= current_cycle /\ current_cycle \in 1 .. Len(Cycles) + 1
      BY <1>2 DEF IInv, NotAhead, SInv, Counted
    <2>7. max_cycles \in Nat
      BY LoopAssumption
    <2>8. local[a].number = Len(Cycles) + 1 /\ local[a].number <= max_cycles
      BY <2>3, <2>4, <2>5, <2>6, <2>7
    <2>9. PlannedOf(a)'
      BY <1>1, <2>2, <2>8 DEF PlannedOf, At
    <2>10. Planned'
      BY <1>1, <1>3, <2>2, <2>9, PlansKept DEF SInv, Advance
    <2> QED BY <1>1, <1>3, <2>10, OrderKept DEF SInv
  <1> QED BY <1>4, <1>5

LEMMA CopyCycleInOrder ==
  ASSUME OneWorker, IInv, SInv, NEW a \in Actor, CopyCycle(a)
  PROVE  SInv'
  <1>1. /\ At(a, "copy") /\ UNCHANGED current_cycle /\ Continue(a, <<"start">>)
        /\ Cycles' = Append(Cycles, [number |-> local[a].number, status |-> "NEW",
                                     completing_ok |-> TRUE])
    BY DEF CopyCycle, taskVars
  <1>2. a \in Worker /\ a \notin Session
    BY <1>1, TopFn, LoopAssumption DEF IInv, SessionFn, Actor
  <1>3. /\ Len(Cycles') = Len(Cycles) + 1
        /\ Len(Cycles) \in Nat \ {0} /\ DOMAIN Cycles = 1 .. Len(Cycles)
        /\ DOMAIN Cycles' = 1 .. Len(Cycles) + 1
        /\ \A i \in 1 .. Len(Cycles) : Cycles'[i] = Cycles[i]
        /\ Cycles'[Len(Cycles')].number = local[a].number
    BY <1>1, <1>2, Copied DEF IInv
  <1>4. local[a].number = Len(Cycles) + 1 /\ local[a].number <= max_cycles
    BY <1>1, <1>2 DEF SInv, Planned, PlannedOf
  <1>5. current_cycle = Len(Cycles) + 1 /\ Cycles[Len(Cycles)].status \in Ended
    <2>1. local[a].number <= current_cycle
      BY <1>2 DEF IInv, NotAhead
    <2>2. current_cycle = Len(Cycles) + 1
      BY <1>3, <1>4, <2>1 DEF SInv, Counted
    <2> QED BY <2>2 DEF SInv, Counted
  <1>6. InOrder'
    <2>1. ASSUME NEW k \in DOMAIN Cycles'
          PROVE  Cycles'[k].number = k /\ (k < Len(Cycles') => Cycles'[k].status \in Ended)
      <3>1. CASE k \in 1 .. Len(Cycles)
        <4>1. Cycles'[k] = Cycles[k] /\ k \in DOMAIN Cycles
          BY <1>3, <3>1
        <4>2. Cycles[k].number = k /\ (k < Len(Cycles) => Cycles[k].status \in Ended)
          BY <4>1 DEF SInv, InOrder
        <4>3. k = Len(Cycles) \/ k < Len(Cycles)
          BY <1>3, <3>1
        <4> QED BY <1>5, <4>1, <4>2, <4>3
      <3>2. CASE k = Len(Cycles) + 1
        BY <1>3, <1>4, <3>2
      <3> QED BY <1>3, <3>1, <3>2
    <2> QED BY <2>1 DEF InOrder
  <1>7. Len(Cycles') <= max_cycles /\ Counted'
    BY <1>1, <1>3, <1>4, <1>5 DEF Counted
  <1>8. Planned'
    <2> DEFINE r == [local[a] EXCEPT !.cycle = Len(Cycles')]
    <2>1. local' = [local EXCEPT ![a] = r]
      BY DEF CopyCycle
    <2>2. /\ r \in [status : TaskStatus, number : Nat, cycle : Nat]
          /\ r.cycle = Len(Cycles')
      BY <1>2, <1>3 DEF IInv, Locals
    <2> HIDE DEF r
    <2>3. local'[a] = r
      BY <1>2, <2>1, <2>2, Reading
    <2>4. At(a, "start")'
      <3>1. "start" \in Fn /\ "start" \in WorkerFn
        BY DEF Fn, WorkerFn
      <3> QED BY <1>1, <1>2, <3>1, Called DEF IInv
    <2>5. PlannedOf(a)'
      BY <2>2, <2>3, <2>4 DEF PlannedOf, At
    <2> QED BY <1>2, <2>5 DEF OneWorker, Planned
  <1> QED BY <1>6, <1>7, <1>8 DEF SInv

LEMMA TakeJobInOrder ==
  ASSUME IInv, SInv, NEW a \in Worker, TakeJob(a)
  PROVE  SInv'
  <1>1. UNCHANGED <<local, current_cycle, Cycles>> /\ Idle(a)
    BY DEF TakeJob, taskVars
  <1>2. Advance
    BY <1>1, Advancing DEF IInv
  <1>3. /\ \A b \in Actor \ {a} : calls'[b] = calls[b]
        /\ \A g \in {"run_loop", "start", "create", "copy"} : ~ At(a, g)'
    <2>1. CASE procStatus = "EXECUTION"
      <3>1. calls' = [calls EXCEPT ![a] = <<"run">>]
        BY <2>1 DEF TakeJob, Begin
      <3>2. calls'[a] = <<"run">> /\ \A b \in Actor \ {a} : calls'[b] = calls[b]
        BY <3>1 DEF IInv, Stacks, Actor
      <3>3. Head(<<"run">>) = "run"
        OBVIOUS
      <3> QED BY <3>2, <3>3 DEF At
    <2>2. CASE procStatus # "EXECUTION"
      BY <1>1, <2>2 DEF TakeJob, At, Idle
    <2> QED BY <2>1, <2>2
  <1>4. PlannedOf(a)'
    BY <1>3 DEF PlannedOf
  <1>5. Planned'
    BY <1>1, <1>2, <1>3, <1>4, PlansKept DEF SInv, Advance, Actor
  <1> QED BY <1>1, <1>2, <1>5, OrderKept DEF SInv

LEMMA SessionInOrder ==
  ASSUME IInv, SInv, NEW a \in Session, op_cancel_process(a) \/ FinishSibling(a)
  PROVE  SInv'
  <1>1. UNCHANGED <<local, current_cycle, Cycles>>
    BY DEF op_cancel_process, FinishSibling, taskVars, jobVars
  <1>2. Advance
    BY <1>1, Advancing DEF IInv
  <1>3. \A b \in Actor \ {a} : calls'[b] = calls[b]
    BY DEF op_cancel_process, FinishSibling, Begin, IInv, Stacks
  <1>4. a \notin Worker /\ a \in Actor
    BY LoopAssumption DEF Actor
  <1>5. Planned'
    BY <1>1, <1>2, <1>3, <1>4, PlansKept DEF SInv, Advance
  <1> QED BY <1>1, <1>2, <1>5, OrderKept DEF SInv

LEMMA EndCycleInOrder ==
  ASSUME IInv, SInv, NEW k \in DOMAIN Cycles, EndCycle(k)
  PROVE  SInv'
  <1>1. PICK s \in {"COMPLETED", "FAILED"} : OneChanged(k, s) /\ newCycle
    BY EndCycleStep
  <1>2. UNCHANGED <<local, calls>> /\ Cycles[k].status \notin Ended
    BY DEF EndCycle, Ended
  <1>3. s \in Ended
    BY DEF Ended
  <1>4. Advance
    BY <1>1, <1>3, Advancing DEF IInv
  <1>5. k = Len(Cycles)
    BY <1>2, LastCycle DEF SInv
  <1>6. Cycles[Len(Cycles)].status \notin Ended /\ Cycles'[Len(Cycles)].status \in Ended
    BY <1>1, <1>2, <1>3, <1>5 DEF OneChanged
  <1>7. current_cycle' \in {current_cycle, current_cycle + 1}
    BY <1>1, Counting DEF IInv
  <1> QED BY <1>2, <1>4, <1>6, <1>7, NoCall

LEMMA op_cycleInOrder ==
  ASSUME IInv, SInv, NEW k \in DOMAIN Cycles,
         op_onhold_cycle(k) \/ op_cancel_cycle(k) \/ op_dismiss_cycle(k)
  PROVE  SInv'
  <1>1. CASE op_onhold_cycle(k)
    <2>1. OneChanged(k, "PAUSED") /\ Cycles[k].status \notin Ended
          /\ UNCHANGED <<local, calls, current_cycle>>
      BY <1>1, op_onhold_cycleStep DEF op_onhold_cycle, Ended, taskVars, jobVars
    <2>2. Advance
      BY <2>1, Advancing DEF IInv
    <2> QED BY <2>1, <2>2, NoCall
  <1>2. CASE op_dismiss_cycle(k)
    <2>1. OneChanged(k, "DISCARDED") /\ "DISCARDED" \in Ended
          /\ UNCHANGED <<local, calls, current_cycle>>
      BY <1>2, op_dismiss_cycleStep DEF op_dismiss_cycle, Ended, taskVars, jobVars
    <2>2. Advance
      BY <2>1, Advancing DEF IInv
    <2> QED BY <2>1, <2>2, NoCall
  <1>3. CASE op_cancel_cycle(k)
    <2>1. /\ CancelCycle(k) /\ UNCHANGED <<local, calls>>
          /\ Cycles[k].status \notin Ended /\ "FAILED" \in Ended
      BY <1>3 DEF op_cancel_cycle, Ended
    <2>2. k = Len(Cycles)
      BY <2>1, LastCycle DEF SInv
    <2>3. CASE OneChanged(k, "FAILED") /\ newCycle
      <3>1. Advance
        BY <2>1, <2>3, Advancing DEF IInv
      <3>2. Cycles[Len(Cycles)].status \notin Ended /\ Cycles'[Len(Cycles)].status \in Ended
        BY <2>1, <2>2, <2>3 DEF OneChanged
      <3>3. current_cycle' \in {current_cycle, current_cycle + 1}
        BY <2>3, Counting DEF IInv
      <3> QED BY <2>1, <3>1, <3>2, <3>3, NoCall
    <2>4. CASE OneChanged(k, Cycles[k].status) /\ UNCHANGED <<current_cycle, jobs>>
      <3>1. Advance
        BY <2>4, Advancing DEF IInv
      <3> QED BY <2>1, <2>4, <3>1, NoCall
    <2> QED BY <2>1, <2>3, <2>4, Cancelling DEF IInv
  <1> QED BY <1>1, <1>2, <1>3

LEMMA ParentInOrder ==
  ASSUME IInv, SInv,
         op_onhold_process \/ op_activate_process \/ CompleteProcess \/ RestartJob \/ UNCHANGED vars
  PROVE  SInv'
  <1>1. UNCHANGED <<local, calls, current_cycle>>
    BY DEF op_onhold_process, op_activate_process, CompleteProcess, RestartJob, vars, taskVars,
           jobVars
  <1>2. \/ UNCHANGED Cycles
        \/ Cycles' = Moved("EXECUTION", "PAUSED") \/ Cycles' = Moved("PAUSED", "EXECUTION")
    BY DEF op_onhold_process, op_activate_process, CompleteProcess, RestartJob, vars, Pause
  <1>3. UNCHANGED Cycles \/ \E t : ManyChanged(t)
    BY <1>2, Moving DEF IInv
  <1>4. Advance
    BY <1>3, Advancing DEF IInv
  <1> QED BY <1>1, <1>4, NoCall

LEMMA InitialOrder == Init => SInv
  <1> SUFFICES ASSUME Init PROVE SInv
    OBVIOUS
  <1>1. /\ Cycles = <<[number |-> 1, status |-> "NEW", completing_ok |-> TRUE]>>
        /\ current_cycle = 1 /\ calls = [a \in Actor |-> <<>>]
    BY DEF Init
  <1>2. Len(Cycles) = 1 /\ DOMAIN Cycles = {1} /\ Cycles[1].number = 1
    BY <1>1
  <1>3. max_cycles \in Nat \ {0}
    BY LoopAssumption
  <1>4. Len(Cycles) <= max_cycles
    BY <1>2, <1>3
  <1>5. Planned
    BY <1>1 DEF Planned, PlannedOf, At, Actor
  <1> QED BY <1>1, <1>2, <1>4, <1>5 DEF SInv, InOrder, Counted

LEMMA InvariantOrder ==
  ASSUME OneWorker
  PROVE  Spec => []SInv
  <1>1. ASSUME IInv, SInv, [Next]_vars
        PROVE  SInv'
    <2>1. ASSUME NEW a \in Actor, Step(a) PROVE SInv'
      BY <1>1, <2>1, CancelsInOrder, CancelCurrentInOrder, RunInOrder, RunLoopInOrder,
         CreateNewCycleInOrder, CopyCycleInOrder, StartCycleInOrder, FailInOrder DEF Step
    <2>2. ASSUME NEW a \in Worker, TakeJob(a) PROVE SInv'
      BY <1>1, <2>2, TakeJobInOrder
    <2>3. ASSUME NEW a \in Session, op_cancel_process(a) \/ FinishSibling(a) PROVE SInv'
      BY <1>1, <2>3, SessionInOrder
    <2>4. ASSUME NEW k \in DOMAIN Cycles,
                 EndCycle(k) \/ op_onhold_cycle(k) \/ op_cancel_cycle(k) \/ op_dismiss_cycle(k)
          PROVE  SInv'
      BY <1>1, <2>4, EndCycleInOrder, op_cycleInOrder
    <2>5. CASE \/ op_onhold_process \/ op_activate_process \/ CompleteProcess \/ RestartJob
               \/ UNCHANGED vars
      BY <1>1, <2>5, ParentInOrder
    <2> QED BY <1>1, <2>1, <2>2, <2>3, <2>4, <2>5 DEF Next
  <1> QED BY <1>1, InitialOrder, Invariant, PTL DEF Spec

\* With one worker the loop never runs more often than max_cycles allows, and
\* current_cycle stays in the range run_loop.py expects, whatever is cancelled,
\* paused, dismissed or enqueued twice.
THEOREM BoundedCorrect ==
  ASSUME OneWorker
  PROVE  Spec => []Bounded
  <1>1. ASSUME IInv, SInv
        PROVE  Bounded
    <2>1. Len(Cycles) \in Nat /\ max_cycles \in Nat
      BY <1>1, LoopAssumption DEF IInv, TypeOK
    <2> QED BY <1>1, <2>1 DEF SInv, Counted, Bounded
  <1> QED BY <1>1, Invariant, InvariantOrder, PTL

\* With one worker one cycle is active at most: the last one, which has to end
\* before current_cycle asks for the next.
THEOREM OneActiveCorrect ==
  ASSUME OneWorker
  PROVE  Spec => []OneActive
  <1>1. ASSUME IInv, SInv
        PROVE  OneActive
    <2>1. \A k \in Active : k = Len(Cycles)
      BY <1>1, LastCycle DEF Active, SInv, Ended
    <2>2. Active \subseteq {Len(Cycles)}
      BY <2>1
    <2> HIDE DEF Active
    <2>3. Active = {} \/ Active = {Len(Cycles)}
      BY <2>2
    <2>4. Cardinality({}) = 0 /\ Cardinality({Len(Cycles)}) = 1
      BY FS_EmptySet, FS_Singleton
    <2>5. CASE Active = {}
      BY <2>4, <2>5 DEF OneActive
    <2>6. CASE Active = {Len(Cycles)}
      BY <2>4, <2>6 DEF OneActive
    <2> QED BY <2>3, <2>5, <2>6
  <1> QED BY <1>1, Invariant, InvariantOrder, PTL
=============================================================================
