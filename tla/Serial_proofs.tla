---------------------------- MODULE Serial_proofs ----------------------------
(***************************************************************************)
(* What the workflow engine leaves behind when its operations run one      *)
(* after the other: for every tree of components, an ended process has     *)
(* ended every component, components run only in groups that run, the      *)
(* completion group starts last, and a process that was cancelled or       *)
(* refused does not end as completed.                                      *)
(*                                                                         *)
(* None of this holds in the middle of an operation, when some components  *)
(* have ended and those below them have not.  So the invariant reads the   *)
(* stack of pending calls as a promise: what is open below an ended group  *)
(* is going to be cancelled by a call on the stack (Doomed), the tasks of  *)
(* the completion group are going to be started (ToStart), a process in    *)
(* which nothing may start any more winds up (Winding).  Law states what   *)
(* the statuses and the promises have in common.  Shape says which calls   *)
(* wait for which, so that a call finds what it relies on when its turn    *)
(* comes.  A step replaces some calls on the stack by others: for most     *)
(* steps that change no status, Law survives because the new calls promise *)
(* what the old ones did (Swap, Replace).                                  *)
(*                                                                         *)
(* Three situations are not of this kind, and have a case of their own in  *)
(* Sound: an answer that comes too late (Vain), a process that is about to *)
(* start (Boot) and a component that is about to start (Launch).           *)
(***************************************************************************)
EXTENDS Order_proofs

(* The schema *)

\* How far a component is from the process
Rooted ==
  \E d \in [Comp \cup {Root} -> Nat] : \A c \in Comp : d[c] = d[Parent[c]] + 1

Depth == CHOOSE d \in [Comp \cup {Root} -> Nat] : \A c \in Comp : d[c] = d[Parent[c]] + 1

\* What comes after c in its group
Later(c) == {d \in Comp : Ordered!Precedes(c, d)}

\* Not yet ended; ended; everything in S still new; a group, or the process, in
\* which a component may run
Open(c, st) == st[c] \in {"NEW", "EXECUTION"}
Gone(c, st) == st[c] \in Terminal
New(S, st)  == \A c \in S : st[c] = "NEW"
Goes(p, st) == p \in Comp => st[p] = "EXECUTION"
-----------------------------------------------------------------------------
(* The pending calls of the one operation, as a set                          *)

\* The calls on a stack
Frames(s) == {s[i] : i \in 1 .. Len(s)}

\* Calls that tell a parent what became of a component
Tell == Told \cup {"propagate_refuse"}

\* f is going to cancel c
Cancels(f, c) ==
  \/ f.fn = "cancel_subtasks" /\ c \in Components(f.obj)
  \/ f.fn = "cancel_each" /\ c \in f.todo
  \/ f.fn = "cancel_task" /\ c = f.obj
  \/ f.fn = "set" /\ c = f.obj /\ f.arg = "DISCARDED"

\* f cancels something
Canceller(f) ==
  \/ f.fn \in {"cancel_subtasks", "cancel_each", "cancel_task"}
  \/ f.fn = "set" /\ f.obj \in Comp /\ f.arg = "DISCARDED"

\* The calls of K are going to cancel c; one of them is about to end c
Doomed(c, K)   == \E f \in K : Cancels(f, c)
Ending(c, K)   == \E f \in K : f.fn = "set" /\ f.obj = c /\ f.arg \in Terminal
\* f is going to start c, or to skip it
Starts(f, c) ==
  \/ f.fn = "activate_task" /\ f.obj = c
  \/ f.fn = "activate_each" /\ c \in f.todo
ToStart(c, K) == \E f \in K : Starts(f, c)
\* A call of fn is among those of K
Has(fn, K)     == \E f \in K : f.fn = fn

(* What a call relies on: nothing that the calls above it are going to touch. *)

\* Calls that touch one component, and those that touch the components below one
Single(f) ==
  \/ f.fn \in {"activate_task", "cancel_task", "except_activate"}
  \/ f.fn = "set" /\ f.obj \in Comp

Multiple(f) ==
  f.fn \in {"cancel_subtasks", "cancel_each", "activate_each", "activate_first",
            "except_first"}

\* h waits, and goes on with x when it is its turn
Keeps(h, x) ==
  \/ h.fn \in {"activate_each", "cancel_each"} /\ x \in h.todo
  \/ /\ h.fn \in {"activate_each", "activate_first", "except_first", "except_activate",
                  "except_sibling", "cancel_task", "set", "end_completion"} \cup Tell
     /\ x = h.obj
  \/ h.fn \in {"activate_first", "activate_next"} /\ x = h.arg
  \/ /\ h.fn \in {"activate_first", "except_first", "except_next", "activate_next"} \cup Tell
     /\ h.arg \in Comp /\ x \in Later(h.arg)

\* f leaves x alone: it works deeper in the tree
Clear(f, x) == Depth[x] <= Depth[f.obj] /\ (Single(f) => x # f.obj)

\* Calls made while components are activated
Activates(f) ==
  \/ f.fn \in {"activate_task", "activate_each", "activate_first", "except_activate",
               "except_pass", "except_first", "raise", "cancel_task", "cancel_subtasks",
               "cancel_each"}
  \/ f.fn = "set" /\ f.obj \in Comp

\* Calls with nothing below them but a worker's job, and those of the process
Lowest == {"cancel_process", "cancel_subtasks_and_close", "fail_job", "run_job",
           "end_completion", "except_sibling", "except_cancelled"} \cup Worked \cup Tell

\* Calls of the process itself, and the start of the completion group
OfProcess(f) ==
  \/ f.fn \in {"end_process", "activate_next", "activate_tasks", "except_end", "except_next"}
  \/ f.fn = "set" /\ f.obj = Root

OfCompletion(f) ==
  f.fn \in {"activate_task", "except_activate"} /\ f.obj = Completion

\* A call f above h
Bears(f, h) ==
  /\ Single(f) \/ Multiple(f) => \A x \in Comp : Keeps(h, x) => Clear(f, x)
  /\ Canceller(h) => Canceller(f) \/ (f.fn = "set" /\ f.obj \in Comp)
  /\ f.fn \in Lowest => h.fn \in Worked
  /\ OfProcess(f) => h.fn \in {"except_cancelled", "fail_job"} \cup Worked
  /\ h.fn = "fail_job" => f.fn = "set" /\ f.obj = Root /\ f.arg = "PAUSED"
  /\ f.fn = "dismiss_completion" => h = Set(Root, "DISCARDED")
  /\ f.fn \notin {"activate_process", "dismiss_process"} /\ f # Set(Root, "DISCARDED")
  /\ h.fn = "activate_each" => Activates(f)
  /\ OfCompletion(f) => h.fn \in {"except_end", "except_cancelled"} \cup Worked
  /\ h.fn \notin {"activate_task", "activate_tasks", "activate_first", "activate_process"}

\* A call u directly above f
Rests(u, f) ==
  /\ u.fn \in {"activate_task", "raise", "except_activate"} =>
       f.fn \in {"except_pass", "except_first", "except_sibling", "except_next",
                 "except_end", "except_cancelled"}
  /\ OfCompletion(u) => f.fn = "except_end"
  /\ f.fn = "except_end" => u.fn = "raise" \/ OfCompletion(u)
  /\ u.fn \in {"activate_next", "except_next", "activate_tasks"} => f.fn = "except_cancelled"
  /\ u.fn \in {"activate_each", "activate_first", "except_first"} =>
       f.fn = "except_activate" /\ f.obj = u.obj

\* What may wait for what, down the whole stack
Shape(s) ==
  /\ \A i, j \in 1 .. Len(s) : i < j => Bears(s[i], s[j])
  /\ \A i \in 1 .. Len(s) - 1 : Rests(s[i], s[i + 1])

(* What the pending calls K and the statuses have in common.                 *)

\* What a call finds, also when it waits for others
Needs(h, st) ==
  /\ h.fn = "activate_task" => h.obj \in Comp /\ st[h.obj] = "NEW" /\ Goes(Parent[h.obj], st)
  /\ h.fn = "set" /\ h.obj \in Comp =>
       \/ h.arg \in {"COMPLETED", "REJECTED"} /\ st[h.obj] = "EXECUTION"
       \/ h.arg = "DISCARDED" /\ Open(h.obj, st)
  /\ h.fn = "set" /\ h.obj = Root => h.arg # "EXECUTION"
  /\ h.fn = "cancel_task" => h.obj \in Comp /\ Open(h.obj, st)
  /\ h.fn = "cancel_each" => h.todo \subseteq Components(h.obj) /\ \A c \in h.todo : Open(c, st)
  /\ h.fn = "activate_each" => h.todo \subseteq Components(h.obj) /\ New(h.todo, st)
  /\ h.fn = "activate_tasks" => New(Components(Root), st)
  /\ h.fn \in {"activate_first", "activate_next"} /\ h.arg \in Comp =>
       st[h.arg] = "NEW" /\ New(Later(h.arg), st)
  /\ h.fn = "activate_first" /\ h.arg \notin Comp => \A c \in Components(h.obj) : ~Open(c, st)
  /\ h.fn \in {"except_first", "except_next"} => h.arg \in Comp /\ New(Later(h.arg), st)
  /\ h.fn \in {"activate_each", "activate_first", "except_first", "except_activate",
               "except_sibling", "end_completion"} => h.obj \in Comp /\ st[h.obj] = "EXECUTION"
  /\ h.fn = "end_completion" => h.obj = Completion
  /\ h.fn \in Tell =>
       /\ h.arg \in Comp /\ h.obj = Parent[h.arg] /\ Goes(h.obj, st)
       /\ New(Later(h.arg), st)
  /\ h.fn = "propagate_finish" => h.arg \in Task
  /\ h.fn = "raise" => h.arg \in {"TaskCancelled", "TaskClosed"}

\* Calls that go on with the process, or end it as completed
GoesOn(h) ==
  \/ h.fn \in {"activate_next", "except_next", "cancel_subtasks_and_close", "activate_tasks"}
  \/ h.fn = "end_process" /\ h.arg = "COMPLETED"
  \/ h.fn \in Told /\ h.obj = Root /\ h.arg # Completion

\* What a call finds of the process
Serves(h, st, ps, ok) ==
  /\ GoesOn(h) => ok /\ st[Completion] # "EXECUTION"
  /\ h.fn = "except_cancelled" => ok
  /\ h.fn \in {"propagate_refuse", "cancel_process", "dismiss_process", "run_job"}
       => ps # "COMPLETED"
  /\ h.fn \in {"except_end", "end_process"} => h.arg \in {"COMPLETED", "FAILED"}
  /\ h.fn = "except_end" /\ h.arg = "COMPLETED" => ok
  /\ h.fn = "set" /\ h.obj = Root /\ h.arg = "COMPLETED" => ok /\ Gone(Completion, st)
  /\ h.fn = "propagate_done" /\ h.obj = Root => ok
  /\ h.fn = "activate_process" => ps \in {"NEW", "PAUSED"}

\* What is below a component that has ended, or is going to, is cancelled.
NoOrphan(K, st) ==
  \A c \in Comp : Open(c, st) /\ Parent[c] \in Comp /\ (Gone(Parent[c], st) \/ Ending(Parent[c], K))
                    => Doomed(c, K)

\* Nothing runs below a new component; it is skipped with everything below it.
NewBelow(K, st) ==
  \A c \in Comp : Parent[c] \in Comp /\ st[Parent[c]] = "NEW" =>
    /\ st[c] \in {"NEW", "DISCARDED"}
    /\ st[c] = "DISCARDED" \/ Doomed(c, K) => Doomed(Parent[c], K)

\* What comes after a component that is left is new, and is left
InLine(K, st) ==
  \A b, c \in Comp : Ordered!Precedes(b, c) /\ Open(b, st) /\ ~Doomed(b, K)
                       => st[c] = "NEW" /\ ~Doomed(c, K)

\* The process is about to end, or has ended.
Winds(f) ==
  \/ f.fn \in {"end_process", "dismiss_completion", "except_end"}
  \/ f.fn = "activate_next" /\ f.arg \notin Comp
  \/ f.fn = "activate_task" /\ f.obj = Completion
  \/ f.fn = "set" /\ f.obj = Root /\ f.arg \in Ended

\* Nothing of the process is going to be started any more, so what is left at
\* the top is cancelled.
Winding(K, st, ps, ok) ==
  \/ ~ok \/ ps \in Ended \/ st[Completion] # "NEW" \/ Doomed(Completion, K)
  \/ \E f \in K : Winds(f)

WindsUp(K, st, ps, ok) ==
  Winding(K, st, ps, ok) => \A c \in Components(Root) : Open(c, st) => Doomed(c, K)

\* The completion tasks are started all at once.
AllStarted(K, st) ==
  st[Completion] = "EXECUTION" =>
    \A c \in Components(Completion) : st[c] = "NEW" => Doomed(c, K) \/ ToStart(c, K)

\* When the completion group is asked whether it has ended, no task of it is left.
NoneLeft(K, st) ==
  Has("end_completion", K) => \A c \in Components(Completion) : Open(c, st) => Doomed(c, K)

\* The completion group runs only when everything else has ended.
MainGone(st) == st[Completion] = "EXECUTION" => \A c \in Main : ~Open(c, st)

\* A process that has ended leaves no completion group open, and it has ended
\* as completed only if nobody cancelled or refused it.
EndedWell(st, ps, ok) ==
  /\ ps \in {"COMPLETED", "DISCARDED"} => Gone(Completion, st)
  /\ ps = "COMPLETED" => ok

\* The completion group ends before the process does.
Leaving(K, st) == Gone(Completion, st) \/ Doomed(Completion, K) \/ Ending(Completion, K)

\* Calls made while the completion group starts its tasks
InCompletion(f) ==
  \/ f.fn \in {"raise", "except_activate"}
  \/ f.fn = "activate_task" /\ f.obj # Completion

\* end_process waits for the completion group to start: an exception out of it
\* means that the group has ended, or is about to.
EndTried(K, st) ==
  /\ Has("except_end", K) /\ (\E f \in K : InCompletion(f)) =>
       Leaving(K, st) \/ \E f \in K : f.fn = "except_activate" /\ f.obj = Completion
  /\ \A f \in K : f.fn \in Tell /\ f.obj = Root /\ f.arg = Completion => Leaving(K, st)
  /\ (\E f \in K : f.fn = "activate_task" /\ f.obj = Completion) => Has("except_end", K)

\* A process is dismissed together with its completion group.
Dismisses(K, st) ==
  (\E f \in K : f.fn = "set" /\ f.obj = Root /\ f.arg = "DISCARDED")
    => Gone(Completion, st) \/ Doomed(Completion, K) \/ Has("dismiss_completion", K)

\* The one who started the process does not wait for its end.
Starter(K, st) ==
  Has("except_cancelled", K) =>
    \/ st[Completion] # "EXECUTION" \/ Has("except_end", K)
    \/ \A f \in K : f.fn \in {"except_cancelled"} \cup Worked

\* All of it
Law(K, st, ps, ok) ==
  /\ \A h \in K : Needs(h, st) /\ Serves(h, st, ps, ok)
  /\ NoOrphan(K, st) /\ NewBelow(K, st) /\ InLine(K, st)
  /\ WindsUp(K, st, ps, ok) /\ AllStarted(K, st) /\ NoneLeft(K, st)
  /\ MainGone(st) /\ EndedWell(st, ps, ok)
  /\ EndTried(K, st) /\ Dismisses(K, st) /\ Starter(K, st)

(* The operation between two steps.                                          *)

\* In the ordinary case the pending calls are in order, and Law holds.
Normal(s, st, ps, ok) == Shape(s) /\ Law(Frames(s), st, ps, ok)

\* An answer that comes too late: the transition will be refused.
Vain(s, st, ps, ok) ==
  /\ Len(s) >= 2 /\ s[1].fn = "set" /\ s[1].obj \in Comp /\ s[1].arg \in {"COMPLETED", "REJECTED"}
  /\ st[s[1].obj] # "EXECUTION" /\ s[2].fn \in Tell
  /\ \A i \in 3 .. Len(s) : s[i].fn \in Worked
  /\ Law(Frames(Tail(Tail(s))), st, ps, ok)

\* The process is about to start or to resume.
Boot(s, st, ps, ok) ==
  /\ \/ s = <<Set(Root, "EXECUTION")>>
     \/ /\ ps = "NEW"
        /\ s = <<Set(Root, "EXECUTION"), Do("activate_tasks", Root, None),
                 Do("except_cancelled", Root, None)>>
  /\ Law({}, st, ps, ok)

\* A component is about to start.
Launch(s, st, ps, ok) ==
  /\ s # <<>> /\ Head(s).fn = "set" /\ Head(s).arg = "EXECUTION"
  /\ Head(s).obj \in Comp /\ st[Head(s).obj] = "NEW"
  /\ Normal(Tail(s), [st EXCEPT ![Head(s).obj] = "EXECUTION"], ps, ok)

\* The four cases
Sound(s, st, ps, ok) ==
  \/ Vain(s, st, ps, ok) \/ Boot(s, st, ps, ok) \/ Launch(s, st, ps, ok)
  \/ Normal(s, st, ps, ok)

\* With nothing cut off, Law holds between operations, and the stack of the one
\* that is under way is sound.
SerialInv ==
  faults = 0 =>
    /\ Quiescent => Law({}, status, procStatus, completing_ok)
    /\ \A a \in Actor : ~Idle(a) => Sound(calls[a], status, procStatus, completing_ok)

(* The calls of F are replaced by those of N; the others, R, stay.           *)
Swap(F, N, R, st, ps, ok) ==
  /\ \A h \in N : Needs(h, st) /\ Serves(h, st, ps, ok)
  /\ \A c \in Comp : Open(c, st) /\ Doomed(c, F) => Doomed(c, N)
  /\ \A c \in Comp : Open(c, st) /\ Doomed(c, N) =>
       \/ Doomed(c, F)
       \/ /\ Parent[c] \in Comp /\ st[Parent[c]] = "NEW" => Doomed(Parent[c], N)
          /\ \A b \in Comp : Ordered!Precedes(b, c) => ~Open(b, st) \/ Doomed(b, N)
  /\ \A c \in Comp : Ending(c, N) => \A d \in Components(c) : Open(d, st) => Doomed(d, N)
  /\ (\E h \in N : Winds(h)) \/ Doomed(Completion, N) =>
       \/ Winding(F \cup R, st, ps, ok)
       \/ \A c \in Components(Root) : Open(c, st) => Doomed(c, N)
  /\ \A c \in Components(Completion) : ToStart(c, F) => ToStart(c, N) \/ Doomed(c, N)
  /\ Has("end_completion", N) => \A c \in Components(Completion) : Open(c, st) => Doomed(c, N)
  /\ (\E h \in N : InCompletion(h)) =>
       \/ \E g \in F \cup R : InCompletion(g)
       \/ ~Has("except_end", N \cup R)
       \/ Leaving(N, st)
  /\ (\E f \in F : f.fn = "except_activate" /\ f.obj = Completion) =>
       Leaving(N, st) \/ ~\E h \in N \cup R : InCompletion(h)
  /\ Has("except_end", N) => ~\E h \in N \cup R : InCompletion(h)
  /\ \A h \in N : h.fn \in Tell /\ h.obj = Root /\ h.arg = Completion => Leaving(N, st)
  /\ ~Ending(Completion, F)
  /\ (\E h \in N : h.fn = "activate_task" /\ h.obj = Completion) => Has("except_end", N)
  /\ Has("except_end", F) =>
       /\ ~\E h \in N \cup R : h.fn = "activate_task" /\ h.obj = Completion
       /\ st[Completion] # "EXECUTION" \/ \A h \in N \cup R : h.fn \in {"except_cancelled"} \cup Worked
  /\ (\E h \in N : h.fn = "set" /\ h.obj = Root /\ h.arg = "DISCARDED") => Has("dismiss_completion", N)
  /\ Has("dismiss_completion", F) => Gone(Completion, st) \/ Doomed(Completion, N)
  /\ Has("except_cancelled", N) => st[Completion] # "EXECUTION"
  /\ (\A f \in F : f.fn \in {"except_cancelled"} \cup Worked) /\ Has("except_cancelled", R) => N = {}

-----------------------------------------------------------------------------
(* Stacks and sets of calls *)

LEMMA NoFrames == Frames(<<>>) = {} /\ Shape(<<>>)
BY DEF Frames, Shape

\* A call on a stack: the set of calls
LEMMA FramesPush ==
  ASSUME NEW s \in Seq(Call), NEW f \in Call
  PROVE  Frames(<<f>> \o s) = {f} \cup Frames(s)
<1>. DEFINE t == <<f>> \o s
            n == Len(s)
<1>1. /\ Len(t) = n + 1 /\ n \in Nat /\ t[1] = f
      /\ \A i \in 1 .. n : t[i + 1] = s[i]
  BY Push
<1>. HIDE DEF t, n
<1>2. \A i \in 1 .. n + 1 : i = 1 \/ (i - 1 \in 1 .. n /\ t[i] = s[i - 1])
  <2>1. ASSUME NEW i \in 1 .. n + 1, i # 1 PROVE i - 1 \in 1 .. n /\ t[i] = s[i - 1]
    <3>1. i - 1 \in 1 .. n /\ i = (i - 1) + 1
      BY <1>1, <2>1
    <3>. QED
      BY <1>1, <3>1
  <2>. QED
    BY <2>1
<1>3. ASSUME NEW g \in Frames(t) PROVE g \in {f} \cup Frames(s)
  <2>1. PICK i \in 1 .. n + 1 : g = t[i]
    BY <1>1, <1>3 DEF Frames
  <2>. QED
    BY <1>1, <1>2, <2>1 DEF Frames, n
<1>4. f \in Frames(t)
  BY <1>1 DEF Frames
<1>5. ASSUME NEW i \in 1 .. n PROVE s[i] \in Frames(t)
  <2>1. i + 1 \in 1 .. n + 1 /\ t[i + 1] = s[i]
    BY <1>1
  <2>. QED
    BY <1>1, <2>1 DEF Frames
<1>. QED
  BY <1>3, <1>4, <1>5 DEF t, n, Frames

\* A call on a stack that bears it and is in order
LEMMA ShapePush ==
  ASSUME NEW s \in Seq(Call), Shape(s), NEW f \in Call,
         \A h \in Frames(s) : Bears(f, h), s # <<>> => Rests(f, Head(s))
  PROVE  Shape(<<f>> \o s)
<1>. DEFINE t == <<f>> \o s
            n == Len(s)
<1>1. /\ Len(t) = n + 1 /\ n \in Nat /\ t[1] = f
      /\ \A i \in 1 .. n : t[i + 1] = s[i]
  BY Push
<1>2. n >= 1 => Rests(f, s[1])
  <2>1. n >= 1 => s # <<>> /\ Head(s) = s[1]
    OBVIOUS
  <2>. QED
    BY <2>1
<1>3. /\ \A i, j \in 1 .. n : i < j => Bears(s[i], s[j])
      /\ \A i \in 1 .. n - 1 : Rests(s[i], s[i + 1])
      /\ \A i \in 1 .. n : Bears(f, s[i])
  BY DEF Shape, Frames
<1>. HIDE DEF t, n
<1>4. \A i \in 1 .. n + 1 : i = 1 \/ (i - 1 \in 1 .. n /\ t[i] = s[i - 1])
  <2>1. ASSUME NEW i \in 1 .. n + 1, i # 1 PROVE i - 1 \in 1 .. n /\ t[i] = s[i - 1]
    <3>1. i - 1 \in 1 .. n /\ i = (i - 1) + 1
      BY <1>1, <2>1
    <3>. QED
      BY <1>1, <3>1
  <2>. QED
    BY <2>1
<1>5. ASSUME NEW i \in 1 .. n + 1, NEW j \in 1 .. n + 1, i < j PROVE Bears(t[i], t[j])
  <2>1. j - 1 \in 1 .. n /\ t[j] = s[j - 1]
    BY <1>1, <1>4, <1>5
  <2>2. CASE i = 1
    BY <1>1, <1>3, <2>1, <2>2
  <2>3. CASE i # 1
    <3>1. i - 1 \in 1 .. n /\ t[i] = s[i - 1] /\ i - 1 < j - 1
      BY <1>1, <1>4, <1>5, <2>3
    <3>. QED
      BY <1>3, <2>1, <3>1
  <2>. QED
    BY <2>2, <2>3
<1>6. ASSUME NEW i \in 1 .. (n + 1) - 1 PROVE Rests(t[i], t[i + 1])
  <2>1. CASE i = 1
    BY <1>1, <1>2, <1>6, <2>1
  <2>2. CASE i # 1
    <3>1. i - 1 \in 1 .. n - 1 /\ t[i] = s[i - 1] /\ t[i + 1] = s[(i - 1) + 1]
      BY <1>1, <1>4, <1>6, <2>2
    <3>. QED
      BY <1>3, <3>1
  <2>. QED
    BY <2>1, <2>2
<1>. QED
  BY <1>1, <1>5, <1>6 DEF Shape, t

\* What is below the h-th call
LEMMA ShapeBelow ==
  ASSUME NEW s \in Seq(Call), Shape(s), NEW h \in 1 .. Len(s)
  PROVE  LET r == SubSeq(s, h + 1, Len(s))
         IN  /\ r \in Seq(Call) /\ Shape(r) /\ Frames(r) \subseteq Frames(s)
             /\ \A g \in Frames(r) : Bears(s[h], g)
             /\ r # <<>> => Rests(s[h], Head(r))
<1>. DEFINE r == SubSeq(s, h + 1, Len(s))
            n == Len(s)
<1>1. /\ r \in Seq(Call) /\ n \in Nat /\ Len(r) = n - h
      /\ \A i \in 1 .. Len(r) : r[i] = s[h + i]
  <2>1. h \in Nat /\ h >= 1 /\ h <= n /\ n \in Nat
    OBVIOUS
  <2>2. r \in Seq(Call) /\ Len(r) = (IF h + 1 <= n THEN n - (h + 1) + 1 ELSE 0)
        /\ \A i \in 1 .. Len(r) : r[i] = s[(h + 1) + i - 1]
    BY <2>1, SubSeqProperties
  <2>. HIDE DEF r, n
  <2>3. Len(r) = n - h
    BY <2>1, <2>2
  <2>4. ASSUME NEW i \in 1 .. Len(r) PROVE r[i] = s[h + i]
    <3>1. (h + 1) + i - 1 = h + i
      BY <2>1, <2>3
    <3>. QED
      BY <2>2, <3>1
  <2>. QED
    BY <2>1, <2>2, <2>3, <2>4
<1>2. /\ \A i, j \in 1 .. n : i < j => Bears(s[i], s[j])
      /\ \A i \in 1 .. n - 1 : Rests(s[i], s[i + 1])
  BY DEF Shape
<1>. HIDE DEF r
<1>3. \A i \in 1 .. Len(r) : h + i \in 1 .. n /\ h < h + i
  BY <1>1
<1>4. Frames(r) \subseteq Frames(s)
  BY <1>1, <1>3 DEF Frames
<1>5. \A g \in Frames(r) : Bears(s[h], g)
  BY <1>1, <1>2, <1>3 DEF Frames
<1>6. r # <<>> => Rests(s[h], Head(r))
  <2>1. SUFFICES ASSUME r # <<>> PROVE Rests(s[h], Head(r))
    OBVIOUS
  <2>2. Len(r) \in Nat /\ Len(r) >= 1 /\ Head(r) = r[1]
    BY <1>1, <2>1, EmptySeq
  <2>3. h \in 1 .. n - 1 /\ r[1] = s[h + 1]
    BY <1>1, <2>2
  <2>. QED
    BY <1>2, <2>2, <2>3
<1>7. Shape(r)
  <2>1. ASSUME NEW i \in 1 .. Len(r), NEW j \in 1 .. Len(r), i < j PROVE Bears(r[i], r[j])
    <3>1. h + i < h + j
      BY <1>1, <2>1
    <3>. QED
      BY <1>1, <1>2, <1>3, <3>1
  <2>2. ASSUME NEW i \in 1 .. Len(r) - 1 PROVE Rests(r[i], r[i + 1])
    <3>1. /\ i \in 1 .. Len(r) /\ i + 1 \in 1 .. Len(r)
          /\ h + i \in 1 .. n - 1 /\ h + (i + 1) = (h + i) + 1
      BY <1>1
    <3>. QED
      BY <1>1, <1>2, <3>1
  <2>. QED
    BY <2>1, <2>2 DEF Shape
<1>. QED
  BY <1>1, <1>4, <1>5, <1>6, <1>7 DEF r

\* A stack is its first call on the others.
LEMMA HeadOnTail ==
  ASSUME NEW s \in Seq(Call), s # <<>>
  PROVE  <<Head(s)>> \o Tail(s) = s
<1>. DEFINE t == <<Head(s)>> \o Tail(s)
<1>1. Head(s) \in Call /\ Tail(s) \in Seq(Call) /\ Len(Tail(s)) = Len(s) - 1
      /\ \A i \in 1 .. Len(Tail(s)) : Tail(s)[i] = s[i + 1]
  BY HeadTailProperties
<1>2. t \in Seq(Call) /\ Len(t) = Len(Tail(s)) + 1 /\ t[1] = Head(s)
      /\ \A i \in 1 .. Len(Tail(s)) : t[i + 1] = Tail(s)[i]
  BY <1>1, Push
<1>3. Len(s) \in Nat /\ Len(s) >= 1 /\ Head(s) = s[1]
  BY EmptySeq
<1>. HIDE DEF t
<1>4. ASSUME NEW i \in 1 .. Len(t) PROVE t[i] = s[i]
  <2>1. CASE i = 1
    BY <1>2, <1>3, <2>1
  <2>2. CASE i # 1
    <3>1. i - 1 \in 1 .. Len(Tail(s)) /\ i = (i - 1) + 1
      BY <1>1, <1>2, <1>3, <2>2
    <3>. QED
      BY <1>1, <1>2, <3>1
  <2>. QED
    BY <2>1, <2>2
<1>5. Len(t) = Len(s)
  BY <1>1, <1>2, <1>3
<1>. QED
  BY <1>2, <1>4, <1>5, SeqEqual DEF t

\* The call on top and the rest
LEMMA ShapeTop ==
  ASSUME NEW s \in Seq(Call), s # <<>>, Shape(s)
  PROVE  /\ Head(s) \in Call /\ Tail(s) \in Seq(Call) /\ Shape(Tail(s))
         /\ Frames(s) = {Head(s)} \cup Frames(Tail(s))
         /\ \A h \in Frames(Tail(s)) : Bears(Head(s), h)
         /\ Tail(s) # <<>> => Rests(Head(s), Head(Tail(s)))
<1>1. Head(s) \in Call /\ Tail(s) \in Seq(Call) /\ <<Head(s)>> \o Tail(s) = s
  BY HeadTailProperties, HeadOnTail
<1>2. Frames(s) = {Head(s)} \cup Frames(Tail(s))
  BY <1>1, FramesPush
<1>3. 1 \in 1 .. Len(s) /\ Head(s) = s[1]
  BY EmptySeq
<1>4. Tail(s) = SubSeq(s, 1 + 1, Len(s))
  BY TailIsSubSeq
<1>. QED
  BY <1>1, <1>2, <1>3, <1>4, ShapeBelow

\* What several calls are going to do, each of them is going to do.
LEMMA Joint ==
  ASSUME NEW K, NEW R
  PROVE  /\ \A c : Doomed(c, K \cup R) <=> Doomed(c, K) \/ Doomed(c, R)
         /\ \A c : Ending(c, K \cup R) <=> Ending(c, K) \/ Ending(c, R)
         /\ \A c : ToStart(c, K \cup R) <=> ToStart(c, K) \/ ToStart(c, R)
         /\ \A fn : Has(fn, K \cup R) <=> Has(fn, K) \/ Has(fn, R)
BY DEF Doomed, Ending, ToStart, Has

\* What one call is going to do
LEMMA Lone ==
  ASSUME NEW f
  PROVE  /\ \A c : Doomed(c, {f}) <=> Cancels(f, c)
         /\ \A c : Ending(c, {f}) <=> f.fn = "set" /\ f.obj = c /\ f.arg \in Terminal
         /\ \A c : ToStart(c, {f}) <=> Starts(f, c)
         /\ \A fn : Has(fn, {f}) <=> f.fn = fn
         /\ \A c : ~Doomed(c, {}) /\ ~Ending(c, {}) /\ ~ToStart(c, {})
         /\ \A fn : ~Has(fn, {})
BY DEF Doomed, Ending, ToStart, Has

\* Law survives when the calls of F are replaced by those of N.
LEMMA Replace ==
  ASSUME NEW F, NEW N, NEW R, NEW st \in [Comp -> CompStatus], NEW ps, NEW ok,
         Law(F \cup R, st, ps, ok), Swap(F, N, R, st, ps, ok)
  PROVE  Law(N \cup R, st, ps, ok)
<1>. DEFINE K == F \cup R
            L == N \cup R
<1>1. /\ \A c : Doomed(c, K) <=> Doomed(c, F) \/ Doomed(c, R)
      /\ \A c : Doomed(c, L) <=> Doomed(c, N) \/ Doomed(c, R)
  BY Joint
<1>2. /\ \A c : Ending(c, K) <=> Ending(c, F) \/ Ending(c, R)
      /\ \A c : Ending(c, L) <=> Ending(c, N) \/ Ending(c, R)
  BY Joint
<1>3. /\ \A c : ToStart(c, K) <=> ToStart(c, F) \/ ToStart(c, R)
      /\ \A c : ToStart(c, L) <=> ToStart(c, N) \/ ToStart(c, R)
  BY Joint
<1>4. /\ \A fn : Has(fn, K) <=> Has(fn, F) \/ Has(fn, R)
      /\ \A fn : Has(fn, L) <=> Has(fn, N) \/ Has(fn, R)
  BY Joint
<1>6. /\ \A f : f \in K <=> f \in F \/ f \in R
      /\ \A f : f \in L <=> f \in N \/ f \in R
  OBVIOUS
<1>7. Law(K, st, ps, ok)
  OBVIOUS
<1>. HIDE DEF K, L
<1>8. \A c \in Comp : Open(c, st) /\ Doomed(c, K) => Doomed(c, L)
  BY <1>1 DEF Swap
<1>9. \A h \in L : Needs(h, st) /\ Serves(h, st, ps, ok)
  BY <1>6, <1>7 DEF Law, Swap
<1>10. NoOrphan(L, st)
  <2>1. SUFFICES ASSUME NEW c \in Comp, Open(c, st), Parent[c] \in Comp,
                        Gone(Parent[c], st) \/ Ending(Parent[c], L)
                 PROVE  Doomed(c, L)
    BY DEF NoOrphan
  <2>2. NoOrphan(K, st)
    BY <1>7 DEF Law
  <2>3. CASE Gone(Parent[c], st) \/ Ending(Parent[c], K)
    BY <1>8, <2>1, <2>2, <2>3 DEF NoOrphan
  <2>4. CASE Ending(Parent[c], N)
    <3>1. c \in Components(Parent[c])
      BY <2>1, TreeAssumption DEF Components
    <3>. QED
      BY <1>1, <2>1, <2>4, <3>1 DEF Swap
  <2>. QED
    BY <1>2, <2>1, <2>3, <2>4
<1>11. NewBelow(L, st)
  <2>1. SUFFICES ASSUME NEW c \in Comp, Parent[c] \in Comp, st[Parent[c]] = "NEW"
                 PROVE  /\ st[c] \in {"NEW", "DISCARDED"}
                        /\ st[c] = "DISCARDED" \/ Doomed(c, L) => Doomed(Parent[c], L)
    BY DEF NewBelow
  <2>2. /\ st[c] \in {"NEW", "DISCARDED"}
        /\ st[c] = "DISCARDED" \/ Doomed(c, K) => Doomed(Parent[c], K)
    BY <1>7, <2>1 DEF Law, NewBelow
  <2>3. Open(Parent[c], st)
    BY <2>1 DEF Open
  <2>4. CASE st[c] = "DISCARDED" \/ Doomed(c, K)
    BY <1>8, <2>1, <2>2, <2>3, <2>4
  <2>5. CASE st[c] # "DISCARDED" /\ ~Doomed(c, K) /\ Doomed(c, L)
    <3>1. Open(c, st) /\ Doomed(c, N) /\ ~Doomed(c, F)
      BY <1>1, <2>2, <2>5 DEF Open
    <3>2. Doomed(Parent[c], N)
      BY <2>1, <3>1 DEF Swap
    <3>. QED
      BY <1>1, <2>2, <3>2
  <2>. QED
    BY <2>2, <2>4, <2>5
<1>12. InLine(L, st)
  <2>1. SUFFICES ASSUME NEW b \in Comp, NEW c \in Comp, Ordered!Precedes(b, c), Open(b, st),
                        ~Doomed(b, L)
                 PROVE  st[c] = "NEW" /\ ~Doomed(c, L)
    BY DEF InLine
  <2>2. ~Doomed(b, K) /\ ~Doomed(b, N)
    BY <1>1, <1>8, <2>1
  <2>3. st[c] = "NEW" /\ ~Doomed(c, K)
    BY <1>7, <2>1, <2>2 DEF Law, InLine
  <2>4. Doomed(c, N) => Doomed(c, F)
    BY <2>1, <2>2, <2>3 DEF Swap, Open
  <2>. QED
    BY <1>1, <2>3, <2>4
<1>13. WindsUp(L, st, ps, ok)
  <2>1. SUFFICES ASSUME Winding(L, st, ps, ok), NEW c \in Components(Root), Open(c, st)
                 PROVE  Doomed(c, L)
    BY DEF WindsUp
  <2>2. c \in Comp
    BY DEF Components
  <2>3. CASE Winding(K, st, ps, ok)
    BY <1>7, <1>8, <2>1, <2>2, <2>3 DEF Law, WindsUp
  <2>4. CASE ~Winding(K, st, ps, ok)
    <3>1. (\E h \in N : Winds(h)) \/ Doomed(Completion, N)
      BY <1>1, <1>6, <2>1, <2>4 DEF Winding
    <3>2. \A d \in Components(Root) : Open(d, st) => Doomed(d, N)
      BY <2>4, <3>1 DEF Swap, K
    <3>. QED
      BY <1>1, <2>1, <3>2
  <2>. QED
    BY <2>3, <2>4
<1>14. AllStarted(L, st)
  <2>1. SUFFICES ASSUME st[Completion] = "EXECUTION", NEW c \in Components(Completion), st[c] = "NEW"
                 PROVE  Doomed(c, L) \/ ToStart(c, L)
    BY DEF AllStarted
  <2>2. c \in Comp /\ Open(c, st)
    BY <2>1 DEF Components, Open
  <2>3. Doomed(c, K) \/ ToStart(c, K)
    BY <1>7, <2>1 DEF Law, AllStarted
  <2>4. ToStart(c, F) => ToStart(c, N) \/ Doomed(c, N)
    BY DEF Swap
  <2>. QED
    BY <1>1, <1>3, <1>8, <2>2, <2>3, <2>4
<1>15. NoneLeft(L, st)
  <2>1. SUFFICES ASSUME Has("end_completion", L), NEW c \in Components(Completion), Open(c, st)
                 PROVE  Doomed(c, L)
    BY DEF NoneLeft
  <2>2. c \in Comp
    BY DEF Components
  <2>3. Has("end_completion", N) => (Open(c, st) => Doomed(c, N))
    BY DEF Swap
  <2>4. Has("end_completion", K) => Doomed(c, K)
    BY <1>7, <2>1 DEF Law, NoneLeft
  <2>. QED
    BY <1>1, <1>4, <1>8, <2>1, <2>2, <2>3, <2>4
<1>16. MainGone(st) /\ EndedWell(st, ps, ok)
  BY <1>7 DEF Law
<1>17. Completion \in Comp
  BY TreeAssumption
<1>18. Leaving(K, st) => Leaving(L, st)
  <2>1. Open(Completion, st) \/ Gone(Completion, st)
    BY <1>17 DEF Open, Gone, CompStatus, Terminal
  <2>2. ~Ending(Completion, F)
    BY DEF Swap
  <2>. QED
    BY <1>2, <1>8, <1>17, <2>1, <2>2 DEF Leaving
<1>19. Leaving(N, st) => Leaving(L, st)
  BY <1>1, <1>2 DEF Leaving
<1>20. EndTried(L, st)
  <2>1. EndTried(K, st)
    BY <1>7 DEF Law
  <2>2. ASSUME Has("except_end", L), NEW f \in L, InCompletion(f)
        PROVE  Leaving(L, st) \/ \E g \in L : g.fn = "except_activate" /\ g.obj = Completion
    <3>1. f \in N \cup R
      BY <2>2 DEF L
    <3>2. ~Has("except_end", N)
      BY <2>2, <3>1 DEF Swap
    <3>3. Has("except_end", K)
      BY <1>4, <2>2, <3>2
    <3>4. (\E g \in K : InCompletion(g)) \/ Leaving(N, st)
      <4>1. CASE f \in R
        BY <1>6, <2>2, <4>1
      <4>2. CASE f \in N
        BY <2>2, <4>2 DEF Swap, K, L
      <4>. QED
        BY <3>1, <4>1, <4>2
    <3>5. \/ Leaving(N, st) \/ Leaving(K, st)
          \/ \E g \in K : g.fn = "except_activate" /\ g.obj = Completion
      BY <2>1, <3>3, <3>4 DEF EndTried
    <3>6. ASSUME NEW g \in F, g.fn = "except_activate", g.obj = Completion
          PROVE  Leaving(N, st)
      BY <2>2, <3>1, <3>6 DEF Swap
    <3>. QED
      BY <1>6, <1>18, <1>19, <3>5, <3>6
  <2>3. ASSUME NEW f \in L, f.fn \in Tell, f.obj = Root, f.arg = Completion PROVE Leaving(L, st)
    <3>1. f \in N => Leaving(N, st)
      BY <2>3 DEF Swap
    <3>2. f \in R => Leaving(K, st)
      BY <1>6, <2>1, <2>3 DEF EndTried
    <3>. QED
      BY <1>6, <1>18, <1>19, <2>3, <3>1, <3>2
  <2>4. ASSUME NEW f \in L, f.fn = "activate_task", f.obj = Completion PROVE Has("except_end", L)
    <3>1. f \in N => Has("except_end", N)
      BY <2>4 DEF Swap
    <3>2. f \in R => Has("except_end", K)
      BY <1>6, <2>1, <2>4 DEF EndTried
    <3>3. ~Has("except_end", F)
      BY <2>4 DEF Swap, L
    <3>. QED
      BY <1>4, <1>6, <2>4, <3>1, <3>2, <3>3
  <2>. QED
    BY <2>2, <2>3, <2>4 DEF EndTried
<1>21. Dismisses(L, st)
  <2>1. SUFFICES ASSUME NEW f \in L, f.fn = "set", f.obj = Root, f.arg = "DISCARDED"
                 PROVE  Gone(Completion, st) \/ Doomed(Completion, L) \/ Has("dismiss_completion", L)
    BY DEF Dismisses
  <2>2. CASE f \in N
    <3>1. Has("dismiss_completion", N)
      BY <2>1, <2>2 DEF Swap
    <3>. QED
      BY <1>4, <3>1
  <2>3. CASE f \in R
    <3>1. Gone(Completion, st) \/ Doomed(Completion, K) \/ Has("dismiss_completion", K)
      BY <1>6, <1>7, <2>1, <2>3 DEF Law, Dismisses
    <3>2. Has("dismiss_completion", F) => Gone(Completion, st) \/ Doomed(Completion, N)
      BY DEF Swap
    <3>3. Open(Completion, st) \/ Gone(Completion, st)
      BY <1>17 DEF Open, Gone, CompStatus, Terminal
    <3>. QED
      BY <1>1, <1>4, <1>8, <1>17, <3>1, <3>2, <3>3
  <2>. QED
    BY <1>6, <2>1, <2>2, <2>3
<1>22. Starter(L, st)
  <2>1. SUFFICES ASSUME Has("except_cancelled", L), st[Completion] = "EXECUTION",
                        ~Has("except_end", L)
                 PROVE  \A f \in L : f.fn \in {"except_cancelled"} \cup Worked
    BY DEF Starter
  <2>2. ~Has("except_cancelled", N) /\ Has("except_cancelled", R)
    BY <1>4, <2>1 DEF Swap
  <2>3. CASE Has("except_end", F)
    BY <2>1, <2>3 DEF Swap, L
  <2>4. CASE ~Has("except_end", F)
    <3>1. \A f \in K : f.fn \in {"except_cancelled"} \cup Worked
      BY <1>4, <1>7, <2>1, <2>2, <2>4 DEF Law, Starter
    <3>2. N = {}
      BY <1>6, <2>2, <3>1 DEF Swap
    <3>. QED
      BY <1>6, <3>1, <3>2
  <2>. QED
    BY <2>3, <2>4
<1>23. Law(L, st, ps, ok)
  BY <1>9, <1>10, <1>11, <1>12, <1>13, <1>14, <1>15, <1>16, <1>20, <1>21, <1>22 DEF Law
<1>. QED
  BY <1>23 DEF L

\* Depth is what it is said to be.
LEMMA Depths ==
  ASSUME Rooted
  PROVE  /\ Depth \in [Comp \cup {Root} -> Nat]
         /\ \A c \in Comp : Depth[c] = Depth[Parent[c]] + 1
BY DEF Rooted, Depth

LEMMA DeeperThanParent ==
  ASSUME Rooted, NEW c \in Comp
  PROVE  Depth[Parent[c]] \in Nat /\ Depth[c] \in Nat /\ Depth[Parent[c]] < Depth[c]
<1>1. Parent[c] \in Comp \cup {Root}
  BY ParentIn
<1>2. Depth[Parent[c]] \in Nat /\ Depth[c] = Depth[Parent[c]] + 1
  BY <1>1, Depths
<1>. QED
  BY <1>2

\* The call f is on top of the calls r.
On(f, r, st, ps, ok) ==
  /\ f \in Call /\ r \in Seq(Call) /\ Shape(r)
  /\ \A h \in Frames(r) : Bears(f, h)
  /\ r # <<>> => Rests(f, Head(r))
  /\ Law({f} \cup Frames(r), st, ps, ok)

\* The stack with its first call apart from the others, and back
LEMMA NormalOn ==
  ASSUME NEW s \in Seq(Call), s # <<>>, NEW st, NEW ps, NEW ok, Normal(s, st, ps, ok)
  PROVE  On(Head(s), Tail(s), st, ps, ok)
BY ShapeTop DEF On, Normal

LEMMA OnNormal ==
  ASSUME NEW f, NEW r, NEW st, NEW ps, NEW ok, On(f, r, st, ps, ok)
  PROVE  Normal(<<f>> \o r, st, ps, ok)
BY ShapePush, FramesPush DEF On, Normal

\* The first call returns, or is replaced by one, two or three others.
LEMMA Become0 ==
  ASSUME NEW f, NEW r, NEW st \in [Comp -> CompStatus], NEW ps, NEW ok, On(f, r, st, ps, ok),
         Swap({f}, {}, Frames(r), st, ps, ok)
  PROVE  Normal(r, st, ps, ok)
<1>1. Law({} \cup Frames(r), st, ps, ok)
  BY Replace DEF On
<1>2. {} \cup Frames(r) = Frames(r)
  OBVIOUS
<1>. QED
  BY <1>1, <1>2 DEF On, Normal

\* A call x may be made when r is what waits.
Atop(x, r) ==
  /\ x \in Call /\ \A h \in Frames(r) : Bears(x, h)
  /\ r # <<>> => Rests(x, Head(r))

\* One, two and three calls on a stack that is in order
LEMMA Stack1 ==
  ASSUME NEW r \in Seq(Call), Shape(r), NEW x, Atop(x, r)
  PROVE  /\ <<x>> \o r \in Seq(Call) /\ <<x>> \o r # <<>> /\ Head(<<x>> \o r) = x
         /\ Shape(<<x>> \o r) /\ Frames(<<x>> \o r) = {x} \cup Frames(r)
BY Push, ShapePush, FramesPush DEF Atop

LEMMA Stack2 ==
  ASSUME NEW r \in Seq(Call), Shape(r), NEW x \in Call, NEW y, Atop(y, r),
         \A h \in Frames(r) : Bears(x, h), Bears(x, y), Rests(x, y)
  PROVE  /\ <<x, y>> \o r \in Seq(Call)
         /\ Shape(<<x, y>> \o r) /\ Frames(<<x, y>> \o r) = {x, y} \cup Frames(r)
<1>. DEFINE t == <<y>> \o r
<1>1. /\ t \in Seq(Call) /\ t # <<>> /\ Head(t) = y
      /\ Shape(t) /\ Frames(t) = {y} \cup Frames(r)
  BY Stack1
<1>2. y \in Call /\ <<x, y>> \o r = <<x>> \o t
  <2>1. y \in Call
    BY DEF Atop
  <2>. QED
    BY <2>1, Join
<1>. HIDE DEF t
<1>3. Atop(x, t)
  BY <1>1 DEF Atop
<1>4. /\ <<x>> \o t \in Seq(Call)
      /\ Shape(<<x>> \o t) /\ Frames(<<x>> \o t) = {x} \cup Frames(t)
  BY <1>1, <1>3, Stack1
<1>5. {x} \cup Frames(t) = {x, y} \cup Frames(r)
  BY <1>1
<1>. QED
  BY <1>2, <1>4, <1>5

LEMMA Stack3 ==
  ASSUME NEW r \in Seq(Call), Shape(r), NEW x \in Call, NEW y \in Call, NEW z, Atop(z, r),
         \A h \in Frames(r) : Bears(x, h) /\ Bears(y, h),
         Bears(y, z), Rests(y, z), Bears(x, y), Bears(x, z), Rests(x, y)
  PROVE  /\ <<x, y, z>> \o r \in Seq(Call)
         /\ Shape(<<x, y, z>> \o r) /\ Frames(<<x, y, z>> \o r) = {x, y, z} \cup Frames(r)
<1>. DEFINE t == <<z>> \o r
<1>1. /\ t \in Seq(Call) /\ t # <<>> /\ Head(t) = z
      /\ Shape(t) /\ Frames(t) = {z} \cup Frames(r)
  BY Stack1
<1>2. z \in Call
  BY DEF Atop
<1>3. <<x, y, z>> \o r = <<x>> \o (<<y>> \o t)
  BY <1>2, Join
<1>. HIDE DEF t
<1>4. <<x, y>> \o t = <<x>> \o (<<y>> \o t)
  BY <1>1, Join
<1>5. Atop(y, t) /\ \A h \in Frames(t) : Bears(x, h)
  BY <1>1 DEF Atop
<1>6. /\ <<x, y>> \o t \in Seq(Call)
      /\ Shape(<<x, y>> \o t) /\ Frames(<<x, y>> \o t) = {x, y} \cup Frames(t)
  BY <1>1, <1>5, Stack2
<1>7. {x, y} \cup Frames(t) = {x, y, z} \cup Frames(r)
  BY <1>1
<1>. QED
  BY <1>3, <1>4, <1>6, <1>7

LEMMA Become1 ==
  ASSUME NEW f, NEW r, NEW st \in [Comp -> CompStatus], NEW ps, NEW ok, On(f, r, st, ps, ok),
         NEW x, Atop(x, r), Swap({f}, {x}, Frames(r), st, ps, ok)
  PROVE  Normal(<<x>> \o r, st, ps, ok)
<1>1. Law({x} \cup Frames(r), st, ps, ok)
  BY Replace DEF On
<1>. QED
  BY <1>1, Stack1 DEF On, Normal

LEMMA Become2 ==
  ASSUME NEW f, NEW r, NEW st \in [Comp -> CompStatus], NEW ps, NEW ok, On(f, r, st, ps, ok),
         NEW x \in Call, NEW y, Atop(y, r), \A h \in Frames(r) : Bears(x, h), Bears(x, y),
         Rests(x, y), Swap({f}, {x, y}, Frames(r), st, ps, ok)
  PROVE  Normal(<<x, y>> \o r, st, ps, ok)
<1>1. Law({x, y} \cup Frames(r), st, ps, ok)
  BY Replace DEF On
<1>. QED
  BY <1>1, Stack2 DEF On, Normal

LEMMA Become3 ==
  ASSUME NEW f, NEW r, NEW st \in [Comp -> CompStatus], NEW ps, NEW ok, On(f, r, st, ps, ok),
         NEW x \in Call, NEW y \in Call, NEW z, Atop(z, r),
         \A h \in Frames(r) : Bears(x, h) /\ Bears(y, h),
         Bears(y, z), Rests(y, z), Bears(x, y), Bears(x, z), Rests(x, y),
         Swap({f}, {x, y, z}, Frames(r), st, ps, ok)
  PROVE  Normal(<<x, y, z>> \o r, st, ps, ok)
<1>1. Law({x, y, z} \cup Frames(r), st, ps, ok)
  BY Replace DEF On
<1>2. Shape(<<x, y, z>> \o r) /\ Frames(<<x, y, z>> \o r) = {x, y, z} \cup Frames(r)
  BY Stack3 DEF On
<1>. QED
  BY <1>1, <1>2 DEF Normal
-----------------------------------------------------------------------------
(* Which calls may wait for which *)

\* What f may be above, x may be above.
LEMMA BearsLike ==
  ASSUME NEW f, NEW x, NEW h, Bears(f, h), Activates(f), Activates(x), f.fn # "set",
         Single(x) \/ Multiple(x) =>
           (Single(f) \/ Multiple(f)) /\ \A c \in Comp : Clear(f, c) => Clear(x, c),
         Canceller(f) => Canceller(x) \/ (x.fn = "set" /\ x.obj \in Comp),
         OfCompletion(x) => OfCompletion(f)
  PROVE  Bears(x, h)
<1>1. x.fn \notin Lowest
  BY DEF Activates, Lowest, Worked, Tell, Told
<1>2. ~OfProcess(x) /\ x # Set(Root, "DISCARDED")
  BY TreeAssumption DEF Activates, OfProcess, Set, Do
<1>3. x.fn \notin {"dismiss_completion", "activate_process", "dismiss_process"}
  BY DEF Activates
<1>4. Canceller(h) => Canceller(x) \/ (x.fn = "set" /\ x.obj \in Comp)
  BY DEF Bears
<1>5. h.fn # "fail_job"
  BY DEF Bears
<1>6. Single(x) \/ Multiple(x) => \A c \in Comp : Keeps(h, c) => Clear(x, c)
  BY DEF Bears
<1>7. h.fn \notin {"activate_task", "activate_tasks", "activate_first", "activate_process"}
  BY DEF Bears
<1>8. OfCompletion(x) => h.fn \in {"except_end", "except_cancelled"} \cup Worked
  BY DEF Bears
<1>. QED
  BY <1>1, <1>2, <1>3, <1>4, <1>5, <1>6, <1>7, <1>8 DEF Bears

\* Nearly everything may be above a worker's job,
LEMMA OverWorked ==
  ASSUME NEW x, NEW h, h.fn \in Worked, x # Set(Root, "DISCARDED"),
         x.fn \notin {"activate_process", "dismiss_process", "dismiss_completion"}
  PROVE  Bears(x, h)
BY DEF Bears, Keeps, Canceller, Worked, Tell, Told

\* and what is left of the start of a process.
LEMMA OverBase ==
  ASSUME NEW x, NEW h, h.fn \in {"except_cancelled"} \cup Worked, x # Set(Root, "DISCARDED"),
         x.fn \notin Lowest \cup {"activate_process", "dismiss_process", "dismiss_completion"}
  PROVE  Bears(x, h)
BY DEF Bears, Keeps, Canceller, Worked, Tell, Told

\* Calls below a call that is made last
LEMMA AtBottom ==
  ASSUME NEW f, NEW r, NEW st, NEW ps, NEW ok, On(f, r, st, ps, ok), f.fn \in Lowest
  PROVE  \A h \in Frames(r) : h.fn \in Worked
BY DEF On, Bears

\* A call that decides nothing about the process or the completion group
Meek(h) ==
  /\ ~Winds(h)
  /\ h.fn \notin Tell \cup {"end_completion", "except_end", "except_cancelled",
                            "dismiss_completion"}

Mild(h) == Meek(h) /\ ~InCompletion(h)

\* A call that is not about the end of the process
Modest(f) ==
  /\ f.fn \notin {"except_end", "dismiss_completion"}
  /\ ~(f.fn = "set" /\ f.obj = Completion)

Tame(f) == Modest(f) /\ f.fn \notin {"except_cancelled"} \cup Worked

\* Replacing calls that promise little: of the conditions of Swap few are left.
LEMMA SwapModest ==
  ASSUME NEW F, F # {}, NEW N, NEW R, NEW st, NEW ps, NEW ok,
         \A f \in F : Modest(f), \A h \in N : Meek(h),
         \A h \in N : Needs(h, st) /\ Serves(h, st, ps, ok),
         \A c \in Comp : Open(c, st) /\ Doomed(c, F) => Doomed(c, N),
         \A c \in Comp : Open(c, st) /\ Doomed(c, N) =>
           \/ Doomed(c, F)
           \/ /\ Parent[c] \in Comp /\ st[Parent[c]] = "NEW" => Doomed(Parent[c], N)
              /\ \A b \in Comp : Ordered!Precedes(b, c) => ~Open(b, st) \/ Doomed(b, N),
         \A c \in Comp : Ending(c, N) => \A d \in Components(c) : Open(d, st) => Doomed(d, N),
         Doomed(Completion, N) => Winding(F \cup R, st, ps, ok),
         \A c \in Components(Completion) : ToStart(c, F) => ToStart(c, N) \/ Doomed(c, N),
         (\E h \in N : InCompletion(h)) =>
           \/ \E g \in F \cup R : InCompletion(g)
           \/ ~Has("except_end", R)
           \/ Leaving(N, st),
         (\E f \in F : f.fn = "except_activate" /\ f.obj = Completion) =>
           Leaving(N, st) \/ ~\E h \in N \cup R : InCompletion(h),
         (\A f \in F : f.fn \in {"except_cancelled"} \cup Worked) => ~Has("except_cancelled", R)
  PROVE  Swap(F, N, R, st, ps, ok)
<1>1. ~(\E h \in N : Winds(h))
  BY DEF Meek
<1>2. /\ ~Has("end_completion", N) /\ ~Has("except_end", N) /\ ~Has("except_cancelled", N)
      /\ \A h \in N : h.fn \notin Tell
  BY DEF Meek, Has
<1>3. ~(\E h \in N : h.fn = "activate_task" /\ h.obj = Completion)
  BY DEF Meek, Winds
<1>4. ~(\E h \in N : h.fn = "set" /\ h.obj = Root /\ h.arg = "DISCARDED")
  BY DEF Meek, Winds, Ended
<1>5. ~Ending(Completion, F)
  BY DEF Modest, Ending
<1>6. ~Has("except_end", F) /\ ~Has("dismiss_completion", F)
  BY DEF Modest, Has
<1>7. (\A g \in F : g.fn \in {"except_cancelled"} \cup Worked) /\ Has("except_cancelled", R) => N = {}
  OBVIOUS
<1>8. Has("except_end", N \cup R) => Has("except_end", R)
  BY <1>2, Joint
<1>. QED
  BY <1>1, <1>2, <1>3, <1>4, <1>5, <1>6, <1>7, <1>8 DEF Swap

LEMMA SwapMeek ==
  ASSUME NEW F, F # {}, NEW N, NEW R, NEW st, NEW ps, NEW ok,
         \A f \in F : Tame(f), \A h \in N : Meek(h),
         \A h \in N : Needs(h, st) /\ Serves(h, st, ps, ok),
         \A c \in Comp : Open(c, st) /\ Doomed(c, F) => Doomed(c, N),
         \A c \in Comp : Open(c, st) /\ Doomed(c, N) =>
           \/ Doomed(c, F)
           \/ /\ Parent[c] \in Comp /\ st[Parent[c]] = "NEW" => Doomed(Parent[c], N)
              /\ \A b \in Comp : Ordered!Precedes(b, c) => ~Open(b, st) \/ Doomed(b, N),
         \A c \in Comp : Ending(c, N) => \A d \in Components(c) : Open(d, st) => Doomed(d, N),
         Doomed(Completion, N) => Winding(F \cup R, st, ps, ok),
         \A c \in Components(Completion) : ToStart(c, F) => ToStart(c, N) \/ Doomed(c, N),
         (\E h \in N : InCompletion(h)) =>
           \/ \E g \in F \cup R : InCompletion(g)
           \/ ~Has("except_end", R)
           \/ Leaving(N, st),
         (\E f \in F : f.fn = "except_activate" /\ f.obj = Completion) =>
           Leaving(N, st) \/ ~\E h \in N \cup R : InCompletion(h)
  PROVE  Swap(F, N, R, st, ps, ok)
<1>1. \A f \in F : Modest(f)
  BY DEF Tame
<1>2. ~\A f \in F : f.fn \in {"except_cancelled"} \cup Worked
  BY DEF Tame
<1>. QED
  BY <1>1, <1>2, SwapModest

LEMMA SwapMild ==
  ASSUME NEW f, NEW N, NEW R, NEW st, NEW ps, NEW ok, Tame(f), f.fn # "except_activate",
         \A h \in N : Mild(h),
         \A h \in N : Needs(h, st) /\ Serves(h, st, ps, ok),
         \A c \in Comp : Open(c, st) /\ Cancels(f, c) => Doomed(c, N),
         \A c \in Comp : Open(c, st) /\ Doomed(c, N) =>
           \/ Cancels(f, c)
           \/ /\ Parent[c] \in Comp /\ st[Parent[c]] = "NEW" => Doomed(Parent[c], N)
              /\ \A b \in Comp : Ordered!Precedes(b, c) => ~Open(b, st) \/ Doomed(b, N),
         \A c \in Comp : Ending(c, N) => \A d \in Components(c) : Open(d, st) => Doomed(d, N),
         Doomed(Completion, N) => Winding({f} \cup R, st, ps, ok),
         \A c \in Components(Completion) : Starts(f, c) => ToStart(c, N) \/ Doomed(c, N)
  PROVE  Swap({f}, N, R, st, ps, ok)
<1>1. /\ \A c : Doomed(c, {f}) <=> Cancels(f, c)
      /\ \A c : ToStart(c, {f}) <=> Starts(f, c)
  BY Lone
<1>2. (\A h \in N : Meek(h)) /\ ~(\E h \in N : InCompletion(h))
  BY DEF Mild
<1>. QED
  BY <1>1, <1>2, SwapMeek

\* Calls that neither cancel nor end a component
Harmless(h) == ~Canceller(h) /\ ~(h.fn = "set" /\ h.obj \in Comp)

\* Harmless calls cancel and end nothing.
LEMMA NoHarm ==
  ASSUME NEW N, \A h \in N : Harmless(h)
  PROVE  \A c \in Comp : ~Doomed(c, N) /\ ~Ending(c, N)
BY DEF Harmless, Canceller, Doomed, Ending, Cancels

LEMMA Two ==
  ASSUME NEW x, NEW y
  PROVE  /\ \A c : Doomed(c, {x, y}) <=> Cancels(x, c) \/ Cancels(y, c)
         /\ \A c : Ending(c, {x, y}) <=> Ending(c, {x}) \/ Ending(c, {y})
         /\ \A c : ToStart(c, {x, y}) <=> Starts(x, c) \/ Starts(y, c)
         /\ \A fn : Has(fn, {x, y}) <=> x.fn = fn \/ y.fn = fn
BY DEF Doomed, Ending, ToStart, Has

\* A call that may be made in the place of any other but an end of the process
LEMMA RestsPlain ==
  ASSUME NEW x, NEW h, h.fn # "except_end",
         x.fn \notin {"activate_task", "raise", "except_activate", "activate_next", "except_next",
                      "activate_tasks", "activate_each", "activate_first", "except_first"}
  PROVE  Rests(x, h)
BY DEF Rests, OfCompletion

\* What is directly below f may be directly below x.
LEMMA RestsAlso ==
  ASSUME NEW f, NEW x, NEW h, Rests(f, h), f.fn # "raise", ~OfCompletion(f),
         x.fn \notin {"activate_task", "raise", "except_activate", "activate_next", "except_next",
                      "activate_tasks", "activate_each", "activate_first", "except_first"}
  PROVE  Rests(x, h)
<1>1. h.fn # "except_end"
  BY DEF Rests
<1>. QED
  BY <1>1, RestsPlain
-----------------------------------------------------------------------------
(* Cancelling *)

\* Components of a group; a task has none
LEMMA PartsIn ==
  ASSUME NEW g, NEW c \in Components(g)
  PROVE  c \in Comp /\ c # Completion /\ Parent[c] = g
BY DEF Components

LEMMA TaskAlone == ASSUME NEW t \in Task PROVE Components(t) = {}
BY TreeAssumption DEF Components, Task, TaskKind, GroupKind

\* Components in order are components of the same group.
LEMMA Before ==
  ASSUME NEW b \in Comp, NEW c \in Comp, Ordered!Precedes(b, c)
  PROVE  b \in Components(Parent[c]) /\ c \in Components(Parent[b]) /\ Parent[b] = Parent[c]
BY DEF Ordered!Precedes, Components

\* cancel_task of a task ends it; a group cancels what is below it first.
LEMMA CancelTaskNormal ==
  ASSUME NEW f, NEW r, NEW st \in [Comp -> CompStatus], NEW ps, NEW ok, On(f, r, st, ps, ok),
         f.fn = "cancel_task", Rooted
  PROVE  /\ f.obj \in Task => Normal(<<Set(f.obj, "DISCARDED")>> \o r, st, ps, ok)
         /\ f.obj \in Comp \ Task =>
              Normal(<<Do("cancel_subtasks", f.obj, None), Set(f.obj, "DISCARDED")>> \o r, st, ps, ok)
<1>. DEFINE c == f.obj
            x == Do("cancel_subtasks", c, None)
            y == Set(c, "DISCARDED")
            R == Frames(r)
<1>1. f \in Call /\ r \in Seq(Call) /\ Shape(r) /\ (\A h \in R : Bears(f, h))
      /\ (r # <<>> => Rests(f, Head(r))) /\ Law({f} \cup R, st, ps, ok)
  BY DEF On
<1>2. c \in Comp /\ Open(c, st)
  BY <1>1 DEF Law, Needs
<1>3. x \in Call /\ y \in Call
  BY <1>2, DoCall, SetCall, Args DEF Fn, JobFn, DbFn, CompStatus
<1>4. /\ x.fn = "cancel_subtasks" /\ x.obj = c /\ y.fn = "set" /\ y.obj = c /\ y.arg = "DISCARDED"
      /\ x.arg = None
  BY DEF Do, Set
<1>5. c # Root
  BY <1>2, TreeAssumption
<1>. HIDE DEF x, y
<1>6. Activates(f) /\ Activates(x) /\ Activates(y) /\ Single(f) /\ ~Multiple(y)
  BY <1>2, <1>4 DEF Activates, Single, Multiple
<1>7. \A d \in Comp : Clear(f, d) => Clear(x, d) /\ Clear(y, d)
  BY <1>4, <1>6 DEF Clear, Single
<1>8. ~OfCompletion(x) /\ ~OfCompletion(y) /\ ~OfCompletion(f)
  BY <1>4 DEF OfCompletion
<1>9. \A h \in R : Bears(x, h) /\ Bears(y, h)
  BY <1>1, <1>2, <1>4, <1>6, <1>7, <1>8, BearsLike DEF Canceller
<1>10. Atop(y, r)
  BY <1>1, <1>3, <1>4, <1>8, <1>9, RestsAlso DEF Atop
<1>11. Rests(x, y)
  BY <1>4, RestsPlain
<1>12. Bears(x, y)
  <2>1. \A d \in Comp : Keeps(y, d) => Clear(x, d)
    <3>1. \A d : Keeps(y, d) => d = c
      BY <1>4 DEF Keeps, Tell, Told
    <3>2. Depth[c] <= Depth[c]
      BY <1>2, DeeperThanParent
    <3>. QED
      BY <1>4, <3>1, <3>2 DEF Clear, Single
  <2>. QED
    BY <1>2, <1>4, <1>5, <1>8, <2>1 DEF Bears, Canceller, Lowest, Worked, Tell, Told, OfProcess, Set, Do
<1>13. Tame(f) /\ Mild(x) /\ Mild(y)
  BY <1>4, <1>5 DEF Tame, Modest, Mild, Meek, Winds, InCompletion, Worked, Tell, Told
<1>14. /\ Needs(x, st) /\ Serves(x, st, ps, ok)
       /\ Needs(y, st) /\ Serves(y, st, ps, ok)
  BY <1>2, <1>4, <1>5 DEF Needs, Serves, GoesOn, Tell, Told
<1>15. \A d : Cancels(f, d) <=> d = c
  BY DEF Cancels
<1>16. \A d : Cancels(y, d) <=> d = c
  BY <1>4 DEF Cancels
<1>17. \A d : Cancels(x, d) <=> d \in Components(c)
  BY <1>4 DEF Cancels
<1>18. \A d : ~Starts(f, d)
  BY DEF Starts
<1>19. c = Completion => Winding({f} \cup R, st, ps, ok)
  BY <1>15 DEF Winding, Doomed
<1>20. ASSUME c \in Task PROVE Swap({f}, {y}, R, st, ps, ok)
  <2>1. \A d : (Doomed(d, {y}) <=> d = c) /\ (Ending(d, {y}) => d = c)
    BY <1>4, <1>16, Lone
  <2>2. Components(c) = {}
    BY <1>20, TaskAlone
  <2>. QED
    BY <1>13, <1>14, <1>15, <1>18, <1>19, <2>1, <2>2, SwapMild
<1>21. Swap({f}, {x, y}, R, st, ps, ok)
  <2>1. \A d : (Doomed(d, {x, y}) <=> d = c \/ d \in Components(c)) /\ (Ending(d, {x, y}) => d = c)
    BY <1>4, <1>16, <1>17, Lone, Two
  <2>2. ASSUME NEW d \in Comp, d \in Components(c)
        PROVE  /\ Parent[d] \in Comp /\ st[Parent[d]] = "NEW" => Doomed(Parent[d], {x, y})
               /\ \A b \in Comp : Ordered!Precedes(b, d) => ~Open(b, st) \/ Doomed(b, {x, y})
    BY <2>1, <2>2, PartsIn, Before
  <2>3. Completion \notin Components(c)
    BY PartsIn
  <2>. HIDE DEF R
  <2>4. \A h \in {x, y} : Mild(h) /\ Needs(h, st) /\ Serves(h, st, ps, ok)
    BY <1>13, <1>14
  <2>5. \A d \in Comp : Open(d, st) /\ Cancels(f, d) => Doomed(d, {x, y})
    BY <1>15, <2>1
  <2>6. \A d \in Comp : Open(d, st) /\ Doomed(d, {x, y}) =>
           \/ Cancels(f, d)
           \/ /\ Parent[d] \in Comp /\ st[Parent[d]] = "NEW" => Doomed(Parent[d], {x, y})
              /\ \A b \in Comp : Ordered!Precedes(b, d) => ~Open(b, st) \/ Doomed(b, {x, y})
    BY <1>15, <2>1, <2>2
  <2>7. \A d \in Comp : Ending(d, {x, y}) => \A e \in Components(d) : Open(e, st) => Doomed(e, {x, y})
    BY <2>1
  <2>8. Doomed(Completion, {x, y}) => Winding({f} \cup R, st, ps, ok)
    BY <1>19, <2>1, <2>3
  <2>9. \A d \in Components(Completion) : Starts(f, d) => ToStart(d, {x, y}) \/ Doomed(d, {x, y})
    BY <1>18
  <2>. QED
    BY <1>13, <2>4, <2>5, <2>6, <2>7, <2>8, <2>9, SwapMild
<1>22. f.obj \in Task => Normal(<<y>> \o r, st, ps, ok)
  BY <1>10, <1>20, Become1
<1>23. Normal(<<x, y>> \o r, st, ps, ok)
  BY <1>3, <1>9, <1>10, <1>11, <1>12, <1>21, Become2
<1>. QED
  BY <1>22, <1>23 DEF x, y

\* cancel_subtasks cancels each component that is new or runs,
LEMMA CancelSubtasksNormal ==
  ASSUME NEW f, NEW r, NEW st \in [Comp -> CompStatus], NEW ps, NEW ok, On(f, r, st, ps, ok),
         f.fn = "cancel_subtasks", f.obj \in Comp \cup {Root},
         NEW S, S = {c \in Components(f.obj) : Open(c, st)}
  PROVE  Normal(<<Each("cancel_each", f.obj, S)>> \o r, st, ps, ok)
<1>. DEFINE g == f.obj
            x == Each("cancel_each", g, S)
            R == Frames(r)
<1>1. f \in Call /\ r \in Seq(Call) /\ Shape(r) /\ (\A h \in R : Bears(f, h))
      /\ (r # <<>> => Rests(f, Head(r))) /\ Law({f} \cup R, st, ps, ok)
  BY DEF On
<1>2. S \in SUBSET Comp /\ S \subseteq Components(g) /\ \A c \in S : Open(c, st)
  BY DEF Components
<1>3. x \in Call
  BY <1>2, EachCall DEF Fn, JobFn, DbFn
<1>4. x.fn = "cancel_each" /\ x.obj = g /\ x.todo = S
  BY DEF Each
<1>. HIDE DEF x
<1>5. Activates(f) /\ Activates(x) /\ Multiple(f)
  BY <1>4 DEF Activates, Multiple
<1>6. \A d \in Comp : Clear(f, d) => Clear(x, d)
  BY <1>4 DEF Clear, Single
<1>7. ~OfCompletion(x) /\ ~OfCompletion(f)
  BY <1>4 DEF OfCompletion
<1>8. \A h \in R : Bears(x, h)
  BY <1>1, <1>4, <1>5, <1>6, <1>7, BearsLike DEF Canceller
<1>9. Atop(x, r)
  BY <1>1, <1>3, <1>4, <1>7, <1>8, RestsAlso DEF Atop
<1>10. Tame(f) /\ Mild(x)
  BY <1>4 DEF Tame, Modest, Mild, Meek, Winds, InCompletion, Worked, Tell, Told
<1>11. Needs(x, st) /\ Serves(x, st, ps, ok)
  BY <1>2, <1>4 DEF Needs, Serves, GoesOn, Tell, Told
<1>12. \A d : Cancels(f, d) <=> d \in Components(g)
  BY DEF Cancels
<1>13. \A d : (Doomed(d, {x}) <=> d \in S) /\ ~Ending(d, {x})
  BY <1>4, Lone DEF Cancels
<1>14. \A d : ~Starts(f, d)
  BY DEF Starts
<1>15. Completion \notin S
  BY <1>2, PartsIn
<1>16. \A h \in {x} : Mild(h) /\ Needs(h, st) /\ Serves(h, st, ps, ok)
  BY <1>10, <1>11
<1>17. \A d \in Comp : Open(d, st) /\ Cancels(f, d) => Doomed(d, {x})
  BY <1>12, <1>13
<1>18. \A d \in Comp : Doomed(d, {x}) => Cancels(f, d)
  BY <1>2, <1>12, <1>13
<1>19. Swap({f}, {x}, R, st, ps, ok)
  BY <1>10, <1>13, <1>14, <1>15, <1>16, <1>17, <1>18, SwapMild
<1>. HIDE DEF g, R
<1>20. Normal(<<x>> \o r, st, ps, ok)
  BY <1>9, <1>19, Become1 DEF R
<1>. QED
  BY <1>20 DEF x, g

\* A call returns and has left nothing to do.
LEMMA Drop ==
  ASSUME NEW f, NEW r, NEW st \in [Comp -> CompStatus], NEW ps, NEW ok, On(f, r, st, ps, ok),
         f.fn \notin {"except_end", "dismiss_completion"}, f.fn = "set" => f.obj = Root,
         \A c \in Comp : Open(c, st) => ~Cancels(f, c),
         \A c \in Components(Completion) : ~Starts(f, c)
  PROVE  Normal(r, st, ps, ok)
<1>1. \A c : ~Doomed(c, {}) /\ ~Ending(c, {}) /\ ~ToStart(c, {})
  BY Lone
<1>2. \A fn : ~Has(fn, {})
  BY Lone
<1>3. /\ \A c : Doomed(c, {f}) <=> Cancels(f, c)
      /\ ~Ending(Completion, {f})
      /\ \A c : ToStart(c, {f}) <=> Starts(f, c)
      /\ ~Has("except_end", {f}) /\ ~Has("dismiss_completion", {f})
  BY Lone, TreeAssumption
<1>4. Completion \in Comp
  BY TreeAssumption
<1>5. f.fn = "except_activate" /\ f.obj = Completion => ~\E h \in Frames(r) : InCompletion(h)
  <2>1. SUFFICES ASSUME f.fn = "except_activate", f.obj = Completion, NEW h \in Frames(r), InCompletion(h)
                 PROVE  FALSE
    OBVIOUS
  <2>2. h.fn \in {"except_end", "except_cancelled"} \cup Worked
    BY <2>1 DEF On, Bears, OfCompletion
  <2>. QED
    BY <2>1, <2>2 DEF InCompletion, Worked
<1>6. {} \cup Frames(r) = Frames(r)
  OBVIOUS
<1>7. Swap({f}, {}, Frames(r), st, ps, ok)
  BY <1>1, <1>2, <1>3, <1>4, <1>5, <1>6 DEF Swap
<1>. QED
  BY <1>7, Become0

\* one after the other.
LEMMA CancelEachNormal ==
  ASSUME NEW f, NEW r, NEW st \in [Comp -> CompStatus], NEW ps, NEW ok, On(f, r, st, ps, ok),
         f.fn = "cancel_each", f.obj \in Comp \cup {Root}, Rooted
  PROVE  /\ \A c \in f.todo :
              Normal(<<Do("cancel_task", c, None), Each("cancel_each", f.obj, f.todo \ {c})>> \o r,
                     st, ps, ok)
         /\ f.todo = {} => Normal(r, st, ps, ok)
<1>1. f.todo = {} => Normal(r, st, ps, ok)
  <2>1. (\A c : ~Starts(f, c)) /\ \A c : Cancels(f, c) => c \in f.todo
    BY DEF Starts, Cancels
  <2>. QED
    BY <2>1, Drop
<1>. SUFFICES ASSUME NEW c \in f.todo
     PROVE  Normal(<<Do("cancel_task", c, None), Each("cancel_each", f.obj, f.todo \ {c})>> \o r,
                   st, ps, ok)
  BY <1>1
<1>. DEFINE g == f.obj
            S == f.todo \ {c}
            x == Do("cancel_task", c, None)
            y == Each("cancel_each", g, S)
            R == Frames(r)
<1>2. f \in Call /\ r \in Seq(Call) /\ Shape(r) /\ (\A h \in R : Bears(f, h))
      /\ (r # <<>> => Rests(f, Head(r))) /\ Law({f} \cup R, st, ps, ok)
  BY DEF On
<1>3. f.todo \subseteq Components(g) /\ \A d \in f.todo : Open(d, st)
  BY <1>2 DEF Law, Needs
<1>4. /\ S \in SUBSET Comp /\ S \subseteq Components(g) /\ \A d \in S : Open(d, st)
      /\ c \in Comp /\ c \in Components(g) /\ Open(c, st)
  BY <1>3 DEF Components
<1>5. x \in Call /\ y \in Call
  BY <1>4, DoCall, EachCall, Args DEF Fn, JobFn, DbFn
<1>6. x.fn = "cancel_task" /\ x.obj = c /\ y.fn = "cancel_each" /\ y.obj = g /\ y.todo = S
  BY DEF Do, Each
<1>7. f.todo = S \cup {c} /\ c \notin S
  OBVIOUS
<1>. HIDE DEF x, y, S
<1>8. Activates(f) /\ Activates(x) /\ Activates(y) /\ Multiple(f) /\ ~Single(f)
  BY <1>6 DEF Activates, Multiple, Single
<1>9. \A d \in Components(g) : d \in Comp /\ Depth[d] = Depth[g] + 1 /\ Depth[d] \in Nat /\ Depth[g] \in Nat
  BY PartsIn, Depths
<1>10. \A d \in Comp : Clear(f, d) => Clear(x, d) /\ Clear(y, d)
  <2>1. ASSUME NEW d \in Comp, Clear(f, d) PROVE Clear(x, d) /\ Clear(y, d)
    <3>1. Depth[d] <= Depth[g] /\ Depth[d] \in Nat
      BY <2>1, Depths DEF Clear
    <3>2. Depth[d] <= Depth[c] /\ d # c
      BY <1>4, <1>9, <3>1
    <3>. QED
      BY <1>6, <3>1, <3>2 DEF Clear, Single
  <2>. QED
    BY <2>1
<1>11. ~OfCompletion(x) /\ ~OfCompletion(y) /\ ~OfCompletion(f)
  BY <1>6 DEF OfCompletion
<1>12. \A h \in R : Bears(x, h) /\ Bears(y, h)
  BY <1>2, <1>6, <1>8, <1>10, <1>11, BearsLike DEF Canceller
<1>13. Atop(y, r)
  BY <1>2, <1>5, <1>6, <1>11, <1>12, RestsAlso DEF Atop
<1>14. Rests(x, y)
  BY <1>6, RestsPlain
<1>15. Bears(x, y)
  <2>1. \A d \in Comp : Keeps(y, d) => Clear(x, d)
    <3>1. \A d : Keeps(y, d) => d \in S
      BY <1>6 DEF Keeps, Tell, Told
    <3>2. \A d \in S : d # c /\ Depth[d] <= Depth[c]
      BY <1>4, <1>7, <1>9
    <3>. QED
      BY <1>6, <3>1, <3>2 DEF Clear, Single
  <2>. QED
    BY <1>6, <1>11, <2>1 DEF Bears, Canceller, Lowest, Worked, Tell, Told, OfProcess, Set, Do
<1>16. Tame(f) /\ Mild(x) /\ Mild(y)
  BY <1>6 DEF Tame, Modest, Mild, Meek, Winds, InCompletion, Worked, Tell, Told
<1>17. /\ Needs(x, st) /\ Serves(x, st, ps, ok)
       /\ Needs(y, st) /\ Serves(y, st, ps, ok)
  BY <1>4, <1>6 DEF Needs, Serves, GoesOn, Tell, Told
<1>18. \A d : Cancels(f, d) <=> d \in f.todo
  BY DEF Cancels
<1>19. \A d : (Doomed(d, {x, y}) <=> d \in f.todo) /\ ~Ending(d, {x, y})
  BY <1>6, <1>7, Two, Lone DEF Cancels
<1>20. \A d : ~Starts(f, d)
  BY DEF Starts
<1>21. Completion \notin f.todo
  BY <1>3, PartsIn
<1>22. \A h \in {x, y} : Mild(h) /\ Needs(h, st) /\ Serves(h, st, ps, ok)
  BY <1>16, <1>17
<1>23. Swap({f}, {x, y}, R, st, ps, ok)
  BY <1>16, <1>18, <1>19, <1>20, <1>21, <1>22, SwapMild
<1>24. Normal(<<x, y>> \o r, st, ps, ok)
  BY <1>5, <1>12, <1>13, <1>14, <1>15, <1>23, Become2
<1>. QED
  BY <1>24 DEF x, y, S

\* A call keeps what it relies on when a component it does not rely on changes.
LEMMA NeedsFrame ==
  ASSUME NEW h, NEW st, NEW su, NEW c, Needs(h, st), ~Keeps(h, c),
         h.fn \notin {"activate_task", "activate_tasks", "activate_first", "activate_process"},
         \A d \in Comp : d # c => su[d] = st[d]
  PROVE  Needs(h, su)
<1>1. h.fn = "set" /\ h.obj \in Comp => su[h.obj] = st[h.obj]
  BY DEF Keeps
<1>2. h.fn = "cancel_task" => h.obj \in Comp /\ su[h.obj] = st[h.obj]
  BY DEF Keeps, Needs
<1>3. h.fn \in {"cancel_each", "activate_each"} =>
        h.todo \subseteq Components(h.obj) /\ \A d \in h.todo : su[d] = st[d]
  BY DEF Keeps, Needs, Components
<1>4. h.fn = "activate_next" /\ h.arg \in Comp =>
        su[h.arg] = st[h.arg] /\ \A d \in Later(h.arg) : su[d] = st[d]
  BY DEF Keeps, Later
<1>5. h.fn \in {"except_first", "except_next"} =>
        h.arg \in Comp /\ \A d \in Later(h.arg) : su[d] = st[d]
  BY DEF Keeps, Needs, Later
<1>6. h.fn \in {"activate_each", "except_first", "except_activate", "except_sibling", "end_completion"} =>
        h.obj \in Comp /\ su[h.obj] = st[h.obj]
  BY DEF Keeps, Needs
<1>7. h.fn \in Tell =>
        /\ h.arg \in Comp /\ \A d \in Later(h.arg) : su[d] = st[d]
        /\ h.obj \in Comp => su[h.obj] = st[h.obj]
  BY DEF Keeps, Needs, Later, Tell
<1>. QED
  BY <1>1, <1>2, <1>3, <1>4, <1>5, <1>6, <1>7 DEF Needs, Open, New, Goes, Tell, Told

\* Most calls do not see a component change.
LEMMA ServesFrame ==
  ASSUME NEW h, NEW st, NEW su, NEW ps, NEW ok, Serves(h, st, ps, ok),
         GoesOn(h) => su[Completion] # "EXECUTION",
         h.fn = "set" /\ Gone(Completion, st) => Gone(Completion, su)
  PROVE  Serves(h, su, ps, ok)
BY DEF Serves

\* One component gets another status.
LEMMA Settled ==
  ASSUME NEW st \in [Comp -> CompStatus], NEW c \in Comp, NEW v \in CompStatus
  PROVE  LET su == [st EXCEPT ![c] = v]
         IN  /\ su \in [Comp -> CompStatus] /\ su[c] = v
             /\ \A d \in Comp : d # c => su[d] = st[d]
OBVIOUS

\* A component ends.
LEMMA SetDown ==
  ASSUME NEW f, NEW r, NEW st \in [Comp -> CompStatus], NEW ps, NEW ok, On(f, r, st, ps, ok),
         f.fn = "set", f.obj \in Comp
  PROVE  Normal(r, [st EXCEPT ![f.obj] = f.arg], ps, ok)
<1>. DEFINE c == f.obj
            v == f.arg
            su == [st EXCEPT ![c] = v]
            R == Frames(r)
            K == {f} \cup R
<1>1. Shape(r) /\ (\A h \in R : Bears(f, h)) /\ Law(K, st, ps, ok)
  BY DEF On
<1>2. /\ c \in Comp
      /\ \/ v \in {"COMPLETED", "REJECTED"} /\ st[c] = "EXECUTION"
         \/ v = "DISCARDED" /\ Open(c, st)
  BY <1>1 DEF Law, Needs
<1>3. su \in [Comp -> CompStatus] /\ su[c] = v /\ \A d \in Comp : d # c => su[d] = st[d]
  BY <1>2, Settled DEF CompStatus
<1>. HIDE DEF su
<1>4. Open(c, st) /\ Gone(c, su) /\ v \in Terminal
  BY <1>2, <1>3 DEF Open, Gone, Terminal
<1>5. \A d : Cancels(f, d) <=> d = c /\ v = "DISCARDED"
  BY DEF Cancels
<1>6. /\ \A d : Doomed(d, K) <=> Cancels(f, d) \/ Doomed(d, R)
      /\ \A d : Ending(d, K) <=> d = c \/ Ending(d, R)
      /\ \A d : ToStart(d, K) <=> ToStart(d, R)
      /\ \A fn : fn # "set" => (Has(fn, K) <=> Has(fn, R))
  <2>1. /\ \A d : Doomed(d, {f}) <=> Cancels(f, d)
        /\ \A d : Ending(d, {f}) <=> d = c
        /\ \A d : ~ToStart(d, {f})
        /\ \A fn : fn # "set" => ~Has(fn, {f})
    BY <1>4, Lone DEF Starts
  <2>. QED
    BY <2>1, Joint
<1>7. \A h : h \in K <=> h = f \/ h \in R
  OBVIOUS
<1>. HIDE DEF K
<1>8. \A d \in Comp : Open(d, su) => d # c /\ Open(d, st) /\ (Doomed(d, K) <=> Doomed(d, R))
  BY <1>3, <1>4, <1>5, <1>6 DEF Open, Gone, Terminal
<1>9. st[c] = "NEW" => v = "DISCARDED" /\ Doomed(c, K)
  BY <1>2, <1>5, <1>6
<1>10. Completion \in Comp
  BY TreeAssumption
<1>11. /\ Gone(Completion, st) => Gone(Completion, su)
       /\ st[Completion] # "EXECUTION" => su[Completion] # "EXECUTION"
       /\ su[Completion] = "EXECUTION" => st[Completion] = "EXECUTION"
       /\ st[Completion] # "NEW" => su[Completion] # "NEW"
       /\ c = Completion => Gone(Completion, su)
  BY <1>3, <1>4, <1>10 DEF Gone, Terminal
<1>12. ASSUME NEW h \in R PROVE Needs(h, su) /\ Serves(h, su, ps, ok)
  <2>1. Needs(h, st) /\ Serves(h, st, ps, ok) /\ Bears(f, h)
    BY <1>1, <1>7, <1>12 DEF Law
  <2>2. ~Keeps(h, c)
    BY <1>2, <2>1 DEF Bears, Single, Clear
  <2>3. h.fn \notin {"activate_task", "activate_tasks", "activate_first", "activate_process"}
    BY <2>1 DEF Bears
  <2>4. Needs(h, su)
    BY <1>3, <2>1, <2>2, <2>3, NeedsFrame
  <2>5. Serves(h, su, ps, ok)
    BY <1>11, <2>1 DEF Serves
  <2>. QED
    BY <2>4, <2>5
<1>13. NoOrphan(R, su)
  <2>1. SUFFICES ASSUME NEW d \in Comp, Open(d, su), Parent[d] \in Comp,
                        Gone(Parent[d], su) \/ Ending(Parent[d], R)
                 PROVE  Doomed(d, R)
    BY DEF NoOrphan
  <2>2. Gone(Parent[d], st) \/ Ending(Parent[d], K)
    BY <1>3, <1>6, <2>1 DEF Gone
  <2>3. Doomed(d, K)
    BY <1>1, <1>8, <2>1, <2>2 DEF Law, NoOrphan
  <2>. QED
    BY <1>8, <2>1, <2>3
<1>14. NewBelow(R, su)
  <2>1. SUFFICES ASSUME NEW d \in Comp, Parent[d] \in Comp, su[Parent[d]] = "NEW"
                 PROVE  /\ su[d] \in {"NEW", "DISCARDED"}
                        /\ su[d] = "DISCARDED" \/ Doomed(d, R) => Doomed(Parent[d], R)
    BY DEF NewBelow
  <2>2. Open(Parent[d], su)
    BY <2>1 DEF Open
  <2>3. Parent[d] # c /\ st[Parent[d]] = "NEW" /\ (Doomed(Parent[d], K) <=> Doomed(Parent[d], R))
    BY <1>3, <1>8, <2>1, <2>2
  <2>4. /\ st[d] \in {"NEW", "DISCARDED"}
        /\ st[d] = "DISCARDED" \/ Doomed(d, K) => Doomed(Parent[d], K)
    BY <1>1, <2>1, <2>3 DEF Law, NewBelow
  <2>5. CASE d = c
    BY <1>3, <1>4, <1>9, <2>3, <2>4, <2>5 DEF Open
  <2>6. CASE d # c
    BY <1>3, <1>6, <2>3, <2>4, <2>6
  <2>. QED
    BY <2>5, <2>6
<1>15. InLine(R, su)
  <2>1. SUFFICES ASSUME NEW b \in Comp, NEW d \in Comp, Ordered!Precedes(b, d), Open(b, su),
                        ~Doomed(b, R)
                 PROVE  su[d] = "NEW" /\ ~Doomed(d, R)
    BY DEF InLine
  <2>2. Open(b, st) /\ ~Doomed(b, K)
    BY <1>8, <2>1
  <2>3. st[d] = "NEW" /\ ~Doomed(d, K)
    BY <1>1, <2>1, <2>2 DEF Law, InLine
  <2>. QED
    BY <1>3, <1>6, <1>9, <2>3
<1>16. WindsUp(R, su, ps, ok)
  <2>1. SUFFICES ASSUME Winding(R, su, ps, ok), NEW d \in Components(Root), Open(d, su)
                 PROVE  Doomed(d, R)
    BY DEF WindsUp
  <2>2. d \in Comp /\ Open(d, st) /\ (Doomed(d, K) <=> Doomed(d, R))
    BY <1>8, <2>1, PartsIn
  <2>3. Winding(K, st, ps, ok)
    <3>1. su[Completion] # "NEW" => st[Completion] # "NEW" \/ Doomed(Completion, K)
      BY <1>3, <1>9, <1>10
    <3>2. Doomed(Completion, R) => Doomed(Completion, K)
      BY <1>6
    <3>. QED
      BY <1>7, <2>1, <3>1, <3>2 DEF Winding
  <2>. QED
    BY <1>1, <2>1, <2>2, <2>3 DEF Law, WindsUp
<1>17. AllStarted(R, su)
  <2>1. SUFFICES ASSUME su[Completion] = "EXECUTION", NEW d \in Components(Completion), su[d] = "NEW"
                 PROVE  Doomed(d, R) \/ ToStart(d, R)
    BY DEF AllStarted
  <2>2. d \in Comp /\ Open(d, su)
    BY <2>1, PartsIn DEF Open
  <2>3. st[d] = "NEW" /\ st[Completion] = "EXECUTION"
    BY <1>3, <1>8, <1>11, <2>1, <2>2
  <2>. QED
    BY <1>1, <1>6, <1>8, <2>2, <2>3 DEF Law, AllStarted
<1>18. NoneLeft(R, su)
  <2>1. SUFFICES ASSUME Has("end_completion", R), NEW d \in Components(Completion), Open(d, su)
                 PROVE  Doomed(d, R)
    BY DEF NoneLeft
  <2>. QED
    BY <1>1, <1>6, <1>8, <2>1, PartsIn DEF Law, NoneLeft
<1>19. MainGone(su)
  BY <1>1, <1>8, <1>11 DEF Law, MainGone, Main
<1>20. EndedWell(su, ps, ok)
  BY <1>1, <1>11 DEF Law, EndedWell
<1>21. Leaving(K, st) => Leaving(R, su)
  <2>1. Doomed(Completion, K) => Doomed(Completion, R) \/ c = Completion
    BY <1>5, <1>6
  <2>2. Ending(Completion, K) => Ending(Completion, R) \/ c = Completion
    BY <1>6
  <2>. QED
    BY <1>11, <2>1, <2>2 DEF Leaving
<1>22. EndTried(R, su)
  <2>1. EndTried(K, st)
    BY <1>1 DEF Law
  <2>2. ASSUME Has("except_end", R), NEW g \in R, InCompletion(g)
        PROVE  Leaving(R, su) \/ \E k \in R : k.fn = "except_activate" /\ k.obj = Completion
    <3>1. Has("except_end", K) /\ g \in K
      BY <1>6, <1>7, <2>2
    <3>2. Leaving(K, st) \/ \E k \in K : k.fn = "except_activate" /\ k.obj = Completion
      BY <2>1, <2>2, <3>1 DEF EndTried
    <3>. QED
      BY <1>7, <1>21, <3>2
  <2>3. \A g \in R : g.fn \in Tell /\ g.obj = Root /\ g.arg = Completion => Leaving(R, su)
    BY <1>7, <1>21, <2>1 DEF EndTried
  <2>4. (\E g \in R : g.fn = "activate_task" /\ g.obj = Completion) => Has("except_end", R)
    BY <1>6, <1>7, <2>1 DEF EndTried
  <2>. QED
    BY <2>2, <2>3, <2>4 DEF EndTried
<1>23. Dismisses(R, su)
  <2>1. Dismisses(K, st)
    BY <1>1 DEF Law
  <2>2. Doomed(Completion, K) => Doomed(Completion, R) \/ c = Completion
    BY <1>5, <1>6
  <2>. QED
    BY <1>6, <1>7, <1>11, <2>1, <2>2 DEF Dismisses
<1>24. Starter(R, su)
  <2>1. Starter(K, st)
    BY <1>1 DEF Law
  <2>. QED
    BY <1>6, <1>7, <1>11, <2>1 DEF Starter
<1>25. Law(R, su, ps, ok)
  BY <1>12, <1>13, <1>14, <1>15, <1>16, <1>17, <1>18, <1>19, <1>20, <1>22, <1>23, <1>24 DEF Law
<1>. QED
  BY <1>1, <1>25 DEF Normal, su
-----------------------------------------------------------------------------
(* Starting *)

\* A component starts: the calls of N take the place of activate_task.
LEMMA StartLaw ==
  ASSUME NEW f, NEW r, NEW st \in [Comp -> CompStatus], NEW ps, NEW ok, On(f, r, st, ps, ok),
         f.fn = "activate_task", NEW N,
         \A b \in Comp : Ordered!Precedes(b, f.obj) => ~Open(b, st),
         \A h \in N : h.fn \in {"activate_first", "activate_each", "except_activate"},
         \A h \in N : /\ Needs(h, [st EXCEPT ![f.obj] = "EXECUTION"])
                      /\ Serves(h, [st EXCEPT ![f.obj] = "EXECUTION"], ps, ok),
         f.obj = Completion =>
           /\ \A d \in Components(Completion) : ToStart(d, N)
           /\ \E h \in N : h.fn = "except_activate" /\ h.obj = Completion
           /\ \A d \in Main : ~Open(d, st)
  PROVE  Law(N \cup Frames(r), [st EXCEPT ![f.obj] = "EXECUTION"], ps, ok)
<1>. DEFINE c == f.obj
            su == [st EXCEPT ![c] = "EXECUTION"]
            R == Frames(r)
            K == {f} \cup R
            L == N \cup R
<1>1. (\A h \in R : Bears(f, h)) /\ Law(K, st, ps, ok)
  BY DEF On
<1>2. c \in Comp /\ st[c] = "NEW" /\ Goes(Parent[c], st)
  BY <1>1 DEF Law, Needs
<1>3. su \in [Comp -> CompStatus] /\ su[c] = "EXECUTION" /\ \A d \in Comp : d # c => su[d] = st[d]
  BY <1>2, Settled DEF CompStatus
<1>4. \A h \in N : Needs(h, su) /\ Serves(h, su, ps, ok)
  OBVIOUS
<1>. HIDE DEF su
<1>5. \A h \in R : ~Canceller(h)
  <2>1. ~Canceller(f) /\ f.fn # "set"
    BY DEF Canceller
  <2>. QED
    BY <1>1, <2>1 DEF Bears
<1>6. /\ \A d \in Comp : ~Doomed(d, K) /\ ~Doomed(d, L)
      /\ \A d : Ending(d, L) <=> Ending(d, K)
  <2>1. \A h \in K \cup L : ~Canceller(h)
    BY <1>5 DEF Canceller
  <2>2. \A d \in Comp : \A h : ~Canceller(h) => ~Cancels(h, d)
    BY DEF Canceller, Cancels
  <2>3. \A h \in N \cup {f} : h.fn # "set"
    OBVIOUS
  <2>4. \A d : Ending(d, L) <=> Ending(d, K)
    BY <2>3 DEF Ending
  <2>. QED
    BY <2>1, <2>2, <2>4 DEF Doomed
<1>7. \A d \in Comp \ {c} : ToStart(d, K) => ToStart(d, L)
  BY DEF ToStart, Starts
<1>8. /\ \A h \in R : h \in K /\ h \in L
      /\ \A h \in L : h \in N \/ h \in R
      /\ \A h \in K : h = f \/ h \in R
      /\ \A h \in N : h \in L
      /\ f \in K
  OBVIOUS
<1>9. \A d \in Comp : Open(d, su) => Open(d, st)
  BY <1>2, <1>3 DEF Open
<1>10. Completion \in Comp
  BY TreeAssumption
<1>11. ASSUME NEW h \in R PROVE Needs(h, su) /\ Serves(h, su, ps, ok)
  <2>1. Needs(h, st) /\ Serves(h, st, ps, ok) /\ Bears(f, h)
    BY <1>1, <1>8, <1>11 DEF Law
  <2>2. ~Keeps(h, c)
    BY <1>2, <2>1 DEF Bears, Single, Clear
  <2>3. h.fn \notin {"activate_task", "activate_tasks", "activate_first", "activate_process"}
    BY <2>1 DEF Bears
  <2>4. Needs(h, su)
    BY <1>3, <2>1, <2>2, <2>3, NeedsFrame
  <2>5. c = Completion => h.fn \in {"except_end", "except_cancelled"} \cup Worked
    BY <2>1 DEF Bears, OfCompletion
  <2>6. c = Completion => ~GoesOn(h) /\ h.fn # "set"
    BY <2>5 DEF GoesOn, Worked, Told
  <2>7. c # Completion => su[Completion] = st[Completion]
    BY <1>3, <1>10
  <2>8. Serves(h, su, ps, ok)
    <3>1. GoesOn(h) => su[Completion] # "EXECUTION"
      BY <2>1, <2>6, <2>7 DEF Serves
    <3>2. h.fn = "set" /\ Gone(Completion, st) => Gone(Completion, su)
      BY <2>6, <2>7 DEF Gone
    <3>. QED
      BY <2>1, <3>1, <3>2, ServesFrame
  <2>. QED
    BY <2>4, <2>8
<1>12. \A h \in L : Needs(h, su) /\ Serves(h, su, ps, ok)
  BY <1>4, <1>8, <1>11
<1>13. /\ NoOrphan(K, st) /\ NewBelow(K, st) /\ InLine(K, st) /\ WindsUp(K, st, ps, ok)
       /\ AllStarted(K, st) /\ NoneLeft(K, st) /\ MainGone(st) /\ EndedWell(st, ps, ok)
       /\ EndTried(K, st) /\ Dismisses(K, st) /\ Starter(K, st)
  BY <1>1 DEF Law
<1>. HIDE DEF K, L
<1>14. NoOrphan(L, su)
  <2>1. SUFFICES ASSUME NEW d \in Comp, Open(d, su), Parent[d] \in Comp,
                        Gone(Parent[d], su) \/ Ending(Parent[d], L)
                 PROVE  FALSE
    BY DEF NoOrphan
  <2>2. Gone(Parent[d], st) \/ Ending(Parent[d], K)
    BY <1>3, <1>6, <2>1 DEF Gone, Terminal
  <2>. QED
    BY <1>6, <1>9, <1>13, <2>1, <2>2 DEF NoOrphan
<1>15. NewBelow(L, su)
  <2>1. SUFFICES ASSUME NEW d \in Comp, Parent[d] \in Comp, su[Parent[d]] = "NEW"
                 PROVE  su[d] = "NEW"
    BY <1>6 DEF NewBelow
  <2>2. Parent[d] # c /\ st[Parent[d]] = "NEW"
    BY <1>3, <2>1
  <2>3. d # c
    BY <1>2, <2>1, <2>2 DEF Goes
  <2>. QED
    BY <1>3, <1>6, <1>13, <2>1, <2>2, <2>3 DEF NewBelow
<1>16. InLine(L, su)
  <2>1. SUFFICES ASSUME NEW b \in Comp, NEW d \in Comp, Ordered!Precedes(b, d), Open(b, su)
                 PROVE  su[d] = "NEW"
    BY <1>6 DEF InLine
  <2>2. Open(b, st) /\ d # c
    BY <1>9, <2>1
  <2>3. st[d] = "NEW"
    BY <1>6, <1>13, <2>1, <2>2 DEF InLine
  <2>. QED
    BY <1>3, <2>2, <2>3
<1>17. WindsUp(L, su, ps, ok)
  <2>1. SUFFICES ASSUME Winding(L, su, ps, ok), NEW d \in Components(Root), Open(d, su)
                 PROVE  FALSE
    BY DEF WindsUp
  <2>2. d \in Comp /\ Open(d, st)
    BY <1>9, <2>1, PartsIn
  <2>3. \A h \in N : ~Winds(h)
    BY DEF Winds
  <2>4. su[Completion] # "NEW" => st[Completion] # "NEW" \/ Winds(f)
    BY <1>3, <1>10 DEF Winds
  <2>5. Winding(K, st, ps, ok)
    BY <1>6, <1>8, <1>10, <2>1, <2>3, <2>4 DEF Winding
  <2>. QED
    BY <1>6, <1>13, <2>1, <2>2, <2>5 DEF WindsUp
<1>18. AllStarted(L, su)
  <2>1. SUFFICES ASSUME su[Completion] = "EXECUTION", NEW d \in Components(Completion), su[d] = "NEW"
                 PROVE  ToStart(d, L)
    BY DEF AllStarted
  <2>2. d \in Comp
    BY PartsIn
  <2>3. CASE c = Completion
    BY <1>8, <2>1, <2>3 DEF ToStart
  <2>4. CASE c # Completion
    <3>1. st[Completion] = "EXECUTION" /\ d # c /\ st[d] = "NEW"
      BY <1>3, <1>10, <2>1, <2>2, <2>4
    <3>. QED
      BY <1>6, <1>7, <1>13, <2>1, <2>2, <3>1 DEF AllStarted
  <2>. QED
    BY <2>3, <2>4
<1>19. \A fn : fn \notin {"activate_task", "activate_first", "activate_each", "except_activate"}
              => (Has(fn, L) <=> Has(fn, K))
  BY <1>8 DEF Has
<1>20. NoneLeft(L, su)
  <2>1. SUFFICES ASSUME Has("end_completion", L), NEW d \in Components(Completion), Open(d, su)
                 PROVE  FALSE
    BY DEF NoneLeft
  <2>. QED
    BY <1>6, <1>9, <1>13, <1>19, <2>1, PartsIn DEF NoneLeft
<1>21. MainGone(su)
  <2>1. SUFFICES ASSUME su[Completion] = "EXECUTION", NEW d \in Main, Open(d, su)
                 PROVE  FALSE
    BY DEF MainGone
  <2>2. d \in Comp /\ Open(d, st)
    BY <1>9, <2>1 DEF Main
  <2>3. c # Completion => st[Completion] = "EXECUTION"
    BY <1>3, <1>10, <2>1
  <2>. QED
    BY <1>13, <2>1, <2>2, <2>3 DEF MainGone
<1>22. Gone(Completion, st) => Gone(Completion, su)
  BY <1>2, <1>3, <1>10 DEF Gone, Terminal
<1>23. EndedWell(su, ps, ok)
  BY <1>13, <1>22 DEF EndedWell
<1>24. Leaving(K, st) => Leaving(L, su)
  BY <1>6, <1>10, <1>22 DEF Leaving
<1>25. \A h \in R : h.fn # "activate_task"
  BY <1>1 DEF Bears
<1>26. EndTried(L, su)
  <2>1. ASSUME Has("except_end", L), NEW g \in L, InCompletion(g)
        PROVE  Leaving(L, su) \/ \E k \in L : k.fn = "except_activate" /\ k.obj = Completion
    <3>1. CASE c = Completion
      BY <1>8, <3>1
    <3>2. CASE c # Completion
      <4>1. InCompletion(f) /\ Has("except_end", K)
        BY <1>19, <2>1, <3>2 DEF InCompletion
      <4>2. Leaving(K, st) \/ \E k \in K : k.fn = "except_activate" /\ k.obj = Completion
        BY <1>8, <1>13, <4>1 DEF EndTried
      <4>. QED
        BY <1>8, <1>24, <4>2
    <3>. QED
      BY <3>1, <3>2
  <2>2. ASSUME NEW g \in L, g.fn \in Tell, g.obj = Root, g.arg = Completion PROVE Leaving(L, su)
    <3>1. g \in K
      BY <1>8, <2>2 DEF Tell, Told
    <3>. QED
      BY <1>13, <1>24, <2>2, <3>1 DEF EndTried
  <2>3. ~\E g \in L : g.fn = "activate_task" /\ g.obj = Completion
    BY <1>8, <1>25
  <2>. QED
    BY <2>1, <2>2, <2>3 DEF EndTried
<1>27. Dismisses(L, su)
  <2>1. SUFFICES ASSUME NEW g \in L, g.fn = "set", g.obj = Root, g.arg = "DISCARDED"
                 PROVE  Gone(Completion, su) \/ Has("dismiss_completion", L)
    BY DEF Dismisses
  <2>2. g \in K
    BY <1>8, <2>1
  <2>. QED
    BY <1>6, <1>10, <1>13, <1>19, <1>22, <2>1, <2>2 DEF Dismisses
<1>28. Starter(L, su)
  <2>1. SUFFICES ASSUME Has("except_cancelled", L)
                 PROVE  su[Completion] # "EXECUTION" \/ Has("except_end", L)
    BY DEF Starter
  <2>2. CASE c = Completion
    BY <1>8, <1>13, <1>19, <2>2 DEF EndTried
  <2>3. CASE c # Completion
    <3>1. f.fn \notin {"except_cancelled"} \cup Worked
      BY DEF Worked
    <3>2. st[Completion] # "EXECUTION" \/ Has("except_end", K)
      BY <1>8, <1>13, <1>19, <2>1, <3>1 DEF Starter
    <3>. QED
      BY <1>3, <1>10, <1>19, <2>3, <3>2
  <2>. QED
    BY <2>2, <2>3
<1>29. Law(L, su, ps, ok)
  BY <1>12, <1>14, <1>15, <1>16, <1>17, <1>18, <1>20, <1>21, <1>23, <1>26, <1>27, <1>28 DEF Law
<1>. QED
  BY <1>29 DEF L, su

(* The component at the top above a component.  Like NextTask, TopOf is a     *)
(* recursive function over a schema of any shape.                             *)

Grounded(R) ==
  \A c \in Comp :
    /\ Parent[c] = Root => <<c, c>> \in R
    /\ Parent[c] # Root => \A v \in Comp : <<Parent[c], v>> \in R => <<c, v>> \in R

TopsOf(c) == {v \in Comp : \A R \in SUBSET (Comp \X Comp) : Grounded(R) => <<c, v>> \in R}

\* The component at the top above c, and above its group
LEMMA TopsAtTop ==
  ASSUME NEW c \in Comp, Parent[c] = Root
  PROVE  TopsOf(c) = {c}
<1>. DEFINE R == {p \in Comp \X Comp : p[1] = c => p[2] = c}
<1>1. \A S \in SUBSET (Comp \X Comp) : Grounded(S) => <<c, c>> \in S
  BY DEF Grounded
<1>2. \A d, v \in Comp : <<d, v>> \in R <=> (d = c => v = c)
  OBVIOUS
<1>3. R \in SUBSET (Comp \X Comp)
  OBVIOUS
<1>. HIDE DEF R
<1>4. Grounded(R)
  BY <1>2, TreeAssumption DEF Grounded
<1>5. \A v \in TopsOf(c) : v = c
  BY <1>2, <1>3, <1>4 DEF TopsOf
<1>6. c \in TopsOf(c)
  BY <1>1 DEF TopsOf
<1>. QED
  BY <1>5, <1>6

LEMMA TopsBelow ==
  ASSUME NEW c \in Comp, Parent[c] # Root
  PROVE  TopsOf(c) = TopsOf(Parent[c])
<1>1. \A v \in TopsOf(Parent[c]) : v \in TopsOf(c)
  BY DEF TopsOf, Grounded
<1>2. ASSUME NEW v \in TopsOf(c), NEW R \in SUBSET (Comp \X Comp), Grounded(R),
             <<Parent[c], v>> \notin R
      PROVE  FALSE
  <2>. DEFINE S == R \ {<<c, v>>}
  <2>1. <<c, v>> \in R /\ v \in Comp /\ Parent[c] # c /\ Parent[c] \in Comp
    BY <1>2, ParentIn DEF TopsOf
  <2>2. \A d, w \in Comp : <<d, w>> \in S <=> <<d, w>> \in R /\ (d # c \/ w # v)
    OBVIOUS
  <2>3. S \in SUBSET (Comp \X Comp) /\ <<c, v>> \notin S
    OBVIOUS
  <2>. HIDE DEF S
  <2>4. ASSUME NEW d \in Comp
        PROVE  /\ Parent[d] = Root => <<d, d>> \in S
               /\ Parent[d] # Root => \A w \in Comp : <<Parent[d], w>> \in S => <<d, w>> \in S
    <3>1. CASE d = c
      BY <1>2, <2>1, <2>2, <3>1 DEF Grounded
    <3>2. CASE d # c
      BY <1>2, <2>2, <3>2, ParentIn DEF Grounded
    <3>. QED
      BY <3>1, <3>2
  <2>5. Grounded(S)
    BY <2>4 DEF Grounded
  <2>. QED
    BY <2>3, <2>5 DEF TopsOf
<1>3. \A v \in TopsOf(c) : v \in TopsOf(Parent[c])
  <2>1. Parent[c] \in Comp
    BY ParentIn
  <2>. QED
    BY <1>2, <2>1 DEF TopsOf
<1>. QED
  BY <1>1, <1>3

\* TopOf is what its definition says.
LEMMA TopOfEquation ==
  ASSUME NEW c \in Comp
  PROVE  TopOf[c] = IF Parent[c] = Root THEN c ELSE TopOf[Parent[c]]
<1>. DEFINE Equation(f) == f = [d \in Comp |-> IF Parent[d] = Root THEN d ELSE f[Parent[d]]]
            F == [d \in Comp |-> CHOOSE v : v \in TopsOf(d)]
<1>1. \A d \in Comp : F[d] = IF Parent[d] = Root THEN d ELSE F[Parent[d]]
  <2>1. SUFFICES ASSUME NEW d \in Comp PROVE F[d] = IF Parent[d] = Root THEN d ELSE F[Parent[d]]
    OBVIOUS
  <2>2. CASE Parent[d] = Root
    BY <2>2, TopsAtTop
  <2>3. CASE Parent[d] # Root
    <3>1. Parent[d] \in Comp
      BY <2>3, ParentIn
    <3>2. TopsOf(d) = TopsOf(Parent[d])
      BY <2>3, TopsBelow
    <3>. QED
      BY <2>3, <3>1, <3>2
  <2>. QED
    BY <2>2, <2>3
<1>2. Equation(F)
  BY <1>1
<1>3. TopOf = CHOOSE f : Equation(f)
  BY DEF TopOf
<1>. HIDE DEF F
<1>4. Equation(TopOf)
  BY <1>2, <1>3
<1>. QED
  BY <1>4

\* In a part of the tree whose components at the top are over, all are.
LEMMA OverBelow ==
  ASSUME Rooted, NEW st \in [Comp -> CompStatus], NEW K, NoOrphan(K, st),
         \A c \in Comp : ~Doomed(c, K), NEW S \in SUBSET Comp,
         \A c \in S : Parent[c] \in Comp => Parent[c] \in S,
         \A c \in S : Parent[c] = Root => ~Open(c, st)
  PROVE  \A c \in S : ~Open(c, st)
<1>1. SUFFICES ASSUME NEW b \in S, Open(b, st) PROVE FALSE
  OBVIOUS
<1>. DEFINE T == {Depth[c] : c \in {d \in S : Open(d, st)}}
<1>2. T \in SUBSET Nat /\ T # {}
  BY <1>1, Depths
<1>3. PICK n \in T : \A m \in T : n <= m
  BY <1>2, LeastNumber
<1>4. PICK c \in S : Open(c, st) /\ n = Depth[c]
  BY <1>3
<1>5. c \in Comp /\ Parent[c] \in Comp /\ Parent[c] \in S
  BY <1>4, ParentIn
<1>6. ~Open(Parent[c], st)
  <2>1. SUFFICES ASSUME Open(Parent[c], st) PROVE FALSE
    OBVIOUS
  <2>2. Depth[Parent[c]] \in T
    BY <1>5, <2>1
  <2>3. Depth[Parent[c]] < Depth[c] /\ Depth[Parent[c]] \in Nat /\ Depth[c] \in Nat
    BY <1>5, DeeperThanParent
  <2>. QED
    BY <1>3, <1>4, <2>2, <2>3
<1>7. Gone(Parent[c], st)
  BY <1>5, <1>6 DEF Open, Gone, CompStatus, Terminal
<1>. QED
  BY <1>4, <1>5, <1>7 DEF NoOrphan

\* When nothing is open at the top, nothing is open anywhere.
LEMMA MainOver ==
  ASSUME Rooted, NEW st \in [Comp -> CompStatus], NEW K, NoOrphan(K, st),
         \A c \in Comp : ~Doomed(c, K), \A c \in Components(Root) : ~Open(c, st)
  PROVE  \A c \in Main : ~Open(c, st)
<1>1. \A c \in Main : c \in Comp /\ TopOf[c] # Completion
  BY DEF Main
<1>2. \A c \in Main : Parent[c] \in Comp => Parent[c] \in Main
  BY <1>1, TopOfEquation, TreeAssumption DEF Main
<1>3. \A c \in Main : Parent[c] = Root => c \in Components(Root)
  BY <1>1, TopOfEquation DEF Components
<1>4. Main \in SUBSET Comp
  BY <1>1
<1>. QED
  BY <1>2, <1>3, <1>4, OverBelow

LEMMA AllOver ==
  ASSUME Rooted, NEW st \in [Comp -> CompStatus], NEW K, NoOrphan(K, st),
         \A c \in Comp : ~Doomed(c, K), \A c \in Components(Root) : ~Open(c, st),
         ~Open(Completion, st)
  PROVE  \A c \in Comp : ~Open(c, st)
<1>1. \A c \in Comp : Parent[c] = Root => c = Completion \/ c \in Components(Root)
  BY DEF Components
<1>. QED
  BY <1>1, OverBelow

(* Activating: a component is skipped or starts.                              *)

\* The first component of a group
LEMMA FirstPart ==
  ASSUME NEW p
  PROVE  /\ First(p) \in Comp => First(p) \in Components(p)
         /\ First(p) \notin Comp => Components(p) = {}
<1>1. Components(p) \in SUBSET Comp /\ None \notin Comp
  BY TreeAssumption DEF Components
<1>2. CASE Components(p) = {}
  BY <1>1, <1>2 DEF First
<1>3. CASE Components(p) # {}
  <2>1. First(p) = Least(Components(p))
    BY <1>3 DEF First
  <2>2. Least(Components(p)) \in Components(p)
    BY <1>1, <1>3, LeastIn
  <2>. QED
    BY <1>1, <2>1, <2>2
<1>. QED
  BY <1>2, <1>3

\* What holds when a component is about to be activated
LEMMA Began ==
  ASSUME NEW f, NEW r, NEW st, NEW ps, NEW ok, On(f, r, st, ps, ok), f.fn = "activate_task"
  PROVE  /\ f.obj \in Comp /\ st[f.obj] = "NEW" /\ Goes(Parent[f.obj], st)
         /\ \A c \in Comp : ~Doomed(c, {f} \cup Frames(r))
         /\ \A h \in Frames(r) : ~Canceller(h)
         /\ Activates(f) /\ Single(f) /\ Tame(f) /\ ~Canceller(f)
         /\ r # <<>> => Head(r).fn \in {"except_pass", "except_first", "except_sibling", "except_next",
                                        "except_end", "except_cancelled"}
<1>1. /\ \A h \in Frames(r) : Bears(f, h)
      /\ Law({f} \cup Frames(r), st, ps, ok) /\ (r # <<>> => Rests(f, Head(r)))
  BY DEF On
<1>2. f.obj \in Comp /\ st[f.obj] = "NEW" /\ Goes(Parent[f.obj], st)
  BY <1>1 DEF Law, Needs
<1>3. ~Canceller(f) /\ f.fn # "set"
  BY DEF Canceller
<1>4. \A h \in Frames(r) : ~Canceller(h)
  BY <1>1, <1>3 DEF Bears
<1>5. \A c \in Comp : \A h : ~Canceller(h) => ~Cancels(h, c)
  BY DEF Canceller, Cancels
<1>6. \A c \in Comp : ~Doomed(c, {f} \cup Frames(r))
  BY <1>3, <1>4, <1>5 DEF Doomed
<1>7. Activates(f) /\ Single(f) /\ Tame(f)
  BY DEF Activates, Single, Tame, Modest, Worked
<1>. QED
  BY <1>1, <1>2, <1>3, <1>4, <1>6, <1>7 DEF Rests

\* A component whose conditions are not met is cancelled, and its parent is told
\* by an exception.
LEMMA SkipNormal ==
  ASSUME NEW f, NEW r, NEW st \in [Comp -> CompStatus], NEW ps, NEW ok, On(f, r, st, ps, ok),
         f.fn = "activate_task", \A b \in Comp : Ordered!Precedes(b, f.obj) => ~Open(b, st)
  PROVE  Normal(<<Do("cancel_task", f.obj, None), Raise("TaskCancelled")>> \o r, st, ps, ok)
<1>. DEFINE c == f.obj
            x == Do("cancel_task", c, None)
            y == Raise("TaskCancelled")
            R == Frames(r)
<1>1. f \in Call /\ r \in Seq(Call) /\ Shape(r) /\ (\A h \in R : Bears(f, h))
      /\ (r # <<>> => Rests(f, Head(r))) /\ Law({f} \cup R, st, ps, ok)
  BY DEF On
<1>2. /\ c \in Comp /\ st[c] = "NEW" /\ Goes(Parent[c], st)
      /\ Activates(f) /\ Single(f) /\ Tame(f) /\ ~Canceller(f)
      /\ \A d \in Comp : ~Doomed(d, {f} \cup R)
  BY Began
<1>3. x \in Call /\ y \in Call
  BY <1>2, DoCall, RaiseCall, Args DEF Fn, JobFn, DbFn, Exception
<1>4. x.fn = "cancel_task" /\ x.obj = c /\ y.fn = "raise" /\ y.arg = "TaskCancelled" /\ y.obj = Root
  BY DEF Do, Raise
<1>. HIDE DEF x, y
<1>5. Activates(x) /\ Activates(y) /\ ~Single(y) /\ ~Multiple(y) /\ ~OfCompletion(x) /\ ~OfCompletion(y)
  BY <1>4 DEF Activates, Single, Multiple, OfCompletion
<1>6. \A d \in Comp : Clear(f, d) => Clear(x, d)
  BY <1>2, <1>4 DEF Clear
<1>7. \A h \in R : Bears(x, h) /\ Bears(y, h)
  BY <1>1, <1>2, <1>5, <1>6, BearsLike
<1>8. Atop(y, r)
  BY <1>1, <1>3, <1>4, <1>5, <1>7 DEF Atop, Rests
<1>9. Rests(x, y) /\ Bears(x, y)
  <2>1. \A d : ~Keeps(y, d)
    BY <1>4 DEF Keeps, Tell, Told
  <2>2. x.fn \notin Lowest /\ ~OfProcess(x) /\ x # Set(Root, "DISCARDED") /\ ~Canceller(y)
    BY <1>4 DEF Lowest, Worked, Tell, Told, OfProcess, Set, Do, Canceller
  <2>. QED
    BY <1>4, <1>5, <2>1, <2>2, RestsPlain DEF Bears
<1>10. Meek(x) /\ Meek(y) /\ Needs(x, st) /\ Needs(y, st) /\ Serves(x, st, ps, ok) /\ Serves(y, st, ps, ok)
  <2>1. Meek(x) /\ Meek(y)
    BY <1>4 DEF Meek, Winds, Tell, Told
  <2>2. Open(c, st)
    BY <1>2 DEF Open
  <2>3. Needs(x, st) /\ Needs(y, st)
    BY <1>2, <1>4, <2>2 DEF Needs, Tell, Told
  <2>4. Serves(x, st, ps, ok) /\ Serves(y, st, ps, ok)
    BY <1>4 DEF Serves, GoesOn, Told
  <2>. QED
    BY <2>1, <2>3, <2>4
<1>11. \A d : (Doomed(d, {x, y}) <=> d = c) /\ ~Ending(d, {x, y})
  <2>1. \A d : (Cancels(x, d) <=> d = c) /\ ~Cancels(y, d)
    BY <1>4 DEF Cancels
  <2>2. \A d : ~Ending(d, {x}) /\ ~Ending(d, {y})
    BY <1>4, Lone
  <2>. QED
    BY <2>1, <2>2, Two
<1>12. \A d : ~Doomed(d, {f}) /\ (ToStart(d, {f}) <=> d = c)
  <2>1. \A d : ~Cancels(f, d) /\ (Starts(f, d) <=> d = c)
    BY DEF Cancels, Starts
  <2>. QED
    BY <2>1, Lone
<1>13. c = Completion => Winding({f} \cup R, st, ps, ok)
  BY DEF Winding, Winds
<1>14. c # Completion => InCompletion(f)
  BY DEF InCompletion
<1>15. c = Completion => Leaving({x, y}, st)
  BY <1>11 DEF Leaving
<1>16. Parent[c] \in Comp => st[Parent[c]] # "NEW"
  BY <1>2 DEF Goes
<1>17. Swap({f}, {x, y}, R, st, ps, ok)
  <2>1. \A h \in {x, y} : Meek(h) /\ Needs(h, st) /\ Serves(h, st, ps, ok)
    BY <1>10
  <2>2. ~\E h \in {f} : h.fn = "except_activate" /\ h.obj = Completion
    OBVIOUS
  <2>. QED
    BY <1>2, <1>11, <1>12, <1>13, <1>14, <1>15, <1>16, <2>1, <2>2, SwapMeek
<1>18. Normal(<<x, y>> \o r, st, ps, ok)
  BY <1>3, <1>7, <1>8, <1>9, <1>17, Become2
<1>. QED
  BY <1>18 DEF x, y

\* A component is about to start when what remains is in order once it runs.
LEMMA LaunchOn ==
  ASSUME NEW s \in Seq(Call), NEW st, NEW ps, NEW ok, NEW c \in Comp, st[c] = "NEW",
         Normal(s, [st EXCEPT ![c] = "EXECUTION"], ps, ok)
  PROVE  Sound(<<Set(c, "EXECUTION")>> \o s, st, ps, ok)
<1>. DEFINE x == Set(c, "EXECUTION")
<1>1. x \in Call
  BY SetCall, Args DEF CompStatus
<1>2. x.fn = "set" /\ x.obj = c /\ x.arg = "EXECUTION"
  BY DEF Set, Do
<1>. HIDE DEF x
<1>3. <<x>> \o s # <<>> /\ Head(<<x>> \o s) = x /\ Tail(<<x>> \o s) = s
  BY <1>1, Push
<1>4. Launch(<<x>> \o s, st, ps, ok)
  BY <1>2, <1>3 DEF Launch
<1>. QED
  BY <1>4 DEF Sound, x

\* Three calls on a stack: one on the two others
LEMMA JoinTwo ==
  ASSUME NEW s \in Seq(Call), NEW x \in Call, NEW y \in Call, NEW z \in Call
  PROVE  <<z, x, y>> \o s = <<z>> \o (<<x, y>> \o s)
<1>1. <<x, y>> \o s = <<x>> \o (<<y>> \o s)
  BY Join
<1>2. <<z, x, y>> \o s = <<z>> \o (<<x>> \o (<<y>> \o s))
  BY Join
<1>. QED
  BY <1>1, <1>2

\* A task starts when everything before it has ended.
LEMMA TaskStarts ==
  ASSUME NEW f, NEW r, NEW st \in [Comp -> CompStatus], NEW ps, NEW ok, On(f, r, st, ps, ok),
         f.fn = "activate_task", \A b \in Comp : Ordered!Precedes(b, f.obj) => ~Open(b, st),
         f.obj \in Task
  PROVE  Sound(<<Set(f.obj, "EXECUTION")>> \o r, st, ps, ok)
<1>1. f.obj # Completion
  BY TreeAssumption DEF Task, TaskKind
<1>2. Law({} \cup Frames(r), [st EXCEPT ![f.obj] = "EXECUTION"], ps, ok)
  BY <1>1, StartLaw
<1>3. {} \cup Frames(r) = Frames(r)
  OBVIOUS
<1>4. Normal(r, [st EXCEPT ![f.obj] = "EXECUTION"], ps, ok)
  BY <1>2, <1>3 DEF On, Normal
<1>5. r \in Seq(Call) /\ f.obj \in Comp /\ st[f.obj] = "NEW"
  BY Began DEF On
<1>. QED
  BY <1>4, <1>5, LaunchOn

\* The call x activates what is below the group c.
LEMMA GroupStarts ==
  ASSUME Rooted, NEW f, NEW r, NEW st \in [Comp -> CompStatus], NEW ps, NEW ok, On(f, r, st, ps, ok),
         f.fn = "activate_task", \A b \in Comp : Ordered!Precedes(b, f.obj) => ~Open(b, st),
         NEW x \in Call, x.fn \in {"activate_first", "activate_each"}, x.obj = f.obj,
         x.fn = "activate_first" => x.arg = First(f.obj),
         x.fn = "activate_each" => x.todo = Components(f.obj),
         f.obj = Completion => x.fn = "activate_each"
  PROVE  Sound(<<Set(f.obj, "EXECUTION"), x, Do("except_activate", f.obj, None)>> \o r, st, ps, ok)
<1>. DEFINE c == f.obj
            su == [st EXCEPT ![c] = "EXECUTION"]
            y == Do("except_activate", c, None)
            z == Set(c, "EXECUTION")
            R == Frames(r)
<1>1. f \in Call /\ r \in Seq(Call) /\ Shape(r) /\ (\A h \in R : Bears(f, h))
      /\ (r # <<>> => Rests(f, Head(r))) /\ Law({f} \cup R, st, ps, ok)
  BY DEF On
<1>2. /\ c \in Comp /\ st[c] = "NEW" /\ Goes(Parent[c], st)
      /\ Activates(f) /\ Single(f) /\ Tame(f) /\ ~Canceller(f)
      /\ \A d \in Comp : ~Doomed(d, {f} \cup R)
  <2>1. /\ f.obj \in Comp /\ st[f.obj] = "NEW" /\ Goes(Parent[f.obj], st)
        /\ \A d \in Comp : ~Doomed(d, {f} \cup Frames(r))
        /\ Activates(f) /\ Single(f) /\ Tame(f) /\ ~Canceller(f)
    BY Began
  <2>. QED
    BY <2>1
<1>3. z \in Call /\ y \in Call
  <2>1. "except_activate" \in Fn \ (JobFn \cup DbFn \cup {"except_sibling"})
    BY DEF Fn, Except, JobFn, DbFn
  <2>2. y \in Call
    BY <1>2, <2>1, DoCall, Args
  <2>3. z \in Call
    BY <1>2, SetCall, Args DEF CompStatus
  <2>. QED
    BY <2>2, <2>3
<1>4. y.fn = "except_activate" /\ y.obj = c
  BY DEF Do
<1>5. su \in [Comp -> CompStatus] /\ su[c] = "EXECUTION" /\ \A d \in Comp : d # c => su[d] = st[d]
  BY <1>2, Settled DEF CompStatus
<1>. HIDE DEF su, y, z
<1>6. Activates(x) /\ Activates(y) /\ Multiple(x) /\ ~Single(x) /\ Single(y) /\ ~OfCompletion(x)
      /\ (OfCompletion(y) <=> OfCompletion(f))
  BY <1>4 DEF Activates, Single, Multiple, OfCompletion
<1>7. \A d \in Comp : Clear(f, d) => Clear(x, d) /\ Clear(y, d)
  BY <1>2, <1>4, <1>6 DEF Clear
<1>8. \A h \in R : Bears(x, h) /\ Bears(y, h)
  BY <1>1, <1>2, <1>6, <1>7, BearsLike
<1>9. Atop(y, r)
  BY <1>1, <1>3, <1>4, <1>6, <1>8 DEF Atop, Rests
<1>10. Rests(x, y)
  BY <1>4, <1>6 DEF Rests
<1>11. Bears(x, y)
  <2>1. \A d \in Comp : Keeps(y, d) => Clear(x, d)
    <3>1. \A d : Keeps(y, d) => d = c
      BY <1>4 DEF Keeps, Tell, Told
    <3>2. Depth[c] <= Depth[c]
      BY <1>2, DeeperThanParent
    <3>. QED
      BY <1>6, <3>1, <3>2 DEF Clear
  <2>. QED
    BY <1>4, <1>6, <2>1 DEF Bears, Canceller, Lowest, Worked, Tell, Told, OfProcess, Set, Do
<1>12. \A d \in Components(c) : d \in Comp /\ st[d] = "NEW" /\ su[d] = "NEW"
  <2>1. SUFFICES ASSUME NEW d \in Components(c) PROVE d \in Comp /\ st[d] = "NEW" /\ su[d] = "NEW"
    OBVIOUS
  <2>2. d \in Comp /\ Parent[d] = c
    BY PartsIn
  <2>3. d # c
    BY <1>2, <2>2, DeeperThanParent
  <2>4. NewBelow({f} \cup R, st)
    BY <1>1 DEF Law
  <2>5. st[d] = "NEW"
    BY <1>2, <2>2, <2>4 DEF NewBelow
  <2>. QED
    BY <1>5, <2>2, <2>3, <2>5
<1>13. Needs(y, su) /\ Serves(y, su, ps, ok)
  BY <1>2, <1>4, <1>5 DEF Needs, Serves, GoesOn, Tell, Told
<1>14. Serves(x, su, ps, ok)
  BY <1>6 DEF Serves, GoesOn, Tell, Told
<1>15. <<z, x, y>> \o r = <<z>> \o (<<x, y>> \o r)
  BY <1>1, <1>3, JoinTwo
<1>16. CASE x.fn = "activate_each"
  <2>1. x.todo \subseteq Components(x.obj) /\ New(x.todo, su)
    BY <1>12, <1>16 DEF New
  <2>2. Needs(x, su)
    BY <1>2, <1>5, <1>16, <2>1 DEF Needs, Tell, Told
  <2>3. \A d \in Components(Completion) : c = Completion => ToStart(d, {x, y})
    BY <1>16 DEF ToStart, Starts
  <2>4. c = Completion => \A d \in Main : ~Open(d, st)
    <3>1. SUFFICES ASSUME c = Completion PROVE \A d \in Main : ~Open(d, st)
      OBVIOUS
    <3>2. Winding({f} \cup R, st, ps, ok)
      BY <3>1 DEF Winding, Winds
    <3>3. NoOrphan({f} \cup R, st) /\ WindsUp({f} \cup R, st, ps, ok)
      BY <1>1 DEF Law
    <3>4. \A d \in Components(Root) : ~Open(d, st)
      BY <1>2, <3>2, <3>3, PartsIn DEF WindsUp
    <3>. QED
      BY <1>2, <3>3, <3>4, MainOver
  <2>5. Law({x, y} \cup R, su, ps, ok)
    BY <1>4, <1>6, <1>13, <1>14, <1>16, <2>2, <2>3, <2>4, StartLaw DEF su
  <2>6. Normal(<<x, y>> \o r, su, ps, ok) /\ <<x, y>> \o r \in Seq(Call)
    BY <1>1, <1>8, <1>9, <1>10, <1>11, <2>5, Stack2 DEF Normal
  <2>7. Sound(<<z>> \o (<<x, y>> \o r), st, ps, ok)
    BY <1>2, <2>6, LaunchOn DEF su, z
  <2>8. <<z, x, y>> \o r = <<z>> \o (<<x, y>> \o r)
    BY <1>15
  <2>. QED
    BY <2>7, <2>8 DEF y, z
<1>17. CASE x.fn = "activate_first"
  <2>1. x.arg = First(c) /\ c # Completion
    BY <1>17
  <2>2. x.arg \in Comp => x.arg \in Components(c)
    BY <2>1, FirstPart
  <2>3. x.arg \notin Comp => Components(c) = {}
    BY <2>1, FirstPart
  <2>4. x.arg \in Comp => \A d \in Later(x.arg) : d \in Components(c)
    BY <2>2, PartsIn, Before DEF Later
  <2>5. x.arg \in Comp => su[x.arg] = "NEW" /\ New(Later(x.arg), su)
    BY <1>12, <2>2, <2>4 DEF New
  <2>6. Needs(x, su)
    BY <1>2, <1>5, <1>17, <2>3, <2>5 DEF Needs, Tell, Told
  <2>7. Law({x, y} \cup R, su, ps, ok)
    BY <1>4, <1>6, <1>13, <1>14, <1>17, <2>1, <2>6, StartLaw DEF su
  <2>8. Normal(<<x, y>> \o r, su, ps, ok) /\ <<x, y>> \o r \in Seq(Call)
    BY <1>1, <1>8, <1>9, <1>10, <1>11, <2>7, Stack2 DEF Normal
  <2>9. Sound(<<z>> \o (<<x, y>> \o r), st, ps, ok)
    BY <1>2, <2>8, LaunchOn DEF su, z
  <2>10. <<z, x, y>> \o r = <<z>> \o (<<x, y>> \o r)
    BY <1>15
  <2>. QED
    BY <2>9, <2>10 DEF y, z
<1>. QED
  BY <1>16, <1>17

(* Exceptions: the calls that wait are left one after the other.              *)

\* What an exception leaves of a stack
LEMMA UnwoundNil == ASSUME NEW e PROVE Unwound(<<>>, e) = <<>>
BY DEF Unwound

LEMMA UnwoundCaught ==
  ASSUME NEW s \in Seq(Call), s # <<>>, NEW e, e \in Catches(Head(s).fn)
  PROVE  Unwound(s, e) = Handler(Head(s), e) \o Tail(s)
<1>. DEFINE H == {i \in 1 .. Len(s) : e \in Catches(s[i].fn)}
            h == CHOOSE i \in H : \A j \in H : i <= j
<1>1. 1 \in H /\ Head(s) = s[1] /\ Len(s) \in Nat
  BY EmptySeq
<1>2. \A j \in H : j \in Nat /\ 1 <= j
  OBVIOUS
<1>3. h \in H /\ \A j \in H : h <= j
  <2>1. \E i \in H : \A j \in H : i <= j
    BY <1>1, <1>2
  <2>. QED
    BY <2>1
<1>4. Unwound(s, e) = Handler(s[h], e) \o SubSeq(s, h + 1, Len(s))
  BY <1>1 DEF Unwound
<1>. HIDE DEF h, H
<1>5. h = 1
  BY <1>1, <1>2, <1>3
<1>6. Tail(s) = SubSeq(s, 1 + 1, Len(s))
  BY TailIsSubSeq
<1>. QED
  BY <1>1, <1>4, <1>5, <1>6

LEMMA UnwoundPassed ==
  ASSUME NEW s \in Seq(Call), s # <<>>, NEW e, e \notin Catches(Head(s).fn)
  PROVE  Unwound(s, e) = Unwound(Tail(s), e)
<1>. DEFINE n == Len(s)
            q == Tail(s)
            H == {i \in 1 .. n : e \in Catches(s[i].fn)}
            G == {i \in 1 .. Len(q) : e \in Catches(q[i].fn)}
            h == CHOOSE i \in H : \A j \in H : i <= j
            g == CHOOSE i \in G : \A j \in G : i <= j
<1>1. /\ n \in Nat /\ n >= 1 /\ Head(s) = s[1] /\ q \in Seq(Call) /\ Len(q) = n - 1
      /\ \A i \in 1 .. Len(q) : q[i] = s[i + 1]
  BY EmptySeq, HeadTailProperties
<1>2. Unwound(s, e) = IF H = {} THEN <<>> ELSE Handler(s[h], e) \o SubSeq(s, h + 1, n)
  BY DEF Unwound
<1>3. Unwound(q, e) = IF G = {} THEN <<>> ELSE Handler(q[g], e) \o SubSeq(q, g + 1, Len(q))
  BY DEF Unwound
<1>4. \A i \in H : i \in Nat /\ i \in 1 .. n /\ i # 1 /\ i - 1 \in G
  <2>1. SUFFICES ASSUME NEW i \in H PROVE i \in Nat /\ i \in 1 .. n /\ i # 1 /\ i - 1 \in G
    OBVIOUS
  <2>2. i \in 1 .. n /\ i # 1 /\ e \in Catches(s[i].fn)
    BY <1>1
  <2>3. i - 1 \in 1 .. Len(q) /\ (i - 1) + 1 = i
    BY <1>1, <2>2
  <2>4. q[i - 1] = s[i]
    BY <1>1, <2>3
  <2>. QED
    BY <2>2, <2>3, <2>4
<1>5. \A i \in G : i \in Nat /\ i \in 1 .. Len(q) /\ i + 1 \in H
  <2>1. SUFFICES ASSUME NEW i \in G PROVE i \in Nat /\ i \in 1 .. Len(q) /\ i + 1 \in H
    OBVIOUS
  <2>2. i \in 1 .. Len(q) /\ e \in Catches(q[i].fn) /\ q[i] = s[i + 1]
    BY <1>1
  <2>3. i + 1 \in 1 .. n
    BY <1>1, <2>2
  <2>. QED
    BY <2>2, <2>3
<1>. HIDE DEF H, G, q
<1>6. CASE H = {}
  BY <1>2, <1>3, <1>5, <1>6 DEF q
<1>7. CASE H # {}
  <2>1. H \in SUBSET Nat /\ G \in SUBSET Nat /\ G # {}
    BY <1>4, <1>5, <1>7
  <2>2. h \in H /\ \A j \in H : h <= j
    <3>1. \E i \in H : \A j \in H : i <= j
      BY <1>7, <2>1, LeastNumber
    <3>. QED
      BY <3>1
  <2>3. g \in G /\ \A j \in G : g <= j
    <3>1. \E i \in G : \A j \in G : i <= j
      BY <2>1, LeastNumber
    <3>. QED
      BY <3>1
  <2>. HIDE DEF h, g
  <2>4. h = g + 1
    <3>1. h <= g + 1 /\ g <= h - 1 /\ h \in Nat /\ g \in Nat
      BY <1>4, <1>5, <2>2, <2>3
    <3>. QED
      BY <3>1
  <2>5. q[g] = s[h]
    BY <1>1, <1>5, <2>3, <2>4
  <2>6. SubSeq(q, g + 1, Len(q)) = SubSeq(s, h + 1, n)
    <3>. DEFINE u == SubSeq(q, g + 1, Len(q))
                v == SubSeq(s, h + 1, n)
    <3>1. g \in Nat /\ g >= 1 /\ g <= n - 1 /\ h \in Nat /\ h <= n /\ Len(q) = n - 1
      BY <1>1, <1>5, <2>3, <2>4
    <3>2. /\ u \in Seq(Call) /\ Len(u) = IF g + 1 <= Len(q) THEN Len(q) - (g + 1) + 1 ELSE 0
          /\ \A i \in 1 .. Len(u) : u[i] = q[(g + 1) + i - 1]
      BY <1>1, <3>1, SubSeqProperties
    <3>3. /\ v \in Seq(Call) /\ Len(v) = IF h + 1 <= n THEN n - (h + 1) + 1 ELSE 0
          /\ \A i \in 1 .. Len(v) : v[i] = s[(h + 1) + i - 1]
      BY <1>1, <3>1, SubSeqProperties
    <3>. HIDE DEF u, v
    <3>4. Len(u) = Len(v) /\ Len(u) = n - h /\ Len(u) \in Nat
      BY <2>4, <3>1, <3>2, <3>3
    <3>5. ASSUME NEW i \in 1 .. Len(u) PROVE u[i] = v[i]
      <4>1. i \in Nat /\ i >= 1 /\ i <= n - h
        BY <3>4
      <4>2. u[i] = q[g + i] /\ v[i] = s[h + i]
        <5>1. (g + 1) + i - 1 = g + i /\ (h + 1) + i - 1 = h + i
          BY <3>1, <4>1
        <5>. QED
          BY <3>2, <3>3, <3>4, <5>1
      <4>3. g + i \in 1 .. Len(q) /\ (g + i) + 1 = h + i
        BY <2>4, <3>1, <4>1
      <4>. QED
        BY <1>1, <4>2, <4>3
    <3>6. u = v
      BY <3>2, <3>3, <3>4, <3>5, SeqEqual
    <3>. QED
      BY <3>6 DEF u, v
  <2>7. Unwound(s, e) = Handler(s[h], e) \o SubSeq(s, h + 1, n)
    BY <1>2, <1>7
  <2>8. Unwound(q, e) = Handler(q[g], e) \o SubSeq(q, g + 1, Len(q))
    BY <1>3, <2>1
  <2>. QED
    BY <2>5, <2>6, <2>7, <2>8 DEF q
<1>. QED
  BY <1>6, <1>7

\* The first call is one of them.
LEMMA HeadIn == \A r \in Seq(Call) : r # <<>> => Head(r) \in Frames(r)
<1>. SUFFICES ASSUME NEW r \in Seq(Call), r # <<>> PROVE Head(r) \in Frames(r)
  OBVIOUS
<1>1. 1 \in 1 .. Len(r) /\ Head(r) = r[1]
  BY EmptySeq
<1>. QED
  BY <1>1 DEF Frames

\* No call that waits below f is going to cancel anything.
LEMMA NoneDoomed ==
  ASSUME NEW f, NEW r, NEW st, NEW ps, NEW ok, On(f, r, st, ps, ok), Harmless(f)
  PROVE  /\ \A h \in Frames(r) : ~Canceller(h)
         /\ \A c \in Comp : ~Doomed(c, {f} \cup Frames(r))
<1>1. \A h \in Frames(r) : Bears(f, h)
  BY DEF On
<1>2. \A h \in Frames(r) : ~Canceller(h)
  BY <1>1 DEF Bears, Harmless
<1>3. \A c \in Comp : \A h : ~Canceller(h) => ~Cancels(h, c)
  BY DEF Canceller, Cancels
<1>. QED
  BY <1>2, <1>3 DEF Doomed, Harmless

\* What runs, or could run, runs below what runs; and what comes after it is new.
LEMMA RunningUp ==
  ASSUME NEW K, NEW st \in [Comp -> CompStatus], NEW ps, NEW ok, Law(K, st, ps, ok),
         NEW c \in Comp, ~Doomed(c, K), st[c] = "EXECUTION"
  PROVE  /\ Goes(Parent[c], st) /\ New(Later(c), st)
         /\ c \in Components(Root) => ok /\ st[Completion] = "NEW"
<1>1. NoOrphan(K, st) /\ NewBelow(K, st) /\ InLine(K, st) /\ WindsUp(K, st, ps, ok)
  BY DEF Law
<1>2. Open(c, st)
  BY DEF Open
<1>3. Parent[c] \in Comp => st[Parent[c]] = "EXECUTION"
  BY <1>1, <1>2 DEF NoOrphan, NewBelow, Gone, CompStatus, Terminal
<1>4. New(Later(c), st)
  BY <1>1, <1>2 DEF InLine, New, Later
<1>5. c \in Components(Root) => ok /\ st[Completion] = "NEW"
  BY <1>1, <1>2 DEF WindsUp, Winding
<1>. QED
  BY <1>3, <1>4, <1>5 DEF Goes

\* After c, which has ended in its turn, comes the next component or nothing.
LEMMA NextUp ==
  ASSUME NEW st \in [Comp -> CompStatus], NEW c \in Comp, c # Completion, IsSequential(Parent[c]),
         ~Open(c, st), \A b \in Comp : Ordered!Precedes(b, c) => ~Open(b, st),
         New(Later(c), st)
  PROVE  LET n == NextSibling(c)
         IN  /\ n \in Comp => /\ n \in Components(Parent[c]) /\ st[n] = "NEW" /\ New(Later(n), st)
                              /\ \A b \in Comp : Ordered!Precedes(b, n) => ~Open(b, st)
             /\ n \notin Comp => \A d \in Components(Parent[c]) : ~Open(d, st)
<1>. DEFINE n == NextSibling(c)
            p == Parent[c]
            later == {d \in Components(p) : Position[d] > Position[c]}
<1>1. \A d \in Components(p) : d \in Comp /\ Parent[d] = p /\ d # Completion /\ Position[d] \in Nat
  BY TreeAssumption DEF Components
<1>2. Position[c] \in Nat /\ c \in Components(p)
  BY TreeAssumption DEF Components
<1>3. p = Root \/ Kind[p] = "sequential"
  BY DEF IsSequential
<1>4. \A d, e \in Components(p) : Ordered!Precedes(d, e) <=> Position[d] < Position[e]
  BY <1>1, <1>3 DEF Ordered!Precedes
<1>5. \A d \in Comp : Ordered!Precedes(d, c) \/ Ordered!Precedes(c, d) => d \in Components(p)
  BY DEF Ordered!Precedes, Components
<1>6. n = IF later # {} THEN Least(later) ELSE None
  BY DEF NextSibling
<1>7. \A d \in Components(p) : d = c \/ Position[d] < Position[c] \/ Position[c] < Position[d]
  BY <1>1, <1>2, TreeAssumption
<1>8. ASSUME n \in Comp
      PROVE  /\ n \in Components(p) /\ st[n] = "NEW" /\ New(Later(n), st)
             /\ \A b \in Comp : Ordered!Precedes(b, n) => ~Open(b, st)
  <2>1. later # {} /\ later \in SUBSET Comp
    BY <1>1, <1>6, <1>8, TreeAssumption
  <2>2. n \in later /\ \A d \in later : Position[n] <= Position[d]
    BY <1>6, <2>1, LeastLeast
  <2>. HIDE DEF n
  <2>3. n \in Components(p) /\ Position[c] < Position[n] /\ Position[n] \in Nat /\ Parent[n] = p
    BY <1>1, <1>2, <2>2
  <2>4. n \in Later(c)
    BY <1>2, <1>4, <1>8, <2>3 DEF Later
  <2>5. \A d \in Later(n) : d \in Later(c)
    <3>1. SUFFICES ASSUME NEW d \in Comp, Ordered!Precedes(n, d) PROVE Ordered!Precedes(c, d)
      BY DEF Later
    <3>2. Position[n] < Position[d] /\ d \in Components(p) /\ Position[d] \in Nat
      BY <2>3, <3>1, TreeAssumption DEF Ordered!Precedes, Components
    <3>3. Position[c] < Position[d]
      BY <1>2, <2>3, <3>2
    <3>. QED
      BY <1>2, <1>4, <3>2, <3>3
  <2>6. ASSUME NEW b \in Comp, Ordered!Precedes(b, n) PROVE ~Open(b, st)
    <3>1. b \in Components(p) /\ Position[b] < Position[n]
      BY <2>3, <2>6 DEF Ordered!Precedes, Components
    <3>2. ~(Position[c] < Position[b])
      <4>1. Position[c] < Position[b] => b \in later
        BY <1>1, <1>2, <3>1
      <4>2. b \in later => Position[n] <= Position[b]
        BY <2>2
      <4>. HIDE DEF later
      <4>. QED
        BY <1>1, <1>2, <2>3, <3>1, <4>1, <4>2
    <3>3. b = c \/ Ordered!Precedes(b, c)
      BY <1>2, <1>4, <1>7, <3>1, <3>2
    <3>. QED
      BY <3>3
  <2>. QED
    BY <2>3, <2>4, <2>5, <2>6 DEF New
<1>9. ASSUME n \notin Comp, NEW d \in Components(p) PROVE ~Open(d, st)
  <2>1. later = {}
    <3>1. later \in SUBSET Comp /\ (later # {} => Least(later) \in Comp)
      BY <1>1, LeastIn
    <3>. QED
      BY <1>6, <1>9, <3>1
  <2>2. ~(Position[c] < Position[d])
    BY <1>1, <1>2, <1>9, <2>1
  <2>. QED
    BY <1>1, <1>2, <1>4, <1>7, <1>9, <2>2
<1>. QED
  BY <1>8, <1>9

\* An exception reaches the try blocks of a worker.
LEMMA ThrownWorked ==
  ASSUME NEW s \in Seq(Call), NEW st \in [Comp -> CompStatus], NEW ps, NEW ok, Normal(s, st, ps, ok),
         \A h \in Frames(s) : h.fn \in Worked, NEW e \in Exception
  PROVE  Normal(Unwound(s, e), st, ps, ok)
<1>1. CASE s = <<>>
  BY <1>1, UnwoundNil
<1>2. CASE s # <<>>
  <2>. DEFINE h == Head(s)
              r == Tail(s)
              R == Frames(r)
              x == Set(Root, "PAUSED")
              y == Do("fail_job", h.obj, None)
  <2>1. On(h, r, st, ps, ok)
    BY <1>2, NormalOn
  <2>2. h \in Call /\ r \in Seq(Call) /\ h \in Frames(s) /\ R \subseteq Frames(s)
    BY <1>2, ShapeTop DEF Normal
  <2>3. h.fn \in Worked /\ \A g \in R : g.fn \in Worked
    BY <2>2
  <2>4. e \in Catches(h.fn)
    BY <2>3 DEF Catches, Worked
  <2>5. Unwound(s, e) = Handler(h, e) \o r
    BY <1>2, <2>4, UnwoundCaught
  <2>6. x \in Call /\ y \in Call
    <3>1. h.obj \in System
      BY <2>2, <2>3 DEF Call, JobFn, Worked
    <3>2. y \in Call
      BY <3>1, JobCall DEF JobFn
    <3>3. x \in Call
      BY SetCall, Args DEF ProcStatus
    <3>. QED
      BY <3>2, <3>3
  <2>7. x.fn = "set" /\ x.obj = Root /\ x.arg = "PAUSED" /\ y.fn = "fail_job" /\ Root \notin Comp
    BY TreeAssumption DEF Set, Do
  <2>8. Handler(h, e) = IF h.fn = "except_job" THEN <<x, y>> ELSE <<y>>
    BY <2>3 DEF Handler, Worked
  <2>9. r # <<>> => Head(r) \in R
    BY <2>2, HeadIn
  <2>. HIDE DEF x, y, h, r, R
  <2>10. \A g \in R : Bears(x, g) /\ Bears(y, g)
    BY <2>3, <2>7, OverWorked DEF Set, Do
  <2>11. r # <<>> => Head(r).fn # "except_end"
    BY <2>3, <2>9 DEF Worked
  <2>12. Atop(y, r)
    BY <2>6, <2>7, <2>10, <2>11, RestsPlain DEF Atop, R
  <2>13. Rests(x, y)
    BY <2>7, RestsPlain
  <2>14. Bears(x, y)
    BY <2>7 DEF Bears, Keeps, Single, Multiple, Canceller, Lowest, Worked, Tell, Told, OfProcess,
                OfCompletion, Set, Do
  <2>15. Modest(h) /\ h.fn # "except_activate"
    BY <2>3 DEF Modest, Worked
  <2>16. Mild(x) /\ Mild(y) /\ Harmless(x) /\ Harmless(y)
    BY <2>7 DEF Mild, Meek, Winds, Ended, InCompletion, Harmless, Canceller, Tell, Told
  <2>17. Needs(x, st) /\ Needs(y, st) /\ Serves(x, st, ps, ok) /\ Serves(y, st, ps, ok)
    BY <2>7 DEF Needs, Serves, GoesOn, Tell, Told
  <2>18. ASSUME NEW N, N \subseteq {x, y} PROVE Swap({h}, N, R, st, ps, ok)
    <3>1. \A c \in Comp : ~Doomed(c, N) /\ ~Ending(c, N)
      BY <2>16, <2>18, NoHarm
    <3>2. \A c : ~Cancels(h, c) /\ ~Starts(h, c)
      BY <2>3 DEF Cancels, Starts, Worked
    <3>3. \A c : ~Doomed(c, {h}) /\ ~ToStart(c, {h})
      BY <3>2, Lone
    <3>4. ~Has("except_cancelled", R)
      BY <2>3 DEF Has, Worked
    <3>5. \A g \in N : Meek(g) /\ ~InCompletion(g) /\ Needs(g, st) /\ Serves(g, st, ps, ok)
      BY <2>16, <2>17, <2>18 DEF Mild
    <3>6. Completion \in Comp
      BY TreeAssumption
    <3>. QED
      BY <2>15, <3>1, <3>3, <3>4, <3>5, <3>6, SwapModest
  <2>19. Normal(<<y>> \o r, st, ps, ok)
    BY <2>1, <2>12, <2>18, Become1 DEF R
  <2>20. Normal(<<x, y>> \o r, st, ps, ok)
    <3>1. Swap({h}, {x, y}, R, st, ps, ok)
      BY <2>18
    <3>. QED
      BY <2>1, <2>6, <2>10, <2>12, <2>13, <2>14, <3>1, Become2 DEF R
  <2>. QED
    BY <2>5, <2>8, <2>19, <2>20
<1>. QED
  BY <1>1, <1>2

\* An exception passes the one try block around the last method of an operation.
LEMMA ThrownBase ==
  ASSUME NEW s \in Seq(Call), NEW st \in [Comp -> CompStatus], NEW ps, NEW ok, Normal(s, st, ps, ok),
         s # <<>> => Head(s).fn \in {"except_cancelled", "except_sibling", "fail_job"} \cup Worked,
         NEW e \in Exception, e # "TaskCancelled"
  PROVE  Normal(Unwound(s, e), st, ps, ok)
<1>1. CASE s = <<>>
  BY <1>1, UnwoundNil
<1>2. CASE s # <<>>
  <2>. DEFINE h == Head(s)
              r == Tail(s)
  <2>1. On(h, r, st, ps, ok)
    BY <1>2, NormalOn
  <2>2. \A g \in Frames(r) : g.fn \in Worked
    BY <1>2, <2>1, AtBottom DEF Lowest
  <2>3. CASE h.fn \in Worked
    <3>1. \A g \in Frames(s) : g.fn \in Worked
      BY <1>2, <2>2, <2>3, ShapeTop DEF Normal
    <3>. QED
      BY <3>1, ThrownWorked
  <2>4. CASE h.fn \notin Worked
    <3>1. e \notin Catches(h.fn)
      BY <1>2, <2>4 DEF Catches
    <3>2. Unwound(s, e) = Unwound(r, e)
      BY <1>2, <3>1, UnwoundPassed
    <3>3. (\A c : ~Cancels(h, c)) /\ (\A c : ~Starts(h, c))
      BY <1>2, <2>4 DEF Cancels, Starts
    <3>4. h.fn \notin {"set", "except_end", "dismiss_completion"}
      BY <1>2, <2>4
    <3>5. Normal(r, st, ps, ok)
      BY <2>1, <3>3, <3>4, Drop
    <3>6. r \in Seq(Call)
      BY <2>1 DEF On
    <3>. HIDE DEF r
    <3>. QED
      BY <2>2, <3>2, <3>5, <3>6, ThrownWorked
  <2>. QED
    BY <2>3, <2>4
<1>. QED
  BY <1>1, <1>2

\* A group gives up: it is cancelled, or ends, and the exception goes on.
LEMMA GivenUp ==
  ASSUME NEW f, NEW r, NEW st \in [Comp -> CompStatus], NEW ps, NEW ok, On(f, r, st, ps, ok),
         f.fn = "except_activate", NEW e \in {"TaskCancelled", "TaskClosed"},
         e = "TaskClosed" => \A c \in Components(f.obj) : ~Open(c, st)
  PROVE  Normal(Handler(f, e) \o r, st, ps, ok)
<1>. DEFINE g == f.obj
            R == Frames(r)
            w == IF e = "TaskCancelled" THEN Do("cancel_task", g, None) ELSE Set(g, "COMPLETED")
            z == Raise(e)
<1>1. f \in Call /\ r \in Seq(Call) /\ Shape(r) /\ (\A h \in R : Bears(f, h))
      /\ (r # <<>> => Rests(f, Head(r))) /\ Law({f} \cup R, st, ps, ok)
  BY DEF On
<1>2. g \in Comp /\ st[g] = "EXECUTION" /\ Root \notin Comp
  BY <1>1, TreeAssumption DEF Law, Needs
<1>3. \A c \in Comp : ~Doomed(c, {f} \cup R)
  BY NoneDoomed DEF Harmless, Canceller
<1>4. w \in Call
  <2>1. Set(g, "COMPLETED") \in Call
    BY <1>2, SetCall, Args DEF CompStatus
  <2>2. Do("cancel_task", g, None) \in Call
    BY <1>2, DoCall, Args DEF Fn, JobFn, DbFn
  <2>. QED
    BY <2>1, <2>2
<1>5. z \in Call
  BY RaiseCall, Args DEF Exception
<1>6. w.obj = g /\ z.fn = "raise" /\ z.arg = e /\ z.obj = Root
      /\ (e = "TaskCancelled" => w.fn = "cancel_task")
      /\ (e = "TaskClosed" => w.fn = "set" /\ w.arg = "COMPLETED")
  BY DEF Do, Set, Raise
<1>7. Handler(f, e) = <<w, z>>
  BY DEF Handler
<1>. HIDE DEF w, z
<1>8. Activates(f) /\ Single(f) /\ Activates(w) /\ Activates(z) /\ ~Single(z) /\ ~Multiple(z) /\ ~Canceller(f)
      /\ ~OfCompletion(w) /\ ~OfCompletion(z)
  BY <1>2, <1>6 DEF Activates, Single, Multiple, OfCompletion, Canceller
<1>9. \A c \in Comp : Clear(f, c) => Clear(w, c)
  BY <1>6, <1>8 DEF Clear
<1>10. \A h \in R : Bears(w, h) /\ Bears(z, h)
  BY <1>1, <1>8, <1>9, BearsLike
<1>11. Atop(z, r)
  <2>1. r # <<>> => Head(r).fn \in {"except_pass", "except_first", "except_sibling", "except_next",
                                    "except_end", "except_cancelled"}
    BY <1>1 DEF Rests
  <2>. QED
    BY <1>5, <1>6, <1>8, <1>10, <2>1 DEF Atop, Rests
<1>12. Rests(w, z) /\ Bears(w, z)
  <2>1. \A d : ~Keeps(z, d)
    BY <1>6 DEF Keeps, Tell, Told
  <2>2. w.fn \notin Lowest /\ ~OfProcess(w) /\ w # Set(Root, "DISCARDED") /\ ~Canceller(z)
    BY <1>2, <1>6 DEF Lowest, Worked, Tell, Told, OfProcess, Set, Do, Canceller
  <2>. QED
    BY <1>6, <1>8, <2>1, <2>2, RestsPlain DEF Bears
<1>13. Tame(f) /\ Meek(w) /\ Meek(z)
  BY <1>2, <1>6 DEF Tame, Modest, Worked, Meek, Winds, Tell, Told
<1>14. Needs(w, st) /\ Needs(z, st) /\ Serves(w, st, ps, ok) /\ Serves(z, st, ps, ok)
  <2>1. Open(g, st)
    BY <1>2 DEF Open
  <2>2. Needs(w, st)
    BY <1>2, <1>6, <2>1 DEF Needs, Tell, Told
  <2>3. Needs(z, st)
    BY <1>2, <1>6 DEF Needs, Tell, Told
  <2>4. Serves(w, st, ps, ok) /\ Serves(z, st, ps, ok)
    BY <1>2, <1>6 DEF Serves, GoesOn, Told
  <2>. QED
    BY <2>2, <2>3, <2>4
<1>15. \A c : (Cancels(w, c) <=> e = "TaskCancelled" /\ c = g) /\ ~Cancels(z, c)
  BY <1>6 DEF Cancels
<1>16. \A c : Ending(c, {w, z}) <=> (e = "TaskClosed" /\ c = g)
  BY <1>6, Two, Lone DEF Terminal
<1>17. \A c : Doomed(c, {w, z}) <=> e = "TaskCancelled" /\ c = g
  BY <1>15, Two
<1>18. \A c : ~Doomed(c, {f}) /\ ~ToStart(c, {f})
  <2>1. \A c : ~Cancels(f, c) /\ ~Starts(f, c)
    BY DEF Cancels, Starts
  <2>. QED
    BY <2>1, Lone
<1>19. g = Completion => Winding({f} \cup R, st, ps, ok)
  BY <1>2 DEF Winding
<1>20. InCompletion(f)
  BY DEF InCompletion
<1>21. g = Completion => Leaving({w, z}, st)
  BY <1>16, <1>17 DEF Leaving
<1>22. /\ Parent[g] \in Comp => st[Parent[g]] # "NEW"
       /\ \A b \in Comp : Ordered!Precedes(b, g) => ~Open(b, st)
  <2>1. NewBelow({f} \cup R, st) /\ InLine({f} \cup R, st)
    BY <1>1 DEF Law
  <2>. QED
    BY <1>2, <1>3, <2>1 DEF NewBelow, InLine
<1>23. Swap({f}, {w, z}, R, st, ps, ok)
  <2>1. \A h \in {w, z} : Meek(h) /\ Needs(h, st) /\ Serves(h, st, ps, ok)
    BY <1>13, <1>14
  <2>2. \A c \in Comp : Open(c, st) /\ Doomed(c, {w, z}) =>
           \/ Doomed(c, {f})
           \/ /\ Parent[c] \in Comp /\ st[Parent[c]] = "NEW" => Doomed(Parent[c], {w, z})
              /\ \A b \in Comp : Ordered!Precedes(b, c) => ~Open(b, st) \/ Doomed(b, {w, z})
    BY <1>17, <1>22
  <2>3. \A c \in Comp : Ending(c, {w, z}) => \A d \in Components(c) : Open(d, st) => Doomed(d, {w, z})
    BY <1>16
  <2>4. Doomed(Completion, {w, z}) => Winding({f} \cup R, st, ps, ok)
    BY <1>17, <1>19
  <2>5. (\E h \in {f} : h.fn = "except_activate" /\ h.obj = Completion) => Leaving({w, z}, st)
    BY <1>21
  <2>6. \E h \in {f} \cup R : InCompletion(h)
    BY <1>20
  <2>7. \A h \in {f} : Tame(h)
    BY <1>13
  <2>. HIDE DEF R, g
  <2>. QED
    BY <1>18, <2>1, <2>2, <2>3, <2>4, <2>5, <2>6, <2>7, SwapMeek
<1>24. Normal(<<w, z>> \o r, st, ps, ok)
  BY <1>4, <1>10, <1>11, <1>12, <1>23, Become2
<1>. QED
  BY <1>7, <1>24

\* The process goes on without the component that was cancelled: it ends.
LEMMA Retried ==
  ASSUME NEW f, NEW r, NEW st \in [Comp -> CompStatus], NEW ps, NEW ok, On(f, r, st, ps, ok),
         f.fn = "except_cancelled", st[Completion] # "EXECUTION"
  PROVE  Normal(<<Do("cancel_subtasks_and_close", Root, None)>> \o r, st, ps, ok)
<1>. DEFINE R == Frames(r)
            x == Do("cancel_subtasks_and_close", Root, None)
<1>1. f \in Call /\ r \in Seq(Call) /\ Shape(r) /\ Law({f} \cup R, st, ps, ok)
  BY DEF On
<1>2. \A h \in R : h.fn \in Worked
  BY AtBottom DEF Lowest
<1>3. x \in Call
  BY DoCall, Args DEF Fn, JobFn, DbFn
<1>4. x.fn = "cancel_subtasks_and_close" /\ x.obj = Root /\ Root \notin Comp
  BY TreeAssumption DEF Do
<1>. HIDE DEF x
<1>5. \A h \in R : Bears(x, h)
  BY <1>2, <1>4, OverWorked DEF Set, Do
<1>6. r # <<>> => Head(r) \in R
  BY <1>1, ShapeTop
<1>7. Atop(x, r)
  <2>1. r # <<>> => Head(r).fn # "except_end"
    BY <1>2, <1>6 DEF Worked
  <2>. QED
    BY <1>3, <1>4, <1>5, <2>1, RestsPlain DEF Atop
<1>8. ok
  BY <1>1 DEF Law, Serves
<1>9. Needs(x, st) /\ Serves(x, st, ps, ok)
  BY <1>4, <1>8 DEF Needs, Serves, GoesOn, Tell, Told
<1>10. Meek(x) /\ Harmless(x) /\ ~InCompletion(x) /\ Modest(f)
  BY <1>4 DEF Meek, Winds, Harmless, Canceller, InCompletion, Modest, Tell, Told
<1>11. \A c \in Comp : ~Doomed(c, {x}) /\ ~Ending(c, {x})
  BY <1>10, NoHarm
<1>12. \A c : ~Doomed(c, {f}) /\ ~ToStart(c, {f})
  <2>1. \A c : ~Cancels(f, c) /\ ~Starts(f, c)
    BY DEF Cancels, Starts
  <2>. QED
    BY <2>1, Lone
<1>13. ~Has("except_cancelled", R)
  BY <1>2 DEF Has, Worked
<1>14. Completion \in Comp
  BY TreeAssumption
<1>15. Swap({f}, {x}, R, st, ps, ok)
  BY <1>9, <1>10, <1>11, <1>12, <1>13, <1>14, SwapModest
<1>. QED
  BY <1>7, <1>15, Become1 DEF x

\* The try block around the completion group ends the process.
LEMMA EndedAnyway ==
  ASSUME NEW f, NEW s \in Seq(Call), NEW st \in [Comp -> CompStatus], NEW ps, NEW ok,
         On(f, s, st, ps, ok), f.fn = "raise", s # <<>>, Head(s).fn = "except_end"
  PROVE  Normal(<<Set(Root, Head(s).arg)>> \o Tail(s), st, ps, ok)
<1>. DEFINE h == Head(s)
            r == Tail(s)
            R == Frames(r)
            F == {f, h}
            x == Set(Root, h.arg)
<1>1. Shape(s) /\ (\A g \in Frames(s) : Bears(f, g)) /\ Law({f} \cup Frames(s), st, ps, ok)
  BY DEF On
<1>2. /\ h \in Call /\ r \in Seq(Call) /\ Shape(r) /\ Frames(s) = {h} \cup R
      /\ (\A g \in R : Bears(h, g)) /\ (r # <<>> => Rests(h, Head(r)) /\ Head(r) \in R)
  <2>1. /\ h \in Call /\ r \in Seq(Call) /\ Shape(r) /\ Frames(s) = {h} \cup R
        /\ (\A g \in R : Bears(h, g)) /\ (r # <<>> => Rests(h, Head(r)))
    BY <1>1, ShapeTop
  <2>2. r # <<>> => Head(r) \in R
    BY <2>1, HeadIn
  <2>. QED
    BY <2>1, <2>2
<1>3. Law(F \cup R, st, ps, ok)
  <2>1. {f} \cup Frames(s) = F \cup R
    BY <1>2
  <2>. QED
    BY <1>1, <2>1
<1>4. \A g \in R : g.fn \in {"except_cancelled"} \cup Worked
  BY <1>2 DEF Bears, OfProcess
<1>5. h.arg \in {"COMPLETED", "FAILED"} /\ (h.arg = "COMPLETED" => ok)
  BY <1>3 DEF Law, Serves
<1>6. Gone(Completion, st)
  <2>1. EndTried(F \cup R, st)
    BY <1>3 DEF Law
  <2>2. Has("except_end", F) /\ InCompletion(f)
    BY DEF Has, InCompletion
  <2>3. ~\E g \in F \cup R : g.fn = "except_activate"
    BY <1>4 DEF Worked
  <2>4. Leaving(F \cup R, st)
    BY <2>1, <2>2, <2>3 DEF EndTried, Has
  <2>5. ~Doomed(Completion, F \cup R) /\ ~Ending(Completion, F \cup R)
    BY <1>4 DEF Doomed, Ending, Cancels, Worked
  <2>. QED
    BY <2>4, <2>5 DEF Leaving
<1>7. x \in Call
  BY <1>5, SetCall, Args DEF ProcStatus
<1>8. x.fn = "set" /\ x.obj = Root /\ x.arg = h.arg /\ Root \notin Comp
  BY TreeAssumption DEF Set, Do
<1>9. x # Set(Root, "DISCARDED")
  BY <1>5 DEF Set, Do
<1>. HIDE DEF x, h, r, R
<1>10. \A g \in R : Bears(x, g)
  BY <1>4, <1>8, <1>9, OverBase DEF Lowest, Worked, Tell, Told
<1>11. Atop(x, r)
  <2>1. r # <<>> => Head(r).fn # "except_end"
    BY <1>2, <1>4 DEF Worked
  <2>. QED
    BY <1>7, <1>8, <1>10, <2>1, RestsPlain DEF Atop, R
<1>12. Needs(x, st) /\ Serves(x, st, ps, ok)
  BY <1>5, <1>6, <1>8 DEF Needs, Serves, GoesOn, Tell, Told
<1>13. ~InCompletion(x) /\ x.fn \notin Tell /\ ~Canceller(x) /\ ~(x.fn = "set" /\ x.obj \in Comp)
  BY <1>8 DEF InCompletion, Tell, Told, Canceller
<1>14. \A c \in Comp : ~Doomed(c, {x}) /\ ~Ending(c, {x}) /\ ~Doomed(c, F) /\ ~Ending(c, F) /\ ~ToStart(c, F)
  <2>1. \A c \in Comp : ~Doomed(c, {x}) /\ ~Ending(c, {x})
    BY <1>13, NoHarm DEF Harmless
  <2>2. h.fn = "except_end"
    BY DEF h
  <2>3. \A c : ~Cancels(f, c) /\ ~Cancels(h, c) /\ ~Starts(f, c) /\ ~Starts(h, c)
    BY <2>2 DEF Cancels, Starts
  <2>4. \A c : ~Ending(c, F)
    BY <2>2 DEF Ending
  <2>. QED
    BY <2>1, <2>3, <2>4, Two
<1>15. Winding(F \cup R, st, ps, ok)
  BY DEF Winding, Winds, h
<1>16. Completion \in Comp /\ \A c \in Components(Completion) : c \in Comp
  BY TreeAssumption DEF Components
<1>18. ~\E g \in {x} \cup R : g.fn = "activate_task"
  BY <1>4, <1>8 DEF Worked
<1>19. st[Completion] # "EXECUTION"
  BY <1>6 DEF Gone, Terminal
<1>20. x.arg # "DISCARDED"
  BY <1>5, <1>8
<1>21. ~Has("dismiss_completion", F)
  BY DEF Has, h
<1>22. ~\E g \in F : g.fn = "except_activate"
  BY DEF h
<1>23. ~\A g \in F : g.fn \in {"except_cancelled"} \cup Worked
  BY DEF Worked
<1>24. Swap(F, {x}, R, st, ps, ok)
  <2>. HIDE DEF F
  <2>1. \A g \in {x} : /\ g = x /\ Needs(g, st) /\ Serves(g, st, ps, ok) /\ ~InCompletion(g)
                       /\ g.fn = "set" /\ g.fn \notin Tell /\ g.fn # "activate_task" /\ g.arg # "DISCARDED"
    BY <1>8, <1>12, <1>13, <1>20
  <2>2. \A g \in {x} : Needs(g, st) /\ Serves(g, st, ps, ok)
    BY <2>1
  <2>3. ~Doomed(Completion, {x}) /\ \A c \in Components(Completion) : ~ToStart(c, F)
    BY <1>14, <1>16
  <2>4. ~Has("end_completion", {x}) /\ ~Has("except_end", {x}) /\ ~Has("except_cancelled", {x})
    BY <2>1 DEF Has
  <2>5. ~\E g \in {x} : InCompletion(g) \/ g.fn \in Tell \/ g.fn = "activate_task" \/ g.arg = "DISCARDED"
    BY <2>1
  <2>6. ~Ending(Completion, F)
    BY <1>14, <1>16
  <2>. HIDE DEF R
  <2>. QED
    BY <1>14, <1>15, <1>18, <1>19, <1>21, <1>22, <1>23, <2>2, <2>3, <2>4, <2>5, <2>6 DEF Swap
<1>25. Law({x} \cup R, st, ps, ok)
  <2>. HIDE DEF F
  <2>. QED
    BY <1>3, <1>24, Replace
<1>26. Normal(<<x>> \o r, st, ps, ok)
  BY <1>2, <1>11, <1>25, Stack1 DEF Normal, R
<1>. QED
  BY <1>26 DEF x, h, r

(* Calls made last: nothing but a worker's job waits for them.                *)

\* What the last calls stand on bears nearly everything.
LEMMA AtopWorked ==
  ASSUME NEW f, NEW r, NEW st, NEW ps, NEW ok, On(f, r, st, ps, ok), f.fn \in Lowest,
         NEW x \in Call, x # Set(Root, "DISCARDED"),
         x.fn \notin {"activate_process", "dismiss_process", "dismiss_completion"}
  PROVE  /\ \A h \in Frames(r) : Bears(x, h)
         /\ x.fn \notin {"activate_task", "raise", "except_activate", "activate_next", "except_next",
                         "activate_tasks", "activate_each", "activate_first", "except_first"}
              => Atop(x, r)
<1>1. \A h \in Frames(r) : h.fn \in Worked
  BY AtBottom
<1>2. \A h \in Frames(r) : Bears(x, h)
  BY <1>1, OverWorked
<1>3. r # <<>> => Head(r).fn # "except_end"
  BY <1>1, HeadIn DEF On, Worked
<1>. QED
  BY <1>2, <1>3, RestsPlain DEF Atop

\* Replacing the last call: nothing waits for it but a worker's job.
LEMMA SwapBottom ==
  ASSUME NEW f, NEW N, NEW R, NEW st, NEW ps, NEW ok,
         f.fn \in Lowest \ ({"except_cancelled", "cancel_subtasks"} \cup Worked),
         \A h \in R : h.fn \in Worked,
         \A h \in N : Needs(h, st) /\ Serves(h, st, ps, ok),
         \A c \in Comp : Open(c, st) /\ Doomed(c, N) =>
           /\ Parent[c] \in Comp /\ st[Parent[c]] = "NEW" => Doomed(Parent[c], N)
           /\ \A b \in Comp : Ordered!Precedes(b, c) => ~Open(b, st) \/ Doomed(b, N),
         \A c \in Comp : Ending(c, N) => \A d \in Components(c) : Open(d, st) => Doomed(d, N),
         (\E h \in N : Winds(h)) \/ Doomed(Completion, N) =>
           \/ Winding({f} \cup R, st, ps, ok)
           \/ \A c \in Components(Root) : Open(c, st) => Doomed(c, N),
         Has("end_completion", N) => \A c \in Components(Completion) : Open(c, st) => Doomed(c, N),
         \A h \in N : h.fn \in Tell /\ h.obj = Root /\ h.arg = Completion => Leaving(N, st),
         \A h \in N : /\ h.fn # "except_end" /\ ~(h.fn = "activate_task" /\ h.obj = Completion)
                      /\ ~(h.fn = "set" /\ h.obj = Root /\ h.arg = "DISCARDED"),
         Has("except_cancelled", N) => st[Completion] # "EXECUTION"
  PROVE  Swap({f}, N, R, st, ps, ok)
<1>1. \A c : ~Cancels(f, c) /\ ~Starts(f, c)
  BY DEF Lowest, Cancels, Starts, Tell, Told, Worked
<1>2. f.fn \notin {"set", "except_activate", "except_end", "dismiss_completion"}
  BY DEF Lowest, Tell, Told, Worked
<1>3. \A c : ~Doomed(c, {f}) /\ ~Ending(c, {f}) /\ ~ToStart(c, {f})
  BY <1>1, <1>2, Lone
<1>4. ~Has("except_end", {f}) /\ ~Has("dismiss_completion", {f})
  BY <1>2 DEF Has
<1>5. ~Has("except_end", N \cup R) /\ ~Has("except_end", N)
  BY DEF Has, Worked
<1>6. ~\A g \in {f} : g.fn \in {"except_cancelled"} \cup Worked
  OBVIOUS
<1>7. ~\E g \in {f} : g.fn = "except_activate"
  BY <1>2
<1>. QED
  BY <1>3, <1>4, <1>5, <1>6, <1>7 DEF Swap

\* A component is dealt with before its parent is told.
LEMMA BearsTell ==
  ASSUME Rooted, NEW x, NEW y, NEW g \in Comp, x.obj = g,
         x.fn \in {"set", "cancel_task", "cancel_subtasks"},
         y.fn \in Tell, y.obj = Parent[g], y.arg = g
  PROVE  Bears(x, y) /\ Rests(x, y)
<1>1. Root \notin Comp
  BY TreeAssumption
<1>2. ASSUME NEW d \in Comp, Keeps(y, d) PROVE Clear(x, d)
  <2>1. d = Parent[g] \/ d \in Later(g)
    BY <1>2 DEF Keeps, Tell, Told
  <2>2. CASE d = Parent[g]
    <3>1. Depth[d] \in Nat /\ Depth[g] \in Nat /\ Depth[d] < Depth[g]
      BY <2>2, DeeperThanParent
    <3>. QED
      BY <3>1 DEF Clear
  <2>3. CASE d \in Later(g)
    <3>1. Parent[d] = Parent[g] /\ Position[g] < Position[d]
      BY <2>3 DEF Later, Ordered!Precedes
    <3>2. d # g
      BY <3>1, TreeAssumption
    <3>3. Depth[d] = Depth[Parent[d]] + 1 /\ Depth[g] = Depth[Parent[g]] + 1 /\ Depth[d] \in Nat
      BY Depths
    <3>4. Depth[d] <= Depth[g]
      BY <3>1, <3>3
    <3>. QED
      BY <3>2, <3>4 DEF Clear
  <2>. QED
    BY <2>1, <2>2, <2>3
<1>3. x.fn \notin Lowest /\ ~OfProcess(x) /\ ~OfCompletion(x)
  BY <1>1 DEF Lowest, Worked, Tell, Told, OfProcess, OfCompletion
<1>4. x # Set(Root, "DISCARDED") /\ x.fn \notin {"activate_process", "dismiss_process", "dismiss_completion"}
  BY <1>1 DEF Set, Do
<1>5. ~Canceller(y) /\ y.fn \notin {"fail_job", "activate_each", "activate_task", "activate_tasks",
                                    "activate_first", "activate_process", "except_end"}
  BY DEF Canceller, Tell, Told
<1>6. Bears(x, y)
  BY <1>2, <1>3, <1>4, <1>5 DEF Bears
<1>. QED
  BY <1>5, <1>6, RestsPlain

\* What a parent is told of a component that runs
LEMMA TellNeeds ==
  ASSUME NEW y, NEW g \in Comp, y.fn \in Tell, y.fn # "propagate_finish", y.obj = Parent[g], y.arg = g,
         NEW st \in [Comp -> CompStatus], NEW ps, NEW ok, Goes(Parent[g], st), New(Later(g), st),
         g \in Components(Root) => ok /\ st[Completion] # "EXECUTION",
         y.fn = "propagate_refuse" => ps # "COMPLETED",
         y.fn = "propagate_done" /\ Parent[g] = Root => ok
  PROVE  Needs(y, st) /\ Serves(y, st, ps, ok)
<1>1. y.obj = Root /\ g # Completion => g \in Components(Root)
  BY DEF Components
<1>2. Needs(y, st)
  BY DEF Needs, Tell, Told
<1>. QED
  BY <1>1, <1>2 DEF Serves, GoesOn, Tell, Told

\* The calls of Do(fn, ...)
LEMMA TellCall ==
  ASSUME NEW fn \in Tell, NEW g \in Comp
  PROVE  LET y == Do(fn, Parent[g], g) IN y \in Call /\ y.fn = fn /\ y.obj = Parent[g] /\ y.arg = g
<1>1. fn \in Fn \ (JobFn \cup DbFn \cup {"except_sibling"})
  BY DEF Tell, Told, Fn, JobFn, DbFn
<1>2. Do(fn, Parent[g], g) \in Call
  BY <1>1, DoCall, ParentIn, Args
<1>. QED
  BY <1>2 DEF Do

\* A sequential group whose next component was cancelled is cancelled.
LEMMA CancelGroup ==
  ASSUME Rooted, NEW f, NEW r, NEW st \in [Comp -> CompStatus], NEW ps, NEW ok,
         On(f, r, st, ps, ok), f.fn \in Lowest \ ({"except_cancelled", "cancel_subtasks"} \cup Worked),
         NEW g \in Comp, st[g] = "EXECUTION"
  PROVE  Normal(Cancelled(g) \o r, st, ps, ok)
<1>. DEFINE R == Frames(r)
            x == Do("cancel_task", g, None)
            y == Do("propagate_cancel", Parent[g], g)
<1>1. f \in Call /\ r \in Seq(Call) /\ Shape(r) /\ Law({f} \cup R, st, ps, ok)
  BY DEF On
<1>2. \A h \in R : h.fn \in Worked
  BY AtBottom
<1>3. x \in Call /\ x.fn = "cancel_task" /\ x.obj = g
  BY DoCall, Args DEF Fn, JobFn, DbFn, Do
<1>4. y \in Call /\ y.fn = "propagate_cancel" /\ y.obj = Parent[g] /\ y.arg = g
  BY TellCall DEF Tell, Told
<1>5. \A c \in Comp : ~Doomed(c, {f} \cup R)
  BY NoneDoomed DEF Harmless, Canceller, Lowest, Worked, Tell, Told
<1>6. /\ Goes(Parent[g], st) /\ New(Later(g), st)
      /\ g \in Components(Root) => ok /\ st[Completion] = "NEW"
  BY <1>1, <1>5, RunningUp
<1>. HIDE DEF x, y
<1>7. y.fn \in Tell
  BY <1>4 DEF Tell, Told
<1>8. Bears(x, y) /\ Rests(x, y)
  BY <1>3, <1>4, <1>7, BearsTell
<1>9. (\A h \in R : Bears(x, h)) /\ Atop(y, r)
  BY <1>3, <1>4, AtopWorked DEF Set, Do
<1>10. Needs(y, st) /\ Serves(y, st, ps, ok)
  BY <1>4, <1>6, <1>7, TellNeeds
<1>11. Needs(x, st) /\ Serves(x, st, ps, ok)
  BY <1>3, TreeAssumption DEF Needs, Serves, GoesOn, Open, Tell, Told
<1>12. \A c : (Doomed(c, {x, y}) <=> c = g) /\ ~Ending(c, {x, y})
  <2>1. \A c : (Cancels(x, c) <=> c = g) /\ ~Cancels(y, c)
    BY <1>3, <1>4 DEF Cancels
  <2>2. \A c : ~Ending(c, {x}) /\ ~Ending(c, {y})
    BY <1>3, <1>4, Lone
  <2>. QED
    BY <2>1, <2>2, Two
<1>13. /\ Parent[g] \in Comp => st[Parent[g]] # "NEW"
       /\ \A b \in Comp : Ordered!Precedes(b, g) => ~Open(b, st)
  <2>1. InLine({f} \cup R, st)
    BY <1>1 DEF Law
  <2>. QED
    BY <1>5, <1>6, <2>1 DEF InLine, Goes
<1>14. Doomed(Completion, {x, y}) => Winding({f} \cup R, st, ps, ok)
  BY <1>12 DEF Winding
<1>15. ~Winds(x) /\ ~Winds(y)
  BY <1>3, <1>4 DEF Winds
<1>16. g = Completion => Leaving({x, y}, st)
  BY <1>12 DEF Leaving
<1>17. \A h \in {x, y} : /\ Needs(h, st) /\ Serves(h, st, ps, ok) /\ ~Winds(h)
                         /\ h.fn \notin {"except_end", "activate_task", "set", "except_cancelled", "end_completion"}
                         /\ (h.fn \in Tell => h.arg = g)
  BY <1>3, <1>4, <1>10, <1>11, <1>15 DEF Tell, Told
<1>18. Swap({f}, {x, y}, R, st, ps, ok)
  <2>1. ~Has("end_completion", {x, y}) /\ ~Has("except_cancelled", {x, y})
    BY <1>17 DEF Has
  <2>. HIDE DEF R
  <2>. QED
    BY <1>2, <1>12, <1>13, <1>14, <1>16, <1>17, <2>1, SwapBottom
<1>19. Normal(<<x, y>> \o r, st, ps, ok)
  BY <1>3, <1>8, <1>9, <1>18, Become2
<1>. QED
  BY <1>19 DEF Cancelled, x, y

\* A sequential group goes on with the component after one that ended at once.
LEMMA FirstAgain ==
  ASSUME NEW f, NEW r, NEW st \in [Comp -> CompStatus], NEW ps, NEW ok, On(f, r, st, ps, ok),
         f.fn = "except_first", NEW n \in Comp \cup {None},
         n \in Comp => st[n] = "NEW" /\ New(Later(n), st),
         n \notin Comp => \A c \in Components(f.obj) : ~Open(c, st)
  PROVE  Normal(<<Do("activate_first", f.obj, n)>> \o r, st, ps, ok)
<1>. DEFINE R == Frames(r)
            x == Do("activate_first", f.obj, n)
<1>1. f \in Call /\ r \in Seq(Call) /\ Shape(r) /\ (\A h \in R : Bears(f, h))
      /\ (r # <<>> => Rests(f, Head(r))) /\ Law({f} \cup R, st, ps, ok)
  BY DEF On
<1>2. f.obj \in Comp /\ st[f.obj] = "EXECUTION" /\ Root \notin Comp
  BY <1>1, TreeAssumption DEF Law, Needs
<1>3. x \in Call /\ x.fn = "activate_first" /\ x.obj = f.obj /\ x.arg = n
  BY <1>2, DoCall, Args DEF Fn, JobFn, DbFn, Do
<1>. HIDE DEF x
<1>4. /\ Activates(f) /\ Activates(x) /\ Multiple(f) /\ Multiple(x) /\ ~Single(x) /\ ~Single(f)
      /\ ~Canceller(f) /\ ~OfCompletion(x)
  BY <1>3 DEF Activates, Multiple, Single, Canceller, OfCompletion
<1>5. \A c \in Comp : Clear(f, c) => Clear(x, c)
  BY <1>3, <1>4 DEF Clear
<1>6. \A h \in R : Bears(x, h)
  BY <1>1, <1>4, <1>5, BearsLike
<1>7. Atop(x, r)
  BY <1>1, <1>3, <1>4, <1>6 DEF Atop, Rests
<1>8. Tame(f) /\ Mild(x) /\ Harmless(x)
  BY <1>3 DEF Tame, Modest, Worked, Mild, Meek, Winds, InCompletion, Harmless, Canceller, Tell, Told
<1>9. Needs(x, st) /\ Serves(x, st, ps, ok)
  BY <1>2, <1>3 DEF Needs, Serves, GoesOn, Tell, Told
<1>10. \A c \in Comp : ~Doomed(c, {x}) /\ ~Ending(c, {x})
  BY <1>8, NoHarm
<1>11. \A c : ~Cancels(f, c) /\ ~Starts(f, c)
  BY DEF Cancels, Starts
<1>12. Completion \in Comp
  BY TreeAssumption
<1>13. Swap({f}, {x}, R, st, ps, ok)
  BY <1>8, <1>9, <1>10, <1>11, <1>12, SwapMild
<1>. QED
  BY <1>7, <1>13, Become1 DEF x

\* The process goes on with the component after one that ended at once.
LEMMA NextAgain ==
  ASSUME NEW f, NEW r, NEW st \in [Comp -> CompStatus], NEW ps, NEW ok, On(f, r, st, ps, ok),
         f.fn = "except_next", NEW n \in Comp \cup {None},
         n \in Comp => st[n] = "NEW" /\ New(Later(n), st),
         n \notin Comp => \A c \in Components(Root) : ~Open(c, st)
  PROVE  Normal(<<Do("activate_next", Root, n)>> \o r, st, ps, ok)
<1>. DEFINE R == Frames(r)
            x == Do("activate_next", Root, n)
<1>1. f \in Call /\ r \in Seq(Call) /\ Shape(r) /\ (\A h \in R : Bears(f, h))
      /\ (r # <<>> => Rests(f, Head(r))) /\ Law({f} \cup R, st, ps, ok)
  BY DEF On
<1>2. Root \notin Comp
  BY TreeAssumption
<1>3. x \in Call /\ x.fn = "activate_next" /\ x.obj = Root /\ x.arg = n
  BY <1>2, DoCall, Args DEF Fn, JobFn, DbFn, Do
<1>4. \A h \in R : h.fn \in {"except_cancelled"} \cup Worked
  BY <1>1 DEF Bears, OfProcess
<1>5. x # Set(Root, "DISCARDED")
  BY <1>3 DEF Set, Do
<1>. HIDE DEF x
<1>6. \A h \in R : Bears(x, h)
  BY <1>3, <1>4, <1>5, OverBase DEF Lowest, Worked, Tell, Told
<1>7. Atop(x, r)
  <2>1. r # <<>> => Head(r).fn = "except_cancelled"
    BY <1>1 DEF Rests
  <2>. QED
    BY <1>3, <1>6, <2>1 DEF Atop, Rests, OfCompletion
<1>8. GoesOn(f)
  BY DEF GoesOn
<1>9. Needs(x, st) /\ Serves(x, st, ps, ok)
  <2>1. ok /\ st[Completion] # "EXECUTION"
    BY <1>1, <1>8 DEF Law, Serves
  <2>. QED
    BY <1>2, <1>3, <2>1 DEF Needs, Serves, GoesOn, Tell, Told
<1>10. Harmless(x) /\ ~InCompletion(x) /\ (Winds(x) => n \notin Comp)
  BY <1>3 DEF Harmless, Canceller, InCompletion, Winds
<1>11. \A c \in Comp : ~Doomed(c, {x}) /\ ~Ending(c, {x})
  BY <1>10, NoHarm
<1>12. \A c : ~Doomed(c, {f}) /\ ~ToStart(c, {f}) /\ ~Ending(c, {f})
  <2>1. \A c : ~Cancels(f, c) /\ ~Starts(f, c)
    BY DEF Cancels, Starts
  <2>. QED
    BY <2>1, Lone
<1>13. Completion \in Comp
  BY TreeAssumption
<1>14. \A h \in {x} : /\ Needs(h, st) /\ Serves(h, st, ps, ok) /\ ~InCompletion(h) /\ (Winds(h) => n \notin Comp)
                      /\ h.fn = "activate_next" /\ h.fn \notin Tell
  BY <1>3, <1>9, <1>10 DEF Tell, Told
<1>15. ~Has("except_end", {x}) /\ ~Has("end_completion", {x}) /\ ~Has("except_cancelled", {x})
  BY <1>14 DEF Has
<1>16. ~Has("except_end", {f}) /\ ~Has("dismiss_completion", {f})
  BY DEF Has
<1>17. ~(\A g \in {f} : g.fn \in {"except_cancelled"} \cup Worked) /\ ~(\E g \in {f} : g.fn = "except_activate")
  BY DEF Worked
<1>18. Swap({f}, {x}, R, st, ps, ok)
  <2>1. (\E h \in {x} : Winds(h)) => \A c \in Components(Root) : ~Open(c, st)
    BY <1>14
  <2>2. ~(\E h \in {x} : InCompletion(h) \/ h.fn \in Tell \/ h.fn \in {"activate_task", "set"})
    BY <1>14
  <2>3. \A h \in {x} : Needs(h, st) /\ Serves(h, st, ps, ok)
    BY <1>14
  <2>. HIDE DEF R
  <2>. QED
    BY <1>11, <1>12, <1>13, <1>15, <1>16, <1>17, <2>1, <2>2, <2>3 DEF Swap
<1>. QED
  BY <1>7, <1>18, Become1 DEF x

\* An exception that is raised for the component behind a try block
LEMMA RaiseNormal ==
  ASSUME TasksLast, Rooted, NEW f, NEW s \in Seq(Call), NEW st \in [Comp -> CompStatus], NEW ps, NEW ok,
         On(f, s, st, ps, ok), f.fn = "raise",
         s # <<>> /\ Head(s).fn \in Jump =>
           /\ Head(s).arg \in Comp \ {Completion}
           /\ \A b \in Comp : Ordered!Precedes(b, Head(s).arg) => ~Open(b, st)
           /\ f.arg = "TaskClosed" => Head(s).arg \notin Task /\ ~Open(Head(s).arg, st),
         s # <<>> /\ Head(s).fn = "except_first" =>
           Head(s).obj = Parent[Head(s).arg] /\ Kind[Head(s).obj] = "sequential",
         s # <<>> /\ Head(s).fn = "except_next" => Parent[Head(s).arg] = Root
  PROVE  Normal(Unwound(s, f.arg), st, ps, ok)
<1>. DEFINE e == f.arg
            h == Head(s)
            r == Tail(s)
            R == Frames(r)
<1>1. e \in {"TaskCancelled", "TaskClosed"} /\ e \in Exception
  BY DEF On, Law, Needs, Exception
<1>2. Normal(s, st, ps, ok)
  BY Drop DEF Cancels, Starts
<1>3. CASE s = <<>>
  BY <1>2, <1>3, UnwoundNil
<1>4. CASE s # <<>>
  <2>1. h.fn \in {"except_pass", "except_first", "except_sibling", "except_next", "except_end", "except_cancelled"}
    BY <1>4 DEF On, Rests
  <2>2. On(h, r, st, ps, ok)
    BY <1>2, <1>4, NormalOn
  <2>3. r \in Seq(Call) /\ Law({h} \cup R, st, ps, ok) /\ Frames(s) = {h} \cup R
    BY <1>2, <1>4, <2>2, ShapeTop DEF On, Normal
  <2>4. e \in Catches(h.fn) => Unwound(s, e) = Handler(h, e) \o r
    BY <1>4, UnwoundCaught
  <2>5. e \notin Catches(h.fn) => Unwound(s, e) = Unwound(r, e)
    BY <1>4, UnwoundPassed
  <2>6. (\A c : ~Cancels(h, c)) /\ \A c : ~Starts(h, c)
    BY <2>1 DEF Cancels, Starts
  <2>7. h.fn # "except_end" => Normal(r, st, ps, ok)
    BY <2>1, <2>2, <2>6, Drop
  <2>8. r # <<>> => On(Head(r), Tail(r), st, ps, ok) \/ h.fn = "except_end"
    BY <2>3, <2>7, NormalOn
  <2>9. ASSUME h.fn = "except_cancelled" \/ (r # <<>> /\ h.fn = "except_next" /\ Head(r).fn = "except_cancelled")
        PROVE  st[Completion] # "EXECUTION"
    <3>1. \A g \in R : Bears(h, g)
      BY <2>2 DEF On
    <3>2. \A g \in R : g.fn \in {"except_cancelled", "fail_job"} \cup Worked
      BY <2>9, <3>1 DEF Bears, Lowest, OfProcess
    <3>3. r # <<>> => Head(r) \in R
      BY <2>3, HeadIn
    <3>4. Has("except_cancelled", {h} \cup R)
      BY <2>9, <3>3 DEF Has
    <3>5. ~Has("except_end", {f} \cup ({h} \cup R))
      BY <2>9, <3>2 DEF Has, Worked
    <3>6. Starter({f} \cup ({h} \cup R), st)
      BY <2>3 DEF On, Law
    <3>7. f.fn \notin {"except_cancelled"} \cup Worked
      BY DEF Worked
    <3>. QED
      BY <3>4, <3>5, <3>6, <3>7 DEF Starter, Has
  <2>10. CASE h.fn = "except_pass"
    <3>1. Handler(h, e) = <<>> /\ e \in Catches(h.fn)
      BY <1>1, <2>10 DEF Handler, Catches
    <3>2. <<>> \o r = r
      BY <2>3, ConcatEmptySeq
    <3>. QED
      BY <2>4, <2>7, <2>10, <3>1, <3>2
  <2>11. CASE h.fn = "except_end"
    <3>1. Handler(h, e) = <<Set(Root, h.arg)>> /\ e \in Catches(h.fn)
      BY <1>1, <2>11 DEF Handler, Catches
    <3>2. Normal(<<Set(Root, h.arg)>> \o r, st, ps, ok)
      BY <1>4, <2>11, EndedAnyway
    <3>. QED
      BY <2>4, <3>1, <3>2
  <2>12. CASE h.fn = "except_cancelled" /\ e = "TaskCancelled"
    <3>1. Handler(h, e) = <<Do("cancel_subtasks_and_close", Root, None)>> /\ e \in Catches(h.fn)
      BY <2>12 DEF Handler, Catches
    <3>. QED
      BY <2>2, <2>4, <2>9, <2>12, <3>1, Retried
  <2>13. CASE h.fn \in {"except_cancelled", "except_sibling"} /\ e = "TaskClosed"
    BY <1>1, <1>2, <2>13, ThrownBase
  <2>14. CASE h.fn = "except_sibling" /\ e = "TaskCancelled"
    <3>1. Handler(h, e) = Cancelled(h.obj) /\ e \in Catches(h.fn)
      BY <2>14 DEF Handler, Catches, Cancelled
    <3>2. h.obj \in Comp /\ st[h.obj] = "EXECUTION"
      BY <2>3, <2>14 DEF Law, Needs
    <3>3. h.fn \in Lowest \ ({"except_cancelled", "cancel_subtasks"} \cup Worked)
      BY <2>14 DEF Lowest, Worked
    <3>4. Normal(Cancelled(h.obj) \o r, st, ps, ok)
      BY <2>2, <3>2, <3>3, CancelGroup
    <3>. QED
      BY <2>4, <3>1, <3>4
  <2>15. ASSUME h.fn \in Jump, e = "TaskClosed"
         PROVE  LET n == NextComp(h.arg)
                IN  /\ n \in Comp \cup {None}
                    /\ n \in Comp => st[n] = "NEW" /\ New(Later(n), st)
                    /\ n \notin Comp => \A c \in Components(Parent[h.arg]) : ~Open(c, st)
    <3>. DEFINE c == h.arg
                n == NextComp(c)
                m == NextSibling(c)
    <3>1. /\ c \in Comp /\ c # Completion /\ c \notin Task /\ ~Open(c, st)
          /\ \A b \in Comp : Ordered!Precedes(b, c) => ~Open(b, st)
      BY <1>4, <2>15
    <3>2. IsSequential(Parent[c]) /\ Parent[c] \in Comp \cup {Root}
          /\ (Parent[c] = Root \/ Kind[Parent[c]] = "sequential")
      BY <1>4, <2>15, <3>1, ParentIn DEF Jump, IsSequential
    <3>3. New(Later(c), st)
      BY <2>3, <2>15 DEF Law, Needs, Jump
    <3>4. /\ m \in Comp => /\ m \in Components(Parent[c]) /\ st[m] = "NEW" /\ New(Later(m), st)
                           /\ \A b \in Comp : Ordered!Precedes(b, m) => ~Open(b, st)
          /\ m \notin Comp => \A d \in Components(Parent[c]) : ~Open(d, st)
      BY <3>1, <3>2, <3>3, NextUp
    <3>5. n \in Comp \cup {None}
      BY DEF NextComp
    <3>6. n \in Comp => n = m
      BY <3>1, <3>2, NextAtTop, NextInGroup
    <3>7. m \in Comp => n = m
      BY <3>1, NextTaskEquation, TreeAssumption DEF NextComp
    <3>. HIDE DEF n, m, c
    <3>. QED
      BY <3>4, <3>5, <3>6, <3>7 DEF n, c
  <2>16. CASE h.fn = "except_first" /\ e = "TaskClosed"
    <3>1. Handler(h, e) = <<Do("activate_first", h.obj, NextComp(h.arg))>> /\ e \in Catches(h.fn)
      BY <2>16 DEF Handler, Catches
    <3>2. h.fn \in Jump /\ h.obj = Parent[h.arg]
      BY <1>4, <2>16 DEF Jump
    <3>3. Normal(<<Do("activate_first", h.obj, NextComp(h.arg))>> \o r, st, ps, ok)
      BY <2>2, <2>15, <2>16, <3>2, FirstAgain
    <3>. QED
      BY <2>4, <3>1, <3>3
  <2>17. CASE h.fn = "except_next" /\ e = "TaskClosed"
    <3>1. Handler(h, e) = <<Do("activate_next", Root, NextComp(h.arg))>> /\ e \in Catches(h.fn)
      BY <2>17 DEF Handler, Catches
    <3>2. h.fn \in Jump /\ Parent[h.arg] = Root
      BY <1>4, <2>17 DEF Jump
    <3>3. Normal(<<Do("activate_next", Root, NextComp(h.arg))>> \o r, st, ps, ok)
      BY <2>2, <2>15, <2>17, <3>2, NextAgain
    <3>. QED
      BY <2>4, <3>1, <3>3
  <2>18. CASE h.fn \in Jump /\ e = "TaskCancelled"
    <3>1. e \notin Catches(h.fn)
      BY <2>18 DEF Catches, Jump
    <3>2. Normal(r, st, ps, ok) /\ Unwound(s, e) = Unwound(r, e)
      BY <2>5, <2>7, <2>18, <3>1 DEF Jump
    <3>3. CASE r = <<>>
      BY <3>2, <3>3, UnwoundNil
    <3>4. CASE r # <<>>
      <4>. DEFINE g == Head(r)
                  q == Tail(r)
      <4>1. On(g, q, st, ps, ok)
        BY <3>2, <3>4, <2>3, NormalOn
      <4>2. /\ h.fn = "except_first" => g.fn = "except_activate"
            /\ h.fn = "except_next" => g.fn = "except_cancelled"
        BY <2>2, <3>4 DEF On, Rests
      <4>3. e \in Catches(g.fn)
        BY <2>18, <4>2 DEF Catches, Jump
      <4>4. Unwound(r, e) = Handler(g, e) \o q
        BY <2>3, <3>4, <4>3, UnwoundCaught
      <4>5. CASE h.fn = "except_first"
        BY <2>18, <3>2, <4>1, <4>2, <4>4, <4>5, GivenUp
      <4>6. CASE h.fn = "except_next"
        <5>1. Handler(g, e) = <<Do("cancel_subtasks_and_close", Root, None)>>
          BY <4>2, <4>6 DEF Handler
        <5>2. st[Completion] # "EXECUTION"
          BY <2>9, <3>4, <4>2, <4>6
        <5>. QED
          BY <3>2, <4>1, <4>2, <4>4, <4>6, <5>1, <5>2, Retried
      <4>. QED
        BY <2>18, <4>5, <4>6 DEF Jump
    <3>. QED
      BY <3>3, <3>4
  <2>. QED
    BY <1>1, <2>1, <2>10, <2>11, <2>12, <2>13, <2>14, <2>16, <2>17, <2>18 DEF Jump
<1>. QED
  BY <1>3, <1>4

\* Nothing of a group is left to activate: the group gives up, or goes on.
LEMMA GroupThrows ==
  ASSUME NEW f, NEW r, NEW st \in [Comp -> CompStatus], NEW ps, NEW ok, On(f, r, st, ps, ok),
         f.fn \in {"activate_each", "activate_first"}, f.fn = "activate_each" => f.todo = {},
         NEW e \in {"TaskCancelled", "TaskClosed"},
         e = "TaskClosed" => \A c \in Components(f.obj) : ~Open(c, st)
  PROVE  Normal(r, st, ps, ok) /\ Normal(Unwound(r, e), st, ps, ok)
<1>1. (\A c : ~Cancels(f, c)) /\ \A c : ~Starts(f, c)
  BY DEF Cancels, Starts
<1>2. f.fn \notin {"except_end", "dismiss_completion"} /\ (f.fn = "set" => f.obj = Root)
  OBVIOUS
<1>3. Normal(r, st, ps, ok)
  BY <1>1, <1>2, Drop
<1>4. r \in Seq(Call)
  BY DEF On
<1>5. CASE r = <<>>
  BY <1>3, <1>5, UnwoundNil
<1>6. CASE r # <<>>
  <2>1. On(Head(r), Tail(r), st, ps, ok)
    BY <1>3, <1>4, <1>6, NormalOn
  <2>2. Head(r).fn = "except_activate" /\ Head(r).obj = f.obj
    BY <1>6 DEF On, Rests
  <2>3. e \in Catches(Head(r).fn)
    BY <2>2 DEF Catches
  <2>4. Unwound(r, e) = Handler(Head(r), e) \o Tail(r)
    BY <1>4, <1>6, <2>3, UnwoundCaught
  <2>. DEFINE h == Head(r)
              q == Tail(r)
  <2>5. e = "TaskClosed" => \A c \in Components(h.obj) : ~Open(c, st)
    BY <2>2
  <2>6. On(h, q, st, ps, ok) /\ h.fn = "except_activate"
    BY <2>1, <2>2
  <2>7. Unwound(r, e) = Handler(h, e) \o q
    BY <2>4
  <2>. HIDE DEF h, q
  <2>8. Normal(Handler(h, e) \o q, st, ps, ok)
    BY <2>5, <2>6, GivenUp
  <2>. QED
    BY <1>3, <2>7, <2>8
<1>. QED
  BY <1>5, <1>6

LEMMA Three ==
  ASSUME NEW x, NEW y, NEW z
  PROVE  /\ \A c : Doomed(c, {x, y, z}) <=> Cancels(x, c) \/ Cancels(y, c) \/ Cancels(z, c)
         /\ \A c : Ending(c, {x, y, z}) <=> Ending(c, {x}) \/ Ending(c, {y}) \/ Ending(c, {z})
         /\ \A c : ToStart(c, {x, y, z}) <=> Starts(x, c) \/ Starts(y, c) \/ Starts(z, c)
         /\ \A fn : Has(fn, {x, y, z}) <=> x.fn = fn \/ y.fn = fn \/ z.fn = fn
BY DEF Doomed, Ending, ToStart, Has

\* The components of a parallel group or of the completion group are activated
\* one after the other.
LEMMA EachNormal ==
  ASSUME Rooted, NEW f, NEW r, NEW st \in [Comp -> CompStatus], NEW ps, NEW ok, On(f, r, st, ps, ok),
         f.fn = "activate_each", NEW c \in f.todo
  PROVE  Normal(<<Do("activate_task", c, None), Do("except_pass", f.obj, None),
                  Each("activate_each", f.obj, f.todo \ {c})>> \o r, st, ps, ok)
<1>. DEFINE g == f.obj
            S == f.todo \ {c}
            x == Do("activate_task", c, None)
            y == Do("except_pass", g, None)
            z == Each("activate_each", g, S)
            R == Frames(r)
<1>1. f \in Call /\ r \in Seq(Call) /\ Shape(r) /\ (\A h \in R : Bears(f, h))
      /\ (r # <<>> => Rests(f, Head(r))) /\ Law({f} \cup R, st, ps, ok)
  BY DEF On
<1>2. g \in Comp /\ st[g] = "EXECUTION" /\ f.todo \subseteq Components(g) /\ New(f.todo, st) /\ Root \notin Comp
  BY <1>1, TreeAssumption DEF Law, Needs
<1>3. /\ S \in SUBSET Comp /\ S \subseteq Components(g) /\ New(S, st)
      /\ c \in Comp /\ Parent[c] = g /\ st[c] = "NEW" /\ c # Completion
  BY <1>2 DEF Components, New
<1>4. x \in Call /\ y \in Call /\ z \in Call
  <2>1. "except_pass" \in Fn \ (JobFn \cup DbFn \cup {"except_sibling"})
    BY DEF Fn, Except, JobFn, DbFn
  <2>2. y \in Call
    BY <1>2, <2>1, DoCall, Args
  <2>3. x \in Call
    BY <1>3, DoCall, Args DEF Fn, JobFn, DbFn
  <2>4. z \in Call
    BY <1>2, <1>3, EachCall DEF Fn, JobFn, DbFn
  <2>. QED
    BY <2>2, <2>3, <2>4
<1>5. /\ x.fn = "activate_task" /\ x.obj = c /\ y.fn = "except_pass" /\ y.obj = g
      /\ z.fn = "activate_each" /\ z.obj = g /\ z.todo = S
  BY DEF Do, Each
<1>6. f.todo = S \cup {c} /\ c \notin S
  OBVIOUS
<1>. HIDE DEF x, y, z, S
<1>7. /\ Activates(f) /\ Activates(x) /\ Activates(y) /\ Activates(z) /\ ~Canceller(f)
      /\ Multiple(f) /\ ~Single(f) /\ Multiple(z) /\ ~Single(z) /\ ~Single(y) /\ ~Multiple(y)
      /\ ~OfCompletion(x) /\ ~OfCompletion(y) /\ ~OfCompletion(z)
  BY <1>3, <1>5 DEF Activates, Multiple, Single, Canceller, OfCompletion
<1>8. \A d \in Components(g) : d \in Comp /\ Depth[d] = Depth[g] + 1 /\ Depth[d] \in Nat /\ Depth[g] \in Nat
  <2>1. \A d \in Components(g) : d \in Comp /\ Parent[d] = g
    BY PartsIn
  <2>2. \A d \in Comp : Depth[d] = Depth[Parent[d]] + 1 /\ Depth[d] \in Nat
    BY Depths
  <2>3. Depth[g] \in Nat
    BY <1>2, <2>2
  <2>. HIDE DEF g
  <2>. QED
    BY <2>1, <2>2, <2>3
<1>9. \A d \in Comp : Clear(f, d) => Clear(x, d) /\ Clear(z, d)
  <2>1. ASSUME NEW d \in Comp, Clear(f, d) PROVE Clear(x, d) /\ Clear(z, d)
    <3>1. Depth[d] <= Depth[g] /\ Depth[d] \in Nat
      BY <2>1, Depths DEF Clear
    <3>2. c \in Components(g)
      BY <1>2
    <3>3. Depth[d] <= Depth[c] /\ d # c
      BY <1>8, <3>1, <3>2
    <3>. QED
      BY <1>5, <1>7, <3>1, <3>3 DEF Clear
  <2>. QED
    BY <2>1
<1>10. \A h \in R : Bears(x, h) /\ Bears(y, h) /\ Bears(z, h)
  BY <1>1, <1>7, <1>9, BearsLike
<1>11. Atop(z, r)
  BY <1>1, <1>4, <1>5, <1>7, <1>10 DEF Atop, Rests
<1>12. ~Canceller(x) /\ ~Canceller(y) /\ ~Canceller(z)
  BY <1>5 DEF Canceller
<1>13. /\ x.fn \notin Lowest /\ y.fn \notin Lowest /\ ~OfProcess(x) /\ ~OfProcess(y)
       /\ x # Set(Root, "DISCARDED") /\ y # Set(Root, "DISCARDED")
  BY <1>5 DEF Lowest, Worked, Tell, Told, OfProcess, Set, Do
<1>14. Bears(x, y) /\ Rests(x, y)
  <2>1. \A d : ~Keeps(y, d)
    BY <1>5 DEF Keeps, Tell, Told
  <2>. QED
    BY <1>5, <1>7, <1>12, <1>13, <2>1 DEF Bears, Rests
<1>15. Bears(y, z) /\ Rests(y, z)
  BY <1>5, <1>7, <1>12, <1>13, RestsPlain DEF Bears
<1>16. Bears(x, z)
  <2>1. ASSUME NEW d \in Comp, Keeps(z, d) PROVE Clear(x, d)
    <3>1. d \in S \/ d = g
      BY <1>5, <2>1 DEF Keeps, Tell, Told
    <3>2. c \in Components(g)
      BY <1>2
    <3>3. Depth[d] <= Depth[c] /\ d # c
      BY <1>3, <1>6, <1>8, <3>1, <3>2
    <3>. QED
      BY <1>5, <3>3 DEF Clear
  <2>. QED
    BY <1>5, <1>7, <1>12, <1>13, <2>1 DEF Bears
<1>17. /\ Needs(x, st) /\ Needs(y, st) /\ Needs(z, st)
       /\ Serves(x, st, ps, ok) /\ Serves(y, st, ps, ok) /\ Serves(z, st, ps, ok)
  <2>1. Needs(x, st)
    BY <1>2, <1>3, <1>5 DEF Needs, Goes, Tell, Told
  <2>2. Needs(y, st)
    BY <1>5 DEF Needs, Tell, Told
  <2>3. Needs(z, st)
    BY <1>2, <1>3, <1>5 DEF Needs, Tell, Told
  <2>4. Serves(x, st, ps, ok) /\ Serves(y, st, ps, ok) /\ Serves(z, st, ps, ok)
    BY <1>5 DEF Serves, GoesOn, Tell, Told
  <2>. QED
    BY <2>1, <2>2, <2>3, <2>4
<1>18. Tame(f) /\ Meek(x) /\ Meek(y) /\ Meek(z)
  BY <1>3, <1>5 DEF Tame, Modest, Worked, Meek, Winds, Tell, Told
<1>19. Harmless(x) /\ Harmless(y) /\ Harmless(z)
  BY <1>5, <1>12 DEF Harmless
<1>20. \A d \in Comp : ~Doomed(d, {x, y, z}) /\ ~Ending(d, {x, y, z})
  BY <1>19, NoHarm
<1>21. \A d : ~Doomed(d, {f}) /\ (ToStart(d, {f}) => ToStart(d, {x, y, z}))
  <2>1. \A d : ~Cancels(f, d) /\ (Starts(f, d) => Starts(x, d) \/ Starts(z, d))
    BY <1>5, <1>6 DEF Cancels, Starts
  <2>. QED
    BY <2>1, Lone, Three
<1>22. (\E h \in {f} \cup R : InCompletion(h)) \/ ~Has("except_end", R)
  <2>1. CASE r = <<>>
    BY <2>1, NoFrames DEF Has
  <2>2. CASE r # <<>>
    <3>1. Head(r) \in R /\ Head(r).fn = "except_activate"
      BY <1>1, <2>2, HeadIn DEF Rests
    <3>. QED
      BY <3>1 DEF InCompletion
  <2>. QED
    BY <2>1, <2>2
<1>23. Completion \in Comp
  BY TreeAssumption
<1>24. Swap({f}, {x, y, z}, R, st, ps, ok)
  <2>1. \A h \in {x, y, z} : Meek(h) /\ Needs(h, st) /\ Serves(h, st, ps, ok)
    BY <1>17, <1>18
  <2>2. ~(\E h \in {f} : h.fn = "except_activate" /\ h.obj = Completion) /\ \A h \in {f} : Tame(h)
    BY <1>18
  <2>. HIDE DEF R
  <2>. QED
    BY <1>20, <1>21, <1>22, <1>23, <2>1, <2>2, SwapMeek
<1>25. Normal(<<x, y, z>> \o r, st, ps, ok)
  BY <1>4, <1>10, <1>11, <1>14, <1>15, <1>16, <1>24, Become3
<1>. QED
  BY <1>25 DEF x, y, z, S

\* A component of a sequential group is activated.
LEMMA FirstNormal ==
  ASSUME Rooted, NEW f, NEW r, NEW st \in [Comp -> CompStatus], NEW ps, NEW ok, On(f, r, st, ps, ok),
         f.fn = "activate_first", f.arg \in Components(f.obj)
  PROVE  Normal(<<Do("activate_task", f.arg, None), Do("except_first", f.obj, f.arg)>> \o r, st, ps, ok)
<1>. DEFINE g == f.obj
            c == f.arg
            x == Do("activate_task", c, None)
            y == Do("except_first", g, c)
            R == Frames(r)
<1>1. f \in Call /\ r \in Seq(Call) /\ Shape(r) /\ (\A h \in R : Bears(f, h))
      /\ (r # <<>> => Rests(f, Head(r))) /\ Law({f} \cup R, st, ps, ok)
  BY DEF On
<1>2. c \in Comp /\ Parent[c] = g /\ c # Completion
  BY PartsIn
<1>3. g \in Comp /\ st[g] = "EXECUTION" /\ st[c] = "NEW" /\ New(Later(c), st) /\ Root \notin Comp
  BY <1>1, <1>2, TreeAssumption DEF Law, Needs
<1>4. x \in Call /\ y \in Call
  <2>1. "except_first" \in Fn \ (JobFn \cup DbFn \cup {"except_sibling"})
    BY DEF Fn, Except, JobFn, DbFn
  <2>2. y \in Call
    BY <1>2, <1>3, <2>1, DoCall, Args
  <2>3. x \in Call
    BY <1>2, DoCall, Args DEF Fn, JobFn, DbFn
  <2>. QED
    BY <2>2, <2>3
<1>5. x.fn = "activate_task" /\ x.obj = c /\ y.fn = "except_first" /\ y.obj = g /\ y.arg = c
  BY DEF Do
<1>. HIDE DEF x, y
<1>6. /\ Activates(f) /\ Activates(x) /\ Activates(y) /\ ~Canceller(f)
      /\ Multiple(f) /\ ~Single(f) /\ Multiple(y) /\ ~Single(y)
      /\ ~OfCompletion(x) /\ ~OfCompletion(y)
  BY <1>2, <1>5 DEF Activates, Multiple, Single, Canceller, OfCompletion
<1>7. Depth[c] = Depth[g] + 1 /\ Depth[g] \in Nat /\ Depth[c] \in Nat
  BY <1>2, <1>3, Depths
<1>8. \A d \in Comp : Clear(f, d) => Clear(x, d) /\ Clear(y, d)
  <2>1. ASSUME NEW d \in Comp, Clear(f, d) PROVE Clear(x, d) /\ Clear(y, d)
    <3>1. Depth[d] <= Depth[g] /\ Depth[d] \in Nat
      BY <2>1, Depths DEF Clear
    <3>2. Depth[d] <= Depth[c] /\ d # c
      BY <1>7, <3>1
    <3>. QED
      BY <1>5, <1>6, <3>1, <3>2 DEF Clear
  <2>. QED
    BY <2>1
<1>9. \A h \in R : Bears(x, h) /\ Bears(y, h)
  BY <1>1, <1>6, <1>8, BearsLike
<1>10. Atop(y, r)
  BY <1>1, <1>4, <1>5, <1>6, <1>9 DEF Atop, Rests
<1>11. ~Canceller(x) /\ ~Canceller(y)
  BY <1>5 DEF Canceller
<1>12. x.fn \notin Lowest /\ ~OfProcess(x) /\ x # Set(Root, "DISCARDED")
  BY <1>5 DEF Lowest, Worked, Tell, Told, OfProcess, Set, Do
<1>13. Rests(x, y)
  BY <1>5, <1>6 DEF Rests
<1>14. Bears(x, y)
  <2>1. ASSUME NEW d \in Comp, Keeps(y, d) PROVE Clear(x, d)
    <3>1. d \in Later(c) \/ d = g
      BY <1>5, <2>1 DEF Keeps, Tell, Told
    <3>2. d \in Later(c) => Parent[d] = g /\ d # c
      BY <1>2, TreeAssumption DEF Later, Ordered!Precedes
    <3>3. d \in Later(c) => Depth[d] = Depth[g] + 1
      BY <3>2, Depths
    <3>4. Depth[d] <= Depth[c] /\ d # c
      BY <1>7, <3>1, <3>2, <3>3
    <3>. QED
      BY <1>5, <3>4 DEF Clear
  <2>. QED
    BY <1>5, <1>6, <1>11, <1>12, <2>1 DEF Bears
<1>15. /\ Needs(x, st) /\ Needs(y, st) /\ Serves(x, st, ps, ok) /\ Serves(y, st, ps, ok)
  <2>1. Needs(x, st)
    BY <1>2, <1>3, <1>5 DEF Needs, Goes, Tell, Told
  <2>2. Needs(y, st)
    BY <1>2, <1>3, <1>5 DEF Needs, Tell, Told
  <2>3. Serves(x, st, ps, ok) /\ Serves(y, st, ps, ok)
    BY <1>5 DEF Serves, GoesOn, Tell, Told
  <2>. QED
    BY <2>1, <2>2, <2>3
<1>16. Tame(f) /\ Meek(x) /\ Meek(y)
  BY <1>2, <1>5 DEF Tame, Modest, Worked, Meek, Winds, Tell, Told
<1>17. \A d \in Comp : ~Doomed(d, {x, y}) /\ ~Ending(d, {x, y})
  BY <1>5, <1>11, NoHarm DEF Harmless
<1>18. \A d : ~Doomed(d, {f}) /\ ~ToStart(d, {f})
  <2>1. \A d : ~Cancels(f, d) /\ ~Starts(f, d)
    BY DEF Cancels, Starts
  <2>. QED
    BY <2>1, Lone
<1>19. (\E h \in {f} \cup R : InCompletion(h)) \/ ~Has("except_end", R)
  <2>1. CASE r = <<>>
    BY <2>1, NoFrames DEF Has
  <2>2. CASE r # <<>>
    <3>1. Head(r) \in R /\ Head(r).fn = "except_activate"
      BY <1>1, <2>2, HeadIn DEF Rests
    <3>. QED
      BY <3>1 DEF InCompletion
  <2>. QED
    BY <2>1, <2>2
<1>20. Completion \in Comp
  BY TreeAssumption
<1>21. Swap({f}, {x, y}, R, st, ps, ok)
  <2>1. \A h \in {x, y} : Meek(h) /\ Needs(h, st) /\ Serves(h, st, ps, ok)
    BY <1>15, <1>16
  <2>2. ~(\E h \in {f} : h.fn = "except_activate" /\ h.obj = Completion) /\ \A h \in {f} : Tame(h)
    BY <1>16
  <2>. HIDE DEF R
  <2>. QED
    BY <1>17, <1>18, <1>19, <1>20, <2>1, <2>2, SwapMeek
<1>22. Normal(<<x, y>> \o r, st, ps, ok)
  BY <1>4, <1>9, <1>10, <1>13, <1>14, <1>21, Become2
<1>. QED
  BY <1>22 DEF x, y

\* Between two operations, the process not completed, an operation may begin
\* with any calls that cancelling the process could be replaced by, a worker's
\* one above the try blocks of its job.
LEMMA WorkedShape ==
  ASSUME NEW r \in Seq(Call), \A h \in Frames(r) : h.fn \in Worked
  PROVE  Shape(r)
<1>1. \A i \in 1 .. Len(r) : r[i].fn \in Worked
  BY DEF Frames
<1>2. ASSUME NEW i \in 1 .. Len(r), NEW j \in 1 .. Len(r) PROVE Bears(r[i], r[j])
  <2>1. r[i] # Set(Root, "DISCARDED")
    BY <1>1 DEF Set, Do, Worked
  <2>2. r[i].fn \in Worked /\ r[j].fn \in Worked
    BY <1>1
  <2>. DEFINE x == r[i]
              y == r[j]
  <2>. HIDE DEF x, y
  <2>3. x.fn \in Worked /\ y.fn \in Worked /\ x # Set(Root, "DISCARDED")
    BY <2>1, <2>2 DEF x, y
  <2>4. Bears(x, y)
    BY <2>3, OverWorked DEF Worked
  <2>. QED
    BY <2>4 DEF x, y
<1>3. ASSUME NEW i \in 1 .. Len(r) - 1 PROVE Rests(r[i], r[i + 1])
  <2>1. i \in 1 .. Len(r) /\ i + 1 \in 1 .. Len(r)
    OBVIOUS
  <2>. DEFINE x == r[i]
              y == r[i + 1]
  <2>. HIDE DEF x, y
  <2>2. x.fn \in Worked /\ y.fn \in Worked
    BY <1>1, <2>1 DEF x, y
  <2>3. Rests(x, y)
    BY <2>2, RestsPlain DEF Worked
  <2>. QED
    BY <2>3 DEF x, y
<1>. QED
  BY <1>2, <1>3 DEF Shape

\* cancel_process may be called at any time before the process has completed.
LEMMA Opening ==
  ASSUME NEW st \in [Comp -> CompStatus], NEW ps, NEW ok, Law({}, st, ps, ok), ps # "COMPLETED",
         NEW r \in Seq(Call), \A h \in Frames(r) : h.fn \in Worked
  PROVE  LET f == Do("cancel_process", Root, None)
         IN  On(f, r, st, ps, ok) /\ f.fn = "cancel_process" /\ f.obj = Root
<1>. DEFINE f == Do("cancel_process", Root, None)
            R == Frames(r)
            N == {f} \cup R
<1>1. f \in Call /\ f.fn = "cancel_process" /\ f.obj = Root
  BY DoCall, Args DEF Fn, JobFn, DbFn, Do
<1>. HIDE DEF f
<1>2. \A h \in N : h.fn \in {"cancel_process"} \cup Worked
  BY <1>1
<1>3. \A h \in N : /\ Needs(h, st) /\ ~Winds(h) /\ ~InCompletion(h) /\ ~(\E c : Cancels(h, c))
                   /\ h.fn \notin Tell \cup {"set", "activate_task", "except_end", "end_completion",
                                             "except_cancelled"}
  BY <1>2 DEF Needs, Winds, InCompletion, Cancels, Tell, Told, Worked
<1>4. \A h \in N : Serves(h, st, ps, ok)
  BY <1>2 DEF Serves, GoesOn, Tell, Told, Worked
<1>5. \A c : ~Doomed(c, N) /\ ~Ending(c, N) /\ ~Doomed(c, {}) /\ ~Ending(c, {}) /\ ~ToStart(c, {})
  BY <1>3 DEF Doomed, Ending, ToStart
<1>6. ~Has("end_completion", N) /\ ~Has("except_end", N) /\ ~Has("except_cancelled", N)
  BY <1>3 DEF Has
<1>7. \A fn : ~Has(fn, {})
  BY DEF Has
<1>8. Swap({}, N, {}, st, ps, ok)
  <2>. HIDE DEF N
  <2>. QED
    BY <1>3, <1>4, <1>5, <1>6, <1>7 DEF Swap
<1>9. Law(N, st, ps, ok)
  <2>1. {} \cup {} = {} /\ N \cup {} = N
    OBVIOUS
  <2>. QED
    BY <1>8, <2>1, Replace
<1>10. Shape(r) /\ \A h \in R : Bears(f, h)
  <2>1. f # Set(Root, "DISCARDED")
    BY <1>1 DEF Set, Do
  <2>. QED
    BY <1>1, <2>1, WorkedShape, OverWorked
<1>11. r # <<>> => Rests(f, Head(r))
  <2>1. r # <<>> => Head(r).fn \in Worked
    BY HeadIn
  <2>. QED
    BY <1>1, <2>1, RestsPlain DEF Worked
<1>. QED
  BY <1>1, <1>9, <1>10, <1>11 DEF On, f

\* A component ends, nothing below it being open, and its parent is told.
LEMMA EndsAndTells ==
  ASSUME Rooted, NEW f, NEW r, NEW st \in [Comp -> CompStatus], NEW ps, NEW ok,
         On(f, r, st, ps, ok), f.fn \in Lowest \ ({"except_cancelled", "cancel_subtasks"} \cup Worked),
         NEW g \in Comp, st[g] = "EXECUTION", \A c \in Components(g) : ~Open(c, st),
         NEW v \in {"COMPLETED", "REJECTED"}, NEW fn \in Tell,
         fn = "propagate_finish" => g \in Task,
         fn = "propagate_refuse" => ps # "COMPLETED",
         fn = "propagate_done" /\ g = Completion => ok
  PROVE  Normal(<<Set(g, v), Do(fn, Parent[g], g)>> \o r, st, ps, ok)
<1>. DEFINE R == Frames(r)
            x == Set(g, v)
            y == Do(fn, Parent[g], g)
<1>1. f \in Call /\ r \in Seq(Call) /\ Shape(r) /\ Law({f} \cup R, st, ps, ok)
  BY DEF On
<1>2. \A h \in R : h.fn \in Worked
  BY AtBottom
<1>3. x \in Call /\ x.fn = "set" /\ x.obj = g /\ x.arg = v
  BY SetCall, Args DEF CompStatus, Set, Do
<1>4. y \in Call /\ y.fn = fn /\ y.obj = Parent[g] /\ y.arg = g
  BY TellCall
<1>5. \A c \in Comp : ~Doomed(c, {f} \cup R)
  BY NoneDoomed DEF Harmless, Canceller, Lowest, Worked, Tell, Told
<1>6. /\ Goes(Parent[g], st) /\ New(Later(g), st)
      /\ g \in Components(Root) => ok /\ st[Completion] = "NEW"
  BY <1>1, <1>5, RunningUp
<1>7. Root \notin Comp /\ Parent[Completion] = Root
  BY TreeAssumption
<1>. HIDE DEF x, y
<1>8. Bears(x, y) /\ Rests(x, y)
  BY <1>3, <1>4, BearsTell
<1>9. (\A h \in R : Bears(x, h)) /\ Atop(y, r)
  <2>1. x # Set(Root, "DISCARDED") /\ y # Set(Root, "DISCARDED")
    BY <1>3, <1>4, <1>7 DEF Set, Do, Tell, Told
  <2>2. y.fn \notin {"activate_process", "dismiss_process", "dismiss_completion"} /\
        y.fn \notin {"activate_task", "raise", "except_activate", "activate_next", "except_next",
                         "activate_tasks", "activate_each", "activate_first", "except_first"}
    BY <1>4 DEF Tell, Told
  <2>3. \A h \in R : Bears(x, h)
    BY <1>3, <2>1, AtopWorked
  <2>4. Atop(y, r)
    BY <1>4, <2>1, <2>2, AtopWorked
  <2>. QED
    BY <2>3, <2>4
<1>10. Needs(y, st) /\ Serves(y, st, ps, ok)
  <2>1. CASE fn # "propagate_finish"
    <3>1. y.fn = "propagate_done" /\ Parent[g] = Root => ok
      BY <1>4, <1>6 DEF Components
    <3>2. g \in Components(Root) => ok /\ st[Completion] # "EXECUTION"
      BY <1>6
    <3>3. y.fn = "propagate_refuse" => ps # "COMPLETED"
      BY <1>4
    <3>. QED
      BY <1>4, <1>6, <2>1, <3>1, <3>2, <3>3, TellNeeds
  <2>2. CASE fn = "propagate_finish"
    <3>1. Needs(y, st)
      BY <1>4, <1>6, <2>2 DEF Needs, Tell, Told
    <3>2. y.obj = Root /\ y.arg # Completion => ok /\ st[Completion] # "EXECUTION"
      BY <1>4, <1>6 DEF Components
    <3>3. Serves(y, st, ps, ok)
      BY <1>4, <2>2, <3>2 DEF Serves, GoesOn
    <3>. QED
      BY <3>1, <3>3
  <2>. QED
    BY <2>1, <2>2
<1>11. Needs(x, st) /\ Serves(x, st, ps, ok)
  BY <1>3, <1>7 DEF Needs, Serves, GoesOn, Tell, Told
<1>12. \A c : ~Doomed(c, {x, y}) /\ (Ending(c, {x, y}) <=> c = g)
  <2>1. \A c : ~Cancels(x, c) /\ ~Cancels(y, c)
    BY <1>3, <1>4 DEF Cancels, Tell, Told
  <2>2. \A c : (Ending(c, {x}) <=> c = g) /\ ~Ending(c, {y})
    BY <1>3, <1>4, Lone DEF Tell, Told, Terminal
  <2>. QED
    BY <2>1, <2>2, Two
<1>13. ~Winds(x) /\ ~Winds(y)
  BY <1>3, <1>4, <1>7 DEF Winds, Tell, Told
<1>14. g = Completion => Leaving({x, y}, st)
  BY <1>12 DEF Leaving
<1>15. \A h \in {x, y} : /\ Needs(h, st) /\ Serves(h, st, ps, ok) /\ ~Winds(h)
                         /\ h.fn \notin {"except_end", "activate_task", "except_cancelled", "end_completion"}
                         /\ (h.fn = "set" => h.obj # Root) /\ (h.fn \in Tell => h.arg = g)
  BY <1>3, <1>4, <1>7, <1>10, <1>11, <1>13 DEF Tell, Told
<1>16. Swap({f}, {x, y}, R, st, ps, ok)
  <2>1. ~Has("end_completion", {x, y}) /\ ~Has("except_cancelled", {x, y})
    BY <1>15 DEF Has
  <2>2. \A h \in {x, y} : h.fn \in Tell /\ h.obj = Root /\ h.arg = Completion => Leaving({x, y}, st)
    BY <1>14, <1>15
  <2>3. \A c \in Comp : Ending(c, {x, y}) => \A d \in Components(c) : Open(d, st) => Doomed(d, {x, y})
    BY <1>12
  <2>4. ~((\E h \in {x, y} : Winds(h)) \/ Doomed(Completion, {x, y}))
    BY <1>12, <1>15
  <2>5. \A h \in {x, y} : /\ Needs(h, st) /\ Serves(h, st, ps, ok)
                          /\ h.fn # "except_end" /\ ~(h.fn = "activate_task" /\ h.obj = Completion)
                          /\ ~(h.fn = "set" /\ h.obj = Root /\ h.arg = "DISCARDED")
    BY <1>15
  <2>. HIDE DEF R
  <2>. QED
    BY <1>2, <1>12, <2>1, <2>2, <2>3, <2>4, <2>5, SwapBottom
<1>17. Normal(<<x, y>> \o r, st, ps, ok)
  BY <1>3, <1>8, <1>9, <1>16, Become2
<1>. QED
  BY <1>17 DEF x, y

\* What is below a group is cancelled, before it ends or after it did, and its
\* parent is told.
LEMMA SweepsAndTells ==
  ASSUME Rooted, NEW f, NEW r, NEW st \in [Comp -> CompStatus], NEW ps, NEW ok,
         On(f, r, st, ps, ok), f.fn \in Lowest \ ({"except_cancelled", "cancel_subtasks"} \cup Worked),
         NEW g \in Comp, st[g] = "EXECUTION",
         NEW v \in {"COMPLETED", "REJECTED"}, NEW fn \in Tell \ {"propagate_finish"},
         fn = "propagate_refuse" => ps # "COMPLETED",
         fn = "propagate_done" /\ g = Completion => ok
  PROVE  /\ Normal(<<Do("cancel_subtasks", g, None), Set(g, v), Do(fn, Parent[g], g)>> \o r, st, ps, ok)
         /\ Normal(<<Set(g, v), Do("cancel_subtasks", g, None), Do(fn, Parent[g], g)>> \o r, st, ps, ok)
<1>. DEFINE R == Frames(r)
            u == Do("cancel_subtasks", g, None)
            x == Set(g, v)
            y == Do(fn, Parent[g], g)
<1>1. f \in Call /\ r \in Seq(Call) /\ Shape(r) /\ Law({f} \cup R, st, ps, ok)
  BY DEF On
<1>2. \A h \in R : h.fn \in Worked
  BY AtBottom
<1>3. x \in Call /\ x.fn = "set" /\ x.obj = g /\ x.arg = v
  BY SetCall, Args DEF CompStatus, Set, Do
<1>4. y \in Call /\ y.fn = fn /\ y.obj = Parent[g] /\ y.arg = g
  BY TellCall
<1>5. u \in Call /\ u.fn = "cancel_subtasks" /\ u.obj = g
  BY DoCall, Args DEF Fn, JobFn, DbFn, Do
<1>6. \A c \in Comp : ~Doomed(c, {f} \cup R)
  BY NoneDoomed DEF Harmless, Canceller, Lowest, Worked, Tell, Told
<1>7. /\ Goes(Parent[g], st) /\ New(Later(g), st)
      /\ g \in Components(Root) => ok /\ st[Completion] = "NEW"
  BY <1>1, <1>6, RunningUp
<1>8. Root \notin Comp /\ Parent[Completion] = Root
  BY TreeAssumption
<1>. HIDE DEF u, x, y
<1>9. Bears(x, y) /\ Rests(x, y) /\ Bears(u, y) /\ Rests(u, y)
  BY <1>3, <1>4, <1>5, BearsTell
<1>10. Bears(u, x) /\ Rests(u, x) /\ Bears(x, u) /\ Rests(x, u)
  <2>1. Depth[g] \in Nat
    BY DeeperThanParent
  <2>2. \A d : (Keeps(x, d) => d = g) /\ ~Keeps(u, d)
    BY <1>3, <1>5 DEF Keeps, Tell, Told
  <2>3. \A d \in Comp : Keeps(x, d) => Clear(u, d)
    BY <1>5, <2>1, <2>2 DEF Clear, Single
  <2>4. ~Canceller(x) /\ ~OfProcess(x) /\ ~OfProcess(u) /\ ~OfCompletion(u) /\ ~OfCompletion(x)
    BY <1>3, <1>5, <1>8 DEF Canceller, OfProcess, OfCompletion
  <2>5. x # Set(Root, "DISCARDED") /\ u # Set(Root, "DISCARDED")
    BY <1>3, <1>5, <1>8 DEF Set, Do
  <2>6. Bears(x, u)
    BY <1>3, <1>5, <2>2, <2>4, <2>5 DEF Bears, Lowest, Worked, Tell, Told
  <2>7. Bears(u, x)
    BY <1>3, <1>5, <2>3, <2>4, <2>5 DEF Bears, Lowest, Worked, Tell, Told
  <2>. QED
    BY <1>3, <1>5, <2>6, <2>7, RestsPlain
<1>11. (\A h \in R : Bears(x, h) /\ Bears(u, h)) /\ Atop(y, r)
  <2>1. x # Set(Root, "DISCARDED") /\ y # Set(Root, "DISCARDED") /\ u # Set(Root, "DISCARDED")
    BY <1>3, <1>4, <1>5, <1>8 DEF Set, Do, Tell, Told
  <2>2. y.fn \notin {"activate_process", "dismiss_process", "dismiss_completion"} /\
        y.fn \notin {"activate_task", "raise", "except_activate", "activate_next", "except_next",
                         "activate_tasks", "activate_each", "activate_first", "except_first"}
    BY <1>4 DEF Tell, Told
  <2>3. \A h \in R : Bears(x, h)
    BY <1>3, <2>1, AtopWorked
  <2>4. Atop(y, r)
    BY <1>4, <2>1, <2>2, AtopWorked
  <2>5. \A h \in R : Bears(u, h)
    BY <1>5, <2>1, AtopWorked
  <2>. QED
    BY <2>3, <2>4, <2>5
<1>12. Needs(y, st) /\ Serves(y, st, ps, ok)
  <2>1. y.fn = "propagate_done" /\ Parent[g] = Root => ok
    BY <1>4, <1>7 DEF Components
  <2>2. g \in Components(Root) => ok /\ st[Completion] # "EXECUTION"
    BY <1>7
  <2>3. y.fn = "propagate_refuse" => ps # "COMPLETED"
    BY <1>4
  <2>. QED
    BY <1>4, <1>7, <2>1, <2>2, <2>3, TellNeeds
<1>13. Needs(x, st) /\ Serves(x, st, ps, ok)
  BY <1>3, <1>8 DEF Needs, Serves, GoesOn, Tell, Told
<1>14. Needs(u, st) /\ Serves(u, st, ps, ok)
  BY <1>5 DEF Needs, Serves, GoesOn, Tell, Told
<1>15. \A c : (Doomed(c, {u, x, y}) <=> c \in Components(g)) /\ (Ending(c, {u, x, y}) <=> c = g)
  <2>1. \A c : ~Cancels(x, c) /\ ~Cancels(y, c) /\ (Cancels(u, c) <=> c \in Components(g))
    BY <1>3, <1>4, <1>5 DEF Cancels, Tell, Told
  <2>2. \A c : (Ending(c, {x}) <=> c = g) /\ ~Ending(c, {y}) /\ ~Ending(c, {u})
    BY <1>3, <1>4, <1>5, Lone DEF Tell, Told, Terminal
  <2>. QED
    BY <2>1, <2>2, Three
<1>16. ~Winds(x) /\ ~Winds(y) /\ ~Winds(u)
  BY <1>3, <1>4, <1>5, <1>8 DEF Winds, Tell, Told
<1>17. \A h \in {u, x, y} :
          /\ Needs(h, st) /\ Serves(h, st, ps, ok) /\ ~Winds(h)
          /\ h.fn \notin {"except_end", "activate_task", "except_cancelled", "end_completion"}
          /\ (h.fn = "set" => h.obj # Root) /\ (h.fn \in Tell => h.arg = g)
  BY <1>3, <1>4, <1>5, <1>8, <1>12, <1>13, <1>14, <1>16 DEF Tell, Told
<1>18. Swap({f}, {u, x, y}, R, st, ps, ok)
  <2>1. ~Has("end_completion", {u, x, y}) /\ ~Has("except_cancelled", {u, x, y})
    BY <1>17 DEF Has
  <2>2. \A h \in {u, x, y} : h.fn \in Tell /\ h.obj = Root /\ h.arg = Completion => Leaving({u, x, y}, st)
    BY <1>15, <1>17 DEF Leaving
  <2>3. \A c \in Comp : Ending(c, {u, x, y}) => \A d \in Components(c) : Open(d, st) => Doomed(d, {u, x, y})
    BY <1>15
  <2>4. ~((\E h \in {u, x, y} : Winds(h)) \/ Doomed(Completion, {u, x, y}))
    BY <1>15, <1>17, PartsIn
  <2>5. \A h \in {u, x, y} : /\ Needs(h, st) /\ Serves(h, st, ps, ok)
                          /\ h.fn # "except_end" /\ ~(h.fn = "activate_task" /\ h.obj = Completion)
                          /\ ~(h.fn = "set" /\ h.obj = Root /\ h.arg = "DISCARDED")
    BY <1>17
  <2>6. ASSUME NEW c \in Comp, Doomed(c, {u, x, y})
        PROVE  /\ Parent[c] \in Comp /\ st[Parent[c]] = "NEW" => Doomed(Parent[c], {u, x, y})
               /\ \A b \in Comp : Ordered!Precedes(b, c) => ~Open(b, st) \/ Doomed(b, {u, x, y})
    <3>1. Parent[c] = g
      BY <1>15, <2>6, PartsIn
    <3>2. \A b \in Comp : Ordered!Precedes(b, c) => b \in Components(g)
      BY <3>1, Before
    <3>. QED
      BY <1>15, <3>1, <3>2
  <2>. HIDE DEF R
  <2>. QED
    BY <1>2, <2>1, <2>2, <2>3, <2>4, <2>5, <2>6, SwapBottom
<1>19. Normal(<<u, x, y>> \o r, st, ps, ok)
  BY <1>3, <1>5, <1>9, <1>10, <1>11, <1>18, Become3
<1>20. Normal(<<x, u, y>> \o r, st, ps, ok)
  <2>1. {x, u, y} = {u, x, y}
    OBVIOUS
  <2>2. Swap({f}, {x, u, y}, R, st, ps, ok)
    BY <1>18, <2>1
  <2>. QED
    BY <1>3, <1>5, <1>9, <1>10, <1>11, <2>2, Become3
<1>. QED
  BY <1>19, <1>20 DEF x, y, u

\* The completion group: its components are cancelled before it ends.
LEMMA SweepsCompletion ==
  ASSUME Rooted, NEW f, NEW r, NEW st \in [Comp -> CompStatus], NEW ps, NEW ok,
         On(f, r, st, ps, ok), f.fn \in Lowest \ ({"except_cancelled", "cancel_subtasks"} \cup Worked),
         st[Completion] = "EXECUTION"
  PROVE  Normal(<<Do("cancel_subtasks", Completion, None), Do("end_completion", Completion, None)>> \o r,
                st, ps, ok)
<1>. DEFINE R == Frames(r)
            x == Do("cancel_subtasks", Completion, None)
            y == Do("end_completion", Completion, None)
<1>1. f \in Call /\ r \in Seq(Call) /\ Shape(r) /\ Law({f} \cup R, st, ps, ok)
  BY DEF On
<1>2. \A h \in R : h.fn \in Worked
  BY AtBottom
<1>3. Completion \in Comp /\ Root \notin Comp
  BY TreeAssumption
<1>4. x \in Call /\ x.fn = "cancel_subtasks" /\ x.obj = Completion
  BY <1>3, DoCall, Args DEF Fn, JobFn, DbFn, Do
<1>5. y \in Call /\ y.fn = "end_completion" /\ y.obj = Completion
  BY <1>3, DoCall, Args DEF Fn, JobFn, DbFn, Do
<1>. HIDE DEF x, y
<1>6. Bears(x, y) /\ Rests(x, y)
  <2>1. Depth[Completion] \in Nat
    BY <1>3, DeeperThanParent
  <2>2. \A d : (Keeps(y, d) => d = Completion)
    BY <1>5 DEF Keeps, Tell, Told
  <2>3. \A d \in Comp : Keeps(y, d) => Clear(x, d)
    BY <1>4, <2>1, <2>2 DEF Clear, Single
  <2>4. ~Canceller(y) /\ ~OfProcess(x) /\ ~OfCompletion(x) /\ x # Set(Root, "DISCARDED")
    BY <1>4, <1>5 DEF Canceller, OfProcess, OfCompletion, Set, Do
  <2>5. Bears(x, y)
    BY <1>4, <1>5, <2>3, <2>4 DEF Bears, Lowest, Worked, Tell, Told
  <2>. QED
    BY <1>4, <1>5, <2>5, RestsPlain
<1>7. (\A h \in R : Bears(x, h)) /\ Atop(y, r)
  <2>1. x # Set(Root, "DISCARDED") /\ y # Set(Root, "DISCARDED")
    BY <1>4, <1>5 DEF Set, Do
  <2>2. \A h \in R : Bears(x, h)
    BY <1>4, <2>1, AtopWorked
  <2>3. Atop(y, r)
    BY <1>5, <2>1, AtopWorked
  <2>. QED
    BY <2>2, <2>3
<1>8. /\ Needs(x, st) /\ Serves(x, st, ps, ok) /\ ~Winds(x)
      /\ Needs(y, st) /\ Serves(y, st, ps, ok) /\ ~Winds(y)
  BY <1>3, <1>4, <1>5 DEF Needs, Serves, GoesOn, Winds, Tell, Told
<1>9. \A c : (Doomed(c, {x, y}) <=> c \in Components(Completion)) /\ ~Ending(c, {x, y})
  <2>1. \A c : ~Cancels(y, c) /\ (Cancels(x, c) <=> c \in Components(Completion))
    BY <1>4, <1>5 DEF Cancels
  <2>2. \A c : ~Ending(c, {x}) /\ ~Ending(c, {y})
    BY <1>4, <1>5, Lone
  <2>. QED
    BY <2>1, <2>2, Two
<1>10. Swap({f}, {x, y}, R, st, ps, ok)
  <2>1. \A h \in {x, y} : /\ Needs(h, st) /\ Serves(h, st, ps, ok) /\ ~Winds(h)
                          /\ h.fn \notin Tell \cup {"except_end", "activate_task", "except_cancelled", "set"}
    BY <1>4, <1>5, <1>8 DEF Tell, Told
  <2>2. ~Has("except_cancelled", {x, y})
    BY <2>1 DEF Has
  <2>3. ASSUME NEW c \in Comp, Doomed(c, {x, y})
        PROVE  /\ Parent[c] \in Comp /\ st[Parent[c]] = "NEW" => Doomed(Parent[c], {x, y})
               /\ \A b \in Comp : Ordered!Precedes(b, c) => ~Open(b, st) \/ Doomed(b, {x, y})
    <3>1. Parent[c] = Completion
      BY <1>9, <2>3, PartsIn
    <3>2. \A b \in Comp : Ordered!Precedes(b, c) => b \in Components(Completion)
      BY <3>1, Before
    <3>. QED
      BY <1>9, <3>1, <3>2
  <2>4. ~((\E h \in {x, y} : Winds(h)) \/ Doomed(Completion, {x, y}))
    BY <1>9, <2>1, PartsIn
  <2>5. \A c \in Components(Completion) : Open(c, st) => Doomed(c, {x, y})
    BY <1>9
  <2>6. \A c \in Comp : Ending(c, {x, y}) => \A d \in Components(c) : Open(d, st) => Doomed(d, {x, y})
    BY <1>9
  <2>. HIDE DEF R
  <2>. QED
    BY <1>2, <2>1, <2>2, <2>3, <2>4, <2>5, <2>6, SwapBottom
<1>11. Normal(<<x, y>> \o r, st, ps, ok)
  BY <1>4, <1>6, <1>7, <1>10, Become2
<1>. QED
  BY <1>11 DEF x, y

\* The calls that end an operation, or go on after the end of a component.
LAST == Lowest \ ({"except_cancelled", "cancel_subtasks"} \cup Worked)

\* A sequential group goes on with the next component.
LEMMA SiblingStarts ==
  ASSUME Rooted, NEW f, NEW r, NEW st \in [Comp -> CompStatus], NEW ps, NEW ok,
         On(f, r, st, ps, ok), f.fn \in LAST,
         NEW g \in Comp, st[g] = "EXECUTION", NEW n \in Components(g), st[n] = "NEW"
  PROVE  Normal(<<Do("activate_task", n, None), Do("except_sibling", g, None)>> \o r, st, ps, ok)
<1>. DEFINE R == Frames(r)
            x == Do("activate_task", n, None)
            y == Do("except_sibling", g, None)
<1>1. f \in Call /\ r \in Seq(Call) /\ Shape(r) /\ Law({f} \cup R, st, ps, ok)
  BY DEF On
<1>2. \A h \in R : h.fn \in Worked
  BY AtBottom DEF LAST
<1>3. n \in Comp /\ Parent[n] = g /\ n # Completion /\ Root \notin Comp
  BY PartsIn, TreeAssumption
<1>4. x \in Call /\ x.fn = "activate_task" /\ x.obj = n
  BY <1>3, DoCall, Args DEF Fn, JobFn, DbFn, Do
<1>5. y \in Call /\ y.fn = "except_sibling" /\ y.obj = g
  <2>1. "except_sibling" \in Fn \ (JobFn \cup DbFn)
    BY DEF Fn, Except, JobFn, DbFn
  <2>. QED
    BY <2>1 DEF Call, Do
<1>. HIDE DEF x, y
<1>6. Bears(x, y) /\ Rests(x, y)
  <2>1. Depth[n] \in Nat /\ Depth[g] \in Nat /\ Depth[g] < Depth[n]
    BY <1>3, DeeperThanParent
  <2>2. \A d : Keeps(y, d) => d = g
    BY <1>5 DEF Keeps, Tell, Told
  <2>3. \A d \in Comp : Keeps(y, d) => Clear(x, d)
    BY <1>4, <2>1, <2>2 DEF Clear
  <2>4. ~Canceller(y) /\ ~OfProcess(x) /\ ~OfCompletion(x) /\ x # Set(Root, "DISCARDED")
    BY <1>3, <1>4, <1>5 DEF Canceller, OfProcess, OfCompletion, Set, Do
  <2>5. Bears(x, y)
    BY <1>4, <1>5, <2>3, <2>4 DEF Bears, Lowest, Worked, Tell, Told
  <2>. QED
    BY <1>4, <1>5, <2>4, <2>5 DEF Rests
<1>7. (\A h \in R : Bears(x, h)) /\ Atop(y, r)
  <2>1. x # Set(Root, "DISCARDED") /\ y # Set(Root, "DISCARDED")
    BY <1>4, <1>5 DEF Set, Do
  <2>2. \A h \in R : Bears(x, h)
    BY <1>4, <2>1, AtopWorked DEF LAST
  <2>3. Atop(y, r)
    BY <1>5, <2>1, AtopWorked DEF LAST
  <2>. QED
    BY <2>2, <2>3
<1>8. /\ Needs(x, st) /\ Serves(x, st, ps, ok) /\ ~Winds(x)
      /\ Needs(y, st) /\ Serves(y, st, ps, ok) /\ ~Winds(y)
  <2>1. Needs(x, st) /\ Needs(y, st)
    BY <1>3, <1>4, <1>5 DEF Needs, Goes, Tell, Told
  <2>2. Serves(x, st, ps, ok) /\ Serves(y, st, ps, ok)
    BY <1>4, <1>5 DEF Serves, GoesOn, Tell, Told
  <2>. QED
    BY <1>3, <1>4, <1>5, <2>1, <2>2 DEF Winds
<1>9. \A c : ~Doomed(c, {x, y}) /\ ~Ending(c, {x, y})
  <2>1. \A c : ~Cancels(y, c) /\ ~Cancels(x, c)
    BY <1>4, <1>5 DEF Cancels
  <2>2. \A c : ~Ending(c, {x}) /\ ~Ending(c, {y})
    BY <1>4, <1>5, Lone
  <2>. QED
    BY <2>1, <2>2, Two
<1>10. Swap({f}, {x, y}, R, st, ps, ok)
  <2>1. \A h \in {x, y} : /\ Needs(h, st) /\ Serves(h, st, ps, ok) /\ ~Winds(h)
                          /\ h.fn \notin Tell \cup {"except_end", "end_completion", "except_cancelled", "set"}
                          /\ (h.fn = "activate_task" => h.obj # Completion)
    BY <1>3, <1>4, <1>5, <1>8 DEF Tell, Told
  <2>2. ~Has("except_cancelled", {x, y}) /\ ~Has("end_completion", {x, y})
    BY <2>1 DEF Has
  <2>. HIDE DEF R
  <2>. QED
    BY <1>2, <1>9, <2>1, <2>2, SwapBottom DEF LAST
<1>11. Normal(<<x, y>> \o r, st, ps, ok)
  BY <1>4, <1>6, <1>7, <1>10, Become2
<1>. QED
  BY <1>11 DEF x, y

\* The completion tasks are done: their group ends.
LEMMA CompletionOver ==
  ASSUME NEW f, NEW r, NEW st \in [Comp -> CompStatus], NEW ps, NEW ok,
         On(f, r, st, ps, ok), f.fn \in LAST,
         st[Completion] = "EXECUTION", \A c \in Components(Completion) : ~Open(c, st)
  PROVE  Normal(<<Do("end_completion", Completion, None)>> \o r, st, ps, ok)
<1>. DEFINE R == Frames(r)
            x == Do("end_completion", Completion, None)
<1>1. \A h \in R : h.fn \in Worked
  BY AtBottom DEF LAST
<1>2. Completion \in Comp /\ Root \notin Comp
  BY TreeAssumption
<1>3. x \in Call /\ x.fn = "end_completion" /\ x.obj = Completion
  BY <1>2, DoCall, Args DEF Fn, JobFn, DbFn, Do
<1>. HIDE DEF x
<1>4. x # Set(Root, "DISCARDED")
  BY <1>3 DEF Set, Do
<1>5. Atop(x, r)
  BY <1>3, <1>4, AtopWorked DEF LAST
<1>6. Needs(x, st) /\ Serves(x, st, ps, ok) /\ ~Winds(x)
  BY <1>2, <1>3 DEF Needs, Serves, GoesOn, Winds, Tell, Told
<1>7. \A c : ~Doomed(c, {x}) /\ ~Ending(c, {x})
  <2>1. \A c : ~Cancels(x, c)
    BY <1>3 DEF Cancels
  <2>. QED
    BY <1>3, <2>1, Lone
<1>8. Swap({f}, {x}, R, st, ps, ok)
  <2>1. \A h \in {x} : /\ Needs(h, st) /\ Serves(h, st, ps, ok) /\ ~Winds(h)
                       /\ h.fn \notin Tell \cup {"except_end", "activate_task", "except_cancelled", "set"}
    BY <1>3, <1>6 DEF Tell, Told
  <2>2. ~Has("except_cancelled", {x})
    BY <2>1 DEF Has
  <2>. HIDE DEF R
  <2>. QED
    BY <1>1, <1>7, <2>1, <2>2, SwapBottom DEF LAST
<1>9. Normal(<<x>> \o r, st, ps, ok)
  BY <1>5, <1>8, Become1
<1>. QED
  BY <1>9 DEF x

\* The completion group ends as the process does.
LEMMA EndsCompletion ==
  ASSUME Rooted, NEW f, NEW r, NEW st \in [Comp -> CompStatus], NEW ps, NEW ok,
         On(f, r, st, ps, ok), f.fn = "end_completion"
  PROVE  /\ ok => Normal(Closed(Completion) \o r, st, ps, ok)
         /\ Normal(Cancelled(Completion) \o r, st, ps, ok)
<1>1. Law({f} \cup Frames(r), st, ps, ok)
  BY DEF On
<1>2. st[Completion] = "EXECUTION" /\ Completion \in Comp
  BY <1>1, TreeAssumption DEF Law, Needs
<1>3. f.fn \in Lowest \ ({"except_cancelled", "cancel_subtasks"} \cup Worked)
  BY DEF Lowest, Worked
<1>4. \A c \in Components(Completion) : ~Open(c, st)
  <2>1. \A c \in Comp : ~Doomed(c, {f} \cup Frames(r))
    BY NoneDoomed DEF Harmless, Canceller
  <2>2. Has("end_completion", {f} \cup Frames(r))
    BY DEF Has
  <2>. QED
    BY <1>1, <2>1, <2>2, PartsIn DEF Law, NoneLeft
<1>5. Normal(Cancelled(Completion) \o r, st, ps, ok)
  BY <1>2, <1>3, CancelGroup
<1>6. ASSUME ok PROVE Normal(Closed(Completion) \o r, st, ps, ok)
  <2>1. "COMPLETED" \in {"COMPLETED", "REJECTED"} /\ "propagate_done" \in Tell
    BY DEF Tell, Told
  <2>2. Normal(<<Set(Completion, "COMPLETED"), Do("propagate_done", Parent[Completion], Completion)>> \o r,
               st, ps, ok)
    BY <1>2, <1>3, <1>4, <1>6, <2>1, EndsAndTells
  <2>. QED
    BY <2>2 DEF Closed
<1>. QED
  BY <1>5, <1>6

\* The process goes on after a component at the top.
LEMMA ProcessGoesOn ==
  ASSUME NEW f, NEW r, NEW st \in [Comp -> CompStatus], NEW ps, NEW ok,
         On(f, r, st, ps, ok), f.fn \in LAST, ok, st[Completion] # "EXECUTION",
         NEW n \in Comp \cup {None},
         n \in Comp => st[n] = "NEW" /\ New(Later(n), st),
         n \notin Comp => \/ Gone(Completion, st)
                          \/ \A c \in Components(Root) : ~Open(c, st)
  PROVE  Normal(<<Do("activate_next", Root, n), Do("except_cancelled", Root, None)>> \o r, st, ps, ok)
<1>. DEFINE R == Frames(r)
            x == Do("activate_next", Root, n)
            y == Do("except_cancelled", Root, None)
<1>1. \A h \in R : h.fn \in Worked
  BY AtBottom DEF LAST
<1>2. Completion \in Comp /\ Root \notin Comp /\ None \notin Comp
  BY TreeAssumption
<1>3. x \in Call /\ x.fn = "activate_next" /\ x.obj = Root /\ x.arg = n
  BY <1>2, DoCall, Args DEF Fn, JobFn, DbFn, Do
<1>4. y \in Call /\ y.fn = "except_cancelled" /\ y.obj = Root
  <2>1. "except_cancelled" \in Fn \ (JobFn \cup DbFn \cup {"except_sibling"})
    BY DEF Fn, Except, JobFn, DbFn
  <2>2. y \in Call
    BY <2>1, DoCall, Args
  <2>. QED
    BY <2>2 DEF Do
<1>. HIDE DEF x, y
<1>5. x # Set(Root, "DISCARDED") /\ y # Set(Root, "DISCARDED")
  BY <1>3, <1>4 DEF Set, Do
<1>6. Bears(x, y) /\ Rests(x, y)
  BY <1>3, <1>4, <1>5, OverBase DEF Rests, OfCompletion, Lowest, Worked, Tell, Told
<1>7. (\A h \in R : Bears(x, h)) /\ Atop(y, r)
  <2>1. \A h \in R : Bears(x, h)
    BY <1>3, <1>5, AtopWorked DEF LAST
  <2>2. Atop(y, r)
    BY <1>4, <1>5, AtopWorked DEF LAST
  <2>. QED
    BY <2>1, <2>2
<1>8. /\ Needs(x, st) /\ Serves(x, st, ps, ok) /\ Needs(y, st) /\ Serves(y, st, ps, ok) /\ ~Winds(y)
  <2>1. Needs(x, st)
    BY <1>3 DEF Needs, Tell, Told
  <2>2. Needs(y, st)
    BY <1>4 DEF Needs, Tell, Told
  <2>3. Serves(x, st, ps, ok)
    BY <1>3 DEF Serves, GoesOn, Tell, Told
  <2>4. Serves(y, st, ps, ok)
    BY <1>4 DEF Serves, GoesOn, Tell, Told
  <2>. QED
    BY <1>4, <2>1, <2>2, <2>3, <2>4 DEF Winds
<1>9. \A c : ~Doomed(c, {x, y}) /\ ~Ending(c, {x, y})
  <2>1. \A c : ~Cancels(y, c) /\ ~Cancels(x, c)
    BY <1>3, <1>4 DEF Cancels
  <2>2. \A c : ~Ending(c, {x}) /\ ~Ending(c, {y})
    BY <1>3, <1>4, Lone
  <2>. QED
    BY <2>1, <2>2, Two
<1>10. Swap({f}, {x, y}, R, st, ps, ok)
  <2>1. \A h \in {x, y} : /\ Needs(h, st) /\ Serves(h, st, ps, ok)
                          /\ h.fn \notin Tell \cup {"except_end", "end_completion", "activate_task", "set"}
    BY <1>3, <1>4, <1>8 DEF Tell, Told
  <2>2. ~Has("end_completion", {x, y})
    BY <2>1 DEF Has
  <2>3. (\E h \in {x, y} : Winds(h)) =>
           \/ Winding({f} \cup R, st, ps, ok)
           \/ \A c \in Components(Root) : Open(c, st) => Doomed(c, {x, y})
    <3>1. Winds(x) => n \notin Comp
      BY <1>3 DEF Winds
    <3>2. Gone(Completion, st) => Winding({f} \cup R, st, ps, ok)
      BY DEF Winding, Gone, Terminal
    <3>. QED
      BY <1>8, <3>1, <3>2
  <2>. HIDE DEF R
  <2>. QED
    BY <1>1, <1>9, <2>1, <2>2, <2>3, SwapBottom DEF LAST
<1>11. Normal(<<x, y>> \o r, st, ps, ok)
  BY <1>3, <1>6, <1>7, <1>10, Become2
<1>. QED
  BY <1>11 DEF x, y

\* All components of the process are cancelled, then it ends.
LEMMA SweepsProcess ==
  ASSUME NEW f, NEW r, NEW st \in [Comp -> CompStatus], NEW ps, NEW ok,
         On(f, r, st, ps, ok), f.fn \in LAST, NEW v \in {"COMPLETED", "FAILED"},
         v = "COMPLETED" => ok /\ st[Completion] # "EXECUTION"
  PROVE  Normal(<<Do("cancel_subtasks", Root, None), Do("end_process", Root, v)>> \o r, st, ps, ok)
<1>. DEFINE R == Frames(r)
            x == Do("cancel_subtasks", Root, None)
            y == Do("end_process", Root, v)
<1>1. \A h \in R : h.fn \in Worked
  BY AtBottom DEF LAST
<1>2. Completion \in Comp /\ Root \notin Comp
  BY TreeAssumption
<1>3. x \in Call /\ x.fn = "cancel_subtasks" /\ x.obj = Root
  BY DoCall, Args DEF Fn, JobFn, DbFn, Do
<1>4. y \in Call /\ y.fn = "end_process" /\ y.obj = Root /\ y.arg = v
  <2>1. y \in Call
    BY DoCall, Args DEF Fn, JobFn, DbFn, ProcStatus
  <2>. QED
    BY <2>1 DEF Do
<1>. HIDE DEF x, y
<1>5. x # Set(Root, "DISCARDED") /\ y # Set(Root, "DISCARDED")
  BY <1>3, <1>4 DEF Set, Do
<1>6. Bears(x, y) /\ Rests(x, y)
  <2>1. \A d : ~Keeps(y, d)
    BY <1>4 DEF Keeps, Tell, Told
  <2>2. ~Canceller(y) /\ ~OfProcess(x) /\ ~OfCompletion(x)
    BY <1>3, <1>4 DEF Canceller, OfProcess, OfCompletion
  <2>3. Bears(x, y)
    BY <1>3, <1>4, <1>5, <2>1, <2>2 DEF Bears, Lowest, Worked, Tell, Told
  <2>. QED
    BY <1>3, <1>4, <2>3, RestsPlain
<1>7. (\A h \in R : Bears(x, h)) /\ Atop(y, r)
  <2>1. \A h \in R : Bears(x, h)
    BY <1>3, <1>5, AtopWorked DEF LAST
  <2>2. Atop(y, r)
    BY <1>4, <1>5, AtopWorked DEF LAST
  <2>. QED
    BY <2>1, <2>2
<1>8. /\ Needs(x, st) /\ Serves(x, st, ps, ok) /\ Needs(y, st) /\ Serves(y, st, ps, ok)
  <2>1. Needs(x, st) /\ Serves(x, st, ps, ok)
    BY <1>3 DEF Needs, Serves, GoesOn, Tell, Told
  <2>2. Needs(y, st) /\ Serves(y, st, ps, ok)
    BY <1>4 DEF Needs, Serves, GoesOn, Tell, Told
  <2>. QED
    BY <2>1, <2>2
<1>9. \A c : (Doomed(c, {x, y}) <=> c \in Components(Root)) /\ ~Ending(c, {x, y})
  <2>1. \A c : ~Cancels(y, c) /\ (Cancels(x, c) <=> c \in Components(Root))
    BY <1>3, <1>4 DEF Cancels
  <2>2. \A c : ~Ending(c, {x}) /\ ~Ending(c, {y})
    BY <1>3, <1>4, Lone
  <2>. QED
    BY <2>1, <2>2, Two
<1>10. Swap({f}, {x, y}, R, st, ps, ok)
  <2>1. \A h \in {x, y} : /\ Needs(h, st) /\ Serves(h, st, ps, ok)
                          /\ h.fn \notin Tell \cup {"except_end", "end_completion", "activate_task", "set",
                                                    "except_cancelled"}
    BY <1>3, <1>4, <1>8 DEF Tell, Told
  <2>2. ~Has("end_completion", {x, y}) /\ ~Has("except_cancelled", {x, y})
    BY <2>1 DEF Has
  <2>3. \A c \in Components(Root) : Open(c, st) => Doomed(c, {x, y})
    BY <1>9
  <2>4. ASSUME NEW c \in Comp, Doomed(c, {x, y})
        PROVE  /\ Parent[c] \in Comp /\ st[Parent[c]] = "NEW" => Doomed(Parent[c], {x, y})
               /\ \A b \in Comp : Ordered!Precedes(b, c) => ~Open(b, st) \/ Doomed(b, {x, y})
    <3>1. Parent[c] = Root
      BY <1>9, <2>4, PartsIn
    <3>2. \A b \in Comp : Ordered!Precedes(b, c) => b \in Components(Root)
      BY <3>1, Before
    <3>. QED
      BY <1>2, <1>9, <3>1, <3>2
  <2>5. \A c \in Comp : Ending(c, {x, y}) => \A d \in Components(c) : Open(d, st) => Doomed(d, {x, y})
    BY <1>9
  <2>. HIDE DEF R
  <2>. QED
    BY <1>1, <2>1, <2>2, <2>3, <2>4, <2>5, SwapBottom DEF LAST
<1>11. Normal(<<x, y>> \o r, st, ps, ok)
  BY <1>3, <1>6, <1>7, <1>10, Become2
<1>. QED
  BY <1>11 DEF x, y

\* The process hears of a component that was cancelled.
LEMMA ProcessHears ==
  ASSUME NEW f, NEW r, NEW st \in [Comp -> CompStatus], NEW ps, NEW ok,
         On(f, r, st, ps, ok), f.fn = "propagate_cancel", f.obj = Root
  PROVE  /\ ok => Normal(<<Do("propagate_done", Root, f.arg)>> \o r, st, ps, ok)
         /\ ~ok => Normal(<<Do("cancel_process", Root, None)>> \o r, st, ps, ok)
<1>. DEFINE R == Frames(r)
            x == Do("propagate_done", Root, f.arg)
            y == Do("cancel_process", Root, None)
<1>1. f.fn \in LAST
  BY DEF LAST, Lowest, Worked, Tell, Told
<1>2. \A h \in R : h.fn \in Worked
  BY <1>1, AtBottom DEF LAST
<1>3. f.arg \in Comp /\ Law({f} \cup R, st, ps, ok) /\ Needs(f, st) /\ Serves(f, st, ps, ok)
  BY DEF On, Law, Needs, Tell, Told
<1>4. x \in Call /\ x.fn = "propagate_done" /\ x.obj = Root /\ x.arg = f.arg
  BY <1>3, DoCall, Args DEF Fn, JobFn, DbFn, Do
<1>5. y \in Call /\ y.fn = "cancel_process" /\ y.obj = Root
  BY DoCall, Args DEF Fn, JobFn, DbFn, Do
<1>. HIDE DEF x, y
<1>6. x # Set(Root, "DISCARDED") /\ y # Set(Root, "DISCARDED")
  BY <1>4, <1>5 DEF Set, Do
<1>7. Atop(x, r) /\ Atop(y, r)
  <2>1. Atop(x, r)
    BY <1>1, <1>4, <1>6, AtopWorked DEF LAST
  <2>2. Atop(y, r)
    BY <1>1, <1>5, <1>6, AtopWorked DEF LAST
  <2>. QED
    BY <2>1, <2>2
<1>8. \A c : ~Doomed(c, {x}) /\ ~Ending(c, {x}) /\ ~Doomed(c, {y}) /\ ~Ending(c, {y})
  <2>1. \A c : ~Cancels(y, c) /\ ~Cancels(x, c)
    BY <1>4, <1>5 DEF Cancels
  <2>. QED
    BY <1>4, <1>5, <2>1, Lone
<1>9. ~Winds(x) /\ ~Winds(y)
  BY <1>4, <1>5 DEF Winds
<1>10. ASSUME ok PROVE Normal(<<x>> \o r, st, ps, ok)
  <2>1. Needs(x, st)
    BY <1>3, <1>4 DEF Needs, Tell, Told
  <2>2. Serves(x, st, ps, ok)
    BY <1>3, <1>4, <1>10 DEF Serves, GoesOn, Told
  <2>3. f.arg = Completion => Leaving({x}, st)
    <3>1. ASSUME f.arg = Completion PROVE Gone(Completion, st)
      <4>1. EndTried({f} \cup R, st)
        BY <1>3 DEF Law
      <4>2. Leaving({f} \cup R, st)
        BY <3>1, <4>1 DEF EndTried, Tell, Told
      <4>3. ~Doomed(Completion, {f} \cup R)
        BY NoneDoomed, TreeAssumption DEF Harmless, Canceller
      <4>4. ~Ending(Completion, {f} \cup R)
        BY <1>2 DEF Ending, Worked
      <4>. QED
        BY <4>2, <4>3, <4>4 DEF Leaving
    <3>. QED
      BY <3>1 DEF Leaving
  <2>4. \A h \in {x} : /\ Needs(h, st) /\ Serves(h, st, ps, ok) /\ ~Winds(h)
                       /\ h.fn \notin {"except_end", "end_completion", "activate_task", "set",
                                       "except_cancelled"}
                       /\ (h.arg = Completion => Leaving({x}, st))
    BY <1>4, <1>9, <2>1, <2>2, <2>3
  <2>5. ~Has("end_completion", {x}) /\ ~Has("except_cancelled", {x})
    BY <2>4 DEF Has
  <2>6. Swap({f}, {x}, R, st, ps, ok)
    <3>. HIDE DEF R
    <3>. QED
      BY <1>1, <1>2, <1>8, <2>4, <2>5, SwapBottom, TreeAssumption DEF LAST
  <2>. QED
    BY <1>7, <2>6, Become1
<1>11. ASSUME ~ok PROVE Normal(<<y>> \o r, st, ps, ok)
  <2>1. Needs(y, st)
    BY <1>5 DEF Needs, Tell, Told
  <2>2. Serves(y, st, ps, ok)
    BY <1>3, <1>5, <1>11 DEF Serves, GoesOn, Told, Law, EndedWell
  <2>3. \A h \in {y} : /\ Needs(h, st) /\ Serves(h, st, ps, ok) /\ ~Winds(h)
                       /\ h.fn \notin Tell \cup {"except_end", "end_completion", "activate_task", "set",
                                       "except_cancelled"}
    BY <1>5, <1>9, <2>1, <2>2 DEF Tell, Told
  <2>4. ~Has("end_completion", {y}) /\ ~Has("except_cancelled", {y})
    BY <2>3 DEF Has
  <2>5. Swap({f}, {y}, R, st, ps, ok)
    <3>. HIDE DEF R
    <3>. QED
      BY <1>1, <1>2, <1>8, <2>3, <2>4, SwapBottom, TreeAssumption DEF LAST
  <2>. QED
    BY <1>7, <2>5, Become1
<1>. QED
  BY <1>10, <1>11 DEF x, y

\* completing_ok is dropped: the process will end as failed or discarded.
LEMMA OkDropped ==
  ASSUME NEW s, NEW st, NEW ps, NEW ok, Normal(s, st, ps, ok), ps # "COMPLETED",
         \E f \in Frames(s) : Winds(f),
         \A h \in Frames(s) : /\ ~GoesOn(h) /\ h.fn \notin Tell \cup {"except_cancelled"}
                              /\ h.fn \in {"set", "except_end"} => h.arg # "COMPLETED"
  PROVE  Normal(s, st, ps, FALSE)
<1>. DEFINE K == Frames(s)
<1>1. Shape(s) /\ Law(K, st, ps, ok)
  BY DEF Normal
<1>2. \A h \in K : Needs(h, st) /\ Serves(h, st, ps, FALSE)
  <2>1. ASSUME NEW h \in K PROVE Serves(h, st, ps, FALSE)
    <3>1. Serves(h, st, ps, ok)
      BY <1>1 DEF Law
    <3>. QED
      BY <3>1 DEF Serves, Tell, Told
  <2>. QED
    BY <1>1, <2>1 DEF Law
<1>3. WindsUp(K, st, ps, FALSE)
  BY <1>1 DEF Law, WindsUp, Winding
<1>4. EndedWell(st, ps, FALSE)
  BY <1>1 DEF Law, EndedWell
<1>. QED
  BY <1>1, <1>2, <1>3, <1>4 DEF Normal, Law

\* A call about the process has only the try block of its loop below it, and a
\* worker's job.
LEMMA ProcessBottom ==
  ASSUME NEW f, NEW r, NEW st, NEW ps, NEW ok, On(f, r, st, ps, ok), OfProcess(f), f.fn # "set"
  PROVE  /\ \A h \in Frames(r) : h.fn \in {"except_cancelled"} \cup Worked
         /\ \A x \in Call : x # Set(Root, "DISCARDED")
                            /\ x.fn \notin Lowest \cup {"activate_process", "dismiss_process", "dismiss_completion"}
              => \A h \in Frames(r) : Bears(x, h)
         /\ r # <<>> => Head(r).fn \in {"except_cancelled"} \cup Worked
<1>1. \A h \in Frames(r) : h.fn \in {"except_cancelled"} \cup Worked
  <2>1. \A h \in Frames(r) : Bears(f, h)
    BY DEF On
  <2>. QED
    BY <2>1 DEF Bears
<1>2. r # <<>> => Head(r) \in Frames(r)
  BY HeadIn DEF On
<1>. QED
  BY <1>1, <1>2, OverBase

\* The process ends: its completion group starts if it is new.
LEMMA ProcessEnds ==
  ASSUME NEW f, NEW r, NEW st \in [Comp -> CompStatus], NEW ps, NEW ok,
         On(f, r, st, ps, ok), f.fn = "end_process"
  PROVE  /\ st[Completion] = "NEW" =>
              Normal(<<Do("activate_task", Completion, None), Do("except_end", Root, f.arg)>> \o r, st, ps, ok)
         /\ st[Completion] # "NEW" => Normal(<<Set(Root, f.arg)>> \o r, st, ps, ok)
<1>. DEFINE R == Frames(r)
            x == Do("activate_task", Completion, None)
            y == Do("except_end", Root, f.arg)
            z == Set(Root, f.arg)
<1>1. Needs(f, st) /\ Serves(f, st, ps, ok) /\ r \in Seq(Call)
  BY DEF On, Law
<1>2. f.arg \in {"COMPLETED", "FAILED"} /\ (f.arg = "COMPLETED" => ok /\ st[Completion] # "EXECUTION")
  BY <1>1 DEF Serves, GoesOn
<1>3. Completion \in Comp /\ Root \notin Comp /\ Parent[Completion] = Root
  BY TreeAssumption
<1>4. OfProcess(f) /\ Winds(f)
  BY DEF OfProcess, Winds
<1>5. x \in Call /\ x.fn = "activate_task" /\ x.obj = Completion
  BY <1>3, DoCall, Args DEF Fn, JobFn, DbFn, Do
<1>6. y \in Call /\ y.fn = "except_end" /\ y.obj = Root /\ y.arg = f.arg
  <2>1. "except_end" \in Fn \ (JobFn \cup DbFn \cup {"except_sibling"}) /\ f.arg \in Arg
    BY <1>2, Args DEF Fn, Except, JobFn, DbFn, ProcStatus
  <2>2. y \in Call
    BY <2>1, DoCall
  <2>. QED
    BY <2>2 DEF Do
<1>7. z \in Call /\ z.fn = "set" /\ z.obj = Root /\ z.arg = f.arg
  BY <1>2, SetCall, Args DEF ProcStatus, Set, Do
<1>. HIDE DEF x, y, z
<1>8. x # Set(Root, "DISCARDED") /\ y # Set(Root, "DISCARDED") /\ z # Set(Root, "DISCARDED")
  BY <1>2, <1>5, <1>6, <1>7 DEF Set, Do
<1>9. \A h \in R : h.fn \in {"except_cancelled"} \cup Worked
  BY <1>4, ProcessBottom
<1>10. ~Has("end_completion", {f} \cup R) /\ ~(\E h \in {f} \cup R : InCompletion(h)) /\ ~Has("except_end", {f} \cup R)
  BY <1>9 DEF Has, InCompletion, Worked
<1>11. (\A h \in R : Bears(x, h)) /\ Atop(y, r) /\ Atop(z, r)
  <2>1. \A h \in R : Bears(x, h)
    BY <1>4, <1>5, <1>8, ProcessBottom DEF Lowest, Worked, Tell, Told
  <2>2. Atop(y, r)
    <3>1. y.fn \notin Lowest \cup {"activate_process", "dismiss_process", "dismiss_completion"}
      BY <1>6 DEF Lowest, Worked, Tell, Told
    <3>2. r # <<>> => Rests(y, Head(r))
      BY <1>4, <1>6, ProcessBottom, RestsPlain DEF Worked
    <3>. QED
      BY <1>4, <1>6, <1>8, <3>1, <3>2, ProcessBottom DEF Atop
  <2>3. Atop(z, r)
    <3>1. z.fn \notin Lowest \cup {"activate_process", "dismiss_process", "dismiss_completion"}
      BY <1>7 DEF Lowest, Worked, Tell, Told
    <3>2. r # <<>> => Rests(z, Head(r))
      BY <1>4, <1>7, ProcessBottom, RestsPlain DEF Worked
    <3>. QED
      BY <1>4, <1>7, <1>8, <3>1, <3>2, ProcessBottom DEF Atop
  <2>. QED
    BY <2>1, <2>2, <2>3
<1>12. \A c : ~Doomed(c, {f}) /\ ~Ending(c, {f}) /\ ~ToStart(c, {f})
  <2>1. \A c : ~Cancels(f, c) /\ ~Starts(f, c)
    BY DEF Cancels, Starts
  <2>. QED
    BY <2>1, Lone
<1>13. ~\A g \in {f} : g.fn \in {"except_cancelled"} \cup Worked
  BY DEF Worked
<1>14. ~Has("except_end", {f}) /\ ~Has("dismiss_completion", {f}) /\ ~(\E g \in {f} : g.fn = "except_activate")
  BY DEF Has
<1>15. Winding({f} \cup R, st, ps, ok)
  BY <1>4 DEF Winding
<1>16. ASSUME st[Completion] = "NEW"
       PROVE  Normal(<<x, y>> \o r, st, ps, ok)
  <2>1. Bears(x, y) /\ Rests(x, y)
    <3>1. \A d : ~Keeps(y, d)
      BY <1>6 DEF Keeps, Tell, Told
    <3>2. ~Canceller(y) /\ ~OfProcess(x) /\ OfCompletion(x)
      BY <1>5, <1>6 DEF Canceller, OfProcess, OfCompletion
    <3>3. Bears(x, y)
      BY <1>5, <1>6, <1>8, <3>1, <3>2 DEF Bears, Lowest, Worked, Tell, Told
    <3>. QED
      BY <1>5, <1>6, <3>2, <3>3 DEF Rests
  <2>2. /\ Needs(x, st) /\ Serves(x, st, ps, ok) /\ Needs(y, st) /\ Serves(y, st, ps, ok)
    <3>1. Needs(x, st)
      BY <1>3, <1>5, <1>16 DEF Needs, Goes, Tell, Told
    <3>2. Serves(x, st, ps, ok)
      BY <1>5 DEF Serves, GoesOn, Tell, Told
    <3>3. Needs(y, st)
      BY <1>6 DEF Needs, Tell, Told
    <3>4. Serves(y, st, ps, ok)
      BY <1>2, <1>6 DEF Serves, GoesOn, Tell, Told
    <3>. QED
      BY <3>1, <3>2, <3>3, <3>4
  <2>3. \A c : ~Doomed(c, {x, y}) /\ ~Ending(c, {x, y})
    <3>1. \A c : ~Cancels(y, c) /\ ~Cancels(x, c)
      BY <1>5, <1>6 DEF Cancels
    <3>2. \A c : ~Ending(c, {x}) /\ ~Ending(c, {y})
      BY <1>5, <1>6, Lone
    <3>. QED
      BY <3>1, <3>2, Two
  <2>4. Has("except_end", {x, y}) /\ ~Has("end_completion", {x, y}) /\ ~Has("except_cancelled", {x, y})
    BY <1>5, <1>6 DEF Has
  <2>5. \A h \in {x, y} : /\ Needs(h, st) /\ Serves(h, st, ps, ok) /\ ~InCompletion(h)
                          /\ h.fn \notin Tell \cup {"set"}
    BY <1>5, <1>6, <2>2 DEF InCompletion, Tell, Told
  <2>6. ~\E h \in {x, y} \cup R : InCompletion(h)
    BY <1>10, <2>5
  <2>7. Swap({f}, {x, y}, R, st, ps, ok)
    <3>. HIDE DEF R
    <3>. QED
      BY <1>12, <1>13, <1>14, <1>15, <2>3, <2>4, <2>5, <2>6 DEF Swap
  <2>. QED
    BY <1>5, <1>11, <2>1, <2>7, Become2
<1>17. ASSUME st[Completion] # "NEW"
       PROVE  Normal(<<z>> \o r, st, ps, ok)
  <2>1. Needs(z, st)
    BY <1>2, <1>3, <1>7 DEF Needs, Tell, Told
  <2>2. Serves(z, st, ps, ok)
    <3>1. f.arg = "COMPLETED" => Gone(Completion, st)
      BY <1>2, <1>3, <1>17 DEF Gone, Terminal, CompStatus
    <3>. QED
      BY <1>2, <1>7, <3>1 DEF Serves, GoesOn, Tell, Told
  <2>3. \A c \in Comp : ~Doomed(c, {z}) /\ ~Ending(c, {z})
    <3>1. Harmless(z)
      BY <1>3, <1>7 DEF Harmless, Canceller
    <3>. QED
      BY <3>1, NoHarm
  <2>4. ~Has("except_end", {z}) /\ ~Has("end_completion", {z}) /\ ~Has("except_cancelled", {z})
    BY <1>7 DEF Has
  <2>5. \A h \in {z} : /\ Needs(h, st) /\ Serves(h, st, ps, ok) /\ ~InCompletion(h)
                       /\ h.fn \notin Tell \cup {"activate_task"} /\ h.arg # "DISCARDED"
    BY <1>2, <1>7, <2>1, <2>2 DEF InCompletion, Tell, Told
  <2>6. Swap({f}, {z}, R, st, ps, ok)
    <3>. HIDE DEF R
    <3>. QED
      BY <1>3, <1>12, <1>13, <1>14, <1>15, <2>3, <2>4, <2>5 DEF Swap
  <2>. QED
    BY <1>11, <2>6, Become1
<1>. QED
  BY <1>16, <1>17 DEF x, y, z

\* The completion group was started without an exception.
LEMMA EndLeft ==
  ASSUME NEW f, NEW r, NEW st \in [Comp -> CompStatus], NEW ps, NEW ok,
         On(f, r, st, ps, ok), f.fn = "except_end"
  PROVE  Normal(r, st, ps, ok)
<1>. DEFINE R == Frames(r)
<1>1. \A h \in R : h.fn \in {"except_cancelled"} \cup Worked
  BY ProcessBottom DEF OfProcess
<1>2. \A c : ~Doomed(c, {f}) /\ ~Ending(c, {f}) /\ ~ToStart(c, {f})
  <2>1. \A c : ~Cancels(f, c) /\ ~Starts(f, c)
    BY DEF Cancels, Starts
  <2>. QED
    BY <2>1, Lone
<1>3. \A c : ~Doomed(c, {}) /\ ~Ending(c, {})
  BY DEF Doomed, Ending
<1>4. \A fn : ~Has(fn, {})
  BY DEF Has
<1>5. ~(\E h \in {} \cup R : InCompletion(h)) /\ ~(\E h \in {} \cup R : h.fn = "activate_task" /\ h.obj = Completion)
      /\ \A h \in {} \cup R : h.fn \in {"except_cancelled"} \cup Worked
  BY <1>1 DEF InCompletion, Worked
<1>6. ~(\E g \in {f} : g.fn = "except_activate") /\ ~Has("dismiss_completion", {f})
  BY DEF Has
<1>7. Swap({f}, {}, R, st, ps, ok)
  <2>. HIDE DEF R
  <2>. QED
    BY <1>2, <1>3, <1>4, <1>5, <1>6 DEF Swap
<1>. QED
  BY <1>7, Become0

\* The loop over the components of the process starts the next one, or ends it.
LEMMA NextStarts ==
  ASSUME Rooted, NEW f, NEW r, NEW st \in [Comp -> CompStatus], NEW ps, NEW ok,
         On(f, r, st, ps, ok), f.fn = "activate_next"
  PROVE  /\ f.arg \in Components(Root) =>
              Normal(<<Do("activate_task", f.arg, None), Do("except_next", Root, f.arg)>> \o r, st, ps, ok)
         /\ f.arg \notin Comp => Normal(<<Do("end_process", Root, "COMPLETED")>> \o r, st, ps, ok)
<1>. DEFINE R == Frames(r)
            n == f.arg
            x == Do("activate_task", n, None)
            y == Do("except_next", Root, n)
            z == Do("end_process", Root, "COMPLETED")
<1>1. Needs(f, st) /\ Serves(f, st, ps, ok) /\ r \in Seq(Call) /\ (r # <<>> => Rests(f, Head(r)))
  BY DEF On, Law
<1>2. ok /\ st[Completion] # "EXECUTION" /\ (n \in Comp => st[n] = "NEW" /\ New(Later(n), st))
  BY <1>1 DEF Needs, Serves, GoesOn
<1>3. Completion \in Comp /\ Root \notin Comp
  BY TreeAssumption
<1>4. OfProcess(f)
  BY DEF OfProcess
<1>5. \A h \in R : h.fn \in {"except_cancelled"} \cup Worked
  BY <1>4, ProcessBottom
<1>6. r # <<>> => Head(r).fn = "except_cancelled"
  BY <1>1 DEF Rests
<1>7. \A c : ~Cancels(f, c) /\ ~Starts(f, c)
  BY DEF Cancels, Starts
<1>8. \A c : ~Doomed(c, {f}) /\ ~Ending(c, {f}) /\ ~ToStart(c, {f})
  BY <1>7, Lone
<1>9. ASSUME n \in Components(Root)
      PROVE  Normal(<<x, y>> \o r, st, ps, ok)
  <2>1. n \in Comp /\ n # Completion /\ Parent[n] = Root
    BY <1>9, PartsIn
  <2>2. x \in Call /\ x.fn = "activate_task" /\ x.obj = n
    BY <2>1, DoCall, Args DEF Fn, JobFn, DbFn, Do
  <2>3. y \in Call /\ y.fn = "except_next" /\ y.obj = Root /\ y.arg = n
    <3>1. "except_next" \in Fn \ (JobFn \cup DbFn \cup {"except_sibling"})
      BY DEF Fn, Except, JobFn, DbFn
    <3>2. y \in Call
      BY <2>1, <3>1, DoCall, Args
    <3>. QED
      BY <3>2 DEF Do
  <2>. HIDE DEF x, y
  <2>4. x # Set(Root, "DISCARDED") /\ y # Set(Root, "DISCARDED")
    BY <2>2, <2>3 DEF Set, Do
  <2>5. (\A h \in R : Bears(x, h)) /\ Atop(y, r)
    <3>1. \A h \in R : Bears(x, h)
      BY <1>4, <2>2, <2>4, ProcessBottom DEF Lowest, Worked, Tell, Told
    <3>2. \A h \in R : Bears(y, h)
      BY <1>4, <2>3, <2>4, ProcessBottom DEF Lowest, Worked, Tell, Told
    <3>3. r # <<>> => Rests(y, Head(r))
      BY <1>6, <2>3 DEF Rests, OfCompletion
    <3>. QED
      BY <2>3, <3>1, <3>2, <3>3 DEF Atop
  <2>6. Bears(x, y) /\ Rests(x, y)
    <3>1. \A d \in Comp : Keeps(y, d) => Clear(x, d)
      <4>1. ASSUME NEW d \in Comp, Keeps(y, d) PROVE Clear(x, d)
        <5>1. d \in Later(n)
          BY <1>3, <2>1, <2>3, <4>1 DEF Keeps, Tell, Told
        <5>2. Parent[d] = Root /\ d # n
          BY <2>1, <5>1, TreeAssumption DEF Later, Ordered!Precedes
        <5>3. Depth[d] = Depth[Parent[d]] + 1 /\ Depth[n] = Depth[Parent[n]] + 1 /\ Depth[d] \in Nat
          BY <2>1, Depths
        <5>4. Depth[d] <= Depth[n]
          BY <2>1, <5>2, <5>3
        <5>. QED
          BY <2>2, <5>2, <5>4 DEF Clear
      <4>. QED
        BY <4>1
    <3>2. ~Canceller(y) /\ ~OfProcess(x) /\ ~OfCompletion(x)
      BY <2>1, <2>2, <2>3 DEF Canceller, OfProcess, OfCompletion
    <3>3. Bears(x, y)
      BY <2>2, <2>3, <2>4, <3>1, <3>2 DEF Bears, Lowest, Worked, Tell, Told
    <3>. QED
      BY <2>2, <2>3, <3>2, <3>3 DEF Rests
  <2>7. /\ Needs(x, st) /\ Serves(x, st, ps, ok) /\ Needs(y, st) /\ Serves(y, st, ps, ok)
    <3>1. Needs(x, st)
      BY <1>2, <1>3, <2>1, <2>2 DEF Needs, Goes, Tell, Told
    <3>2. Serves(x, st, ps, ok)
      BY <2>2 DEF Serves, GoesOn, Tell, Told
    <3>3. Needs(y, st)
      BY <1>2, <2>1, <2>3 DEF Needs, Tell, Told
    <3>4. Serves(y, st, ps, ok)
      BY <1>2, <2>3 DEF Serves, GoesOn, Tell, Told
    <3>. QED
      BY <3>1, <3>2, <3>3, <3>4
  <2>8. \A c \in Comp : ~Doomed(c, {x, y}) /\ ~Ending(c, {x, y})
    BY <2>2, <2>3, NoHarm DEF Harmless, Canceller
  <2>9. Meek(x) /\ Meek(y) /\ Tame(f)
    BY <2>1, <2>2, <2>3 DEF Tame, Modest, Worked, Meek, Winds, Tell, Told
  <2>10. ~Has("except_end", R)
    BY <1>5 DEF Has, Worked
  <2>11. Swap({f}, {x, y}, R, st, ps, ok)
    <3>1. \A h \in {x, y} : Meek(h) /\ Needs(h, st) /\ Serves(h, st, ps, ok)
      BY <2>7, <2>9
    <3>2. ~(\E h \in {f} : h.fn = "except_activate" /\ h.obj = Completion) /\ \A h \in {f} : Tame(h)
      BY <2>9
    <3>. HIDE DEF R
    <3>. QED
      BY <1>3, <1>8, <2>8, <2>10, <3>1, <3>2, SwapMeek
  <2>. QED
    BY <2>2, <2>5, <2>6, <2>11, Become2
<1>10. ASSUME n \notin Comp
       PROVE  Normal(<<z>> \o r, st, ps, ok)
  <2>1. z \in Call /\ z.fn = "end_process" /\ z.obj = Root /\ z.arg = "COMPLETED"
    <3>1. z \in Call
      BY DoCall, Args DEF Fn, JobFn, DbFn, ProcStatus
    <3>. QED
      BY <3>1 DEF Do
  <2>. HIDE DEF z
  <2>2. z # Set(Root, "DISCARDED")
    BY <2>1 DEF Set, Do
  <2>3. Atop(z, r)
    <3>1. \A h \in R : Bears(z, h)
      BY <1>4, <2>1, <2>2, ProcessBottom DEF Lowest, Worked, Tell, Told
    <3>2. r # <<>> => Rests(z, Head(r))
      BY <1>6, <2>1, RestsPlain
    <3>. QED
      BY <2>1, <3>1, <3>2 DEF Atop
  <2>4. Needs(z, st)
    BY <2>1 DEF Needs, Tell, Told
  <2>5. Serves(z, st, ps, ok)
    BY <1>2, <2>1 DEF Serves, GoesOn, Tell, Told
  <2>6. \A c \in Comp : ~Doomed(c, {z}) /\ ~Ending(c, {z})
    BY <2>1, NoHarm DEF Harmless, Canceller
  <2>7. ~Has("except_end", {z}) /\ ~Has("end_completion", {z}) /\ ~Has("except_cancelled", {z})
    BY <2>1 DEF Has
  <2>8. \A h \in {z} : /\ Needs(h, st) /\ Serves(h, st, ps, ok) /\ ~InCompletion(h)
                       /\ h.fn \notin Tell \cup {"activate_task", "set"}
    BY <2>1, <2>4, <2>5 DEF InCompletion, Tell, Told
  <2>9. Winding({f} \cup R, st, ps, ok)
    BY <1>10 DEF Winding, Winds
  <2>10. /\ ~Has("except_end", {f}) /\ ~Has("dismiss_completion", {f}) /\ ~(\E g \in {f} : g.fn = "except_activate")
         /\ ~\A g \in {f} : g.fn \in {"except_cancelled"} \cup Worked
    BY DEF Has, Worked
  <2>11. Swap({f}, {z}, R, st, ps, ok)
    <3>. HIDE DEF R
    <3>. QED
      BY <1>3, <1>8, <2>6, <2>7, <2>8, <2>9, <2>10 DEF Swap
  <2>. QED
    BY <2>3, <2>11, Become1
<1>. QED
  BY <1>9, <1>10 DEF x, y, z

\* The process starts its first component, or ends if it has none.
LEMMA TasksStart ==
  ASSUME NEW f, NEW r, NEW st \in [Comp -> CompStatus], NEW ps, NEW ok,
         On(f, r, st, ps, ok), f.fn = "activate_tasks"
  PROVE  /\ Components(Root) = {} => Normal(<<Do("end_process", Root, "COMPLETED")>> \o r, st, ps, ok)
         /\ Components(Root) # {} => Normal(<<Do("activate_task", First(Root), None)>> \o r, st, ps, ok)
<1>. DEFINE R == Frames(r)
            n == First(Root)
            x == Do("activate_task", n, None)
            z == Do("end_process", Root, "COMPLETED")
<1>1. Needs(f, st) /\ Serves(f, st, ps, ok) /\ r \in Seq(Call) /\ (r # <<>> => Rests(f, Head(r)))
  BY DEF On, Law
<1>2. ok /\ st[Completion] # "EXECUTION" /\ New(Components(Root), st)
  BY <1>1 DEF Needs, Serves, GoesOn
<1>3. Completion \in Comp /\ Root \notin Comp
  BY TreeAssumption
<1>4. OfProcess(f)
  BY DEF OfProcess
<1>5. \A h \in R : h.fn \in {"except_cancelled"} \cup Worked
  BY <1>4, ProcessBottom
<1>6. r # <<>> => Head(r).fn = "except_cancelled"
  BY <1>1 DEF Rests
<1>7. \A c : ~Cancels(f, c) /\ ~Starts(f, c)
  BY DEF Cancels, Starts
<1>8. \A c : ~Doomed(c, {f}) /\ ~Ending(c, {f}) /\ ~ToStart(c, {f})
  BY <1>7, Lone
<1>9. ASSUME Components(Root) # {}
      PROVE  Normal(<<x>> \o r, st, ps, ok)
  <2>1. n \in Components(Root) /\ n \in Comp /\ n # Completion /\ Parent[n] = Root
    BY <1>9, FirstPart, PartsIn
  <2>2. x \in Call /\ x.fn = "activate_task" /\ x.obj = n
    BY <2>1, DoCall, Args DEF Fn, JobFn, DbFn, Do
  <2>. HIDE DEF x
  <2>3. x # Set(Root, "DISCARDED")
    BY <2>2 DEF Set, Do
  <2>4. Atop(x, r)
    <3>1. \A h \in R : Bears(x, h)
      BY <1>4, <2>2, <2>3, ProcessBottom DEF Lowest, Worked, Tell, Told
    <3>2. r # <<>> => Rests(x, Head(r))
      BY <1>6, <2>1, <2>2 DEF Rests, OfCompletion
    <3>. QED
      BY <2>2, <3>1, <3>2 DEF Atop
  <2>5. Needs(x, st)
    BY <1>2, <1>3, <2>1, <2>2 DEF Needs, Goes, New, Tell, Told
  <2>6. Serves(x, st, ps, ok)
    BY <2>2 DEF Serves, GoesOn, Tell, Told
  <2>7. \A c \in Comp : ~Doomed(c, {x}) /\ ~Ending(c, {x})
    BY <2>2, NoHarm DEF Harmless, Canceller
  <2>8. Meek(x) /\ Tame(f)
    BY <2>1, <2>2 DEF Tame, Modest, Worked, Meek, Winds, Tell, Told
  <2>9. ~Has("except_end", R)
    BY <1>5 DEF Has, Worked
  <2>10. Swap({f}, {x}, R, st, ps, ok)
    <3>1. \A h \in {x} : Meek(h) /\ Needs(h, st) /\ Serves(h, st, ps, ok)
      BY <2>5, <2>6, <2>8
    <3>2. ~(\E h \in {f} : h.fn = "except_activate" /\ h.obj = Completion) /\ \A h \in {f} : Tame(h)
      BY <2>8
    <3>. HIDE DEF R
    <3>. QED
      BY <1>3, <1>8, <2>7, <2>9, <3>1, <3>2, SwapMeek
  <2>. QED
    BY <2>4, <2>10, Become1
<1>10. ASSUME Components(Root) = {}
       PROVE  Normal(<<z>> \o r, st, ps, ok)
  <2>1. z \in Call /\ z.fn = "end_process" /\ z.obj = Root /\ z.arg = "COMPLETED"
    <3>1. z \in Call
      BY DoCall, Args DEF Fn, JobFn, DbFn, ProcStatus
    <3>. QED
      BY <3>1 DEF Do
  <2>. HIDE DEF z
  <2>2. z # Set(Root, "DISCARDED")
    BY <2>1 DEF Set, Do
  <2>3. Atop(z, r)
    <3>1. \A h \in R : Bears(z, h)
      BY <1>4, <2>1, <2>2, ProcessBottom DEF Lowest, Worked, Tell, Told
    <3>2. r # <<>> => Rests(z, Head(r))
      BY <1>6, <2>1, RestsPlain
    <3>. QED
      BY <2>1, <3>1, <3>2 DEF Atop
  <2>4. Needs(z, st)
    BY <2>1 DEF Needs, Tell, Told
  <2>5. Serves(z, st, ps, ok)
    BY <1>2, <2>1 DEF Serves, GoesOn, Tell, Told
  <2>6. \A c \in Comp : ~Doomed(c, {z}) /\ ~Ending(c, {z})
    BY <2>1, NoHarm DEF Harmless, Canceller
  <2>7. ~Has("except_end", {z}) /\ ~Has("end_completion", {z}) /\ ~Has("except_cancelled", {z})
    BY <2>1 DEF Has
  <2>8. \A h \in {z} : /\ Needs(h, st) /\ Serves(h, st, ps, ok) /\ ~InCompletion(h)
                       /\ h.fn \notin Tell \cup {"activate_task", "set"}
    BY <2>1, <2>4, <2>5 DEF InCompletion, Tell, Told
  <2>9. \A c \in Components(Root) : Open(c, st) => Doomed(c, {z})
    BY <1>10
  <2>10. /\ ~Has("except_end", {f}) /\ ~Has("dismiss_completion", {f}) /\ ~(\E g \in {f} : g.fn = "except_activate")
         /\ ~\A g \in {f} : g.fn \in {"except_cancelled"} \cup Worked
    BY DEF Has, Worked
  <2>11. Swap({f}, {z}, R, st, ps, ok)
    <3>. HIDE DEF R
    <3>. QED
      BY <1>3, <1>8, <2>6, <2>7, <2>8, <2>9, <2>10 DEF Swap
  <2>. QED
    BY <2>3, <2>11, Become1
<1>. QED
  BY <1>9, <1>10 DEF x, z

\* A call that ends an operation is replaced by another one.
LEMMA Follows ==
  ASSUME NEW f, NEW r, NEW st \in [Comp -> CompStatus], NEW ps, NEW ok,
         On(f, r, st, ps, ok), f.fn \in LAST,
         NEW x, Atop(x, r), Needs(x, st), Serves(x, st, ps, ok), Harmless(x), ~Winds(x),
         x.fn \notin Tell \cup {"end_completion", "except_end", "except_cancelled", "activate_task"},
         x.fn = "set" => x.arg # "DISCARDED"
  PROVE  Normal(<<x>> \o r, st, ps, ok)
<1>. DEFINE R == Frames(r)
<1>1. \A h \in R : h.fn \in Worked
  BY AtBottom DEF LAST
<1>2. \A h \in {x} : /\ Needs(h, st) /\ Serves(h, st, ps, ok) /\ ~Winds(h) /\ Harmless(h)
                     /\ h.fn \notin Tell \cup {"end_completion", "except_end", "except_cancelled", "activate_task"}
                     /\ (h.fn = "set" => h.arg # "DISCARDED")
  OBVIOUS
<1>3. ~Has("end_completion", {x}) /\ ~Has("except_cancelled", {x})
  BY <1>2 DEF Has
<1>4. \A c \in Comp : ~Doomed(c, {x}) /\ ~Ending(c, {x})
  BY <1>2, NoHarm
<1>5. Swap({f}, {x}, R, st, ps, ok)
  <2>. HIDE DEF R
  <2>. QED
    BY <1>1, <1>2, <1>3, <1>4, SwapBottom, TreeAssumption DEF LAST
<1>. QED
  BY <1>5, Become1

\* A running task is cancelled without telling its parent.
LEMMA CancelAlone ==
  ASSUME NEW f, NEW r, NEW st \in [Comp -> CompStatus], NEW ps, NEW ok,
         On(f, r, st, ps, ok), f.fn \in LAST, NEW g \in Comp, st[g] = "EXECUTION", g # Completion
  PROVE  Normal(<<Do("cancel_task", g, None)>> \o r, st, ps, ok)
<1>. DEFINE R == Frames(r)
            x == Do("cancel_task", g, None)
<1>1. f \in Call /\ r \in Seq(Call) /\ Shape(r) /\ Law({f} \cup R, st, ps, ok)
  BY DEF On
<1>2. \A h \in R : h.fn \in Worked
  BY AtBottom DEF LAST
<1>3. x \in Call /\ x.fn = "cancel_task" /\ x.obj = g
  BY DoCall, Args DEF Fn, JobFn, DbFn, Do
<1>4. \A c \in Comp : ~Doomed(c, {f} \cup R)
  BY NoneDoomed DEF Harmless, Canceller, LAST, Lowest, Worked, Tell, Told
<1>5. Goes(Parent[g], st)
  BY <1>1, <1>4, RunningUp
<1>. HIDE DEF x
<1>6. Atop(x, r)
  BY <1>3, AtopWorked DEF Set, Do, LAST
<1>7. Needs(x, st) /\ Serves(x, st, ps, ok)
  BY <1>3, TreeAssumption DEF Needs, Serves, GoesOn, Open, Tell, Told
<1>8. \A c : (Doomed(c, {x}) <=> c = g) /\ ~Ending(c, {x})
  <2>1. \A c : Cancels(x, c) <=> c = g
    BY <1>3 DEF Cancels
  <2>. QED
    BY <1>3, <2>1, Lone
<1>9. /\ Parent[g] \in Comp => st[Parent[g]] # "NEW"
      /\ \A b \in Comp : Ordered!Precedes(b, g) => ~Open(b, st)
  <2>1. InLine({f} \cup R, st)
    BY <1>1 DEF Law
  <2>. QED
    BY <1>4, <1>5, <2>1 DEF InLine, Goes
<1>10. \A h \in {x} : /\ Needs(h, st) /\ Serves(h, st, ps, ok) /\ ~Winds(h)
                      /\ h.fn \notin Tell \cup {"end_completion", "except_end", "except_cancelled",
                                                "activate_task", "set"}
  BY <1>3, <1>7 DEF Winds, Tell, Told
<1>11. Swap({f}, {x}, R, st, ps, ok)
  <2>1. ~Has("end_completion", {x}) /\ ~Has("except_cancelled", {x})
    BY <1>10 DEF Has
  <2>2. ~((\E h \in {x} : Winds(h)) \/ Doomed(Completion, {x}))
    BY <1>8, <1>10
  <2>3. \A c \in Comp : Ending(c, {x}) => \A d \in Components(c) : Open(d, st) => Doomed(d, {x})
    BY <1>8
  <2>4. \A c \in Comp : Open(c, st) /\ Doomed(c, {x}) =>
           /\ Parent[c] \in Comp /\ st[Parent[c]] = "NEW" => Doomed(Parent[c], {x})
           /\ \A b \in Comp : Ordered!Precedes(b, c) => ~Open(b, st) \/ Doomed(b, {x})
    BY <1>8, <1>9
  <2>. HIDE DEF R
  <2>. QED
    BY <1>2, <1>10, <2>1, <2>2, <2>3, <2>4, SwapBottom DEF LAST
<1>12. Normal(<<x>> \o r, st, ps, ok)
  BY <1>6, <1>11, Become1
<1>. QED
  BY <1>12 DEF x

\* Nothing is below the calls that start or dismiss the process.
LEMMA NothingBelow ==
  ASSUME NEW f, NEW r, NEW st, NEW ps, NEW ok, On(f, r, st, ps, ok),
         f.fn \in {"activate_process", "dismiss_process"}
  PROVE  r = <<>>
<1>1. \A h \in Frames(r) : FALSE
  BY DEF On, Bears
<1>2. r # <<>> => Head(r) \in Frames(r)
  BY HeadIn DEF On
<1>. QED
  BY <1>1, <1>2

\* The process is dismissed.
LEMMA Dismissal ==
  ASSUME NEW f, NEW r, NEW st \in [Comp -> CompStatus], NEW ps, NEW ok,
         On(f, r, st, ps, ok), f.fn = "dismiss_process"
  PROVE  Normal(<<Do("cancel_subtasks", Root, None), Do("dismiss_completion", Root, None),
                  Set(Root, "DISCARDED")>> \o r, st, ps, FALSE)
<1>. DEFINE x == Do("cancel_subtasks", Root, None)
            y == Do("dismiss_completion", Root, None)
            z == Set(Root, "DISCARDED")
<1>1. r = <<>> /\ Frames(r) = {} /\ Shape(r) /\ r \in Seq(Call)
  <2>1. r = <<>>
    BY NothingBelow
  <2>. QED
    BY <2>1, NoFrames DEF On
<1>2. Completion \in Comp /\ Root \notin Comp
  BY TreeAssumption
<1>3. x \in Call /\ x.fn = "cancel_subtasks" /\ x.obj = Root /\ x.arg = None
  BY DoCall, Args DEF Fn, JobFn, DbFn, Do
<1>4. y \in Call /\ y.fn = "dismiss_completion" /\ y.obj = Root /\ y.arg = None
  BY DoCall, Args DEF Fn, JobFn, DbFn, Do
<1>5. z \in Call /\ z.fn = "set" /\ z.obj = Root /\ z.arg = "DISCARDED"
  BY SetCall, Args DEF ProcStatus, Set, Do
<1>6. x # z /\ y # z
  BY <1>3, <1>4, <1>5
<1>7. Bears(x, y) /\ Bears(x, z) /\ Bears(y, z) /\ Rests(x, y) /\ Rests(y, z)
  <2>. HIDE DEF x, y
  <2>1. \A d \in Comp : ~Keeps(y, d) /\ ~Keeps(z, d)
    BY <1>2, <1>4, <1>5 DEF Keeps, Tell, Told
  <2>2. ~Canceller(y) /\ ~Canceller(z) /\ ~OfProcess(x) /\ ~OfCompletion(x) /\ ~OfProcess(y) /\ ~OfCompletion(y)
    BY <1>2, <1>3, <1>4, <1>5 DEF Canceller, OfProcess, OfCompletion
  <2>3. Bears(x, y) /\ Bears(x, z)
    BY <1>3, <1>4, <1>5, <1>6, <2>1, <2>2 DEF Bears, Lowest, Worked, Tell, Told
  <2>4. Bears(y, z)
    BY <1>4, <1>5, <1>6, <2>1, <2>2 DEF Bears, Single, Multiple, Lowest, Worked, Tell, Told
  <2>. QED
    BY <1>3, <1>4, <1>5, <2>3, <2>4, RestsPlain
<1>. HIDE DEF x, y, z
<1>8. Atop(z, r)
  BY <1>1, <1>5 DEF Atop
<1>9. /\ Needs(x, st) /\ Serves(x, st, ps, ok) /\ Needs(y, st) /\ Serves(y, st, ps, ok)
      /\ Needs(z, st) /\ Serves(z, st, ps, ok)
  <2>1. Needs(x, st) /\ Serves(x, st, ps, ok)
    BY <1>3 DEF Needs, Serves, GoesOn, Tell, Told
  <2>2. Needs(y, st) /\ Serves(y, st, ps, ok)
    BY <1>4 DEF Needs, Serves, GoesOn, Tell, Told
  <2>3. Needs(z, st) /\ Serves(z, st, ps, ok)
    BY <1>2, <1>5 DEF Needs, Serves, GoesOn, Tell, Told
  <2>. QED
    BY <2>1, <2>2, <2>3
<1>10. \A c : /\ (c \in Components(Root) => Doomed(c, {x, y, z}))
              /\ (c \in Comp /\ Doomed(c, {x, y, z}) => c \in Components(Root))
              /\ (c \in Comp => ~Ending(c, {x, y, z}))
  <2>1. \A c : ~Cancels(y, c) /\ (Cancels(x, c) <=> c \in Components(Root)) /\ (Cancels(z, c) => c = Root)
    BY <1>3, <1>4, <1>5 DEF Cancels
  <2>2. \A c : (Ending(c, {z}) => c = Root) /\ ~Ending(c, {y}) /\ ~Ending(c, {x})
    BY <1>3, <1>4, <1>5, Lone
  <2>. QED
    BY <1>2, <2>1, <2>2, Three
<1>11. \A h \in {x, y, z} :
          /\ Needs(h, st) /\ Serves(h, st, ps, ok) /\ ~InCompletion(h)
          /\ h.fn \notin Tell \cup {"end_completion", "except_end", "except_cancelled", "activate_task"}
          /\ ~GoesOn(h) /\ (h.fn \in {"set", "except_end"} => h.arg # "COMPLETED")
  <2>1. \A h \in {x, y, z} : h.fn \notin Tell
    BY <1>3, <1>4, <1>5 DEF Tell, Told
  <2>. QED
    BY <1>3, <1>4, <1>5, <1>9, <2>1 DEF InCompletion, GoesOn, Tell
<1>12. /\ Has("dismiss_completion", {x, y, z}) /\ ~Has("end_completion", {x, y, z})
       /\ ~Has("except_end", {x, y, z}) /\ ~Has("except_cancelled", {x, y, z})
  BY <1>3, <1>4, <1>5 DEF Has
<1>13. /\ \A c : ~Doomed(c, {f}) /\ ~Ending(c, {f}) /\ ~ToStart(c, {f})
       /\ ~Has("except_end", {f}) /\ ~Has("dismiss_completion", {f})
       /\ ~(\E g \in {f} : g.fn = "except_activate")
  <2>1. \A c : ~Cancels(f, c) /\ ~Starts(f, c)
    BY DEF Cancels, Starts
  <2>. QED
    BY <2>1, Lone
<1>14. ~Doomed(Completion, {x, y, z})
  BY <1>2, <1>10, PartsIn
<1>15. ASSUME NEW c \in Comp, Doomed(c, {x, y, z})
       PROVE  /\ Parent[c] \in Comp /\ st[Parent[c]] = "NEW" => Doomed(Parent[c], {x, y, z})
              /\ \A b \in Comp : Ordered!Precedes(b, c) => ~Open(b, st) \/ Doomed(b, {x, y, z})
  <2>1. Parent[c] = Root
    BY <1>10, <1>15, PartsIn
  <2>2. \A b \in Comp : Ordered!Precedes(b, c) => b \in Components(Root)
    BY <2>1, Before
  <2>. QED
    BY <1>2, <1>10, <2>1, <2>2
<1>16. Swap({f}, {x, y, z}, {}, st, ps, ok)
  <2>1. /\ ~\E h \in {x, y, z} : InCompletion(h)
        /\ ~\E h \in {x, y, z} : h.fn = "activate_task" /\ h.obj = Completion
        /\ \A h \in {x, y, z} : Needs(h, st) /\ Serves(h, st, ps, ok) /\ h.fn \notin Tell
    BY <1>11
  <2>2. \A c \in Components(Root) : Open(c, st) => Doomed(c, {x, y, z})
    BY <1>10
  <2>3. Completion \in Comp => ~Ending(Completion, {f})
    BY <1>13
  <2>4. ~Has("except_cancelled", {})
    BY DEF Has
  <2>. QED
    BY <1>2, <1>10, <1>12, <1>13, <1>14, <1>15, <2>1, <2>2, <2>3, <2>4 DEF Swap
<1>17. Normal(<<x, y, z>> \o r, st, ps, ok)
  <2>1. Swap({f}, {x, y, z}, Frames(r), st, ps, ok) /\ \A h \in Frames(r) : Bears(x, h) /\ Bears(y, h)
    BY <1>1, <1>16
  <2>. QED
    BY <1>3, <1>4, <1>7, <1>8, <2>1, Become3
<1>18. Frames(<<x, y, z>> \o r) = {x, y, z}
  <2>1. Shape(r) /\ r \in Seq(Call) /\ \A h \in Frames(r) : Bears(x, h) /\ Bears(y, h)
    BY <1>1
  <2>2. Frames(<<x, y, z>> \o r) = {x, y, z} \cup Frames(r)
    BY <1>3, <1>4, <1>7, <1>8, <2>1, Stack3
  <2>. QED
    BY <1>1, <2>2
<1>19. Normal(<<x, y, z>> \o r, st, ps, FALSE)
  <2>1. ps # "COMPLETED"
    BY DEF On, Law, Serves
  <2>2. \E g \in {x, y, z} : Winds(g)
    BY <1>4 DEF Winds
  <2>. DEFINE s == <<x, y, z>> \o r
  <2>3. Frames(s) = {x, y, z} /\ Normal(s, st, ps, ok)
    BY <1>17, <1>18
  <2>. HIDE DEF s
  <2>4. Normal(s, st, ps, FALSE)
    BY <1>11, <2>1, <2>2, <2>3, OkDropped
  <2>. QED
    BY <2>4 DEF s
<1>. QED
  BY <1>19 DEF x, y, z

\* The completion group is cancelled with the process that is dismissed.
LEMMA CompletionDismissed ==
  ASSUME NEW f, NEW r, NEW st \in [Comp -> CompStatus], NEW ps, NEW ok,
         On(f, r, st, ps, ok), f.fn = "dismiss_completion"
  PROVE  /\ Open(Completion, st) => Normal(<<Do("cancel_task", Completion, None)>> \o r, st, ps, ok)
         /\ ~Open(Completion, st) => Normal(r, st, ps, ok)
<1>. DEFINE R == Frames(r)
            x == Do("cancel_task", Completion, None)
<1>1. (\A h \in R : h = Set(Root, "DISCARDED")) /\ r \in Seq(Call)
  BY DEF On, Bears
<1>2. \A h \in R : h.fn = "set" /\ h.obj = Root /\ h.arg = "DISCARDED"
  BY <1>1 DEF Set, Do
<1>3. Completion \in Comp /\ Root \notin Comp /\ Parent[Completion] = Root
  BY TreeAssumption
<1>4. x \in Call /\ x.fn = "cancel_task" /\ x.obj = Completion
  BY <1>3, DoCall, Args DEF Fn, JobFn, DbFn, Do
<1>. HIDE DEF x
<1>5. \A c : ~Cancels(f, c) /\ ~Starts(f, c)
  BY DEF Cancels, Starts
<1>6. \A c : ~Doomed(c, {f}) /\ ~Ending(c, {f}) /\ ~ToStart(c, {f})
  BY <1>5, Lone
<1>7. /\ ~Has("except_end", {f}) /\ ~Has("except_cancelled", {f}) /\ ~(\E g \in {f} : g.fn = "except_activate")
      /\ ~\A g \in {f} : g.fn \in {"except_cancelled"} \cup Worked
  BY DEF Has, Worked
<1>8. Winding({f} \cup R, st, ps, ok)
  BY DEF Winding, Winds
<1>9. ~(\E h \in R : InCompletion(h)) /\ ~Has("except_cancelled", R)
  BY <1>2 DEF InCompletion, Has
<1>10. Leaving({x}, st) /\ Doomed(Completion, {x})
  <2>1. Cancels(x, Completion)
    BY <1>4 DEF Cancels
  <2>. QED
    BY <2>1, Lone DEF Leaving
<1>11. ASSUME Open(Completion, st) PROVE Normal(<<x>> \o r, st, ps, ok)
  <2>1. Atop(x, r)
    <3>1. ASSUME NEW h \in R PROVE Bears(x, h)
      <4>1. h.fn = "set" /\ h.obj = Root /\ h.arg = "DISCARDED"
        BY <1>2
      <4>2. \A d \in Comp : ~Keeps(h, d)
        BY <1>3, <4>1 DEF Keeps, Tell, Told
      <4>3. ~OfProcess(x) /\ ~OfCompletion(x) /\ x # Set(Root, "DISCARDED")
        BY <1>4 DEF OfProcess, OfCompletion, Set, Do
      <4>4. Canceller(x)
        BY <1>4 DEF Canceller
      <4>. QED
        BY <1>4, <4>1, <4>2, <4>3, <4>4 DEF Bears, Lowest, Worked, Tell, Told
    <3>2. r # <<>> => Head(r).fn = "set"
      BY <1>1, <1>2, HeadIn
    <3>. QED
      BY <1>4, <3>1, <3>2, RestsPlain DEF Atop
  <2>2. Needs(x, st) /\ Serves(x, st, ps, ok)
    BY <1>3, <1>4, <1>11 DEF Needs, Serves, GoesOn, Tell, Told
  <2>3. \A c : (Doomed(c, {x}) <=> c = Completion) /\ ~Ending(c, {x})
    <3>1. \A c : Cancels(x, c) <=> c = Completion
      BY <1>4 DEF Cancels
    <3>. QED
      BY <1>4, <3>1, Lone
  <2>4. \A h \in {x} : /\ Needs(h, st) /\ Serves(h, st, ps, ok) /\ ~InCompletion(h)
                       /\ h.fn \notin Tell \cup {"end_completion", "except_end", "except_cancelled",
                                                 "activate_task", "set"}
    BY <1>4, <2>2 DEF InCompletion, Tell, Told
  <2>5. ~Has("end_completion", {x}) /\ ~Has("except_cancelled", {x}) /\ ~Has("except_end", {x})
    BY <2>4 DEF Has
  <2>6. \A b \in Comp : ~Ordered!Precedes(b, Completion)
    BY DEF Ordered!Precedes
  <2>7. Swap({f}, {x}, R, st, ps, ok)
    <3>. HIDE DEF R
    <3>. QED
      BY <1>3, <1>6, <1>7, <1>8, <1>9, <1>10, <2>3, <2>4, <2>5, <2>6 DEF Swap
  <2>. QED
    BY <2>1, <2>7, Become1
<1>12. ASSUME ~Open(Completion, st) PROVE Normal(r, st, ps, ok)
  <2>1. Gone(Completion, st)
    BY <1>3, <1>12 DEF Gone, Open, CompStatus, Terminal
  <2>2. \A c : ~Doomed(c, {}) /\ ~Ending(c, {})
    BY DEF Doomed, Ending
  <2>3. \A fn : ~Has(fn, {})
    BY DEF Has
  <2>4. Swap({f}, {}, R, st, ps, ok)
    <3>1. ~\E h \in {} \cup R : InCompletion(h)
      BY <1>9
    <3>. HIDE DEF R
    <3>. QED
      BY <1>6, <1>7, <1>9, <2>1, <2>2, <2>3, <3>1 DEF Swap
  <2>. QED
    BY <2>4, Become0
<1>. QED
  BY <1>11, <1>12 DEF x

\* The process changes its status.
LEMMA ProcessSet ==
  ASSUME NEW f, NEW r, NEW st \in [Comp -> CompStatus], NEW ps, NEW ok,
         On(f, r, st, ps, ok), f.fn = "set", f.obj = Root, f.arg \in ProcStatus
  PROVE  Normal(r, st, f.arg, ok)
<1>. DEFINE R == Frames(r)
            K == {f} \cup R
<1>1. Shape(r) /\ Law(K, st, ps, ok) /\ \A h \in R : Bears(f, h)
  BY DEF On
<1>2. \A h \in R : h.fn \in {"except_cancelled", "fail_job"} \cup Worked
  BY <1>1 DEF Bears, OfProcess
<1>3. Normal(r, st, ps, ok)
  <2>1. \A c \in Components(Completion) : ~Starts(f, c)
    BY DEF Starts
  <2>2. \A c \in Comp : ~Cancels(f, c)
    BY TreeAssumption DEF Cancels
  <2>. QED
    BY <2>1, <2>2, Drop
<1>4. Law(R, st, ps, ok)
  BY <1>3 DEF Normal
<1>5. Serves(f, st, ps, ok)
  BY <1>1 DEF Law
<1>6. \A c : ~Doomed(c, R) /\ ~Ending(c, R)
  BY <1>2 DEF Doomed, Ending, Cancels, Worked
<1>7. \A h \in R : Needs(h, st) /\ Serves(h, st, f.arg, ok)
  <2>1. \A h \in R : Serves(h, st, ps, ok)
    BY <1>4 DEF Law
  <2>. QED
    BY <1>2, <1>4, <2>1 DEF Law, Serves, GoesOn, Tell, Told, Worked
<1>8. WindsUp(R, st, f.arg, ok)
  <2>1. SUFFICES ASSUME Winding(R, st, f.arg, ok), NEW c \in Components(Root), Open(c, st)
                 PROVE  Doomed(c, R)
    BY DEF WindsUp
  <2>2. Winding(K, st, ps, ok)
    <3>1. CASE f.arg \in Ended
      BY <3>1 DEF Winding, Winds
    <3>2. CASE f.arg \notin Ended
      BY <2>1, <3>2, Joint DEF Winding
    <3>. QED
      BY <3>1, <3>2
  <2>3. Doomed(c, K)
    BY <1>1, <2>1, <2>2 DEF Law, WindsUp
  <2>4. ~Cancels(f, c)
    BY TreeAssumption, PartsIn DEF Cancels
  <2>. QED
    BY <2>3, <2>4 DEF Doomed
<1>9. EndedWell(st, f.arg, ok)
  <2>1. f.arg = "COMPLETED" => ok /\ Gone(Completion, st)
    BY <1>5 DEF Serves
  <2>2. f.arg = "DISCARDED" => Gone(Completion, st)
    <3>1. ASSUME f.arg = "DISCARDED" PROVE Gone(Completion, st)
      <4>1. Gone(Completion, st) \/ Doomed(Completion, K) \/ Has("dismiss_completion", K)
        BY <1>1, <3>1 DEF Law, Dismisses
      <4>2. ~Has("dismiss_completion", K)
        BY <1>2 DEF Has, Worked
      <4>3. ~Doomed(Completion, K)
        <5>1. ~Cancels(f, Completion)
          BY TreeAssumption DEF Cancels
        <5>. QED
          BY <1>6, <5>1 DEF Doomed
      <4>. QED
        BY <4>1, <4>2, <4>3
    <3>. QED
      BY <3>1
  <2>. QED
    BY <2>1, <2>2 DEF EndedWell
<1>. QED
  BY <1>1, <1>4, <1>7, <1>8, <1>9 DEF Law, Normal

\* A status the life cycle of the process does not allow is refused.
LEMMA ProcessRefuses ==
  ASSUME NEW f, NEW r, NEW st \in [Comp -> CompStatus], NEW ps, NEW ok,
         On(f, r, st, ps, ok), f.fn = "set", f.obj = Root
  PROVE  Normal(Unwound(r, "ElementsError"), st, ps, ok)
<1>1. Normal(r, st, ps, ok)
  <2>1. \A c \in Components(Completion) : ~Starts(f, c)
    BY DEF Starts
  <2>2. \A c \in Comp : ~Cancels(f, c)
    BY TreeAssumption DEF Cancels
  <2>. QED
    BY <2>1, <2>2, Drop
<1>2. \A h \in Frames(r) : h.fn \in {"except_cancelled", "fail_job"} \cup Worked
  BY DEF On, Bears, OfProcess
<1>3. r \in Seq(Call)
  BY DEF On
<1>4. r # <<>> => Head(r).fn \in {"except_cancelled", "except_sibling", "fail_job"} \cup Worked
  BY <1>2, <1>3, HeadIn
<1>. QED
  BY <1>1, <1>3, <1>4, ThrownBase DEF Exception

\* The schema was reset, the process started.
LEMMA ResetLaw ==
  ASSUME NEW st, \A c \in Comp : st[c] = "NEW"
  PROVE  Law({}, st, "EXECUTION", TRUE)
<1>1. \A c \in Comp : Open(c, st) /\ ~Gone(c, st)
  BY DEF Open, Gone, Terminal
<1>2. \A c : ~Doomed(c, {}) /\ ~Ending(c, {})
  BY DEF Doomed, Ending
<1>3. \A fn : ~Has(fn, {})
  BY DEF Has
<1>4. Completion \in Comp
  BY TreeAssumption
<1>5. NoOrphan({}, st) /\ NewBelow({}, st) /\ InLine({}, st)
  BY <1>1, <1>2 DEF NoOrphan, NewBelow, InLine
<1>6. ~Winding({}, st, "EXECUTION", TRUE)
  BY <1>1, <1>2, <1>4 DEF Winding, Ended
<1>7. WindsUp({}, st, "EXECUTION", TRUE) /\ AllStarted({}, st) /\ NoneLeft({}, st) /\ MainGone(st)
      /\ EndedWell(st, "EXECUTION", TRUE)
  BY <1>3, <1>4, <1>6 DEF WindsUp, AllStarted, NoneLeft, MainGone, EndedWell
<1>8. EndTried({}, st) /\ Dismisses({}, st) /\ Starter({}, st)
  BY <1>3 DEF EndTried, Dismisses, Starter
<1>. QED
  BY <1>5, <1>7, <1>8 DEF Law

\* The process starts: it calls activate_tasks in its try block.
LEMMA FirstTasks ==
  ASSUME NEW st \in [Comp -> CompStatus], \A c \in Comp : st[c] = "NEW"
  PROVE  Normal(<<Do("activate_tasks", Root, None), Do("except_cancelled", Root, None)>>,
                st, "EXECUTION", TRUE)
<1>. DEFINE x == Do("activate_tasks", Root, None)
            y == Do("except_cancelled", Root, None)
            ps == "EXECUTION"
            ok == TRUE
            r == << >>
            f == Do("cancel_process", Root, None)
<1>1. Completion \in Comp
  BY TreeAssumption
<1>2. r \in Seq(Call) /\ Frames(r) = {} /\ Shape(r) /\ r = <<>>
  BY NoFrames
<1>3. On(f, r, st, ps, ok) /\ f.fn = "cancel_process"
  <2>. HIDE DEF r
  <2>1. Law({}, st, ps, ok) /\ ps # "COMPLETED"
    BY ResetLaw
  <2>2. \A h \in Frames(r) : h.fn \in Worked
    BY <1>2
  <2>. QED
    BY <1>2, <2>1, <2>2, Opening
<1>4. x \in Call /\ x.fn = "activate_tasks" /\ x.obj = Root
  BY DoCall, Args DEF Fn, JobFn, DbFn, Do
<1>5. y \in Call /\ y.fn = "except_cancelled" /\ y.obj = Root
  <2>1. "except_cancelled" \in Fn \ (JobFn \cup DbFn \cup {"except_sibling"})
    BY DEF Fn, Except, JobFn, DbFn
  <2>2. y \in Call
    BY <2>1, DoCall, Args
  <2>. QED
    BY <2>2 DEF Do
<1>. HIDE DEF x, y, f, r
<1>6. f.fn \in LAST
  BY <1>3 DEF LAST, Lowest, Worked
<1>7. x # Set(Root, "DISCARDED")
  BY <1>4 DEF Set, Do
<1>8. Bears(x, y) /\ Rests(x, y)
  BY <1>4, <1>5, <1>7, OverBase DEF Rests, OfCompletion, Lowest, Worked, Tell, Told
<1>9. (\A h \in Frames(r) : Bears(x, h)) /\ Atop(y, r)
  BY <1>2, <1>5 DEF Atop
<1>10. Needs(x, st) /\ Serves(x, st, ps, ok)
  <2>1. New(Components(Root), st)
    BY PartsIn DEF New
  <2>2. Needs(x, st)
    BY <1>4, <2>1 DEF Needs, Tell, Told
  <2>3. st[Completion] # "EXECUTION"
    BY <1>1
  <2>4. Serves(x, st, ps, ok)
    BY <1>4, <2>3 DEF Serves, GoesOn, Tell, Told
  <2>. QED
    BY <2>2, <2>4
<1>11. Needs(y, st) /\ Serves(y, st, ps, ok)
  BY <1>5 DEF Needs, Serves, GoesOn, Tell, Told
<1>12. \A h \in {x, y} : /\ Needs(h, st) /\ Serves(h, st, ps, ok) /\ ~Winds(h) /\ Harmless(h)
                         /\ h.fn \notin Tell \cup {"end_completion", "except_end", "activate_task", "set"}
  <2>1. ~Winds(x) /\ ~Winds(y) /\ Harmless(x) /\ Harmless(y)
    BY <1>4, <1>5 DEF Winds, Harmless, Canceller
  <2>. QED
    BY <1>4, <1>5, <1>10, <1>11, <2>1 DEF Tell, Told
<1>13. \A c \in Comp : ~Doomed(c, {x, y}) /\ ~Ending(c, {x, y})
  BY <1>12, NoHarm
<1>14. Swap({f}, {x, y}, Frames(r), st, ps, ok)
  <2>1. ~Has("end_completion", {x, y}) /\ st[Completion] # "EXECUTION"
    BY <1>1, <1>12 DEF Has
  <2>2. \A h \in Frames(r) : h.fn \in Worked
    BY <1>2
  <2>. HIDE DEF ps, ok
  <2>. QED
    BY <1>1, <1>6, <1>12, <1>13, <2>1, <2>2, SwapBottom DEF LAST
<1>15. Normal(<<x, y>> \o r, st, ps, ok)
  <2>. HIDE DEF ps, ok
  <2>. QED
    BY <1>3, <1>4, <1>8, <1>9, <1>14, Become2
<1>16. <<x, y>> \o r = <<x, y>>
  <2>1. <<x, y>> \in Seq(Call)
    BY <1>4, <1>5
  <2>. DEFINE s == <<x, y>>
  <2>. HIDE DEF s
  <2>2. s \o r = s
    BY <1>2, <2>1 DEF s
  <2>. QED
    BY <2>2 DEF s
<1>. QED
  BY <1>15, <1>16 DEF x, y

\* The paused process resumes.
LEMMA ResumeLaw ==
  ASSUME NEW st, NEW ok, Law({}, st, "PAUSED", ok)
  PROVE  Law({}, st, "EXECUTION", ok)
<1>1. NoOrphan({}, st) /\ NewBelow({}, st) /\ InLine({}, st) /\ AllStarted({}, st) /\ NoneLeft({}, st)
      /\ MainGone(st) /\ EndTried({}, st) /\ Dismisses({}, st) /\ Starter({}, st)
  BY DEF Law
<1>2. WindsUp({}, st, "EXECUTION", ok)
  BY DEF Law, WindsUp, Winding, Ended
<1>3. EndedWell(st, "EXECUTION", ok)
  BY DEF EndedWell
<1>. QED
  BY <1>1, <1>2, <1>3 DEF Law

\* activate_process starts or resumes the process.
LEMMA BootStarts ==
  ASSUME NEW f, NEW r, NEW st \in [Comp -> CompStatus], NEW ps, NEW ok,
         On(f, r, st, ps, ok), f.fn = "activate_process"
  PROVE  /\ r = <<>>
         /\ Boot(<<Set(Root, "EXECUTION")>>, st, ps, ok)
         /\ ps # "PAUSED" =>
              Boot(<<Set(Root, "EXECUTION"), Do("activate_tasks", Root, None),
                     Do("except_cancelled", Root, None)>>, st, ps, ok)
<1>1. r = <<>>
  BY NothingBelow
<1>2. Normal(r, st, ps, ok)
  BY Drop DEF Cancels, Starts
<1>3. Law({}, st, ps, ok)
  <2>1. Frames(r) = {}
    BY <1>1, NoFrames
  <2>. QED
    BY <1>2, <2>1 DEF Normal
<1>4. ps \in {"NEW", "PAUSED"}
  BY DEF On, Law, Serves
<1>. QED
  BY <1>1, <1>3, <1>4 DEF Boot

\* The operation of a, before and after a step
Held(a)  == Sound(calls[a], status, procStatus, completing_ok)
Stays(a) == Sound(calls'[a], status', procStatus', completing_ok')

\* The pending call of an operation, in the ordinary case
LEMMA TopOn ==
  ASSUME TypeOK, NEW a \in Actor, calls[a] # <<>>, Held(a), Top(a).fn # "set"
  PROVE  /\ On(Top(a), Tail(calls[a]), status, procStatus, completing_ok)
         /\ status \in [Comp -> CompStatus] /\ completing_ok \in BOOLEAN
<1>1. calls[a] \in Seq(Call) /\ status \in [Comp -> CompStatus] /\ completing_ok \in BOOLEAN
  BY DEF TypeOK
<1>. DEFINE s == calls[a]
<1>2. Head(s).fn # "set" /\ s # <<>> /\ s \in Seq(Call)
  BY <1>1 DEF Top
<1>. HIDE DEF s
<1>3. Normal(s, status, procStatus, completing_ok)
  <2>1. Sound(s, status, procStatus, completing_ok)
    BY DEF Held, s
  <2>2. ~Vain(s, status, procStatus, completing_ok)
    BY <1>2 DEF Vain
  <2>3. ~Launch(s, status, procStatus, completing_ok)
    BY <1>2 DEF Launch
  <2>4. ~Boot(s, status, procStatus, completing_ok)
    <3>1. Head(<<Set(Root, "EXECUTION")>>).fn = "set"
      BY DEF Set, Do
    <3>2. Head(<<Set(Root, "EXECUTION"), Do("activate_tasks", Root, None),
                 Do("except_cancelled", Root, None)>>).fn = "set"
      BY DEF Set, Do
    <3>. QED
      BY <1>2, <3>1, <3>2 DEF Boot
  <2>. QED
    BY <2>1, <2>2, <2>3, <2>4 DEF Sound
<1>4. On(Head(s), Tail(s), status, procStatus, completing_ok)
  BY <1>2, <1>3, NormalOn
<1>. QED
  BY <1>1, <1>4 DEF Top, s

\* A step that leaves a normal operation, changing no status.
LEMMA GoesNormal ==
  ASSUME TypeOK, NEW a \in Actor, NEW s, Continue(a, s),
         UNCHANGED <<status, procStatus, completing_ok>>,
         Normal(s \o Tail(calls[a]), status, procStatus, completing_ok)
  PROVE  Stays(a)
BY Continued DEF Stays, Sound

\* A step that throws, one that returns
LEMMA ThrowsNormal ==
  ASSUME TypeOK, NEW a \in Actor, NEW e, Throw(a, e),
         UNCHANGED <<status, procStatus, completing_ok>>,
         Normal(Unwound(Tail(calls[a]), e), status, procStatus, completing_ok)
  PROVE  Stays(a)
BY Thrown DEF Stays, Sound

LEMMA ReturnsNormal ==
  ASSUME TypeOK, NEW a \in Actor, calls[a] # <<>>, Continue(a, <<>>),
         UNCHANGED <<status, procStatus, completing_ok>>,
         Normal(Tail(calls[a]), status, procStatus, completing_ok)
  PROVE  Stays(a)
<1>1. calls[a] \in Seq(Call)
  BY DEF TypeOK
<1>2. <<>> \o Tail(calls[a]) = Tail(calls[a])
  BY <1>1
<1>. QED
  BY <1>2, GoesNormal

\* What Law speaks of is part of the data.
LEMMA SameData ==
  ASSUME UNCHANGED data
  PROVE  UNCHANGED <<status, procStatus, completing_ok>>
BY DEF data, procVars

\* What has ended is not open.
LEMMA DoneOver ==
  ASSUME TypeOK
  PROVE  /\ \A c \in Comp : c \in Done <=> ~Open(c, status)
         /\ \A c : Pending({c}) = {} <=> ~Open(c, status)
         /\ \A g : allDone(g) <=> \A c \in Components(g) : ~Open(c, status)
         /\ \A c \in Comp : AllReady(c, Done) => \A b \in Comp : Ordered!Precedes(b, c) => ~Open(b, status)
<1>1. status \in [Comp -> CompStatus]
  BY DEF TypeOK
<1>2. \A c \in Comp : c \in Done <=> ~Open(c, status)
  BY <1>1 DEF Done, Open, Terminal, CompStatus
<1>3. \A c \in Comp : AllReady(c, Done) => Ready(c, Done)
  BY AllReadyUp
<1>. QED
  BY <1>2, <1>3 DEF Open, Pending, allDone, Ready

\* A component is activated.
LEMMA ActivateTaskStays ==
  ASSUME Rooted, TypeOK, Stacks, NEW a \in Actor, Held(a), ActivateTask(a)
  PROVE  Stays(a)
<1>. DEFINE f == Top(a)
            c == Top(a).obj
            r == Tail(calls[a])
<1>1. calls[a] # <<>> /\ f.fn = "activate_task"
  BY DEF ActivateTask, At
<1>2. On(f, r, status, procStatus, completing_ok) /\ status \in [Comp -> CompStatus]
  BY <1>1, TopOn
<1>3. c \in Comp /\ r \in Seq(Call)
  BY <1>1, <1>2, Began DEF On
<1>4. \A b \in Comp : Ordered!Precedes(b, c) => ~Open(b, status)
  BY <1>1, <1>3, Running, DoneOver DEF Fits, Good
<1>5. UNCHANGED <<status, procStatus, completing_ok>>
  BY SameData DEF ActivateTask
<1>6. CASE Continue(a, <<Do("cancel_task", c, None), Raise("TaskCancelled")>>)
  <2>. HIDE DEF f, r
  <2>1. Normal(<<Do("cancel_task", f.obj, None), Raise("TaskCancelled")>> \o r,
               status, procStatus, completing_ok)
    BY <1>1, <1>2, <1>4, SkipNormal DEF f
  <2>. QED
    BY <1>5, <1>6, <2>1, GoesNormal DEF f, r
<1>7. CASE c \in Task /\ Continue(a, <<Set(c, "EXECUTION")>>)
  <2>1. Sound(<<Set(c, "EXECUTION")>> \o r, status, procStatus, completing_ok)
    <3>. HIDE DEF r
    <3>. QED
      BY <1>1, <1>2, <1>4, <1>7, TaskStarts
  <2>. QED
    BY <1>5, <1>7, <2>1, Continued DEF Stays
<1>8. ASSUME NEW x \in Call, x.fn \in {"activate_first", "activate_each"}, x.obj = c,
             x.fn = "activate_first" => x.arg = First(c),
             x.fn = "activate_each" => x.todo = Components(c),
             c = Completion => x.fn = "activate_each",
             Continue(a, <<Set(c, "EXECUTION"), x, Do("except_activate", c, None)>>)
      PROVE  Stays(a)
  <2>1. Sound(<<Set(c, "EXECUTION"), x, Do("except_activate", c, None)>> \o r,
              status, procStatus, completing_ok)
    <3>. HIDE DEF r
    <3>. QED
      BY <1>1, <1>2, <1>4, <1>8, GroupStarts
  <2>. QED
    BY <1>5, <1>8, <2>1, Continued DEF Stays
<1>9. CASE Kind[c] = "sequential" /\ Continue(a, <<Set(c, "EXECUTION"), Do("activate_first", c, First(c)),
                                                    Do("except_activate", c, None)>>)
  <2>. DEFINE x == Do("activate_first", c, First(c))
  <2>1. c # Completion
    BY <1>9, TreeAssumption
  <2>2. First(c) \in Arg
    BY Args, PartsIn, FirstPart DEF First
  <2>3. x \in Call /\ x.fn = "activate_first" /\ x.obj = c /\ x.arg = First(c)
    BY <1>3, <2>2, DoCall DEF Fn, JobFn, DbFn, Do
  <2>4. Continue(a, <<Set(c, "EXECUTION"), x, Do("except_activate", c, None)>>)
    BY <1>9
  <2>. HIDE DEF x
  <2>. QED
    BY <1>8, <2>1, <2>3, <2>4
<1>10. CASE /\ Kind[c] \in {"parallel", "completion"}
            /\ Continue(a, <<Set(c, "EXECUTION"), Each("activate_each", c, Components(c)),
                             Do("except_activate", c, None)>>)
  <2>. DEFINE x == Each("activate_each", c, Components(c))
  <2>1. Components(c) \in SUBSET Comp
    BY PartsIn
  <2>2. x \in Call /\ x.fn = "activate_each" /\ x.obj = c /\ x.todo = Components(c)
    BY <1>3, <2>1, EachCall DEF Fn, JobFn, DbFn, Each
  <2>3. Continue(a, <<Set(c, "EXECUTION"), x, Do("except_activate", c, None)>>)
    BY <1>10
  <2>. HIDE DEF x
  <2>. QED
    BY <1>8, <2>2, <2>3
<1>. HIDE DEF c
<1>. QED
  BY <1>6, <1>7, <1>9, <1>10 DEF ActivateTask, c

\* The components of a parallel group or of the completion group are activated.
LEMMA ActivateEachStays ==
  ASSUME Rooted, TypeOK, Stacks, NEW a \in Actor, Held(a), ActivateEach(a)
  PROVE  Stays(a)
<1>. DEFINE f == Top(a)
            r == Tail(calls[a])
<1>1. calls[a] # <<>> /\ f.fn = "activate_each"
  BY DEF ActivateEach, At
<1>2. On(f, r, status, procStatus, completing_ok) /\ status \in [Comp -> CompStatus]
  BY <1>1, TopOn
<1>3. UNCHANGED <<status, procStatus, completing_ok>>
  BY SameData DEF ActivateEach
<1>4. ASSUME NEW c \in f.todo,
             Continue(a, <<Do("activate_task", c, None), Do("except_pass", f.obj, None),
                           Each("activate_each", f.obj, f.todo \ {c})>>)
      PROVE  Stays(a)
  <2>1. Normal(<<Do("activate_task", c, None), Do("except_pass", f.obj, None),
                 Each("activate_each", f.obj, f.todo \ {c})>> \o r, status, procStatus, completing_ok)
    <3>. HIDE DEF f, r
    <3>. QED
      BY <1>1, <1>2, EachNormal
  <2>. QED
    BY <1>3, <1>4, <2>1, GoesNormal
<1>5. ASSUME f.todo = {}, NEW e \in {"TaskCancelled", "TaskClosed"}, Throw(a, e),
             e = "TaskClosed" => allDone(f.obj)
      PROVE  Stays(a)
  <2>1. e = "TaskClosed" => \A c \in Components(f.obj) : ~Open(c, status)
    BY <1>5, DoneOver
  <2>2. Normal(Unwound(r, e), status, procStatus, completing_ok)
    <3>. HIDE DEF f, r
    <3>. QED
      BY <1>1, <1>2, <1>5, <2>1, GroupThrows
  <2>. QED
    BY <1>3, <1>5, <2>2, ThrowsNormal
<1>6. CASE f.todo = {} /\ Continue(a, <<>>)
  <2>1. Normal(r, status, procStatus, completing_ok)
    <3>1. "TaskCancelled" # "TaskClosed" /\ "TaskCancelled" \in {"TaskCancelled", "TaskClosed"}
      OBVIOUS
    <3>. HIDE DEF f, r
    <3>. QED
      BY <1>1, <1>2, <1>6, <3>1, GroupThrows
  <2>. QED
    BY <1>1, <1>3, <1>6, <2>1, ReturnsNormal
<1>. QED
  BY <1>4, <1>5, <1>6 DEF ActivateEach

\* The first component of a sequential group is activated, or a later one.
LEMMA ActivateFirstStays ==
  ASSUME Rooted, TypeOK, Stacks, NEW a \in Actor, Held(a), ActivateFirst(a)
  PROVE  Stays(a)
<1>. DEFINE f == Top(a)
            r == Tail(calls[a])
<1>1. calls[a] # <<>> /\ f.fn = "activate_first"
  BY DEF ActivateFirst, At
<1>2. On(f, r, status, procStatus, completing_ok) /\ status \in [Comp -> CompStatus]
  BY <1>1, TopOn
<1>3. UNCHANGED <<status, procStatus, completing_ok>>
  BY SameData DEF ActivateFirst
<1>4. f.arg \in Comp => f.arg \in Components(f.obj)
  BY <1>1, Running DEF Fits, Good
<1>5. f.arg \notin Comp => \A c \in Components(f.obj) : ~Open(c, status)
  <2>1. Needs(f, status)
    BY <1>2 DEF On, Law
  <2>. QED
    BY <1>1, <2>1 DEF Needs
<1>6. CASE f.arg \in Comp
  <2>1. Normal(<<Do("activate_task", f.arg, None), Do("except_first", f.obj, f.arg)>> \o r,
               status, procStatus, completing_ok)
    <3>. HIDE DEF f, r
    <3>. QED
      BY <1>1, <1>2, <1>4, <1>6, FirstNormal
  <2>2. Continue(a, <<Do("activate_task", f.arg, None), Do("except_first", f.obj, f.arg)>>)
    BY <1>6 DEF ActivateFirst
  <2>. QED
    BY <1>3, <2>1, <2>2, GoesNormal
<1>7. CASE f.arg \notin Comp
  <2>1. Normal(Unwound(r, "TaskClosed"), status, procStatus, completing_ok)
    <3>. HIDE DEF f, r
    <3>. QED
      BY <1>1, <1>2, <1>5, <1>7, GroupThrows
  <2>2. Throw(a, "TaskClosed")
    BY <1>7 DEF ActivateFirst
  <2>. QED
    BY <1>3, <2>1, <2>2, ThrowsNormal
<1>. QED
  BY <1>6, <1>7

\* A component is cancelled.
LEMMA CancelTaskStays ==
  ASSUME Rooted, TypeOK, Stacks, NEW a \in Actor, Held(a), CancelTask(a)
  PROVE  Stays(a)
<1>. DEFINE f == Top(a)
            r == Tail(calls[a])
<1>1. calls[a] # <<>> /\ f.fn = "cancel_task"
  BY DEF CancelTask, At
<1>2. On(f, r, status, procStatus, completing_ok) /\ status \in [Comp -> CompStatus]
  BY <1>1, TopOn
<1>3. UNCHANGED <<status, procStatus, completing_ok>>
  BY SameData DEF CancelTask
<1>4. f.obj \in Comp
  BY <1>1, Running DEF Fits, Good
<1>5. CASE f.obj \in Task
  <2>1. Normal(<<Set(f.obj, "DISCARDED")>> \o r, status, procStatus, completing_ok)
    <3>. HIDE DEF f, r
    <3>. QED
      BY <1>1, <1>2, <1>5, CancelTaskNormal
  <2>2. Continue(a, <<Set(f.obj, "DISCARDED")>>)
    BY <1>5 DEF CancelTask
  <2>. QED
    BY <1>3, <2>1, <2>2, GoesNormal
<1>6. CASE f.obj \notin Task
  <2>1. Normal(<<Do("cancel_subtasks", f.obj, None), Set(f.obj, "DISCARDED")>> \o r,
               status, procStatus, completing_ok)
    <3>. HIDE DEF f, r
    <3>. QED
      BY <1>1, <1>2, <1>4, <1>6, CancelTaskNormal
  <2>2. Continue(a, <<Do("cancel_subtasks", f.obj, None), Set(f.obj, "DISCARDED")>>)
    BY <1>6 DEF CancelTask
  <2>. QED
    BY <1>3, <2>1, <2>2, GoesNormal
<1>. QED
  BY <1>5, <1>6

\* What is below a group or the process is cancelled.
LEMMA CancelSubtasksStays ==
  ASSUME Rooted, TypeOK, Stacks, NEW a \in Actor, Held(a), CancelSubtasks(a) \/ CancelEach(a)
  PROVE  Stays(a)
<1>. DEFINE f == Top(a)
            r == Tail(calls[a])
<1>1. calls[a] # <<>> /\ f.fn \in {"cancel_subtasks", "cancel_each"}
  BY DEF CancelSubtasks, CancelEach, At
<1>2. On(f, r, status, procStatus, completing_ok) /\ status \in [Comp -> CompStatus]
  BY <1>1, TopOn
<1>3. UNCHANGED <<status, procStatus, completing_ok>>
  BY SameData DEF CancelSubtasks, CancelEach
<1>4. f.obj \in Comp \cup {Root}
  BY <1>1, Running
<1>5. CASE CancelSubtasks(a)
  <2>. DEFINE S == {c \in Components(f.obj) : Open(c, status)}
  <2>1. S = Pending(Components(f.obj))
    BY DEF Open, Pending
  <2>2. f.fn = "cancel_subtasks"
    BY <1>5 DEF CancelSubtasks, At
  <2>3. Normal(<<Each("cancel_each", f.obj, S)>> \o r, status, procStatus, completing_ok)
    <3>. HIDE DEF f, r
    <3>. QED
      BY <1>2, <1>4, <2>2, CancelSubtasksNormal
  <2>4. Continue(a, <<Each("cancel_each", f.obj, S)>>)
    BY <1>5, <2>1 DEF CancelSubtasks
  <2>. QED
    BY <1>3, <2>3, <2>4, GoesNormal
<1>6. ASSUME f.fn = "cancel_each", NEW c \in f.todo,
             Continue(a, <<Do("cancel_task", c, None), Each("cancel_each", f.obj, f.todo \ {c})>>)
      PROVE  Stays(a)
  <2>1. Normal(<<Do("cancel_task", c, None), Each("cancel_each", f.obj, f.todo \ {c})>> \o r,
               status, procStatus, completing_ok)
    <3>. HIDE DEF f, r
    <3>. QED
      BY <1>2, <1>4, <1>6, CancelEachNormal
  <2>. QED
    BY <1>3, <1>6, <2>1, GoesNormal
<1>7. CASE f.fn = "cancel_each" /\ f.todo = {} /\ Continue(a, <<>>)
  <2>1. Normal(r, status, procStatus, completing_ok)
    <3>. HIDE DEF f, r
    <3>. QED
      BY <1>2, <1>4, <1>7, CancelEachNormal
  <2>. QED
    BY <1>1, <1>3, <1>7, <2>1, ReturnsNormal
<1>8. CASE CancelEach(a)
  BY <1>6, <1>7, <1>8 DEF CancelEach, At
<1>. QED
  BY <1>5, <1>8

\* A parent is told what became of a component; a task group that is told runs.
LEMMA GroupTold ==
  ASSUME TypeOK, Stacks, NEW a \in Actor, Held(a), calls[a] # <<>>, Top(a).fn \in Tell
  PROVE  /\ On(Top(a), Tail(calls[a]), status, procStatus, completing_ok)
         /\ status \in [Comp -> CompStatus] /\ completing_ok \in BOOLEAN
         /\ Tail(calls[a]) \in Seq(Call) /\ Top(a) \in Call
         /\ Top(a).fn \in LAST /\ Top(a).arg \in Comp /\ Top(a).obj = Parent[Top(a).arg]
         /\ New(Later(Top(a).arg), status)
         /\ Top(a).obj # Root => Top(a).obj \in Comp /\ status[Top(a).obj] = "EXECUTION"
         /\ Top(a).fn = "propagate_refuse" => procStatus # "COMPLETED"
         /\ Top(a).fn = "propagate_finish" => Top(a).arg \in Task
<1>. DEFINE f == Top(a)
            r == Tail(calls[a])
<1>1. f.fn # "set"
  BY DEF Tell, Told
<1>2. On(f, r, status, procStatus, completing_ok) /\ status \in [Comp -> CompStatus]
      /\ completing_ok \in BOOLEAN
  BY <1>1, TopOn
<1>3. f \in Call /\ r \in Seq(Call) /\ f.obj \in Comp \cup {Root}
  BY Running
<1>4. f.fn \in LAST
  BY DEF LAST, Lowest, Tell, Told, Worked
<1>5. Needs(f, status) /\ Serves(f, status, procStatus, completing_ok)
  BY <1>2 DEF On, Law
<1>. HIDE DEF f, r
<1>6. f.fn \in Tell
  BY DEF f
<1>7. f.arg \in Comp /\ f.obj = Parent[f.arg] /\ Goes(f.obj, status) /\ New(Later(f.arg), status)
  BY <1>5, <1>6 DEF Needs
<1>8. f.fn = "propagate_finish" => f.arg \in Task
  BY <1>5 DEF Needs
<1>9. f.fn = "propagate_refuse" => procStatus # "COMPLETED"
  BY <1>5 DEF Serves
<1>10. f.obj # Root => f.obj \in Comp /\ status[f.obj] = "EXECUTION"
  BY <1>3, <1>7 DEF Goes
<1>. QED
  BY <1>2, <1>3, <1>4, <1>7, <1>8, <1>9, <1>10 DEF f, r

\* A group that is told ends, nothing below it being open.
LEMMA CloseStays ==
  ASSUME Rooted, TypeOK, Stacks, NEW a \in Actor, Held(a), calls[a] # <<>>, Top(a).fn \in Tell,
         UNCHANGED <<status, procStatus, completing_ok>>,
         NEW g, g = Top(a).obj, g # Root, g # Completion, \A c \in Components(g) : ~Open(c, status),
         Continue(a, Closed(g))
  PROVE  Stays(a)
<1>. DEFINE f == Top(a)
            r == Tail(calls[a])
<1>1. /\ On(f, r, status, procStatus, completing_ok) /\ status \in [Comp -> CompStatus]
      /\ f.fn \in LAST /\ g \in Comp /\ status[g] = "EXECUTION"
  BY GroupTold
<1>2. "propagate_done" \in Tell
  BY DEF Tell, Told
<1>3. Normal(<<Set(g, "COMPLETED"), Do("propagate_done", Parent[g], g)>> \o r,
             status, procStatus, completing_ok)
  <2>. HIDE DEF f, r
  <2>. QED
    BY <1>1, <1>2, EndsAndTells DEF LAST
<1>. QED
  BY <1>3, GoesNormal DEF Closed

\* A group that is told is cancelled.
LEMMA GiveStays ==
  ASSUME Rooted, TypeOK, Stacks, NEW a \in Actor, Held(a), calls[a] # <<>>, Top(a).fn \in Tell,
         UNCHANGED <<status, procStatus, completing_ok>>,
         Top(a).obj # Root, Continue(a, Cancelled(Top(a).obj))
  PROVE  Stays(a)
<1>. DEFINE f == Top(a)
            r == Tail(calls[a])
            g == Top(a).obj
<1>1. /\ On(f, r, status, procStatus, completing_ok) /\ status \in [Comp -> CompStatus]
      /\ f.fn \in LAST /\ g \in Comp /\ status[g] = "EXECUTION"
  BY GroupTold
<1>2. Normal(Cancelled(g) \o r, status, procStatus, completing_ok)
  <2>. HIDE DEF f, r, g
  <2>. QED
    BY <1>1, CancelGroup DEF LAST
<1>. QED
  BY <1>2, GoesNormal

\* A parent that is told has nothing to do.
LEMMA IgnoreStays ==
  ASSUME TypeOK, Stacks, NEW a \in Actor, Held(a), calls[a] # <<>>, Top(a).fn \in Tell,
         UNCHANGED <<status, procStatus, completing_ok>>, Continue(a, <<>>)
  PROVE  Stays(a)
<1>. DEFINE f == Top(a)
            r == Tail(calls[a])
<1>1. On(f, r, status, procStatus, completing_ok) /\ status \in [Comp -> CompStatus]
  BY GroupTold
<1>2. Normal(r, status, procStatus, completing_ok)
  <2>1. f.fn \in Tell
    OBVIOUS
  <2>. HIDE DEF f, r
  <2>2. \A c : ~Cancels(f, c) /\ ~Starts(f, c)
    BY <2>1 DEF Cancels, Starts, Tell, Told
  <2>3. f.fn \notin {"except_end", "dismiss_completion", "set"}
    BY <2>1 DEF Tell, Told
  <2>. QED
    BY <1>1, <2>2, <2>3, Drop
<1>. QED
  BY <1>2, ReturnsNormal

\* The completion tasks are done.
LEMMA CompletionStays ==
  ASSUME TypeOK, Stacks, NEW a \in Actor, Held(a), calls[a] # <<>>, Top(a).fn \in Tell,
         UNCHANGED <<status, procStatus, completing_ok>>,
         Top(a).obj = Completion, \A c \in Components(Completion) : ~Open(c, status),
         Continue(a, <<Do("end_completion", Completion, None)>>)
  PROVE  Stays(a)
<1>. DEFINE f == Top(a)
            r == Tail(calls[a])
<1>0. Completion # Root
  BY TreeAssumption
<1>1. /\ On(f, r, status, procStatus, completing_ok) /\ status \in [Comp -> CompStatus]
      /\ f.fn \in LAST /\ status[Completion] = "EXECUTION"
  BY <1>0, GroupTold
<1>2. Normal(<<Do("end_completion", Completion, None)>> \o r, status, procStatus, completing_ok)
  <2>. HIDE DEF f, r
  <2>. QED
    BY <1>1, CompletionOver
<1>. QED
  BY <1>2, GoesNormal

\* A parallel group hears that a component has ended, or was cancelled.
LEMMA ParallelStays ==
  ASSUME Rooted, TypeOK, Stacks, NEW a \in Actor, Held(a), ParallelDone(a) \/ ParallelCancel(a)
  PROVE  Stays(a)
<1>. DEFINE g == Top(a).obj
<1>1. calls[a] # <<>> /\ Top(a).fn \in Tell /\ g # Root /\ g # Completion
  BY TreeAssumption DEF ParallelDone, ParallelCancel, At, Tell, Told
<1>2. UNCHANGED <<status, procStatus, completing_ok>>
  BY SameData DEF ParallelDone, ParallelCancel
<1>3. CASE Continue(a, <<>>)
  BY <1>1, <1>2, <1>3, IgnoreStays
<1>4. CASE Continue(a, Cancelled(g))
  BY <1>1, <1>2, <1>4, GiveStays
<1>5. CASE allDone(g) /\ Continue(a, Closed(g))
  BY <1>1, <1>2, <1>5, DoneOver, CloseStays
<1>. QED
  BY <1>3, <1>4, <1>5 DEF ParallelDone, ParallelCancel

\* A sequential group hears that a component has ended: it starts the next one,
\* or ends.
LEMMA SequentialDoneStays ==
  ASSUME Rooted, TypeOK, Stacks, NEW a \in Actor, Held(a), SequentialDone(a)
  PROVE  Stays(a)
<1>. DEFINE f == Top(a)
            r == Tail(calls[a])
            g == Top(a).obj
            c == Top(a).arg
            n == NextSibling(c)
<1>1. calls[a] # <<>> /\ f.fn \in Tell /\ f.fn \in Told /\ g # Root /\ g # Completion
      /\ Kind[g] = "sequential"
  BY TreeAssumption DEF SequentialDone, At, Tell, Told
<1>2. UNCHANGED <<status, procStatus, completing_ok>>
  BY SameData DEF SequentialDone
<1>3. /\ On(f, r, status, procStatus, completing_ok) /\ status \in [Comp -> CompStatus]
      /\ f.fn \in LAST /\ g \in Comp /\ status[g] = "EXECUTION" /\ c \in Comp /\ g = Parent[c]
      /\ New(Later(c), status)
  BY <1>1, GroupTold
<1>4. Passed(c, Done)
  BY <1>1, Running DEF Due
<1>5. ~Open(c, status) /\ \A b \in Comp : Ordered!Precedes(b, c) => ~Open(b, status)
  BY <1>3, <1>4, DoneOver DEF Passed
<1>6. IsSequential(Parent[c]) /\ c # Completion
  BY <1>1, <1>3, TreeAssumption DEF IsSequential
<1>. HIDE DEF n, c
<1>7. CASE n \in Comp
  <2>1. n \in Components(g) /\ status[n] = "NEW"
    BY <1>3, <1>5, <1>6, <1>7, NextUp DEF n
  <2>2. Normal(<<Do("activate_task", n, None), Do("except_sibling", g, None)>> \o r,
               status, procStatus, completing_ok)
    <3>. HIDE DEF f, r, g
    <3>. QED
      BY <1>3, <2>1, SiblingStarts
  <2>3. Continue(a, <<Do("activate_task", n, None), Do("except_sibling", g, None)>>)
    BY <1>7 DEF SequentialDone, n, c
  <2>. QED
    BY <1>2, <2>2, <2>3, GoesNormal
<1>8. CASE n \notin Comp
  <2>1. \A d \in Components(g) : ~Open(d, status)
    BY <1>3, <1>5, <1>6, <1>8, NextUp DEF n
  <2>2. Continue(a, Closed(g))
    BY <1>8 DEF SequentialDone, n, c
  <2>. QED
    BY <1>1, <1>2, <2>1, <2>2, CloseStays
<1>. QED
  BY <1>7, <1>8

\* The completion group hears that a task has ended, or was cancelled.
LEMMA CompletionToldStays ==
  ASSUME Rooted, TypeOK, Stacks, NEW a \in Actor, Held(a), CompletionDone(a) \/ CompletionCancel(a)
  PROVE  Stays(a)
<1>. DEFINE f == Top(a)
            r == Tail(calls[a])
<1>1. calls[a] # <<>> /\ f.fn \in Tell /\ f.obj = Completion /\ Completion # Root
  BY TreeAssumption DEF CompletionDone, CompletionCancel, At, Tell, Told
<1>2. UNCHANGED <<status, procStatus, completing_ok>>
  BY SameData DEF CompletionDone, CompletionCancel
<1>3. CASE Continue(a, <<>>)
  BY <1>1, <1>2, <1>3, IgnoreStays
<1>4. ASSUME Continue(a, <<Do("end_completion", Completion, None)>>),
             \A c \in Components(Completion) : ~Open(c, status)
      PROVE  Stays(a)
  BY <1>1, <1>2, <1>4, CompletionStays
<1>5. CASE CompletionDone(a)
  <2>1. ASSUME \A c \in Components(Completion) : status[c] # "EXECUTION"
        PROVE  \A c \in Components(Completion) : ~Open(c, status)
    <3>1. Law({f} \cup Frames(r), status, procStatus, completing_ok) /\ status[Completion] = "EXECUTION"
          /\ On(f, r, status, procStatus, completing_ok) /\ f.fn \in Lowest
      BY <1>1, GroupTold DEF On, LAST
    <3>2. f.fn \in Tell
      BY <1>1
    <3>. HIDE DEF f, r
    <3>3. \A h \in {f} \cup Frames(r) : \A c : ~Cancels(h, c) /\ ~Starts(h, c)
      <4>1. \A h \in Frames(r) : h.fn \in Worked
        BY <3>1, AtBottom
      <4>2. \A h \in {f} \cup Frames(r) : h.fn \in Worked \cup Tell
        BY <3>2, <4>1
      <4>. QED
        BY <4>2 DEF Cancels, Starts, Tell, Told, Worked
    <3>4. \A c : ~Doomed(c, {f} \cup Frames(r)) /\ ~ToStart(c, {f} \cup Frames(r))
      BY <3>3 DEF Doomed, ToStart
    <3>5. AllStarted({f} \cup Frames(r), status)
      BY <3>1 DEF Law
    <3>. QED
      BY <2>1, <3>1, <3>4, <3>5 DEF AllStarted, Open
  <2>. QED
    BY <1>1, <1>3, <1>4, <1>5, <2>1 DEF CompletionDone
<1>6. CASE CompletionCancel(a)
  <2>1. allCancelled(Completion) => \A c \in Components(Completion) : ~Open(c, status)
    BY DEF allCancelled, Open
  <2>2. allDone(Completion) => \A c \in Components(Completion) : ~Open(c, status)
    BY DoneOver
  <2>. QED
    BY <1>1, <1>3, <1>4, <1>6, <2>1, <2>2 DEF CompletionCancel
<1>. QED
  BY <1>5, <1>6

\* A task with finish option ended: the rest of its group is cancelled.
LEMMA GroupFinishStays ==
  ASSUME Rooted, TypeOK, Stacks, NEW a \in Actor, Held(a), GroupFinish(a)
  PROVE  Stays(a)
<1>. DEFINE f == Top(a)
            r == Tail(calls[a])
            g == Top(a).obj
<1>1. calls[a] # <<>> /\ f.fn \in Tell /\ g # Root
  BY DEF GroupFinish, At, Tell, Told
<1>2. UNCHANGED <<status, procStatus, completing_ok>>
  BY SameData DEF GroupFinish
<1>3. /\ On(f, r, status, procStatus, completing_ok) /\ status \in [Comp -> CompStatus]
      /\ f.fn \in LAST /\ g \in Comp /\ status[g] = "EXECUTION"
  BY <1>1, GroupTold
<1>4. CASE g = Completion
  <2>1. Normal(<<Do("cancel_subtasks", Completion, None), Do("end_completion", Completion, None)>> \o r,
               status, procStatus, completing_ok)
    <3>1. status[Completion] = "EXECUTION"
      BY <1>3, <1>4
    <3>. HIDE DEF f, r, g
    <3>. QED
      BY <1>3, <3>1, SweepsCompletion DEF LAST
  <2>2. Continue(a, <<Do("cancel_subtasks", Completion, None)>> \o <<Do("end_completion", Completion, None)>>)
    BY <1>4 DEF GroupFinish
  <2>3. <<Do("cancel_subtasks", Completion, None)>> \o <<Do("end_completion", Completion, None)>>
          = <<Do("cancel_subtasks", Completion, None), Do("end_completion", Completion, None)>>
    <3>1. Do("cancel_subtasks", Completion, None) \in Call /\ Do("end_completion", Completion, None) \in Call
      BY EndCall, NoCalls, CancelFirst, TreeAssumption
    <3>. QED
      BY <3>1, Lists
  <2>. QED
    BY <1>2, <2>1, <2>2, <2>3, GoesNormal
<1>5. CASE g # Completion
  <2>0. "propagate_done" \in Tell \ {"propagate_finish"} /\ "propagate_done" # "propagate_refuse"
    BY DEF Tell, Told
  <2>1. Normal(<<Do("cancel_subtasks", g, None), Set(g, "COMPLETED"), Do("propagate_done", Parent[g], g)>> \o r,
               status, procStatus, completing_ok)
    <3>. HIDE DEF f, r, g
    <3>. QED
      BY <1>3, <1>5, <2>0, SweepsAndTells DEF LAST
  <2>2. Continue(a, <<Do("cancel_subtasks", g, None)>> \o Closed(g))
    BY <1>5 DEF GroupFinish
  <2>3. <<Do("cancel_subtasks", g, None)>> \o Closed(g)
          = <<Do("cancel_subtasks", g, None), Set(g, "COMPLETED"), Do("propagate_done", Parent[g], g)>>
    <3>1. Do("propagate_done", Parent[g], g) \in Call
      BY <1>3, <2>0, TellCall
    <3>2. Do("cancel_subtasks", g, None) \in Call
      BY <1>3, NoCalls, CancelFirst, <3>1
    <3>3. Set(g, "COMPLETED") \in Call
      BY <1>3, SetCall, Args DEF CompStatus
    <3>. QED
      BY <3>1, <3>2, <3>3, Lists DEF Closed
  <2>. QED
    BY <1>2, <2>1, <2>2, <2>3, GoesNormal
<1>. QED
  BY <1>4, <1>5

\* A sequential group hears that a component was cancelled: it ends.
LEMMA SequentialCancelStays ==
  ASSUME Rooted, TypeOK, Stacks, NEW a \in Actor, Held(a), SequentialCancel(a)
  PROVE  Stays(a)
<1>. DEFINE f == Top(a)
            r == Tail(calls[a])
            g == Top(a).obj
<1>1. calls[a] # <<>> /\ f.fn \in Tell /\ g # Root
  BY DEF SequentialCancel, At, Tell, Told
<1>2. UNCHANGED <<status, procStatus, completing_ok>>
  BY SameData DEF SequentialCancel
<1>3. /\ On(f, r, status, procStatus, completing_ok) /\ status \in [Comp -> CompStatus]
      /\ f.fn \in LAST /\ g \in Comp /\ status[g] = "EXECUTION"
  BY <1>1, GroupTold
<1>4. "propagate_cancel" \in Tell \ {"propagate_finish"} /\ "propagate_cancel" # "propagate_refuse"
  BY DEF Tell, Told
<1>5. Normal(<<Do("cancel_subtasks", g, None), Set(g, "COMPLETED"), Do("propagate_cancel", Parent[g], g)>> \o r,
             status, procStatus, completing_ok)
  <2>. HIDE DEF f, r, g
  <2>. QED
    BY <1>3, <1>4, SweepsAndTells DEF LAST
<1>6. Continue(a, <<Do("cancel_subtasks", g, None), Set(g, "COMPLETED"), Do("propagate_cancel", Parent[g], g)>>)
  BY DEF SequentialCancel
<1>. QED
  BY <1>2, <1>5, <1>6, GoesNormal

\* A group is refused with everything below it.
LEMMA GroupRefuseStays ==
  ASSUME Rooted, TypeOK, Stacks, NEW a \in Actor, Held(a), GroupRefuse(a)
  PROVE  Stays(a)
<1>. DEFINE f == Top(a)
            r == Tail(calls[a])
            g == Top(a).obj
<1>1. calls[a] # <<>> /\ f.fn \in Tell /\ g # Root /\ f.fn = "propagate_refuse"
  BY DEF GroupRefuse, At, Tell, Told
<1>2. UNCHANGED <<status, procStatus, completing_ok>>
  BY SameData DEF GroupRefuse
<1>3. /\ On(f, r, status, procStatus, completing_ok) /\ status \in [Comp -> CompStatus]
      /\ f.fn \in LAST /\ g \in Comp /\ status[g] = "EXECUTION" /\ procStatus # "COMPLETED"
  BY <1>1, GroupTold
<1>4. "propagate_refuse" \in Tell \ {"propagate_finish"} /\ "propagate_refuse" # "propagate_done"
  BY DEF Tell, Told
<1>5. Normal(<<Set(g, "REJECTED"), Do("cancel_subtasks", g, None), Do("propagate_refuse", Parent[g], g)>> \o r,
             status, procStatus, completing_ok)
  <2>. HIDE DEF f, r, g
  <2>. QED
    BY <1>3, <1>4, SweepsAndTells DEF LAST
<1>6. Continue(a, <<Set(g, "REJECTED"), Do("cancel_subtasks", g, None), Do("propagate_refuse", Parent[g], g)>>)
  BY DEF GroupRefuse
<1>. QED
  BY <1>2, <1>5, <1>6, GoesNormal

\* The completion group ends the way the process does.
LEMMA EndCompletionStays ==
  ASSUME Rooted, TypeOK, Stacks, NEW a \in Actor, Held(a), EndCompletion(a)
  PROVE  Stays(a)
<1>. DEFINE f == Top(a)
            r == Tail(calls[a])
<1>1. calls[a] # <<>> /\ f.fn = "end_completion"
  BY DEF EndCompletion, At
<1>2. /\ On(f, r, status, procStatus, completing_ok) /\ status \in [Comp -> CompStatus]
      /\ completing_ok \in BOOLEAN
  BY <1>1, TopOn
<1>3. UNCHANGED <<status, procStatus, completing_ok>>
  BY SameData DEF EndCompletion
<1>4. /\ completing_ok => Normal(Closed(Completion) \o r, status, procStatus, completing_ok)
      /\ Normal(Cancelled(Completion) \o r, status, procStatus, completing_ok)
  <2>. HIDE DEF f, r
  <2>. QED
    BY <1>1, <1>2, EndsCompletion
<1>5. CASE completing_ok
  BY <1>3, <1>4, <1>5, GoesNormal DEF EndCompletion
<1>6. CASE ~completing_ok
  BY <1>3, <1>4, <1>6, GoesNormal DEF EndCompletion
<1>. QED
  BY <1>5, <1>6

\* A step of a component
LEMMA ComponentStepStays ==
  ASSUME Rooted, TypeOK, Stacks, NEW a \in Actor, Held(a), ComponentStep(a)
  PROVE  Stays(a)
BY ActivateTaskStays, ActivateEachStays, ActivateFirstStays, CancelTaskStays, CancelSubtasksStays,
   ParallelStays, SequentialDoneStays, CompletionToldStays, GroupFinishStays, SequentialCancelStays,
   GroupRefuseStays, EndCompletionStays DEF ComponentStep

\* activate_process: the process is about to start, or to resume.
LEMMA ActivateProcessStays ==
  ASSUME TypeOK, Stacks, NEW a \in Actor, Held(a), ActivateProcess(a)
  PROVE  Stays(a)
<1>. DEFINE f == Top(a)
            r == Tail(calls[a])
            s == <<Set(Root, "EXECUTION")>>
            u == <<Set(Root, "EXECUTION"), Do("activate_tasks", Root, None),
                   Do("except_cancelled", Root, None)>>
<1>1. calls[a] # <<>> /\ f.fn = "activate_process"
  BY DEF ActivateProcess, At
<1>2. On(f, r, status, procStatus, completing_ok) /\ status \in [Comp -> CompStatus]
  BY <1>1, TopOn
<1>3. UNCHANGED <<status, procStatus, completing_ok>>
  BY SameData DEF ActivateProcess
<1>4. /\ r = <<>> /\ Boot(s, status, procStatus, completing_ok)
      /\ procStatus # "PAUSED" => Boot(u, status, procStatus, completing_ok)
  <2>. HIDE DEF f, r
  <2>. QED
    BY <1>1, <1>2, BootStarts
<1>5. s \o <<>> = s /\ u \o <<>> = u
  OBVIOUS
<1>6. calls'[a] = IF procStatus = "PAUSED" THEN s ELSE u
  <2>1. Continue(a, IF procStatus = "PAUSED" THEN s ELSE u)
    BY DEF ActivateProcess
  <2>. HIDE DEF s, u
  <2>2. calls'[a] = (IF procStatus = "PAUSED" THEN s ELSE u) \o r
    BY <2>1, Continued
  <2>. QED
    BY <2>2, <1>4, <1>5
<1>. HIDE DEF s, u
<1>7. Boot(calls'[a], status, procStatus, completing_ok)
  BY <1>4, <1>6
<1>. QED
  BY <1>3, <1>7 DEF Stays, Sound

\* activate_tasks starts the first component, or ends the process.
LEMMA ActivateTasksStays ==
  ASSUME TypeOK, Stacks, NEW a \in Actor, Held(a), ActivateTasks(a)
  PROVE  Stays(a)
<1>. DEFINE f == Top(a)
            r == Tail(calls[a])
<1>1. calls[a] # <<>> /\ f.fn = "activate_tasks"
  BY DEF ActivateTasks, At
<1>2. On(f, r, status, procStatus, completing_ok) /\ status \in [Comp -> CompStatus]
  BY <1>1, TopOn
<1>3. UNCHANGED <<status, procStatus, completing_ok>>
  BY SameData DEF ActivateTasks
<1>4. /\ Components(Root) = {} =>
           Normal(<<Do("end_process", Root, "COMPLETED")>> \o r, status, procStatus, completing_ok)
      /\ Components(Root) # {} =>
           Normal(<<Do("activate_task", First(Root), None)>> \o r, status, procStatus, completing_ok)
  <2>. HIDE DEF f, r
  <2>. QED
    BY <1>1, <1>2, TasksStart
<1>5. CASE Components(Root) = {}
  BY <1>3, <1>4, <1>5, GoesNormal DEF ActivateTasks
<1>6. CASE Components(Root) # {}
  BY <1>3, <1>4, <1>6, GoesNormal DEF ActivateTasks
<1>. QED
  BY <1>5, <1>6

\* A component at the top has ended: the process goes on after it.
LEMMA ProcessDoneStays ==
  ASSUME TypeOK, Stacks, NEW a \in Actor, Held(a), ProcessDone(a)
  PROVE  Stays(a)
<1>. DEFINE f == Top(a)
            r == Tail(calls[a])
            c == Top(a).arg
            n == NextComp(Top(a).arg)
<1>1. calls[a] # <<>> /\ f.fn \in Tell /\ f.fn \in Told /\ f.obj = Root /\ f.fn = "propagate_done"
  BY DEF ProcessDone, At, Tell, Told
<1>2. UNCHANGED <<status, procStatus, completing_ok>>
  BY SameData DEF ProcessDone
<1>3. /\ On(f, r, status, procStatus, completing_ok) /\ status \in [Comp -> CompStatus]
      /\ f.fn \in LAST /\ c \in Comp /\ f.obj = Parent[c] /\ New(Later(c), status)
  BY <1>1, GroupTold
<1>4. Passed(c, Done)
  BY <1>1, Running DEF Due
<1>5. ~Open(c, status) /\ \A b \in Comp : Ordered!Precedes(b, c) => ~Open(b, status)
  BY <1>3, <1>4, DoneOver DEF Passed
<1>6. Parent[c] = Root /\ IsSequential(Parent[c]) /\ Root \notin Comp /\ None \notin Comp
  BY <1>1, <1>3, TreeAssumption DEF IsSequential
<1>7. Serves(f, status, procStatus, completing_ok)
  BY <1>3 DEF On, Law
<1>8. completing_ok /\ status[Completion] # "EXECUTION"
  <2>1. completing_ok
    BY <1>1, <1>7 DEF Serves
  <2>2. c # Completion => GoesOn(f)
    BY <1>1 DEF GoesOn
  <2>3. c = Completion => status[Completion] # "EXECUTION"
    BY <1>5 DEF Open
  <2>. QED
    BY <1>7, <2>1, <2>2, <2>3 DEF Serves
<1>9. n \in Comp \cup {None}
  BY DEF NextComp
<1>10. n \in Comp => status[n] = "NEW" /\ New(Later(n), status)
  <2>1. ASSUME n \in Comp PROVE c # Completion /\ n = NextSibling(c)
    <3>1. n = NextSibling(c)
      BY <1>3, <1>6, <2>1, NextAtTop
    <3>. QED
      BY <1>6, <2>1, <3>1 DEF NextSibling
  <2>. QED
    BY <1>3, <1>5, <1>6, <2>1, NextUp
<1>11. n \notin Comp => \/ Gone(Completion, status)
                        \/ \A d \in Components(Root) : ~Open(d, status)
  <2>1. CASE c = Completion
    BY <1>4, <2>1 DEF Passed, Done, Gone
  <2>2. CASE c # Completion
    <3>1. ASSUME n \notin Comp PROVE NextSibling(c) \notin Comp
      BY <1>3, <1>6, <3>1, SiblingIn, NextTaskEquation DEF NextComp
    <3>. QED
      BY <1>3, <1>5, <1>6, <2>2, <3>1, NextUp
  <2>. QED
    BY <2>1, <2>2
<1>12. Normal(<<Do("activate_next", Root, n), Do("except_cancelled", Root, None)>> \o r,
              status, procStatus, completing_ok)
  <2>. HIDE DEF f, r, n
  <2>. QED
    BY <1>3, <1>8, <1>9, <1>10, <1>11, ProcessGoesOn
<1>13. Continue(a, <<Do("activate_next", Root, n), Do("except_cancelled", Root, None)>>)
  BY DEF ProcessDone
<1>. QED
  BY <1>2, <1>12, <1>13, GoesNormal

\* The loop over the components of the process takes the next one.
LEMMA ActivateNextStays ==
  ASSUME Rooted, TypeOK, Stacks, NEW a \in Actor, Held(a), ActivateNext(a)
  PROVE  Stays(a)
<1>. DEFINE f == Top(a)
            r == Tail(calls[a])
<1>1. calls[a] # <<>> /\ f.fn = "activate_next"
  BY DEF ActivateNext, At
<1>2. On(f, r, status, procStatus, completing_ok) /\ status \in [Comp -> CompStatus]
  BY <1>1, TopOn
<1>3. UNCHANGED <<status, procStatus, completing_ok>>
  BY SameData DEF ActivateNext
<1>4. f.arg \in Comp => f.arg \in Components(Root)
  BY <1>1, Running DEF Fits, Good
<1>5. /\ f.arg \in Components(Root) =>
           Normal(<<Do("activate_task", f.arg, None), Do("except_next", Root, f.arg)>> \o r,
                  status, procStatus, completing_ok)
      /\ f.arg \notin Comp =>
           Normal(<<Do("end_process", Root, "COMPLETED")>> \o r, status, procStatus, completing_ok)
  <2>. HIDE DEF f, r
  <2>. QED
    BY <1>1, <1>2, NextStarts
<1>6. CASE f.arg \in Comp
  BY <1>3, <1>4, <1>5, <1>6, GoesNormal DEF ActivateNext
<1>7. CASE f.arg \notin Comp
  BY <1>3, <1>5, <1>7, GoesNormal DEF ActivateNext
<1>. QED
  BY <1>6, <1>7

\* What is left of the process is cancelled, and it ends as completed.
LEMMA ProcessFinishStays ==
  ASSUME TypeOK, Stacks, NEW a \in Actor, Held(a), ProcessFinish(a)
  PROVE  Stays(a)
<1>. DEFINE f == Top(a)
            r == Tail(calls[a])
<1>1. calls[a] # <<>> /\ (\/ f.fn = "cancel_subtasks_and_close"
                          \/ f.fn = "propagate_finish" /\ f.obj = Root)
  BY DEF ProcessFinish, At
<1>2. On(f, r, status, procStatus, completing_ok) /\ status \in [Comp -> CompStatus]
  <2>1. f.fn # "set"
    BY <1>1
  <2>. QED
    BY <1>1, <2>1, TopOn
<1>3. UNCHANGED <<status, procStatus, completing_ok>>
  BY SameData DEF ProcessFinish
<1>4. f.fn \in LAST
  BY <1>1 DEF LAST, Lowest, Tell, Told, Worked
<1>5. Needs(f, status) /\ Serves(f, status, procStatus, completing_ok)
  BY <1>2 DEF On, Law
<1>6. GoesOn(f)
  <2>1. CASE f.fn = "cancel_subtasks_and_close"
    BY <2>1 DEF GoesOn
  <2>2. CASE f.fn = "propagate_finish" /\ f.obj = Root
    <3>1. f.arg \in Task
      BY <1>5, <2>2 DEF Needs
    <3>2. f.arg # Completion
      BY <3>1, TreeAssumption DEF Task, TaskKind
    <3>. QED
      BY <2>2, <3>2 DEF GoesOn, Told
  <2>. QED
    BY <1>1, <2>1, <2>2
<1>7. Normal(<<Do("cancel_subtasks", Root, None), Do("end_process", Root, "COMPLETED")>> \o r,
             status, procStatus, completing_ok)
  <2>1. completing_ok /\ status[Completion] # "EXECUTION"
    BY <1>5, <1>6 DEF Serves
  <2>. HIDE DEF f, r
  <2>. QED
    BY <1>2, <1>4, <2>1, SweepsProcess
<1>8. Continue(a, <<Do("cancel_subtasks", Root, None), Do("end_process", Root, "COMPLETED")>>)
  BY DEF ProcessFinish
<1>. QED
  BY <1>3, <1>7, <1>8, GoesNormal

\* A step that leaves a normal operation
LEMMA GoesOnNormal ==
  ASSUME TypeOK, NEW a \in Actor, NEW s, Continue(a, s),
         Normal(s \o Tail(calls[a]), status', procStatus', completing_ok')
  PROVE  Stays(a)
BY Continued DEF Stays, Sound

\* The process hears of a component that was cancelled.
LEMMA ProcessCancelStays ==
  ASSUME TypeOK, Stacks, NEW a \in Actor, Held(a), ProcessCancel(a)
  PROVE  Stays(a)
<1>. DEFINE f == Top(a)
            r == Tail(calls[a])
<1>1. calls[a] # <<>> /\ f.fn = "propagate_cancel" /\ f.obj = Root /\ f.fn \in Tell
  BY DEF ProcessCancel, At, Tell, Told
<1>2. /\ On(f, r, status, procStatus, completing_ok) /\ status \in [Comp -> CompStatus]
      /\ completing_ok \in BOOLEAN
  BY <1>1, GroupTold
<1>3. UNCHANGED <<status, procStatus, completing_ok>>
  BY SameData DEF ProcessCancel
<1>4. /\ completing_ok =>
           Normal(<<Do("propagate_done", Root, f.arg)>> \o r, status, procStatus, completing_ok)
      /\ ~completing_ok =>
           Normal(<<Do("cancel_process", Root, None)>> \o r, status, procStatus, completing_ok)
  <2>. HIDE DEF f, r
  <2>. QED
    BY <1>1, <1>2, ProcessHears
<1>5. CASE completing_ok
  BY <1>3, <1>4, <1>5, GoesNormal DEF ProcessCancel
<1>6. CASE ~completing_ok
  BY <1>3, <1>4, <1>6, GoesNormal DEF ProcessCancel
<1>. QED
  BY <1>5, <1>6

\* The process is cancelled: everything below it is, and it ends as failed.
LEMMA CancelProcessStays ==
  ASSUME TypeOK, Stacks, NEW a \in Actor, Held(a), CancelProcess(a)
  PROVE  Stays(a)
<1>. DEFINE f == Top(a)
            r == Tail(calls[a])
            x == Do("cancel_subtasks", Root, None)
            y == Do("end_process", Root, "FAILED")
<1>1. calls[a] # <<>> /\ (\/ f.fn = "cancel_process"
                          \/ f.fn = "propagate_refuse" /\ f.obj = Root)
  BY DEF CancelProcess, At
<1>2. On(f, r, status, procStatus, completing_ok) /\ status \in [Comp -> CompStatus]
  <2>1. f.fn # "set"
    BY <1>1
  <2>. QED
    BY <1>1, <2>1, TopOn
<1>3. f.fn \in LAST /\ f.fn \in Lowest
  BY <1>1 DEF LAST, Lowest, Tell, Told, Worked
<1>4. procStatus # "COMPLETED"
  <2>1. Serves(f, status, procStatus, completing_ok)
    BY <1>2 DEF On, Law
  <2>. QED
    BY <1>1, <2>1 DEF Serves
<1>5. Normal(<<x, y>> \o r, status, procStatus, completing_ok)
  <2>. HIDE DEF f, r
  <2>. QED
    BY <1>2, <1>3, SweepsProcess
<1>6. /\ x \in Call /\ x.fn = "cancel_subtasks"
      /\ y \in Call /\ y.fn = "end_process" /\ y.arg = "FAILED"
  BY DoCall, Args DEF Do, Fn, JobFn, DbFn, ProcStatus
<1>7. r \in Seq(Call) /\ \A h \in Frames(r) : h.fn \in Worked
  <2>. HIDE DEF f, r
  <2>. QED
    BY <1>2, <1>3, AtBottom DEF On
<1>8. Frames(<<x, y>> \o r) = {x, y} \cup Frames(r)
  <2>. HIDE DEF x, y, r
  <2>1. <<x, y>> \o r = <<x>> \o (<<y>> \o r)
    BY <1>6, <1>7, Join
  <2>2. <<y>> \o r \in Seq(Call)
    BY <1>6, <1>7, Push
  <2>3. Frames(<<x>> \o (<<y>> \o r)) = {x} \cup Frames(<<y>> \o r) /\ Frames(<<y>> \o r) = {y} \cup Frames(r)
    BY <1>6, <1>7, <2>2, FramesPush
  <2>. QED
    BY <2>1, <2>3
<1>. DEFINE s == <<x, y>> \o r
<1>9. Normal(s, status, procStatus, FALSE)
  <2>1. \E g \in Frames(s) : Winds(g)
    BY <1>6, <1>8 DEF Winds
  <2>2. \A h \in {x, y} : /\ ~GoesOn(h) /\ h.fn \notin Tell \cup {"except_cancelled"}
                          /\ h.fn \in {"set", "except_end"} => h.arg # "COMPLETED"
    BY <1>6 DEF GoesOn, Tell, Told
  <2>3. \A h \in Frames(r) : /\ ~GoesOn(h) /\ h.fn \notin Tell \cup {"except_cancelled"}
                             /\ h.fn \in {"set", "except_end"} => h.arg # "COMPLETED"
    BY <1>7 DEF GoesOn, Tell, Told, Worked
  <2>4. \A h \in Frames(s) : /\ ~GoesOn(h) /\ h.fn \notin Tell \cup {"except_cancelled"}
                             /\ h.fn \in {"set", "except_end"} => h.arg # "COMPLETED"
    BY <1>8, <2>2, <2>3
  <2>. HIDE DEF x, y, r, s
  <2>5. Normal(s, status, procStatus, completing_ok)
    BY <1>5 DEF s
  <2>. QED
    BY <1>4, <2>1, <2>4, <2>5, OkDropped
<1>10. Continue(a, <<x, y>>) /\ completing_ok' = FALSE /\ status' = status /\ procStatus' = procStatus
  BY DEF CancelProcess
<1>. HIDE DEF x, y
<1>. QED
  BY <1>9, <1>10, GoesOnNormal

\* The process is dismissed.
LEMMA DismissProcessStays ==
  ASSUME TypeOK, Stacks, NEW a \in Actor, Held(a), DismissProcess(a)
  PROVE  Stays(a)
<1>. DEFINE f == Top(a)
            r == Tail(calls[a])
<1>1. calls[a] # <<>> /\ f.fn = "dismiss_process"
  BY DEF DismissProcess, At
<1>2. On(f, r, status, procStatus, completing_ok) /\ status \in [Comp -> CompStatus]
  BY <1>1, TopOn
<1>3. Normal(<<Do("cancel_subtasks", Root, None), Do("dismiss_completion", Root, None),
               Set(Root, "DISCARDED")>> \o r, status, procStatus, FALSE)
  <2>. HIDE DEF f, r
  <2>. QED
    BY <1>1, <1>2, Dismissal
<1>. QED
  BY <1>3, GoesOnNormal DEF DismissProcess

\* dismiss_process dismisses the completion group.
LEMMA DismissCompletionStays ==
  ASSUME TypeOK, Stacks, NEW a \in Actor, Held(a), DismissCompletion(a)
  PROVE  Stays(a)
<1>. DEFINE f == Top(a)
            r == Tail(calls[a])
<1>1. calls[a] # <<>> /\ f.fn = "dismiss_completion"
  BY DEF DismissCompletion, At
<1>2. On(f, r, status, procStatus, completing_ok) /\ status \in [Comp -> CompStatus]
  BY <1>1, TopOn
<1>3. UNCHANGED <<status, procStatus, completing_ok>>
  BY SameData DEF DismissCompletion
<1>4. /\ Open(Completion, status) =>
           Normal(<<Do("cancel_task", Completion, None)>> \o r, status, procStatus, completing_ok)
      /\ ~Open(Completion, status) => Normal(r, status, procStatus, completing_ok)
  <2>. HIDE DEF f, r
  <2>. QED
    BY <1>1, <1>2, CompletionDismissed
<1>5. CASE Open(Completion, status)
  BY <1>3, <1>4, <1>5, GoesNormal DEF DismissCompletion, Open
<1>6. CASE ~Open(Completion, status)
  BY <1>1, <1>3, <1>4, <1>6, ReturnsNormal DEF DismissCompletion, Open
<1>. QED
  BY <1>5, <1>6

\* The process ends; its completion group runs first.
LEMMA EndProcessStays ==
  ASSUME TypeOK, Stacks, NEW a \in Actor, Held(a), EndProcess(a)
  PROVE  Stays(a)
<1>. DEFINE f == Top(a)
            r == Tail(calls[a])
<1>1. calls[a] # <<>> /\ f.fn = "end_process"
  BY DEF EndProcess, At
<1>2. On(f, r, status, procStatus, completing_ok) /\ status \in [Comp -> CompStatus]
  BY <1>1, TopOn
<1>3. UNCHANGED <<status, procStatus, completing_ok>>
  BY SameData DEF EndProcess
<1>4. /\ status[Completion] = "NEW" =>
           Normal(<<Do("activate_task", Completion, None), Do("except_end", Root, f.arg)>> \o r,
                  status, procStatus, completing_ok)
      /\ status[Completion] # "NEW" =>
           Normal(<<Set(Root, f.arg)>> \o r, status, procStatus, completing_ok)
  <2>. HIDE DEF f, r
  <2>. QED
    BY <1>1, <1>2, ProcessEnds
<1>5. CASE status[Completion] = "NEW"
  BY <1>3, <1>4, <1>5, GoesNormal DEF EndProcess
<1>6. CASE status[Completion] # "NEW"
  BY <1>3, <1>4, <1>6, GoesNormal DEF EndProcess
<1>. QED
  BY <1>5, <1>6

\* A step of the process
LEMMA ProcessStepStays ==
  ASSUME Rooted, TypeOK, Stacks, NEW a \in Actor, Held(a), ProcessStep(a)
  PROVE  Stays(a)
BY ActivateProcessStays, ActivateTasksStays, ProcessDoneStays, ActivateNextStays, ProcessFinishStays,
   ProcessCancelStays, CancelProcessStays, DismissProcessStays, DismissCompletionStays, EndProcessStays
   DEF ProcessStep

(* Answers of tasks: closed or refused, in time or too late.                  *)

\* Nothing is left to do when the implementation of a task or cancel_process
\* is given up.
LEMMA Dropped ==
  ASSUME NEW f, NEW r, NEW st \in [Comp -> CompStatus], NEW ps, NEW ok, On(f, r, st, ps, ok),
         f.fn \in {"run_job", "cancel_process", "fail_job"}
  PROVE  Normal(r, st, ps, ok)
<1>1. \A c : ~Cancels(f, c) /\ ~Starts(f, c)
  BY DEF Cancels, Starts
<1>. QED
  BY <1>1, Drop

\* A task that does not run answers.
LEMMA LateAnswer ==
  ASSUME NEW r \in Seq(Call), NEW st, NEW ps, NEW ok, Law(Frames(r), st, ps, ok),
         \A h \in Frames(r) : h.fn \in Worked,
         NEW t \in Task, NEW v \in {"COMPLETED", "REJECTED"}, NEW fn \in Tell, st[t] # "EXECUTION"
  PROVE  Sound(<<Set(t, v), Do(fn, Parent[t], t)>> \o r, st, ps, ok)
<1>. DEFINE x == Set(t, v)
            y == Do(fn, Parent[t], t)
            s == <<x, y>> \o r
<1>1. x \in Call /\ x.fn = "set" /\ x.obj = t /\ x.arg = v
  BY SetCall, Args DEF CompStatus, Set, Do, Task
<1>2. y \in Call /\ y.fn = fn
  BY TellCall DEF Task
<1>3. t \in Comp
  BY DEF Task
<1>. HIDE DEF x, y
<1>5. /\ s = <<x>> \o (<<y>> \o r) /\ <<y>> \o r \in Seq(Call)
  BY <1>1, <1>2, Join, Push
<1>6. Len(s) = Len(r) + 2 /\ s[1] = x /\ s[2] = y /\ Tail(Tail(s)) = r
      /\ \A i \in 1 .. Len(r) : s[i + 2] = r[i]
  <2>1. Len(<<y>> \o r) = Len(r) + 1 /\ (<<y>> \o r)[1] = y /\ Tail(<<y>> \o r) = r
        /\ \A i \in 1 .. Len(r) : (<<y>> \o r)[i + 1] = r[i]
    BY <1>2, Push
  <2>. DEFINE u == <<y>> \o r
  <2>2. u \in Seq(Call)
    BY <1>5
  <2>. HIDE DEF u
  <2>3. Len(<<x>> \o u) = Len(u) + 1 /\ (<<x>> \o u)[1] = x /\ Tail(<<x>> \o u) = u
        /\ \A i \in 1 .. Len(u) : (<<x>> \o u)[i + 1] = u[i]
    BY <1>1, <2>2, Push
  <2>4. s = <<x>> \o u
    BY <1>5 DEF u
  <2>5. Len(u) = Len(r) + 1 /\ u[1] = y /\ Tail(u) = r /\ Len(r) \in Nat
        /\ \A i \in 1 .. Len(r) : u[i + 1] = r[i]
    BY <2>1 DEF u
  <2>. HIDE DEF s
  <2>6. Len(s) = Len(r) + 2 /\ s[1] = x /\ Tail(Tail(s)) = r
    BY <2>3, <2>4, <2>5
  <2>7. s[2] = y
    <3>1. 1 \in 1 .. Len(u)
      BY <2>5
    <3>. QED
      BY <2>3, <2>4, <2>5, <3>1
  <2>8. ASSUME NEW i \in 1 .. Len(r) PROVE s[i + 2] = r[i]
    <3>1. i + 1 \in 1 .. Len(u) /\ (i + 1) + 1 = i + 2
      BY <2>5
    <3>2. s[(i + 1) + 1] = u[i + 1]
      BY <2>3, <2>4, <3>1
    <3>. QED
      BY <2>5, <3>1, <3>2
  <2>. QED
    BY <2>6, <2>7, <2>8
<1>. HIDE DEF s
<1>7. \A i \in 3 .. Len(s) : s[i].fn \in Worked
  <2>1. ASSUME NEW i \in 3 .. Len(s) PROVE s[i].fn \in Worked
    <3>1. i - 2 \in 1 .. Len(r) /\ (i - 2) + 2 = i
      BY <1>6
    <3>2. s[i] = r[i - 2]
      BY <1>6, <3>1
    <3>. QED
      BY <3>1, <3>2 DEF Frames
  <2>. QED
    BY <2>1
<1>8. Len(s) >= 2
  BY <1>6
<1>9. Vain(s, st, ps, ok)
  BY <1>1, <1>2, <1>3, <1>6, <1>7, <1>8 DEF Vain
<1>. QED
  BY <1>9 DEF Sound, s, x, y

\* A task answers.
LEMMA AnswerSound ==
  ASSUME Rooted, NEW f, NEW r, NEW st \in [Comp -> CompStatus], NEW ps, NEW ok, On(f, r, st, ps, ok),
         f.fn \in {"run_job", "cancel_process"},
         NEW t \in Task, NEW v \in {"COMPLETED", "REJECTED"}, NEW fn \in Tell,
         st[t] = "EXECUTION" /\ fn = "propagate_refuse" => ps # "COMPLETED"
  PROVE  Sound(<<Set(t, v), Do(fn, Parent[t], t)>> \o r, st, ps, ok)
<1>1. t \in Comp /\ t # Completion /\ \A c \in Components(t) : ~Open(c, st)
  BY TaskAlone, TreeAssumption DEF Task, TaskKind
<1>2. f.fn \in LAST
  BY DEF LAST, Lowest, Worked
<1>3. CASE st[t] = "EXECUTION"
  <2>1. Normal(<<Set(t, v), Do(fn, Parent[t], t)>> \o r, st, ps, ok)
    BY <1>1, <1>2, <1>3, EndsAndTells DEF LAST
  <2>. QED
    BY <2>1 DEF Sound
<1>4. CASE st[t] # "EXECUTION"
  <2>1. r \in Seq(Call) /\ \A h \in Frames(r) : h.fn \in Worked
    BY <1>2, AtBottom DEF LAST, On
  <2>2. Law(Frames(r), st, ps, ok)
    BY Dropped DEF Normal
  <2>. QED
    BY <1>4, <2>1, <2>2, LateAnswer
<1>. QED
  BY <1>3, <1>4

\* Closing and refusing a task are answers.
LEMMA Answers ==
  ASSUME NEW t \in Task
  PROVE  /\ \A w \in BOOLEAN : \E fn \in Tell \ {"propagate_refuse"} :
              Closing(t, w) = <<Set(t, "COMPLETED"), Do(fn, Parent[t], t)>>
         /\ \E fn \in Tell : Refusing(t) = <<Set(t, "REJECTED"), Do(fn, Parent[t], t)>>
<1>1. {"propagate_finish", "propagate_done"} \subseteq Tell \ {"propagate_refuse"}
      /\ "propagate_refuse" \in Tell
  BY DEF Tell, Told
<1>2. ASSUME NEW w \in BOOLEAN
      PROVE  \E fn \in Tell \ {"propagate_refuse"} :
               Closing(t, w) = <<Set(t, "COMPLETED"), Do(fn, Parent[t], t)>>
  <2>1. CASE t \in FinishOption /\ ~w
    <3>1. Closing(t, w) = <<Set(t, "COMPLETED"), Do("propagate_finish", Parent[t], t)>>
      BY <2>1 DEF Closing
    <3>. QED
      BY <1>1, <3>1
  <2>2. CASE ~(t \in FinishOption /\ ~w)
    <3>1. Closing(t, w) = <<Set(t, "COMPLETED"), Do("propagate_done", Parent[t], t)>>
      BY <2>2 DEF Closing
    <3>. QED
      BY <1>1, <3>1
  <2>. QED
    BY <2>1, <2>2
<1>3. \E fn \in Tell : Refusing(t) = <<Set(t, "REJECTED"), Do(fn, Parent[t], t)>>
  <2>1. CASE Kind[t] # "examination"
    <3>1. Refusing(t) = <<Set(t, "REJECTED"), Do("propagate_refuse", Parent[t], t)>>
      BY <2>1 DEF Refusing
    <3>. QED
      BY <1>1, <3>1
  <2>2. CASE Kind[t] = "examination" /\ t \in FinishOption
    <3>1. Refusing(t) = <<Set(t, "REJECTED"), Do("propagate_finish", Parent[t], t)>>
      BY <2>2 DEF Refusing
    <3>. QED
      BY <1>1, <3>1
  <2>3. CASE Kind[t] = "examination" /\ t \notin FinishOption
    <3>1. Refusing(t) = <<Set(t, "REJECTED"), Do("propagate_done", Parent[t], t)>>
      BY <2>3 DEF Refusing
    <3>. QED
      BY <1>1, <3>1
  <2>. QED
    BY <2>1, <2>2, <2>3
<1>. QED
  BY <1>2, <1>3

\* The implementation of a system task ends, or fails.
LEMMA RunJobStays ==
  ASSUME Rooted, {"cancelled", "completed"} \cap Outcomes = {},
         TypeOK, Stacks, NEW a \in Actor, Held(a), RunJob(a)
  PROVE  Stays(a)
<1>. DEFINE f == Top(a)
            r == Tail(calls[a])
            t == Top(a).obj
<1>1. calls[a] # <<>> /\ f.fn = "run_job"
  BY DEF RunJob, At
<1>2. On(f, r, status, procStatus, completing_ok) /\ status \in [Comp -> CompStatus]
  BY <1>1, TopOn
<1>3. UNCHANGED <<status, procStatus, completing_ok>>
  BY DEF RunJob, procVars
<1>4. t \in Task
  <2>1. f \in Call
    BY <1>1, Running
  <2>. QED
    BY <1>1, <2>1 DEF Call, JobFn, System, Task, TaskKind
<1>5. procStatus # "COMPLETED"
  <2>1. Serves(f, status, procStatus, completing_ok)
    BY <1>2 DEF On, Law
  <2>. QED
    BY <1>1, <2>1 DEF Serves
<1>6. f.fn \in LAST /\ f.fn \in Lowest
  BY <1>1 DEF LAST, Lowest, Worked
<1>7. Normal(r, status, procStatus, completing_ok) /\ r \in Seq(Call)
  <2>. HIDE DEF f, r
  <2>. QED
    BY <1>1, <1>2, Dropped DEF On
<1>8. ASSUME NEW v \in {"COMPLETED", "REJECTED"}, NEW fn \in Tell,
             Continue(a, <<Set(t, v), Do(fn, Parent[t], t)>>)
      PROVE  Stays(a)
  <2>1. Sound(<<Set(t, v), Do(fn, Parent[t], t)>> \o r, status, procStatus, completing_ok)
    <3>. HIDE DEF f, r, t
    <3>. QED
      BY <1>1, <1>2, <1>4, <1>5, AnswerSound
  <2>. QED
    BY <1>3, <1>8, <2>1, Continued DEF Stays
<1>9. ASSUME NEW x \in Call, x = Set(Root, "PAUSED") \/ x = Do("cancel_process", Root, None),
             Continue(a, <<x>>)
      PROVE  Stays(a)
  <2>1. /\ x.fn \in {"set", "cancel_process"} /\ x.obj = Root /\ Root \notin Comp
        /\ x.fn = "set" => x.arg = "PAUSED"
        /\ x # Set(Root, "DISCARDED")
    BY <1>9, TreeAssumption DEF Set, Do
  <2>. HIDE DEF f, r
  <2>2. Atop(x, r)
    BY <1>2, <1>6, <2>1, AtopWorked
  <2>3. Needs(x, status)
    BY <2>1 DEF Needs, Tell, Told
  <2>4. Serves(x, status, procStatus, completing_ok)
    BY <1>5, <2>1 DEF Serves, GoesOn, Told
  <2>5. Harmless(x) /\ ~Winds(x)
    BY <2>1 DEF Harmless, Canceller, Winds, Ended
  <2>6. x.fn \notin Tell \cup {"end_completion", "except_end", "except_cancelled", "activate_task"}
        /\ (x.fn = "set" => x.arg # "DISCARDED")
    BY <2>1 DEF Tell, Told
  <2>7. Normal(<<x>> \o r, status, procStatus, completing_ok)
    BY <1>2, <1>6, <2>2, <2>3, <2>4, <2>5, <2>6, Follows
  <2>. QED
    BY <1>3, <1>9, <2>7, GoesNormal DEF r
<1>10. CASE Throw(a, "ElementsError")
  <2>1. \A h \in Frames(r) : h.fn \in Worked
    <3>. HIDE DEF f, r
    <3>. QED
      BY <1>2, <1>6, AtBottom
  <2>2. Normal(Unwound(r, "ElementsError"), status, procStatus, completing_ok)
    <3>. HIDE DEF f, r
    <3>. QED
      BY <1>2, <1>7, <2>1, ThrownWorked DEF Exception
  <2>. QED
    BY <1>3, <1>10, <2>2, ThrowsNormal
<1>11. CASE Continue(a, <<>>)
  BY <1>1, <1>3, <1>7, <1>11, ReturnsNormal
<1>12. CASE Continue(a, Closing(t, FALSE))
  <2>1. PICK fn \in Tell \ {"propagate_refuse"} :
           Closing(t, FALSE) = <<Set(t, "COMPLETED"), Do(fn, Parent[t], t)>>
    BY <1>4, Answers
  <2>2. Continue(a, <<Set(t, "COMPLETED"), Do(fn, Parent[t], t)>>)
    BY <1>12, <2>1
  <2>. QED
    BY <1>8, <2>2
<1>13. CASE Continue(a, Refusing(t))
  <2>1. PICK fn \in Tell : Refusing(t) = <<Set(t, "REJECTED"), Do(fn, Parent[t], t)>>
    BY <1>4, Answers
  <2>2. Continue(a, <<Set(t, "REJECTED"), Do(fn, Parent[t], t)>>)
    BY <1>13, <2>1
  <2>. QED
    BY <1>8, <2>2
<1>14. CASE Continue(a, <<Set(Root, "PAUSED")>>)
  <2>1. Set(Root, "PAUSED") \in Call
    BY SetCall, Args DEF ProcStatus
  <2>. QED
    BY <1>9, <1>14, <2>1
<1>15. CASE Continue(a, <<Do("cancel_process", Root, None)>>)
  <2>1. Do("cancel_process", Root, None) \in Call
    BY DoCall, Args DEF Fn, JobFn, DbFn
  <2>. QED
    BY <1>9, <1>15, <2>1
<1>16. \E o \in Outcomes \ {"inactive"} :
         \/ o = "done"      /\ Continue(a, Closing(t, FALSE))
         \/ o = "refused"   /\ Continue(a, Refusing(t))
         \/ o = "paused"    /\ Continue(a, <<Set(Root, "PAUSED")>>)
         \/ o = "aborted"   /\ Continue(a, <<Do("cancel_process", Root, None)>>)
         \/ o = "error"     /\ Throw(a, "ElementsError")
         \/ o = "async"     /\ Continue(a, <<>>)
  <2>1. \A o \in Outcomes : o # "cancelled" /\ o # "completed"
    OBVIOUS
  <2>. QED
    BY <2>1 DEF RunJob
<1>. QED
  BY <1>10, <1>11, <1>12, <1>13, <1>14, <1>15, <1>16

\* The queue marks a job as failed.
LEMMA FailJobStays ==
  ASSUME TypeOK, Stacks, NEW a \in Actor, Held(a), FailJob(a)
  PROVE  Stays(a)
<1>. DEFINE f == Top(a)
            r == Tail(calls[a])
<1>1. calls[a] # <<>> /\ f.fn = "fail_job"
  BY DEF FailJob, At
<1>2. On(f, r, status, procStatus, completing_ok) /\ status \in [Comp -> CompStatus]
  BY <1>1, TopOn
<1>3. UNCHANGED <<status, procStatus, completing_ok>>
  BY DEF FailJob, procVars
<1>4. Normal(r, status, procStatus, completing_ok)
  <2>. HIDE DEF f, r
  <2>. QED
    BY <1>1, <1>2, Dropped
<1>5. Continue(a, <<>>)
  BY DEF FailJob
<1>. QED
  BY <1>1, <1>3, <1>4, <1>5, ReturnsNormal

\* A step of a worker
LEMMA JobStepStays ==
  ASSUME Rooted, {"cancelled", "completed"} \cap Outcomes = {},
         TypeOK, Stacks, NEW a \in Actor, Held(a), JobStep(a)
  PROVE  Stays(a)
<1>1. ~(DbComplete(a) \/ DbDiscard(a) \/ DbDiscardEach(a))
  <2>1. ASSUME DbComplete(a) \/ DbDiscard(a) \/ DbDiscardEach(a) PROVE FALSE
    <3>1. calls[a] # <<>> /\ Top(a).fn \in DbFn
      BY <2>1 DEF DbComplete, DbDiscard, DbDiscardEach, At, DbFn
    <3>2. Top(a) \in Call
      BY <3>1, Running
    <3>. QED
      BY <3>1, <3>2 DEF Call
  <2>. QED
    BY <2>1
<1>. QED
  BY <1>1, RunJobStays, FailJobStays DEF JobStep

\* A try block is left.
LEMMA LeaveTryStays ==
  ASSUME TypeOK, Stacks, NEW a \in Actor, Held(a), LeaveTry(a)
  PROVE  Stays(a)
<1>. DEFINE f == Top(a)
            r == Tail(calls[a])
<1>1. calls[a] # <<>> /\ f.fn \in Except /\ f.fn # "set"
  BY DEF LeaveTry, Except
<1>2. On(f, r, status, procStatus, completing_ok) /\ status \in [Comp -> CompStatus]
  BY <1>1, TopOn
<1>3. UNCHANGED <<status, procStatus, completing_ok>>
  BY SameData DEF LeaveTry
<1>4. Normal(r, status, procStatus, completing_ok)
  <2>. HIDE DEF f, r
  <2>1. CASE f.fn = "except_end"
    BY <1>2, <2>1, EndLeft
  <2>2. CASE f.fn # "except_end"
    <3>1. \A c : ~Cancels(f, c) /\ ~Starts(f, c)
      BY <1>1 DEF Cancels, Starts, Except
    <3>2. f.fn # "dismiss_completion"
      BY <1>1 DEF Except
    <3>. QED
      BY <1>1, <1>2, <2>2, <3>1, <3>2, Drop
  <2>. QED
    BY <2>1, <2>2
<1>5. Continue(a, <<>>)
  BY DEF LeaveTry
<1>. QED
  BY <1>1, <1>3, <1>4, <1>5, ReturnsNormal

\* An exception is raised for the component behind a try block.
LEMMA RaiseStays ==
  ASSUME TasksLast, Rooted, TypeOK, Stacks, NEW a \in Actor, Held(a), RaiseAgain(a)
  PROVE  Stays(a)
<1>. DEFINE f == Top(a)
            r == Tail(calls[a])
<1>1. calls[a] # <<>> /\ f.fn = "raise"
  BY DEF RaiseAgain, At
<1>2. On(f, r, status, procStatus, completing_ok) /\ status \in [Comp -> CompStatus]
  BY <1>1, TopOn
<1>3. UNCHANGED <<status, procStatus, completing_ok>>
  BY SameData DEF RaiseAgain
<1>4. r \in Seq(Call) /\ Stack(r, Done) /\ Due(f, r, Done)
  BY <1>1, Running
<1>. HIDE DEF f, r
<1>5. ASSUME r # <<>>, Head(r).fn \in Jump
      PROVE  /\ Head(r).arg \in Comp \ {Completion}
             /\ \A b \in Comp : Ordered!Precedes(b, Head(r).arg) => ~Open(b, status)
             /\ f.arg = "TaskClosed" => Head(r).arg \notin Task /\ ~Open(Head(r).arg, status)
             /\ Head(r).fn = "except_first" =>
                  Head(r).obj = Parent[Head(r).arg] /\ Kind[Head(r).obj] = "sequential"
             /\ Head(r).fn = "except_next" => Parent[Head(r).arg] = Root
  <2>1. Len(r) >= 1 /\ r[1] = Head(r)
    BY <1>4, <1>5
  <2>2. Good(Head(r), Done)
    BY <1>4, <2>1 DEF Stack
  <2>. DEFINE g == Head(r)
              c == Head(r).arg
  <2>3. /\ g.fn = "except_first" => /\ Kind[g.obj] = "sequential" /\ c \in Components(g.obj)
                                    /\ AllReady(c, Done)
        /\ g.fn = "except_next" => c \in Components(Root) /\ AllReady(c, Done)
        /\ g.fn \in {"except_first", "except_next"}
    <3>1. g.fn \in {"except_first", "except_next"}
      BY <1>5 DEF Jump
    <3>2. g.fn = "except_first" => /\ Kind[g.obj] = "sequential" /\ c \in Components(g.obj)
                                   /\ AllReady(c, Done)
      BY <2>2 DEF Good
    <3>3. g.fn = "except_next" => c \in Components(Root) /\ AllReady(c, Done)
      BY <2>2 DEF Good
    <3>. QED
      BY <3>1, <3>2, <3>3
  <2>4. f.arg = "TaskClosed" => c \in Done \ Task
    BY <1>1, <1>4, <1>5, <2>1 DEF Due, Closes
  <2>. HIDE DEF g, c
  <2>5. c \in Comp /\ c # Completion /\ AllReady(c, Done)
        /\ (g.fn = "except_first" => g.obj = Parent[c]) /\ (g.fn = "except_next" => Parent[c] = Root)
    BY <2>3, PartsIn
  <2>6. \A b \in Comp : Ordered!Precedes(b, c) => ~Open(b, status)
    BY <2>5, DoneOver
  <2>7. f.arg = "TaskClosed" => c \notin Task /\ ~Open(c, status)
    BY <2>4, <2>5, DoneOver
  <2>. QED
    BY <2>3, <2>5, <2>6, <2>7 DEF g, c
<1>6. Normal(Unwound(r, f.arg), status, procStatus, completing_ok)
  <2>1. r # <<>> /\ Head(r).fn \in Jump =>
           /\ Head(r).arg \in Comp \ {Completion}
           /\ \A b \in Comp : Ordered!Precedes(b, Head(r).arg) => ~Open(b, status)
           /\ f.arg = "TaskClosed" => Head(r).arg \notin Task /\ ~Open(Head(r).arg, status)
    BY <1>5
  <2>2. r # <<>> /\ Head(r).fn = "except_first" =>
           Head(r).obj = Parent[Head(r).arg] /\ Kind[Head(r).obj] = "sequential"
    BY <1>5 DEF Jump
  <2>3. r # <<>> /\ Head(r).fn = "except_next" => Parent[Head(r).arg] = Root
    BY <1>5 DEF Jump
  <2>. QED
    BY <1>1, <1>2, <1>4, <2>1, <2>2, <2>3, RaiseNormal
<1>7. Throw(a, f.arg)
  BY DEF RaiseAgain, f
<1>. QED
  BY <1>3, <1>6, <1>7, ThrowsNormal DEF r

(* Transitions                                                                *)

\* A call that returns after it has changed something
LEMMA Returned ==
  ASSUME TypeOK, NEW a \in Actor, Continue(a, <<>>),
         calls[a] # <<>>, Normal(Tail(calls[a]), status', procStatus', completing_ok')
  PROVE  Stays(a)
<1>1. calls[a] \in Seq(Call)
  BY DEF TypeOK
<1>2. <<>> \o Tail(calls[a]) = Tail(calls[a])
  BY <1>1
<1>. QED
  BY <1>2, GoesOnNormal

\* Nothing is left to do.
LEMMA NothingLeft ==
  ASSUME NEW st, NEW ps, NEW ok
  PROVE  Normal(<<>>, st, ps, ok) <=> Law({}, st, ps, ok)
BY NoFrames DEF Normal

\* A process that is about to start or to resume
LEMMA Booting ==
  ASSUME NEW s, NEW st, NEW ps, NEW ok, Boot(s, st, ps, ok)
  PROVE  /\ s # <<>> /\ Head(s).obj = Root /\ Head(s).arg = "EXECUTION" /\ Law({}, st, ps, ok)
         /\ \/ Tail(s) = <<>>
            \/ ps = "NEW" /\ Tail(s) = <<Do("activate_tasks", Root, None), Do("except_cancelled", Root, None)>>
<1>. DEFINE x == Set(Root, "EXECUTION")
            y == Do("activate_tasks", Root, None)
            z == Do("except_cancelled", Root, None)
<1>1. x.obj = Root /\ x.arg = "EXECUTION"
  BY DEF Set, Do
<1>2. (s = <<x>> \/ (ps = "NEW" /\ s = <<x, y, z>>)) /\ Law({}, st, ps, ok)
  BY DEF Boot
<1>. HIDE DEF x, y, z
<1>3. CASE s = <<x>>
  BY <1>1, <1>2, <1>3
<1>4. CASE ps = "NEW" /\ s = <<x, y, z>>
  <2>1. Tail(<<x, y, z>>) = <<y, z>> /\ Head(<<x, y, z>>) = x /\ <<x, y, z>> # <<>>
    OBVIOUS
  <2>. QED
    BY <1>1, <1>2, <1>4, <2>1 DEF y, z
<1>. QED
  BY <1>2, <1>3, <1>4

\* A component changes its status.
LEMMA SetComponentStays ==
  ASSUME TypeOK, Stacks, NEW a \in Actor, Held(a), SetComponent(a)
  PROVE  Stays(a)
<1>. DEFINE f == Top(a)
            r == Tail(calls[a])
            s == calls[a]
<1>1. /\ s # <<>> /\ f.fn = "set" /\ f.obj \in Comp /\ <<status[f.obj], f.arg>> \in CompSteps
      /\ status' = [status EXCEPT ![f.obj] = f.arg] /\ Continue(a, <<>>)
      /\ procStatus' = procStatus /\ completing_ok' = completing_ok
  BY DEF SetComponent, At, procVars
<1>2. s \in Seq(Call) /\ status \in [Comp -> CompStatus] /\ Head(s) = f /\ s[1] = f /\ Root \notin Comp
  BY <1>1, TreeAssumption DEF TypeOK, Top
<1>3. Normal(r, status', procStatus, completing_ok)
  <2>1. ~Vain(s, status, procStatus, completing_ok)
    BY <1>1, <1>2 DEF Vain, CompSteps
  <2>2. ~Boot(s, status, procStatus, completing_ok)
    BY <1>1, <1>2, Booting
  <2>3. CASE Launch(s, status, procStatus, completing_ok)
    <3>. HIDE DEF s, f
    <3>. QED
      BY <1>1, <1>2, <2>3 DEF Launch, s
  <2>4. CASE Normal(s, status, procStatus, completing_ok)
    <3>1. On(f, r, status, procStatus, completing_ok)
      BY <1>1, <1>2, <2>4, NormalOn
    <3>. HIDE DEF s, f, r
    <3>. QED
      BY <1>1, <1>2, <3>1, SetDown
  <2>. QED
    BY <2>1, <2>2, <2>3, <2>4 DEF Held, Sound
<1>. QED
  BY <1>1, <1>3, Returned

\* A transition of the process: nothing but its start or resumption is about to
\* happen, or it ends or pauses.
LEMMA ProcessTop ==
  ASSUME TypeOK, NEW a \in Actor, Held(a), At(a, "set"), Top(a).obj = Root
  PROVE  \/ Boot(calls[a], status, procStatus, completing_ok)
         \/ /\ Top(a).arg # "EXECUTION"
            /\ On(Top(a), Tail(calls[a]), status, procStatus, completing_ok)
<1>. DEFINE s == calls[a]
<1>1. s \in Seq(Call) /\ s # <<>> /\ Top(a) = Head(s) /\ s[1] = Head(s) /\ Root \notin Comp
      /\ Head(s).fn = "set" /\ Head(s).obj = Root
  BY TreeAssumption DEF TypeOK, At, Top
<1>2. Sound(s, status, procStatus, completing_ok)
  BY DEF Held
<1>. HIDE DEF s
<1>3. ~Vain(s, status, procStatus, completing_ok) /\ ~Launch(s, status, procStatus, completing_ok)
  BY <1>1 DEF Vain, Launch
<1>4. ASSUME Normal(s, status, procStatus, completing_ok)
      PROVE  /\ Head(s).arg # "EXECUTION"
             /\ On(Head(s), Tail(s), status, procStatus, completing_ok)
  <2>1. On(Head(s), Tail(s), status, procStatus, completing_ok)
    BY <1>1, <1>4, NormalOn
  <2>2. Needs(Head(s), status)
    BY <2>1 DEF On, Law
  <2>. QED
    BY <1>1, <2>1, <2>2 DEF Needs
<1>. QED
  BY <1>1, <1>2, <1>3, <1>4 DEF Sound, s

\* The process starts.
LEMMA StartProcessStays ==
  ASSUME TypeOK, Stacks, NEW a \in Actor, Held(a), StartProcess(a)
  PROVE  Stays(a)
<1>1. /\ At(a, "set") /\ Top(a).obj = Root /\ Top(a).arg = "EXECUTION" /\ procStatus' = "EXECUTION"
      /\ completing_ok' = TRUE /\ status' = [c \in Comp |-> "NEW"] /\ Continue(a, <<>>)
  BY DEF StartProcess
<1>2. Boot(calls[a], status, procStatus, completing_ok)
  BY <1>1, ProcessTop
<1>3. status' \in [Comp -> CompStatus] /\ \A c \in Comp : status'[c] = "NEW"
  BY <1>1 DEF CompStatus
<1>4. calls[a] # <<>> /\ \/ Tail(calls[a]) = <<>>
                         \/ Tail(calls[a]) = <<Do("activate_tasks", Root, None), Do("except_cancelled", Root, None)>>
  BY <1>2, Booting
<1>5. Normal(<<>>, status', "EXECUTION", TRUE)
  BY <1>3, ResetLaw, NothingLeft
<1>6. Normal(<<Do("activate_tasks", Root, None), Do("except_cancelled", Root, None)>>, status', "EXECUTION", TRUE)
  BY <1>3, FirstTasks
<1>. QED
  BY <1>1, <1>4, <1>5, <1>6, Returned

\* The process resumes.
LEMMA ResumeProcessStays ==
  ASSUME TypeOK, Stacks, NEW a \in Actor, Held(a), ResumeProcess(a)
  PROVE  Stays(a)
<1>1. /\ At(a, "set") /\ Top(a).obj = Root /\ Top(a).arg = "EXECUTION" /\ procStatus' = "EXECUTION"
      /\ completing_ok' = completing_ok /\ status' = status /\ Continue(a, <<>>) /\ procStatus = "PAUSED"
  BY DEF ResumeProcess
<1>2. Boot(calls[a], status, procStatus, completing_ok)
  BY <1>1, ProcessTop
<1>3. calls[a] # <<>> /\ Tail(calls[a]) = <<>> /\ Law({}, status, "PAUSED", completing_ok)
  BY <1>1, <1>2, Booting
<1>4. Normal(<<>>, status, "EXECUTION", completing_ok)
  BY <1>3, ResumeLaw, NothingLeft
<1>. QED
  BY <1>1, <1>3, <1>4, Returned

\* The process ends or pauses.
LEMMA LeaveProcessStays ==
  ASSUME TypeOK, Stacks, NEW a \in Actor, Held(a), LeaveProcess(a)
  PROVE  Stays(a)
<1>. DEFINE f == Top(a)
            r == Tail(calls[a])
<1>1. /\ At(a, "set") /\ f.obj = Root /\ f.arg # "EXECUTION" /\ procStatus' = f.arg
      /\ completing_ok' = completing_ok /\ status' = status /\ Continue(a, <<>>)
      /\ <<procStatus, f.arg>> \in ProcSteps
  BY DEF LeaveProcess
<1>2. ~Boot(calls[a], status, procStatus, completing_ok)
  BY <1>1, Booting DEF Top
<1>3. On(f, r, status, procStatus, completing_ok)
  BY <1>1, <1>2, ProcessTop
<1>4. f.arg \in ProcStatus
  BY <1>1 DEF ProcSteps, ProcStatus
<1>5. Normal(r, status, f.arg, completing_ok)
  <2>1. f.fn = "set" /\ status \in [Comp -> CompStatus]
    BY <1>1 DEF At, TypeOK
  <2>. HIDE DEF f, r
  <2>. QED
    BY <1>1, <1>3, <1>4, <2>1, ProcessSet
<1>. QED
  BY <1>1, <1>5, Returned DEF At

\* A transition is refused: the answer came too late, or the process is not what
\* the operation took it to be.
LEMMA RefuseStateStays ==
  ASSUME TypeOK, Stacks, NEW a \in Actor, Held(a), RefuseState(a)
  PROVE  Stays(a)
<1>. DEFINE f == Top(a)
            r == Tail(calls[a])
            s == calls[a]
<1>1. /\ s # <<>> /\ f.fn = "set" /\ Throw(a, "ElementsError")
      /\ IF f.obj = Root THEN <<procStatus, f.arg>> \notin ProcSteps
                         ELSE <<status[f.obj], f.arg>> \notin CompSteps
  BY DEF RefuseState, At
<1>2. UNCHANGED <<status, procStatus, completing_ok>>
  BY SameData DEF RefuseState
<1>3. s \in Seq(Call) /\ status \in [Comp -> CompStatus] /\ Head(s) = f /\ s[1] = f /\ Root \notin Comp
      /\ f.obj \in Comp \cup {Root} /\ r = Tail(s) /\ r \in Seq(Call) /\ procStatus \in ProcStatus
  BY <1>1, TreeAssumption, Running DEF TypeOK, Top
<1>4. Sound(s, status, procStatus, completing_ok)
  BY DEF Held
<1>. HIDE DEF f, s, r
<1>5. Normal(Unwound(r, "ElementsError"), status, procStatus, completing_ok)
  <2>1. CASE Vain(s, status, procStatus, completing_ok)
    <3>1. /\ Len(s) >= 2 /\ s[2].fn \in Tell
          /\ \A i \in 3 .. Len(s) : s[i].fn \in Worked
          /\ Law(Frames(Tail(Tail(s))), status, procStatus, completing_ok)
      BY <2>1 DEF Vain
    <3>2. r # <<>> /\ Head(r) = s[2] /\ Len(r) = Len(s) - 1 /\ \A i \in 1 .. Len(r) : r[i] = s[i + 1]
      <4>1. Len(r) = Len(s) - 1 /\ \A i \in 1 .. Len(r) : r[i] = s[i + 1]
        BY <1>1, <1>3
      <4>2. Len(r) >= 1 /\ 1 \in 1 .. Len(r)
        BY <1>3, <3>1, <4>1
      <4>3. r[1] = s[1 + 1] /\ 1 + 1 = 2
        BY <4>1, <4>2
      <4>4. r # <<>> /\ Head(r) = r[1]
        <5>1. r \in Seq(Call) /\ Len(r) >= 1
          BY <1>3, <4>2
        <5>2. r # <<>>
          BY <5>1
        <5>. QED
          BY <5>1, <5>2
      <4>. QED
        BY <4>1, <4>3, <4>4
    <3>3. "ElementsError" \notin Catches(Head(r).fn)
      BY <3>1, <3>2 DEF Catches, Tell, Told
    <3>. DEFINE w == Tail(r)
    <3>4. w \in Seq(Call) /\ Len(w) = Len(r) - 1 /\ \A i \in 1 .. Len(w) : w[i] = r[i + 1]
      BY <1>3, <3>2
    <3>5. Law(Frames(w), status, procStatus, completing_ok)
      BY <1>3, <3>1
    <3>6. Unwound(r, "ElementsError") = Unwound(w, "ElementsError")
      BY <1>3, <3>2, <3>3, UnwoundPassed
    <3>. HIDE DEF w
    <3>7. \A h \in Frames(w) : h.fn \in Worked
      <4>1. ASSUME NEW i \in 1 .. Len(w) PROVE w[i].fn \in Worked
        <5>1. i + 1 \in 1 .. Len(r) /\ (i + 1) + 1 \in 3 .. Len(s)
          BY <1>3, <3>2, <3>4
        <5>2. w[i] = s[(i + 1) + 1]
          BY <3>2, <3>4, <5>1
        <5>. QED
          BY <3>1, <5>1, <5>2
      <4>. QED
        BY <4>1 DEF Frames
    <3>8. Normal(w, status, procStatus, completing_ok)
      BY <3>4, <3>5, <3>7, WorkedShape DEF Normal
    <3>. QED
      BY <1>3, <3>4, <3>6, <3>7, <3>8, ThrownWorked DEF Exception
  <2>2. CASE Boot(s, status, procStatus, completing_ok)
    <3>1. f.obj = Root /\ f.arg = "EXECUTION"
      BY <1>3, <2>2, Booting
    <3>2. procStatus # "NEW"
      BY <1>1, <3>1 DEF ProcSteps
    <3>3. r = <<>> /\ Law({}, status, procStatus, completing_ok)
      BY <1>3, <2>2, <3>2, Booting
    <3>. QED
      BY <3>3, UnwoundNil, NothingLeft
  <2>3. ~Launch(s, status, procStatus, completing_ok)
    BY <1>1, <1>3 DEF Launch, CompSteps
  <2>4. CASE Normal(s, status, procStatus, completing_ok)
    <3>1. On(f, r, status, procStatus, completing_ok)
      BY <1>1, <1>3, <2>4, NormalOn
    <3>2. Needs(f, status)
      BY <3>1 DEF On, Law
    <3>3. f.obj = Root
      BY <1>1, <1>3, <3>2 DEF Needs, CompSteps, Open
    <3>. QED
      BY <1>1, <1>3, <3>1, <3>3, ProcessRefuses
  <2>. QED
    BY <1>4, <2>1, <2>2, <2>3, <2>4 DEF Sound
<1>. QED
  BY <1>1, <1>2, <1>5, ThrowsNormal DEF r

\* A transition
LEMMA StateStepStays ==
  ASSUME TypeOK, Stacks, NEW a \in Actor, Held(a), StateStep(a)
  PROVE  Stays(a)
BY SetComponentStays, StartProcessStays, ResumeProcessStays, LeaveProcessStays, RefuseStateStays
   DEF StateStep

\* Every step of the one operation
LEMMA StepStays ==
  ASSUME TasksLast, Rooted, {"cancelled", "completed"} \cap Outcomes = {},
         TypeOK, Stacks, NEW a \in Actor, Held(a), Step(a)
  PROVE  Stays(a)
BY LeaveTryStays, RaiseStays, StateStepStays, ComponentStepStays, ProcessStepStays, JobStepStays DEF Step

(* Operations that begin, nothing being under way                             *)

Now == Law({}, status, procStatus, completing_ok)

\* When the process is completed nothing is new or runs.
LEMMA CompletedOver ==
  ASSUME Rooted, NEW st \in [Comp -> CompStatus], NEW ok, Law({}, st, "COMPLETED", ok)
  PROVE  \A c \in Comp : ~Open(c, st)
<1>1. \A c : ~Doomed(c, {})
  BY DEF Doomed
<1>2. Winding({}, st, "COMPLETED", ok)
  BY DEF Winding, Ended
<1>3. \A c \in Components(Root) : ~Open(c, st)
  BY <1>1, <1>2 DEF Law, WindsUp
<1>4. ~Open(Completion, st)
  BY DEF Law, EndedWell, Gone, Open, Terminal
<1>. QED
  BY <1>1, <1>3, <1>4, AllOver DEF Law

\* An operation that begins with a single call, or a worker's job with its call
LEMMA Opens ==
  ASSUME NEW st \in [Comp -> CompStatus], NEW ps, NEW ok, Law({}, st, ps, ok), ps # "COMPLETED",
         NEW r \in Seq(Call), \A h \in Frames(r) : h.fn \in Worked, NEW x, Atop(x, r),
         \/ x.fn \in {"run_job", "dismiss_process"}
         \/ x.fn = "activate_process" /\ ps \in {"NEW", "PAUSED"}
         \/ x = Set(Root, "PAUSED")
  PROVE  Normal(<<x>> \o r, st, ps, ok)
<1>. DEFINE f == Do("cancel_process", Root, None)
<1>1. On(f, r, st, ps, ok) /\ f.fn = "cancel_process"
  BY Opening
<1>. HIDE DEF f
<1>2. f.fn \in LAST
  BY <1>1 DEF LAST, Lowest, Worked
<1>3. /\ x.fn \in {"run_job", "dismiss_process", "activate_process", "set"}
      /\ x.fn = "set" => x.obj = Root /\ x.arg = "PAUSED" /\ Root \notin Comp
      /\ x.fn = "activate_process" => ps \in {"NEW", "PAUSED"}
  BY TreeAssumption DEF Set, Do
<1>4. Needs(x, st)
  BY <1>3 DEF Needs, Tell, Told
<1>5. Serves(x, st, ps, ok)
  BY <1>3 DEF Serves, GoesOn, Told
<1>6. Harmless(x) /\ ~Winds(x)
  BY <1>3 DEF Harmless, Canceller, Winds, Ended
<1>7. x.fn \notin Tell \cup {"end_completion", "except_end", "except_cancelled", "activate_task"}
      /\ (x.fn = "set" => x.arg # "DISCARDED")
  BY <1>3 DEF Tell, Told
<1>. QED
  BY <1>1, <1>2, <1>4, <1>5, <1>6, <1>7, Follows

\* The first call of an operation
LEMMA FirstOne ==
  ASSUME TypeOK, NEW a \in Actor, NEW x \in Call, Begin(a, <<x>>),
         UNCHANGED <<status, procStatus, completing_ok>>, Now, procStatus # "COMPLETED",
         \/ x.fn \in {"dismiss_process", "cancel_process"}
         \/ x.fn = "activate_process" /\ procStatus \in {"NEW", "PAUSED"}
         \/ x = Set(Root, "PAUSED"),
         x.fn = "cancel_process" => x = Do("cancel_process", Root, None)
  PROVE  Stays(a)
<1>1. status \in [Comp -> CompStatus]
  BY DEF TypeOK
<1>2. <<>> \in Seq(Call) /\ Frames(<<>>) = {} /\ <<x>> \o <<>> = <<x>>
  BY NoFrames
<1>3. Atop(x, <<>>)
  BY <1>2 DEF Atop
<1>4. Normal(<<x>> \o <<>>, status, procStatus, completing_ok)
  <2>1. CASE x.fn # "cancel_process"
    BY <1>1, <1>2, <1>3, <2>1, Opens DEF Now
  <2>2. CASE x.fn = "cancel_process"
    <3>. DEFINE f == Do("cancel_process", Root, None)
    <3>1. On(f, <<>>, status, procStatus, completing_ok)
      BY <1>1, <1>2, Opening DEF Now
    <3>2. Normal(<<f>> \o <<>>, status, procStatus, completing_ok)
      BY <3>1, OnNormal
    <3>. QED
      BY <2>2, <3>2
  <2>. QED
    BY <2>1, <2>2
<1>5. calls'[a] = <<x>>
  BY Begun
<1>. QED
  BY <1>2, <1>4, <1>5 DEF Stays, Sound

\* Users activate, hold, cancel or dismiss the process.
LEMMA ProcessOperationStays ==
  ASSUME TypeOK, NEW a \in Actor, Now, ProcessOperation(a)
  PROVE  Stays(a)
<1>1. CASE op_activate_process(a)
  <2>1. Do("activate_process", Root, None) \in Call
    BY DoCall, Args DEF Fn, JobFn, DbFn
  <2>2. UNCHANGED <<status, procStatus, completing_ok>>
    BY <1>1 DEF op_activate_process, procVars
  <2>3. Begin(a, <<Do("activate_process", Root, None)>>) /\ procStatus \in {"NEW", "PAUSED"}
    BY <1>1 DEF op_activate_process
  <2>4. Do("activate_process", Root, None).fn = "activate_process"
    BY DEF Do
  <2>. QED
    BY <2>1, <2>2, <2>3, <2>4, FirstOne
<1>2. CASE op_onhold_process(a)
  <2>1. Set(Root, "PAUSED") \in Call
    BY SetCall, Args DEF ProcStatus
  <2>2. UNCHANGED <<status, procStatus, completing_ok>>
    BY <1>2, SameData DEF op_onhold_process
  <2>3. Begin(a, <<Set(Root, "PAUSED")>>) /\ procStatus = "EXECUTION"
    BY <1>2 DEF op_onhold_process
  <2>4. Set(Root, "PAUSED").fn = "set"
    BY DEF Set, Do
  <2>. QED
    BY <2>1, <2>2, <2>3, <2>4, FirstOne
<1>3. CASE op_cancel_process(a)
  <2>1. Do("cancel_process", Root, None) \in Call
    BY DoCall, Args DEF Fn, JobFn, DbFn
  <2>2. UNCHANGED <<status, procStatus, completing_ok>>
    BY <1>3, SameData DEF op_cancel_process
  <2>3. Begin(a, <<Do("cancel_process", Root, None)>>) /\ procStatus \in {"NEW", "EXECUTION"}
    BY <1>3 DEF op_cancel_process
  <2>4. Do("cancel_process", Root, None).fn = "cancel_process"
    BY DEF Do
  <2>. QED
    BY <2>1, <2>2, <2>3, <2>4, FirstOne
<1>4. CASE op_dismiss_process(a)
  <2>1. Do("dismiss_process", Root, None) \in Call
    BY DoCall, Args DEF Fn, JobFn, DbFn
  <2>2. UNCHANGED <<status, procStatus, completing_ok>>
    BY <1>4, SameData DEF op_dismiss_process
  <2>3. Begin(a, <<Do("dismiss_process", Root, None)>>) /\ procStatus \in {"NEW", "FAILED"}
    BY <1>4 DEF op_dismiss_process
  <2>4. Do("dismiss_process", Root, None).fn = "dismiss_process"
    BY DEF Do
  <2>. QED
    BY <2>1, <2>2, <2>3, <2>4, FirstOne
<1>. QED
  BY <1>1, <1>2, <1>3, <1>4 DEF ProcessOperation

\* A task is closed, forwarded or refused; also a conversion ends, when the task
\* may have ended before.
LEMMA AnswerStays ==
  ASSUME Rooted, TypeOK, NEW a \in Actor, Now, UNCHANGED <<status, procStatus, completing_ok>>,
         NEW t \in Task, NEW v \in {"COMPLETED", "REJECTED"}, NEW fn \in Tell,
         Begin(a, <<Set(t, v), Do(fn, Parent[t], t)>>)
  PROVE  Stays(a)
<1>1. status \in [Comp -> CompStatus] /\ t \in Comp
  BY DEF TypeOK, Task
<1>2. <<>> \in Seq(Call) /\ Frames(<<>>) = {}
      /\ <<Set(t, v), Do(fn, Parent[t], t)>> \o <<>> = <<Set(t, v), Do(fn, Parent[t], t)>>
  BY NoFrames
<1>3. Sound(<<Set(t, v), Do(fn, Parent[t], t)>> \o <<>>, status, procStatus, completing_ok)
  <2>1. CASE status[t] = "EXECUTION"
    <3>1. procStatus # "COMPLETED"
      BY <1>1, <2>1, CompletedOver DEF Now, Open
    <3>. DEFINE f == Do("cancel_process", Root, None)
    <3>2. On(f, <<>>, status, procStatus, completing_ok) /\ f.fn = "cancel_process"
      BY <1>1, <1>2, <3>1, Opening DEF Now
    <3>. HIDE DEF f
    <3>. QED
      BY <1>1, <3>1, <3>2, AnswerSound
  <2>2. CASE status[t] # "EXECUTION"
    BY <1>2, <2>2, LateAnswer DEF Now
  <2>. QED
    BY <2>1, <2>2
<1>. QED
  BY <1>2, <1>3, Begun DEF Stays

\* An answer of a user, or of the conversion server
LEMMA TaskOperationStays ==
  ASSUME Rooted, TypeOK, NEW a \in Actor, Now, NEW t \in Task,
         TaskOperation(a, t) \/ convert_files_done(a, t)
  PROVE  Stays(a)
<1>1. UNCHANGED <<status, procStatus, completing_ok>>
  BY SameData DEF TaskOperation, op_close_task, op_forward_task, op_refuse_task, convert_files_done, procVars
<1>2. ASSUME NEW w \in BOOLEAN, Begin(a, Closing(t, w))
      PROVE  Stays(a)
  <2>1. PICK fn \in Tell \ {"propagate_refuse"} : Closing(t, w) = <<Set(t, "COMPLETED"), Do(fn, Parent[t], t)>>
    BY Answers
  <2>. QED
    BY <1>1, <1>2, <2>1, AnswerStays
<1>3. CASE Begin(a, Refusing(t))
  <2>1. PICK fn \in Tell : Refusing(t) = <<Set(t, "REJECTED"), Do(fn, Parent[t], t)>>
    BY Answers
  <2>. QED
    BY <1>1, <1>3, <2>1, AnswerStays
<1>. QED
  BY <1>2, <1>3 DEF TaskOperation, op_close_task, op_forward_task, op_refuse_task, convert_files_done

\* The conversion of a running task fails: it is cancelled.
LEMMA ConversionFailedStays ==
  ASSUME Rooted, TypeOK, NEW a \in Actor, Now, NEW t \in Task, status[t] = "EXECUTION",
         UNCHANGED <<status, procStatus, completing_ok>>, Begin(a, <<Do("cancel_task", t, None)>>)
  PROVE  Stays(a)
<1>1. status \in [Comp -> CompStatus] /\ t \in Comp /\ t # Completion
  BY TreeAssumption DEF TypeOK, Task, TaskKind
<1>2. <<>> \in Seq(Call) /\ Frames(<<>>) = {}
      /\ <<Do("cancel_task", t, None)>> \o <<>> = <<Do("cancel_task", t, None)>>
  BY NoFrames
<1>3. procStatus # "COMPLETED"
  BY <1>1, CompletedOver DEF Now, Open
<1>. DEFINE f == Do("cancel_process", Root, None)
<1>4. On(f, <<>>, status, procStatus, completing_ok) /\ f.fn = "cancel_process"
  BY <1>1, <1>2, <1>3, Opening DEF Now
<1>. HIDE DEF f
<1>5. f.fn \in LAST
  BY <1>4 DEF LAST, Lowest, Worked
<1>6. Normal(<<Do("cancel_task", t, None)>> \o <<>>, status, procStatus, completing_ok)
  BY <1>1, <1>4, <1>5, CancelAlone
<1>. QED
  BY <1>2, <1>6, Begun DEF Stays, Sound

\* A worker takes a job.
LEMMA TakeJobStays ==
  ASSUME TypeOK, NEW a \in Actor, Now, NEW t \in System, procStatus = "EXECUTION",
         UNCHANGED <<status, procStatus, completing_ok>>,
         \/ Begin(a, <<Set(Root, "PAUSED"), Do("except_mq", t, None)>>)
         \/ Begin(a, <<Do("run_job", t, None), Do("except_job", t, None), Do("except_mq", t, None)>>)
  PROVE  Stays(a)
<1>. DEFINE x == Do("run_job", t, None)
            j == Do("except_job", t, None)
            m == Do("except_mq", t, None)
            p == Set(Root, "PAUSED")
<1>1. status \in [Comp -> CompStatus]
  BY DEF TypeOK
<1>2. /\ x \in Call /\ x.fn = "run_job" /\ j \in Call /\ j.fn = "except_job"
      /\ m \in Call /\ m.fn = "except_mq"
  BY JobCall, Args DEF Do, JobFn
<1>3. p \in Call /\ p.fn = "set" /\ p.obj = Root /\ p.arg = "PAUSED" /\ p = Set(Root, "PAUSED")
  BY SetCall, Args DEF ProcStatus, Set, Do
<1>4. p # Set(Root, "DISCARDED") /\ x # Set(Root, "DISCARDED")
  BY <1>2, <1>3 DEF Set, Do
<1>. HIDE DEF x, j, m, p
<1>5. ASSUME NEW u \in {x, p}, NEW r \in Seq(Call), r # <<>>, \A h \in Frames(r) : h.fn \in Worked
      PROVE  Normal(<<u>> \o r, status, procStatus, completing_ok)
  <2>1. u \in Call /\ u # Set(Root, "DISCARDED") /\ u.fn \in {"run_job", "set"}
        /\ (u.fn = "run_job" \/ u = Set(Root, "PAUSED"))
    BY <1>2, <1>3, <1>4
  <2>2. \A h \in Frames(r) : Bears(u, h)
    BY <1>5, <2>1, OverWorked
  <2>3. Rests(u, Head(r))
    <3>1. Head(r).fn \in Worked
      BY <1>5, HeadIn
    <3>2. Head(r).fn # "except_end"
      BY <3>1 DEF Worked
    <3>. QED
      BY <2>1, <3>2, RestsPlain
  <2>4. Atop(u, r)
    BY <2>1, <2>2, <2>3 DEF Atop
  <2>. QED
    BY <1>1, <1>5, <2>1, <2>4, Opens DEF Now
<1>6. CASE Begin(a, <<p, m>>)
  <2>1. <<m>> \in Seq(Call) /\ <<m>> # <<>> /\ <<p>> \o <<m>> = <<p, m>>
    BY <1>2, <1>3, Lists
  <2>2. \A h \in Frames(<<m>>) : h.fn \in Worked
    BY <1>2 DEF Frames, Worked
  <2>3. Normal(<<p>> \o <<m>>, status, procStatus, completing_ok)
    BY <1>5, <2>1, <2>2
  <2>. QED
    BY <1>6, <2>1, <2>3, Begun DEF Stays, Sound
<1>7. CASE Begin(a, <<x, j, m>>)
  <2>1. <<j, m>> \in Seq(Call) /\ <<j, m>> # <<>> /\ <<x>> \o <<j, m>> = <<x, j, m>>
    <3>1. \A z \in Call : <<x>> \o <<j, z>> = <<x, j, z>>
      BY <1>2, Lists
    <3>2. <<j, m>> \in Seq(Call) /\ <<j, m>> # <<>>
      BY <1>2
    <3>. QED
      BY <1>2, <3>1, <3>2
  <2>2. \A h \in Frames(<<j, m>>) : h.fn \in Worked
    <3>1. \A i \in 1 .. Len(<<j, m>>) : <<j, m>>[i] \in {j, m}
      OBVIOUS
    <3>. QED
      BY <1>2, <3>1 DEF Frames, Worked
  <2>3. Normal(<<x>> \o <<j, m>>, status, procStatus, completing_ok)
    BY <1>5, <2>1, <2>2
  <2>. QED
    BY <1>7, <2>1, <2>3, Begun DEF Stays, Sound
<1>. QED
  BY <1>6, <1>7 DEF x, j, m, p

(* One operation at a time                                                    *)

\* A schema that is a tree, in which Next does not lead out of a group; system
\* tasks that are not cancelled by their own implementation and do not close the
\* process; and operations that run one after the other
OneByOne ==
  /\ TasksLast /\ Rooted /\ {"cancelled", "completed"} \cap Outcomes = {}
  /\ MaxBusy = 1 /\ IsFiniteSet(Actor)

\* A step is no fault.
LEMMA StepFaults ==
  ASSUME NEW a \in Actor, Step(a)
  PROVE  faults' = faults
<1>1. LeaveTry(a) \/ RaiseAgain(a) \/ ComponentStep(a) => faults' = faults
  BY DEF LeaveTry, RaiseAgain, ComponentStep, ActivateTask, ActivateEach, ActivateFirst, CancelTask,
         CancelSubtasks, CancelEach, ParallelDone, SequentialDone, CompletionDone, GroupFinish,
         ParallelCancel, SequentialCancel, CompletionCancel, EndCompletion, GroupRefuse, data, bounds
<1>2. ProcessStep(a) => faults' = faults
  BY DEF ProcessStep, ActivateProcess, ActivateTasks, ProcessDone, ActivateNext, ProcessFinish,
         ProcessCancel, CancelProcess, DismissProcess, DismissCompletion, EndProcess, data, bounds
<1>3. StateStep(a) => faults' = faults
  BY DEF StateStep, SetComponent, StartProcess, ResumeProcess, LeaveProcess, RefuseState, data, bounds
<1>4. JobStep(a) => faults' = faults
  BY DEF JobStep, RunJob, DbComplete, DbDiscard, DbDiscardEach, FailJob, data, bounds
<1>. QED
  BY <1>1, <1>2, <1>3, <1>4 DEF Step

\* A step of the one operation, or an operation that begins
LEMMA SerialStays ==
  ASSUME TypeOK, NEW a \in Actor, Stays(a), \A b \in Actor \ {a} : calls'[b] = <<>>
  PROVE  SerialInv'
<1>1. ASSUME calls'[a] = <<>>
      PROVE  Law({}, status', procStatus', completing_ok')
  <2>1. Sound(<<>>, status', procStatus', completing_ok')
    BY <1>1 DEF Stays
  <2>2. ~Vain(<<>>, status', procStatus', completing_ok') /\ ~Launch(<<>>, status', procStatus', completing_ok')
    BY DEF Vain, Launch
  <2>3. ~Boot(<<>>, status', procStatus', completing_ok')
    BY DEF Boot
  <2>. QED
    BY <2>1, <2>2, <2>3, NothingLeft DEF Sound
<1>. QED
  BY <1>1 DEF SerialInv, Quiescent, Idle, Stays

\* The only operation that begins finds nothing under way.
LEMMA QuietBegin ==
  ASSUME MaxBusy = 1, IsFiniteSet(Actor), NEW a \in Actor, NEW s, Begin(a, s)
  PROVE  Quiescent
<1> DEFINE busy == {b \in Actor : ~Idle(b)}
<1>1. IsFiniteSet(busy) /\ Cardinality(busy) \in Nat
  <2>1. busy \subseteq Actor
    OBVIOUS
  <2> QED BY <2>1, FS_Subset, FS_CardinalityType
<1>2. Cardinality(busy) < 1
  BY DEF Begin
<1>3. busy = {}
  <2> HIDE DEF busy
  <2>1. Cardinality(busy) = 0
    BY <1>1, <1>2
  <2> QED BY <1>1, <2>1, FS_EmptySet
<1> QED
  BY <1>3 DEF Quiescent

\* What holds between two operations when one begins
LEMMA BeginsAlone ==
  ASSUME MaxBusy = 1, IsFiniteSet(Actor), TypeOK, SerialInv, faults = 0,
         NEW a \in Actor, NEW s, Begin(a, s)
  PROVE  Now /\ \A b \in Actor \ {a} : calls'[b] = <<>>
<1>1. Quiescent
  BY QuietBegin
<1>. QED
  BY <1>1, Begun DEF SerialInv, Now, Quiescent, Idle

\* Every step keeps SerialInv.
LEMMA NextSerial ==
  ASSUME OneByOne, TypeOK, Stacks, OneAtATime, SerialInv, [Next]_vars
  PROVE  SerialInv'
<1>. SUFFICES ASSUME faults' = 0 PROVE SerialInv'
  BY DEF SerialInv
<1>0. /\ TasksLast /\ Rooted /\ {"cancelled", "completed"} \cap Outcomes = {}
      /\ MaxBusy = 1 /\ IsFiniteSet(Actor) /\ faults \in Nat
  BY DEF OneByOne, TypeOK
<1>1. ASSUME faults = 0, UNCHANGED <<status, procStatus, completing_ok, calls>>
      PROVE  SerialInv'
  BY <1>1 DEF SerialInv, Quiescent, Idle
<1>2. ASSUME NEW a \in Actor, Step(a) PROVE SerialInv'
  <2>1. calls[a] # <<>> /\ \A b \in Actor \ {a} : calls'[b] = calls[b]
    BY <1>2, StepMoves
  <2>2. faults = 0
    BY <1>2, StepFaults
  <2>3. Held(a) /\ \A b \in Actor \ {a} : calls'[b] = <<>>
    BY <2>1, <2>2 DEF SerialInv, Held, OneAtATime, Idle
  <2>4. Stays(a)
    BY <1>0, <1>2, <2>3, StepStays
  <2>. QED
    BY <2>3, <2>4, SerialStays
<1>3. ASSUME NEW a \in Actor PROVE ~FailState(a) /\ ~Crash(a)
  BY <1>0 DEF FailState, Crash
<1>4. ASSUME NEW a \in Actor, NEW s, Begin(a, s), faults = 0, Now => Stays(a) PROVE SerialInv'
  BY <1>0, <1>4, BeginsAlone, SerialStays
<1>5. ASSUME NEW a \in Actor, ProcessOperation(a) PROVE SerialInv'
  <2>1. \E s : Begin(a, s)
    BY <1>5 DEF ProcessOperation, op_activate_process, op_onhold_process, op_cancel_process, op_dismiss_process
  <2>2. faults = 0
    BY <1>5 DEF ProcessOperation, op_activate_process, op_onhold_process, op_cancel_process,
                op_dismiss_process, data, bounds
  <2>. QED
    BY <1>4, <1>5, <2>1, <2>2, ProcessOperationStays
<1>6. ASSUME NEW a \in Actor, NEW t \in Task, TaskOperation(a, t) \/ convert_files_done(a, t)
      PROVE  SerialInv'
  <2>1. \E s : Begin(a, s)
    BY <1>6 DEF TaskOperation, op_close_task, op_forward_task, op_refuse_task, convert_files_done
  <2>2. faults = 0
    BY <1>6 DEF TaskOperation, op_close_task, op_forward_task, op_refuse_task, convert_files_done,
                data, bounds
  <2>. QED
    BY <1>0, <1>4, <1>6, <2>1, <2>2, TaskOperationStays
<1>7. ASSUME NEW a \in Actor, NEW t \in System, convert_files_failed(a, t) PROVE SerialInv'
  <2>1. faults = 0 /\ UNCHANGED <<status, procStatus, completing_ok>>
    BY <1>7 DEF convert_files_failed, bounds, procVars
  <2>2. CASE status[t] = "EXECUTION"
    <3>1. Begin(a, <<Do("cancel_task", t, None)>>) /\ t \in Task
      BY <1>7, <2>2 DEF convert_files_failed, System, Task, TaskKind
    <3>. QED
      BY <1>0, <1>4, <2>1, <2>2, <3>1, ConversionFailedStays
  <2>3. CASE status[t] # "EXECUTION"
    BY <1>1, <1>7, <2>1, <2>3 DEF convert_files_failed
  <2>. QED
    BY <2>2, <2>3
<1>8. ASSUME NEW a \in Actor, NEW t \in System, TakeJob(a, t) PROVE SerialInv'
  <2>1. faults = 0 /\ UNCHANGED <<status, procStatus, completing_ok>>
    BY <1>8 DEF TakeJob, bounds, procVars
  <2>2. CASE UNCHANGED calls
    BY <1>1, <2>1, <2>2
  <2>3. ASSUME procStatus = "EXECUTION",
               \/ Begin(a, <<Set(Root, "PAUSED"), Do("except_mq", t, None)>>)
               \/ Begin(a, <<Do("run_job", t, None), Do("except_job", t, None), Do("except_mq", t, None)>>)
        PROVE  SerialInv'
    BY <1>4, <2>1, <2>3, TakeJobStays
  <2>. QED
    BY <1>8, <2>2, <2>3 DEF TakeJob
<1>9. ASSUME NEW t \in System, RestartJob(t) PROVE SerialInv'
  BY <1>1, <1>9 DEF RestartJob, bounds, procVars
<1>10. CASE UNCHANGED vars
  BY <1>1, <1>10 DEF vars
<1>11. System \subseteq Task /\ Session \subseteq Actor /\ Worker \subseteq Actor /\ Acs \subseteq Actor
  BY DEF System, Task, TaskKind, Actor
<1>. QED
  BY <1>2, <1>3, <1>5, <1>6, <1>7, <1>8, <1>9, <1>10, <1>11 DEF Next, Callback

\* The inductive invariant: that of Order_proofs, one actor at a time, and the law
\* above
SInv == IInv /\ OneAtATime /\ Fresh /\ SerialInv

\* It holds at first, and every step keeps it.
LEMMA InitSInv == OneByOne /\ Init => SInv
<1>. SUFFICES ASSUME OneByOne, Init PROVE SInv
  OBVIOUS
<1>1. IInv
  BY InitIInv
<1>2. OneAtATime /\ Fresh
  BY LightTuples DEF Init, Fresh, OneAtATime, Idle, Actor
<1>3. Law({}, status, procStatus, completing_ok)
  <2>1. \A c \in Comp : status[c] = "NEW"
    BY DEF Init
  <2>2. procStatus = "NEW" /\ completing_ok = TRUE
    BY DEF Init
  <2>3. Law({}, status, "EXECUTION", TRUE)
    BY <2>1, ResetLaw
  <2>4. Law({}, status, "NEW", TRUE)
    <3>1. Winding({}, status, "NEW", TRUE) => Winding({}, status, "EXECUTION", TRUE)
      BY DEF Winding, Ended
    <3>2. WindsUp({}, status, "NEW", TRUE)
      BY <2>3, <3>1 DEF Law, WindsUp
    <3>3. EndedWell(status, "NEW", TRUE)
      BY DEF EndedWell
    <3>. QED
      BY <2>3, <3>2, <3>3 DEF Law
  <2>. QED
    BY <2>2, <2>4
<1>4. \A a \in Actor : Idle(a)
  BY DEF Init, Idle
<1>. QED
  BY <1>1, <1>2, <1>3, <1>4 DEF SInv, SerialInv

LEMMA NextSInv == OneByOne /\ SInv /\ [Next]_vars => SInv'
<1>. SUFFICES ASSUME OneByOne, SInv, [Next]_vars PROVE SInv'
  OBVIOUS
<1>1. "completed" \notin Outcomes /\ TasksLast /\ MaxBusy = 1 /\ IsFiniteSet(Actor)
  BY DEF OneByOne
<1>2. TypeOK /\ Stacks /\ OneAtATime /\ Fresh /\ SerialInv /\ IInv
  BY DEF SInv, IInv
<1>3. Alone
  BY <1>2, NoDisturbance
<1>4. IInv'
  BY <1>1, <1>2, <1>3, NextOrdered
<1>. QED
  BY <1>1, <1>2, <1>4, NextAlone, NextFresh, NextSerial DEF SInv

\* While nothing is under way
LEMMA AtRest ==
  ASSUME SInv, Whole
  PROVE  Law({}, status, procStatus, completing_ok) /\ status \in [Comp -> CompStatus]
         /\ \A c : ~Doomed(c, {})
BY DEF SInv, IInv, TypeOK, SerialInv, Whole, Doomed

\* What it says of a process that has ended,
LEMMA CleanEnd == OneByOne /\ SInv => EndedClean
<1>. SUFFICES ASSUME OneByOne, SInv, Whole
              PROVE  /\ procStatus \in Ended => Pending(Main) = {}
                     /\ procStatus \in {"COMPLETED", "DISCARDED"} => Pending(Comp) = {}
  BY DEF EndedClean
<1>1. Law({}, status, procStatus, completing_ok) /\ status \in [Comp -> CompStatus]
      /\ (\A c : ~Doomed(c, {})) /\ Rooted
  BY AtRest DEF OneByOne
<1>2. ASSUME procStatus \in Ended PROVE \A c \in Components(Root) : ~Open(c, status)
  <2>1. Winding({}, status, procStatus, completing_ok)
    BY <1>2 DEF Winding
  <2>. QED
    BY <1>1, <2>1 DEF Law, WindsUp
<1>3. ASSUME procStatus \in Ended PROVE Pending(Main) = {}
  <2>1. \A c \in Main : ~Open(c, status)
    BY <1>1, <1>2, <1>3, MainOver DEF Law
  <2>. QED
    BY <2>1 DEF Pending, Open
<1>4. ASSUME procStatus \in {"COMPLETED", "DISCARDED"} PROVE Pending(Comp) = {}
  <2>1. ~Open(Completion, status)
    BY <1>1, <1>4 DEF Law, EndedWell, Gone, Open, Terminal
  <2>2. \A c \in Comp : ~Open(c, status)
    BY <1>1, <1>2, <1>4, <2>1, AllOver DEF Law, Ended
  <2>. QED
    BY <2>2 DEF Pending, Open
<1>. QED
  BY <1>3, <1>4

\* of components that run,
LEMMA RunsNested == OneByOne /\ SInv => Nested
<1>. SUFFICES ASSUME OneByOne, SInv, Whole, NEW c \in Comp, status[c] = "EXECUTION", Parent[c] # Root
              PROVE  status[Parent[c]] = "EXECUTION"
  BY DEF Nested
<1>1. Goes(Parent[c], status)
  BY AtRest, RunningUp
<1>2. Parent[c] \in Comp
  BY TreeAssumption
<1>. QED
  BY <1>1, <1>2 DEF Goes

\* What holds at any time, whatever the pending calls are
LEMMA AnyTime ==
  ASSUME SInv, faults = 0
  PROVE  MainGone(status) /\ (procStatus = "COMPLETED" => completing_ok)
<1>1. status \in [Comp -> CompStatus]
  BY DEF SInv, IInv, TypeOK
<1>2. ASSUME NEW K, Law(K, status, procStatus, completing_ok)
      PROVE  MainGone(status) /\ (procStatus = "COMPLETED" => completing_ok)
  BY <1>2 DEF Law, EndedWell
<1>3. CASE Quiescent
  BY <1>2, <1>3 DEF SInv, SerialInv
<1>4. ASSUME NEW s, Sound(s, status, procStatus, completing_ok)
      PROVE  MainGone(status) /\ (procStatus = "COMPLETED" => completing_ok)
  <2>1. CASE Vain(s, status, procStatus, completing_ok)
    BY <1>2, <2>1 DEF Vain
  <2>2. CASE Boot(s, status, procStatus, completing_ok)
    BY <1>2, <2>2 DEF Boot
  <2>3. CASE Normal(s, status, procStatus, completing_ok)
    BY <1>2, <2>3 DEF Normal
  <2>4. CASE Launch(s, status, procStatus, completing_ok)
    <3>. DEFINE c == Head(s).obj
                su == [status EXCEPT ![c] = "EXECUTION"]
    <3>1. c \in Comp /\ status[c] = "NEW" /\ Normal(Tail(s), su, procStatus, completing_ok)
      BY <2>4 DEF Launch
    <3>2. MainGone(su) /\ (procStatus = "COMPLETED" => completing_ok)
      BY <3>1 DEF Normal, Law, EndedWell
    <3>. HIDE DEF c
    <3>3. su[c] = "EXECUTION" /\ \A d \in Comp : d # c => su[d] = status[d]
      BY <1>1, <3>1
    <3>. HIDE DEF su
    <3>4. MainGone(status)
      BY <3>1, <3>2, <3>3, TreeAssumption DEF MainGone, Open, Main
    <3>. QED
      BY <3>2, <3>4
  <2>. QED
    BY <1>4, <2>1, <2>2, <2>3, <2>4 DEF Sound
<1>5. CASE ~Quiescent
  BY <1>4, <1>5 DEF SInv, SerialInv, Quiescent
<1>. QED
  BY <1>3, <1>5

\* and of the completion group
LEMMA CompletionWaits == OneByOne /\ SInv => CompletionLast
BY AnyTime DEF CompletionLast, MainGone, Pending, Open

\* When close_process, cancel_process or dismiss_process has returned, and
\* nothing was cut off, nothing that belongs to the process is new or runs.
THEOREM EndsClean == OneByOne /\ Spec => []EndedClean
<1>. SUFFICES ASSUME OneByOne PROVE Spec => []EndedClean
  OBVIOUS
<1>1. Init => SInv
  BY InitSInv
<1>2. SInv /\ [Next]_vars => SInv'
  BY NextSInv
<1>3. SInv => EndedClean
  BY CleanEnd
<1>. QED
  BY <1>1, <1>2, <1>3, PTL DEF Spec

\* When close_process, cancel_process or dismiss_process has returned, and
\* nothing was cut off, every component runs in a group that runs.
THEOREM RunsInRunning == OneByOne /\ Spec => []Nested
<1>. SUFFICES ASSUME OneByOne PROVE Spec => []Nested
  OBVIOUS
<1>1. Init => SInv
  BY InitSInv
<1>2. SInv /\ [Next]_vars => SInv'
  BY NextSInv
<1>3. SInv => Nested
  BY RunsNested
<1>. QED
  BY <1>1, <1>2, <1>3, PTL DEF Spec

\* At any time, also in the middle of an operation, the completion group runs
\* only when nothing else is new or runs: Schedule.next of the process starts it
\* last, and no late close or cancel opens a component again.
THEOREM CompletionComesLast == OneByOne /\ Spec => []CompletionLast
<1>. SUFFICES ASSUME OneByOne PROVE Spec => []CompletionLast
  OBVIOUS
<1>1. Init => SInv
  BY InitSInv
<1>2. SInv /\ [Next]_vars => SInv'
  BY NextSInv
<1>3. SInv => CompletionLast
  BY CompletionWaits
<1>. QED
  BY <1>1, <1>2, <1>3, PTL DEF Spec

\* A process that a cancel or a refusal has marked as not completing well never
\* ends as completed, as long as no operation was cut off.
THEOREM CancelRemembered == OneByOne /\ Spec => [](faults = 0 => CancelSticks)
<1>. SUFFICES ASSUME OneByOne PROVE Spec => [](faults = 0 => CancelSticks)
  OBVIOUS
<1>1. Init => SInv
  BY InitSInv
<1>2. SInv /\ [Next]_vars => SInv'
  BY NextSInv
<1>3. SInv => (faults = 0 => CancelSticks)
  BY AnyTime DEF CancelSticks
<1>. QED
  BY <1>1, <1>2, <1>3, PTL DEF Spec
=============================================================================
