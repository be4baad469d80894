---------------------------- MODULE Alive_proofs ----------------------------
(***************************************************************************)
(* A running process always has a running task: for every schema in which  *)
(* the groups that are reached have components, when operations run one    *)
(* after the other.                                                        *)
(*                                                                         *)
(* Between operations every group that runs has a component that runs, and *)
(* so has the process; where the tree of components ends, the component    *)
(* that runs is a task (Descent).  While an operation is under way, this   *)
(* holds only with the help of the stack: a group whose components have    *)
(* all ended is cared for if a call is going to start something in it, to  *)
(* end it or to tell it (Attends), or if an exception is on its way to the *)
(* call that waits for it (Attended).  Minds adds what a step needs to     *)
(* know to find the next call in charge: which calls wait for the one      *)
(* above them (Linked), that a paused process is at rest (Quiet), that     *)
(* components are activated only where nothing has ended (Skips) and that  *)
(* a parallel group starts all of its components (Parallels).              *)
(*                                                                         *)
(* SerialInv says that what is on the stack may be done; AliveInv says     *)
(* that what has to be done is on the stack.                               *)
(***************************************************************************)
EXTENDS Serial_proofs

(* Who goes on with a group                                                  *)

\* A running component that nothing is going to end
Live(c, K, st) == st[c] = "EXECUTION" /\ ~Doomed(c, K) /\ ~Ending(c, K)

\* f goes on with p: starts something in it, ends it or tells it
Attends(f, p) ==
  \/ f.fn = "activate_task" /\ f.obj \in Comp /\ p = Parent[f.obj]
  \/ f.fn \in {"activate_each", "activate_first", "end_completion"} \cup Tell /\ p = f.obj
  \/ /\ f.fn \in {"activate_tasks", "activate_next", "end_process", "cancel_process",
                   "cancel_subtasks_and_close"}
     /\ p = Root
  \/ f.fn = "set" /\ f.obj = Root /\ f.arg \in Ended /\ p = Root

\* An exception comes to the object of the call that waits for it.
Attended(p, s) ==
  \E i \in 1 .. Len(s) :
    \/ Attends(s[i], p)
    \/ s[i].fn = "raise" /\ i < Len(s) /\ s[i + 1].obj = p

\* A component of p goes on, or a call does
Cared(p, s, st) ==
  \/ \E c \in Comp : Parent[c] = p /\ Live(c, Frames(s), st)
  \/ Attended(p, s)

\* Calls below which another one waits for what becomes of them
Upper == {"activate_task", "raise", "except_activate", "activate_each", "activate_first",
          "except_first", "except_pass", "activate_next", "except_next", "activate_tasks"}

\* A call u directly above f
Link(u, f) ==
  /\ u.fn \in {"activate_task", "except_activate"} =>
       Parent[u.obj] = f.obj /\ (f.fn = "except_cancelled" => u.obj = First(Root))
  /\ u.fn = "raise" /\ u.arg = "TaskClosed" => f.fn \in {"except_end", "except_next"}
  /\ u.fn = "except_pass" => f.fn = "activate_each" /\ f.obj = u.obj

\* All neighbours are linked, and nothing at the bottom waits for others.
Linked(s) ==
  /\ \A i \in 1 .. Len(s) - 1 : Link(s[i], s[i + 1])
  /\ s # <<>> => s[Len(s)].fn \notin Upper

\* Calls a paused process may find: a worker is finishing, or a user resumes
Idling == {"fail_job", "activate_process", "except_cancelled"} \cup Worked

\* What the process has to do with its calls while it runs or is paused
Proper(f) ==
  /\ f.fn \notin {"dismiss_process", "dismiss_completion"}
  /\ f.fn = "set" /\ f.obj = Root => f.arg \in {"COMPLETED", "FAILED", "PAUSED"}
  /\ f.fn \in {"except_next", "except_end", "except_cancelled"} => f.obj = Root

\* A paused process is at rest.
Quiet(K, ps) ==
  /\ ps = "PAUSED" => \A f \in K : f.fn \in Idling
  /\ \A f \in K : Proper(f)

\* Groups that may be without components: the completion group, and those at
\* the top that are not activated with the process
Hollow(g) == g = Completion \/ (Parent[g] = Root /\ g # First(Root))

\* Every other group has components.
Filled == \A g \in Comp \ Task : Components(g) = {} => Hollow(g)

\* Calls that wait for what is being activated
Starters == {"activate_task", "activate_each", "activate_first", "except_activate",
             "except_pass", "except_first"}

\* While components are activated those that end at once are skipped.
Skips(K, st) ==
  /\ \A f \in K : f.fn = "activate_each" =>
       \A c \in Components(f.obj) : st[c] \notin {"COMPLETED", "REJECTED"}
  /\ (\E f \in K : f.fn \in Starters) => \A f \in K : f.fn = "set" => f.arg = "DISCARDED"
  /\ \A f \in K : f.fn = "activate_first" => f.arg \in Comp \/ Hollow(f.obj)

\* The components of a parallel group are started all at once.
Parallels(K, st) ==
  \A g \in Comp : Kind[g] = "parallel" /\ Live(g, K, st) =>
    \A c \in Components(g) : st[c] = "NEW" => Doomed(c, K) \/ ToStart(c, K)

\* Somebody goes on with every group that runs, and with the process.
Tended(s, st) ==
  /\ \A g \in Comp \ Task : Live(g, Frames(s), st) => Cared(g, s, st)
  /\ Cared(Root, s, st)

\* Each group that runs is cared for: the stack is in order, and somebody goes
\* on with every group and with the process.
Minds(s, st, ps) ==
  /\ Linked(s) /\ Quiet(Frames(s), ps) /\ Skips(Frames(s), st) /\ Parallels(Frames(s), st)
  /\ Tended(s, st)

\* It matters while the process runs or is paused.
Care(s, st, ps) == ps \in {"EXECUTION", "PAUSED"} => Minds(s, st, ps)

\* The transition on top of the stack will be refused
Late(s, st) ==
  /\ s # <<>> /\ Head(s).fn = "set" /\ Head(s).obj \in Comp
  /\ Head(s).arg \in {"COMPLETED", "REJECTED"} /\ st[Head(s).obj] # "EXECUTION"

\* It starts the process or a component.
Beginning(s) == s # <<>> /\ Head(s).fn = "set" /\ Head(s).arg = "EXECUTION"

\* Care, with what becomes of the transition on top
Alive(s, st, ps) ==
  /\ Late(s, st) => ps # "PAUSED" /\ Care(Tail(Tail(s)), st, ps)
  /\ Beginning(s) /\ Head(s).obj \in Comp =>
       Care(Tail(s), [st EXCEPT ![Head(s).obj] = "EXECUTION"], ps)
  /\ Beginning(s) /\ Head(s).obj = Root =>
       IF Len(s) = 1 THEN ps = "PAUSED" /\ Care(<<>>, st, ps) ELSE ps = "NEW"
  /\ ~Late(s, st) /\ ~Beginning(s) => Care(s, st, ps)

\* Care between operations; while one is under way, what Alive says of it
AliveInv ==
  faults = 0 =>
    /\ Quiescent => Care(<<>>, status, procStatus)
    /\ \A a \in Actor : ~Idle(a) => Alive(calls[a], status, procStatus)

-----------------------------------------------------------------------------
\* f, on top of r, goes on with p
Waits(f, r, p) ==
  Attends(f, p) \/ (f.fn = "raise" /\ r # <<>> /\ Head(r).obj = p)

\* What calls go on with
Holder == Comp \cup {Root}

\* A linked stack on what is below it, and back
LEMMA LinkedPush ==
  ASSUME NEW r \in Seq(Call), Linked(r), NEW f \in Call,
         r # <<>> => Link(f, Head(r)), r = <<>> => f.fn \notin Upper
  PROVE  Linked(<<f>> \o r)
<1> DEFINE s == <<f>> \o r
<1>1. /\ s \in Seq(Call) /\ Len(s) = Len(r) + 1 /\ s[1] = f
      /\ \A i \in 1 .. Len(r) : s[i + 1] = r[i]
  BY Push
<1>2. r # <<>> => Head(r) = r[1] /\ Len(r) >= 1
  OBVIOUS
<1>3. Len(r) \in Nat
  OBVIOUS
<1> HIDE DEF s
<1>4. ASSUME NEW i \in 1 .. Len(s) - 1
      PROVE  Link(s[i], s[i + 1])
  <2>1. CASE i = 1
    <3>1. r # <<>> /\ s[2] = r[1]
      BY <1>1, <1>3, <2>1
    <3> QED BY <1>1, <1>2, <2>1, <3>1
  <2>2. CASE i # 1
    <3>1. i - 1 \in 1 .. Len(r) - 1 /\ i - 1 \in 1 .. Len(r) /\ i \in 1 .. Len(r)
      BY <1>1, <1>3, <2>2
    <3>2. s[i] = r[i - 1] /\ s[i + 1] = r[i]
      <4>1. s[(i - 1) + 1] = r[i - 1]
        BY <1>1, <3>1
      <4>2. (i - 1) + 1 = i
        OBVIOUS
      <4> QED BY <1>1, <3>1, <4>1, <4>2
    <3>3. Link(r[i - 1], r[(i - 1) + 1])
      BY <3>1 DEF Linked
    <3> QED BY <3>2, <3>3
  <2> QED BY <2>1, <2>2
<1>5. s[Len(s)].fn \notin Upper
  <2>1. CASE r = <<>>
    BY <1>1, <2>1
  <2>2. CASE r # <<>>
    <3>1. Len(r) \in 1 .. Len(r)
      BY <1>2, <1>3, <2>2
    <3>2. s[Len(s)] = r[Len(r)]
      BY <1>1, <3>1
    <3> QED BY <2>2, <3>2 DEF Linked
  <2> QED BY <2>1, <2>2
<1> QED
  BY <1>4, <1>5 DEF Linked, s

\* What is below the first call of a linked stack
LEMMA LinkedTop ==
  ASSUME NEW s \in Seq(Call), s # <<>>, Linked(s)
  PROVE  /\ Linked(Tail(s))
         /\ Tail(s) # <<>> => Link(Head(s), Head(Tail(s)))
         /\ Tail(s) = <<>> => Head(s).fn \notin Upper
<1> DEFINE r == Tail(s)
<1>1. /\ r \in Seq(Call) /\ Len(s) = Len(r) + 1 /\ Head(s) = s[1] /\ Len(r) \in Nat
      /\ \A i \in 1 .. Len(r) : r[i] = s[i + 1]
  <2>1. r \in Seq(Call) /\ Len(r) = Len(s) - 1 /\ \A i \in 1 .. Len(r) : r[i] = s[i + 1]
    BY HeadTailProperties
  <2>2. Len(s) \in Nat /\ Len(s) >= 1 /\ Head(s) = s[1]
    BY EmptySeq
  <2> HIDE DEF r
  <2> QED BY <2>1, <2>2
<1> HIDE DEF r
<1>2. r # <<>> => Head(r) = r[1] /\ Len(r) >= 1
  BY <1>1
<1>3. r = <<>> => Len(r) = 0
  OBVIOUS
<1>4. ASSUME NEW i \in 1 .. Len(r) - 1
      PROVE  Link(r[i], r[i + 1])
  <2>1. r[i] = s[i + 1] /\ r[i + 1] = s[(i + 1) + 1] /\ i + 1 \in 1 .. Len(s) - 1
    BY <1>1
  <2> QED BY <2>1 DEF Linked
<1>5. r # <<>> => r[Len(r)].fn \notin Upper
  <2> SUFFICES ASSUME r # <<>> PROVE r[Len(r)].fn \notin Upper
    OBVIOUS
  <2>1. r[Len(r)] = s[Len(s)]
    BY <1>1, <1>2
  <2> QED BY <2>1 DEF Linked
<1>6. r # <<>> => Link(Head(s), Head(r))
  <2> SUFFICES ASSUME r # <<>> PROVE Link(Head(s), Head(r))
    OBVIOUS
  <2>1. 1 \in 1 .. Len(s) - 1 /\ Head(r) = s[2] /\ 1 + 1 = 2
    BY <1>1, <1>2
  <2>2. Link(s[1], s[1 + 1])
    BY <2>1 DEF Linked
  <2> QED BY <1>1, <2>1, <2>2
<1>7. r = <<>> => Head(s).fn \notin Upper
  <2> SUFFICES ASSUME r = <<>> PROVE Head(s).fn \notin Upper
    OBVIOUS
  <2>1. Head(s) = s[Len(s)]
    BY <1>1, <1>3
  <2> QED BY <2>1 DEF Linked
<1> QED
  BY <1>4, <1>5, <1>6, <1>7 DEF Linked, r

\* Who goes on with p: the first call, or one of the others
LEMMA AttendedPush ==
  ASSUME NEW r \in Seq(Call), NEW f \in Call, NEW p
  PROVE  Attended(p, <<f>> \o r) <=> Waits(f, r, p) \/ Attended(p, r)
<1> DEFINE s == <<f>> \o r
<1>1. /\ s \in Seq(Call) /\ Len(s) = Len(r) + 1 /\ s[1] = f
      /\ \A i \in 1 .. Len(r) : s[i + 1] = r[i]
  BY Push
<1>2. Len(r) \in Nat /\ (r # <<>> => Head(r) = r[1] /\ Len(r) >= 1) /\ (r = <<>> => Len(r) = 0)
  OBVIOUS
<1> HIDE DEF s
<1> DEFINE At1(q, i) == \/ Attends(q[i], p)
                        \/ q[i].fn = "raise" /\ i < Len(q) /\ q[i + 1].obj = p
<1>3. At1(s, 1) <=> Waits(f, r, p)
  <2>1. 1 < Len(s) <=> r # <<>>
    BY <1>1, <1>2
  <2>2. r # <<>> => s[1 + 1] = Head(r)
    <3> SUFFICES ASSUME r # <<>> PROVE s[1 + 1] = Head(r)
      OBVIOUS
    <3>1. 1 \in 1 .. Len(r)
      BY <1>2
    <3> QED BY <1>1, <1>2, <3>1
  <2> QED BY <1>1, <2>1, <2>2 DEF Waits
<1>4. ASSUME NEW i \in 1 .. Len(r) PROVE At1(s, i + 1) <=> At1(r, i)
  <2>1. s[i + 1] = r[i] /\ (i + 1 < Len(s) <=> i < Len(r))
    BY <1>1, <1>2
  <2>2. i < Len(r) => s[(i + 1) + 1] = r[i + 1]
    <3> SUFFICES ASSUME i < Len(r) PROVE s[(i + 1) + 1] = r[i + 1]
      OBVIOUS
    <3>1. i + 1 \in 1 .. Len(r)
      BY <1>2
    <3> QED BY <1>1, <3>1
  <2> QED BY <2>1, <2>2
<1>5. Attended(p, s) <=> \E i \in 1 .. Len(s) : At1(s, i)
  BY DEF Attended
<1>6. Attended(p, r) <=> \E i \in 1 .. Len(r) : At1(r, i)
  BY DEF Attended
<1> HIDE DEF At1
<1>7. ASSUME Attended(p, s) PROVE Waits(f, r, p) \/ Attended(p, r)
  <2>1. PICK i \in 1 .. Len(s) : At1(s, i)
    BY <1>5, <1>7
  <2>2. CASE i = 1
    BY <1>3, <2>1, <2>2
  <2>3. CASE i # 1
    <3>1. i - 1 \in 1 .. Len(r) /\ (i - 1) + 1 = i
      BY <1>1, <1>2, <2>3
    <3>2. At1(r, i - 1)
      BY <1>4, <2>1, <3>1
    <3> QED BY <1>6, <3>1, <3>2
  <2> QED BY <2>2, <2>3
<1>8. ASSUME Waits(f, r, p) PROVE Attended(p, s)
  <2>1. 1 \in 1 .. Len(s)
    BY <1>1, <1>2
  <2> QED BY <1>3, <1>5, <1>8, <2>1
<1>9. ASSUME Attended(p, r) PROVE Attended(p, s)
  <2>1. PICK i \in 1 .. Len(r) : At1(r, i)
    BY <1>6, <1>9
  <2>2. i + 1 \in 1 .. Len(s)
    BY <1>1, <1>2
  <2> QED BY <1>4, <1>5, <2>1, <2>2
<1> QED
  BY <1>7, <1>8, <1>9 DEF s

\* Without calls nothing is attended.
LEMMA NothingAttended == \A p : ~Attended(p, <<>>) /\ Linked(<<>>)
<1>1. Len(<<>>) = 0
  OBVIOUS
<1>2. \A i \in 1 .. 0 : FALSE
  OBVIOUS
<1> QED
  BY <1>1, <1>2 DEF Attended, Linked

\* The calls of F on r make up s, and those of N on r make up t; B and A have
\* those they go on with.
Based(s, F, B, r) ==
  /\ Frames(s) = F \cup Frames(r)
  /\ \A p \in Holder : Attended(p, s) => p \in B \/ Attended(p, r)

\* t: the calls of N on r. Somebody goes on with A, and with all that r goes on
\* with.
Piled(t, N, A, r) ==
  /\ t \in Seq(Call) /\ Linked(t) /\ Frames(t) = N \cup Frames(r)
  /\ \A p \in Holder : p \in A \/ Attended(p, r) => Attended(p, t)

\* A call that may be made on r
Linkable(x, r) ==
  /\ x \in Call
  /\ r # <<>> => Link(x, Head(r))
  /\ r = <<>> => x.fn \notin Upper

\* What a stack with f on top goes on with
LEMMA BaseOne ==
  ASSUME NEW r \in Seq(Call), NEW f \in Call
  PROVE  Based(<<f>> \o r, {f}, {p \in Holder : Waits(f, r, p)}, r)
<1> DEFINE s == <<f>> \o r
<1>1. Frames(s) = {f} \cup Frames(r)
  BY FramesPush
<1>2. \A p \in Holder : Attended(p, s) => Waits(f, r, p) \/ Attended(p, r)
  BY AttendedPush
<1> HIDE DEF s
<1>3. Based(s, {f}, {p \in Holder : Waits(f, r, p)}, r)
  BY <1>1, <1>2 DEF Based
<1> QED
  BY <1>3 DEF s

\* One more call on the others
LEMMA PileOne ==
  ASSUME NEW t, NEW N, NEW A, NEW r, Piled(t, N, A, r), NEW x, Linkable(x, t)
  PROVE  Piled(<<x>> \o t, {x} \cup N, A \cup {p \in Holder : Waits(x, t, p)}, r)
<1> DEFINE s == <<x>> \o t
<1>1. t \in Seq(Call) /\ x \in Call
  BY DEF Piled, Linkable
<1>2. s \in Seq(Call) /\ Frames(s) = {x} \cup Frames(t)
  BY <1>1, FramesPush, Push
<1>3. Linked(s)
  BY <1>1, LinkedPush DEF Piled, Linkable
<1>4. \A p \in Holder : Attended(p, s) <=> Waits(x, t, p) \/ Attended(p, t)
  BY <1>1, AttendedPush
<1> HIDE DEF s
<1>5. \A p \in Holder : p \in A \cup {q \in Holder : Waits(x, t, q)} \/ Attended(p, r) => Attended(p, s)
  BY <1>4 DEF Piled
<1>6. Frames(s) = ({x} \cup N) \cup Frames(r)
  BY <1>2 DEF Piled
<1>7. Piled(s, {x} \cup N, A \cup {p \in Holder : Waits(x, t, p)}, r)
  BY <1>2, <1>3, <1>5, <1>6 DEF Piled
<1> QED
  BY <1>7 DEF s

\* No call on r
LEMMA PileNone ==
  ASSUME NEW r \in Seq(Call), Linked(r)
  PROVE  Piled(r, {}, {}, r)
BY DEF Piled

\* One call, two and three calls
LEMMA Pile1 ==
  ASSUME NEW r \in Seq(Call), Linked(r), NEW x, Linkable(x, r)
  PROVE  Piled(<<x>> \o r, {x}, {p \in Holder : Waits(x, r, p)}, r)
<1>1. Piled(<<x>> \o r, {x} \cup {}, {} \cup {p \in Holder : Waits(x, r, p)}, r)
  BY PileNone, PileOne
<1>2. {x} \cup {} = {x} /\ {} \cup {p \in Holder : Waits(x, r, p)} = {p \in Holder : Waits(x, r, p)}
  OBVIOUS
<1> QED
  BY <1>1, <1>2

\* Two calls on r
LEMMA PileTwo ==
  ASSUME NEW r \in Seq(Call), Linked(r), NEW y, Linkable(y, r), NEW x \in Call, Link(x, y),
         x.fn # "raise"
  PROVE  Piled(<<x, y>> \o r, {x, y}, {p \in Holder : Attends(x, p) \/ Waits(y, r, p)}, r)
<1> DEFINE t == <<y>> \o r
           C == {p \in Holder : Waits(y, r, p)}
           A == {p \in Holder : Attends(x, p) \/ Waits(y, r, p)}
           D == {p \in Holder : Waits(x, t, p)}
           N == {x, y}
<1>1. Piled(t, {y}, C, r)
  BY Pile1
<1>2. y \in Call
  BY DEF Linkable
<1>3. t # <<>> /\ Head(t) = y
  BY <1>2, Push
<1>4. <<x, y>> \o r = <<x>> \o t
  BY <1>2, Join
<1>5. {x} \cup {y} = N
  OBVIOUS
<1> HIDE DEF t, N
<1>6. Linkable(x, t)
  BY <1>3 DEF Linkable
<1>7. Piled(<<x>> \o t, {x} \cup {y}, C \cup D, r)
  BY <1>1, <1>6, PileOne
<1>8. C \cup D = A
  BY DEF Waits
<1> HIDE DEF A, C, D
<1>9. Piled(<<x>> \o t, N, A, r)
  BY <1>5, <1>7, <1>8
<1> QED
  BY <1>4, <1>9 DEF A, N

\* Three calls on r
LEMMA PileThree ==
  ASSUME NEW r \in Seq(Call), Linked(r), NEW z, Linkable(z, r), NEW y \in Call, Link(y, z),
         NEW x \in Call, Link(x, y), x.fn # "raise", y.fn # "raise"
  PROVE  Piled(<<x, y, z>> \o r, {x, y, z},
               {p \in Holder : Attends(x, p) \/ Attends(y, p) \/ Waits(z, r, p)}, r)
<1> DEFINE t == <<y, z>> \o r
           C == {p \in Holder : Attends(y, p) \/ Waits(z, r, p)}
           A == {p \in Holder : Attends(x, p) \/ Attends(y, p) \/ Waits(z, r, p)}
           D == {p \in Holder : Waits(x, t, p)}
           M == {y, z}
           N == {x, y, z}
<1>1. Piled(t, M, C, r)
  BY PileTwo
<1>2. z \in Call
  BY DEF Linkable
<1>3. t = <<y>> \o (<<z>> \o r) /\ <<z>> \o r \in Seq(Call)
  BY <1>2, Join, Push
<1>4. t # <<>> /\ Head(t) = y
  BY <1>3, Push
<1>5. <<x, y, z>> \o r = <<x>> \o t
  BY <1>2, JoinTwo
<1>6. {x} \cup M = N
  OBVIOUS
<1> HIDE DEF t, N, M
<1>7. Linkable(x, t)
  BY <1>4 DEF Linkable
<1>8. Piled(<<x>> \o t, {x} \cup M, C \cup D, r)
  BY <1>1, <1>7, PileOne
<1>9. C \cup D = A
  BY DEF Waits
<1> HIDE DEF A, C, D
<1>10. Piled(<<x>> \o t, N, A, r)
  BY <1>6, <1>8, <1>9
<1> QED
  BY <1>5, <1>10 DEF A, N

\* What N has to do in the place of F, R being the calls below
Tends(F, N, A, B, R, st) ==
  /\ (\E f \in F : f.fn \notin Idling) /\ \A f \in F : f.fn # "set"
  /\ \A h \in N : Proper(h)
  /\ \A h \in N : h.fn = "activate_each" =>
       \A c \in Components(h.obj) : st[c] \notin {"COMPLETED", "REJECTED"}
  /\ \A h \in N : h.fn = "activate_first" => h.arg \in Comp \/ Hollow(h.obj)
  /\ (\E h \in N : h.fn \in Starters) =>
       (\E h \in F : h.fn \in Starters) \/ \A h \in R : h.fn # "set"
  /\ \A h \in N : h.fn = "set" /\ h.arg # "DISCARDED" =>
       \A g \in N \cup R : g.fn \notin Starters
  /\ \A c \in Comp : Open(c, st) /\ Doomed(c, F) => Doomed(c, N)
  /\ \A c \in Comp : st[c] = "NEW" /\ ToStart(c, F) => ToStart(c, N) \/ Doomed(c, N)
  /\ \A p \in Holder : p \in B =>
       \/ p \in A
       \/ p \in Comp /\ ~Live(p, N \cup R, st)
       \/ \E c \in Comp : Parent[c] = p /\ Live(c, N \cup R, st)
  /\ \A c \in Comp : st[c] = "EXECUTION" /\ ~Doomed(c, F) /\ (Doomed(c, N) \/ Ending(c, N)) =>
       \/ Parent[c] \in A
       \/ Parent[c] \in Comp /\ ~Live(Parent[c], N \cup R, st)

\* The calls of F are replaced by those of N: what the process goes on with is
\* gone on with, when what F went on with is gone on with, or is going to end.
LEMMA MindsSwap ==
  ASSUME NEW s, NEW t, NEW F, NEW N, NEW A, NEW B, NEW r, NEW st, NEW ps,
         Minds(s, st, ps), Based(s, F, B, r), Piled(t, N, A, r),
         Tends(F, N, A, B, Frames(r), st)
  PROVE  Minds(t, st, ps)
<1> DEFINE R == Frames(r)
           K == Frames(s)
           M == Frames(t)
<1>1. K = F \cup R /\ M = N \cup R /\ Linked(t)
  BY DEF Based, Piled
<1>2. /\ Quiet(K, ps) /\ Skips(K, st) /\ Parallels(K, st) /\ Tended(s, st)
  BY DEF Minds
<1>3. \A p \in Holder : Attended(p, s) => p \in B \/ Attended(p, r)
  BY DEF Based
<1>4. \A p \in Holder : p \in A \/ Attended(p, r) => Attended(p, t)
  BY DEF Piled
<1>5. \A c \in Comp : /\ Doomed(c, K) <=> Doomed(c, F) \/ Doomed(c, R)
                      /\ Ending(c, K) <=> Ending(c, F) \/ Ending(c, R)
                      /\ ToStart(c, K) <=> ToStart(c, F) \/ ToStart(c, R)
                      /\ Doomed(c, M) <=> Doomed(c, N) \/ Doomed(c, R)
                      /\ Ending(c, M) <=> Ending(c, N) \/ Ending(c, R)
                      /\ ToStart(c, M) <=> ToStart(c, N) \/ ToStart(c, R)
  BY <1>1, Joint
<1>6. \A c : ~Ending(c, F)
  BY DEF Ending, Tends
<1>0. Tends(F, N, A, B, R, st)
  OBVIOUS
<1> HIDE DEF R, K, M
<1>7. Quiet(M, ps)
  <2>1. PICK f \in F : f.fn \notin Idling /\ f.fn # "set"
    BY DEF Tends
  <2>2. f \in K
    BY <1>1
  <2>3. ps # "PAUSED"
    BY <1>2, <2>1, <2>2 DEF Quiet
  <2>6. \A h \in K : Proper(h)
    BY <1>2 DEF Quiet
  <2>8. \A h \in M : Proper(h)
    BY <1>0, <1>1, <2>6 DEF Tends
  <2> QED
    BY <2>3, <2>8 DEF Quiet
<1>8. Skips(M, st)
  <2>1. /\ \A h \in R : h.fn = "activate_each" =>
             \A c \in Components(h.obj) : st[c] \notin {"COMPLETED", "REJECTED"}
        /\ \A h \in R : h.fn = "activate_first" => h.arg \in Comp \/ Hollow(h.obj)
    BY <1>1, <1>2 DEF Skips
  <2>2. (\E h \in K : h.fn \in Starters) => \A h \in K : h.fn = "set" => h.arg = "DISCARDED"
    BY <1>2 DEF Skips
  <2>3. ASSUME NEW g \in M, g.fn \in Starters, NEW h \in M, h.fn = "set"
        PROVE  h.arg = "DISCARDED"
    <3>1. CASE h \in N
      <4> SUFFICES ASSUME h.arg # "DISCARDED" PROVE FALSE
        OBVIOUS
      <4>1. g \in N \cup R
        BY <1>1
      <4> QED BY <1>0, <2>3, <3>1, <4>1 DEF Tends
    <3>2. CASE h \in R
      <4>1. CASE g \in R
        BY <1>1, <2>2, <2>3, <3>2, <4>1
      <4>2. CASE g \in N
        <5>1. (\E x \in F : x.fn \in Starters) \/ \A x \in R : x.fn # "set"
          BY <1>0, <2>3, <4>2 DEF Tends
        <5>2. \E x \in K : x.fn \in Starters
          BY <1>1, <2>3, <3>2, <5>1
        <5> QED BY <1>1, <2>2, <2>3, <3>2, <5>2
      <4> QED BY <1>1, <4>1, <4>2
    <3> QED BY <1>1, <3>1, <3>2
  <2>4. /\ \A h \in M : h.fn = "activate_each" =>
             \A c \in Components(h.obj) : st[c] \notin {"COMPLETED", "REJECTED"}
        /\ \A h \in M : h.fn = "activate_first" => h.arg \in Comp \/ Hollow(h.obj)
    <3>1. ASSUME NEW h \in M, h.fn = "activate_each", NEW c \in Components(h.obj)
          PROVE  st[c] \notin {"COMPLETED", "REJECTED"}
      BY <1>0, <1>1, <2>1, <3>1 DEF Tends
    <3>2. ASSUME NEW h \in M, h.fn = "activate_first"
          PROVE  h.arg \in Comp \/ Hollow(h.obj)
      BY <1>0, <1>1, <2>1, <3>2 DEF Tends
    <3> QED BY <3>1, <3>2
  <2> QED
    BY <2>3, <2>4 DEF Skips
<1>9. \A c \in Comp : Live(c, M, st) => Live(c, K, st)
  BY <1>0, <1>5, <1>6 DEF Live, Open, Tends
<1>10. Parallels(M, st)
  <2> SUFFICES ASSUME NEW g \in Comp, Kind[g] = "parallel", Live(g, M, st),
                      NEW c \in Components(g), st[c] = "NEW"
               PROVE  Doomed(c, M) \/ ToStart(c, M)
    BY DEF Parallels
  <2>1. c \in Comp /\ Open(c, st)
    BY PartsIn DEF Open
  <2>2. Doomed(c, K) \/ ToStart(c, K)
    BY <1>2, <1>9 DEF Parallels
  <2> QED
    BY <1>0, <1>5, <2>1, <2>2 DEF Tends
<1>11. ASSUME NEW p \in Holder, Cared(p, s, st), p \in Comp => Live(p, M, st)
       PROVE  Cared(p, t, st)
  <2>1. CASE Attended(p, s)
    <3>1. p \in B \/ Attended(p, r)
      BY <1>3, <2>1
    <3>2. \/ Attended(p, t)
          \/ \E c \in Comp : Parent[c] = p /\ Live(c, M, st)
      BY <1>0, <1>1, <1>4, <1>11, <3>1 DEF Tends
    <3> QED BY <3>2 DEF Cared, M
  <2>2. CASE \E c \in Comp : Parent[c] = p /\ Live(c, K, st)
    <3>1. PICK c \in Comp : Parent[c] = p /\ Live(c, K, st)
      BY <2>2
    <3>2. CASE Live(c, M, st)
      BY <3>1, <3>2 DEF Cared, M
    <3>3. CASE ~Live(c, M, st)
      <4>1. st[c] = "EXECUTION" /\ ~Doomed(c, F) /\ (Doomed(c, N) \/ Ending(c, N))
        BY <1>5, <3>1, <3>3 DEF Live
      <4>2. p \in A
        BY <1>0, <1>1, <1>11, <3>1, <4>1 DEF Tends
      <4> QED BY <1>4, <4>2 DEF Cared
    <3> QED BY <3>2, <3>3
  <2> QED BY <1>11, <2>1, <2>2 DEF Cared, K
<1>12. Tended(t, st)
  <2>1. ASSUME NEW g \in Comp \ Task, Live(g, M, st) PROVE Cared(g, t, st)
    <3>1. Cared(g, s, st)
      BY <1>2, <1>9, <2>1 DEF Tended, K
    <3> QED BY <1>11, <2>1, <3>1 DEF Holder
  <2>2. Cared(Root, t, st)
    <3>1. Root \notin Comp /\ Root \in Holder
      BY TreeAssumption DEF Holder
    <3>2. Cared(Root, s, st)
      BY <1>2 DEF Tended
    <3> QED BY <1>11, <3>1, <3>2
  <2> QED BY <2>1, <2>2 DEF Tended, M
<1> QED
  BY <1>1, <1>7, <1>8, <1>10, <1>12 DEF Minds, M

\* The call f on top of the calls r, when each group is cared for
Minded(f, r, st, ps) ==
  /\ f \in Call /\ r \in Seq(Call) /\ Minds(<<f>> \o r, st, ps)

\* What f and the others have in common
LEMMA MindedParts ==
  ASSUME NEW f, NEW r, NEW st, NEW ps, Minded(f, r, st, ps)
  PROVE  /\ f \in Call /\ r \in Seq(Call) /\ Linked(r) /\ Linkable(f, r)
         /\ Proper(f) /\ \A h \in Frames(r) : Proper(h)
         /\ Quiet({f} \cup Frames(r), ps) /\ Skips({f} \cup Frames(r), st)
         /\ Parallels({f} \cup Frames(r), st) /\ Tended(<<f>> \o r, st)
<1> DEFINE s == <<f>> \o r
           K == {f} \cup Frames(r)
<1>1. f \in Call /\ r \in Seq(Call) /\ Minds(s, st, ps)
  BY DEF Minded
<1>2. Frames(s) = K /\ s \in Seq(Call) /\ s # <<>> /\ Head(s) = f /\ Tail(s) = r
  BY <1>1, FramesPush, Push
<1> HIDE DEF s
<1>3. Linked(r) /\ (r # <<>> => Link(f, Head(r))) /\ (r = <<>> => f.fn \notin Upper)
  BY <1>1, <1>2, LinkedTop DEF Minds
<1> HIDE DEF K
<1>4. Quiet(K, ps) /\ Skips(K, st) /\ Parallels(K, st) /\ Tended(s, st)
  BY <1>1, <1>2 DEF Minds
<1>5. \A h \in K : Proper(h)
  BY <1>4 DEF Quiet
<1> QED
  BY <1>1, <1>3, <1>4, <1>5 DEF Linkable, K, s

\* What the calls of N have to do in the place of f, R being the calls below
Serve(f, N, A, B, R, st) ==
  /\ (\A h \in N : Proper(h))
  /\ \A h \in N : h.fn = "activate_each" =>
       \A c \in Components(h.obj) : st[c] \notin {"COMPLETED", "REJECTED"}
  /\ \A h \in N : h.fn = "activate_first" => h.arg \in Comp \/ Hollow(h.obj)
  /\ (\E h \in N : h.fn \in Starters) => f.fn \in Starters \/ \A h \in R : h.fn # "set"
  /\ \A h \in N : h.fn = "set" /\ h.arg # "DISCARDED" =>
       \A g \in N \cup R : g.fn \notin Starters
  /\ \A c \in Comp : Open(c, st) /\ Cancels(f, c) => Doomed(c, N)
  /\ \A c \in Comp : st[c] = "NEW" /\ Starts(f, c) => ToStart(c, N) \/ Doomed(c, N)
  /\ \A p \in Holder : p \in B =>
       \/ p \in A
       \/ p \in Comp /\ ~Live(p, N \cup R, st)
       \/ \E c \in Comp : Parent[c] = p /\ Live(c, N \cup R, st)
  /\ \A c \in Comp : st[c] = "EXECUTION" /\ ~Cancels(f, c) /\ (Doomed(c, N) \/ Ending(c, N)) =>
       \/ Parent[c] \in A
       \/ Parent[c] \in Comp /\ ~Live(Parent[c], N \cup R, st)

\* Whom f on top of r goes on with
Charges(f, r) == {p \in Holder : Waits(f, r, p)}

\* A call f is replaced by those of N.
LEMMA MindsOne ==
  ASSUME NEW f, NEW r, NEW st, NEW ps, Minded(f, r, st, ps), f.fn \notin Idling \cup {"set"},
         NEW t, NEW N, NEW A, Piled(t, N, A, r),
         Serve(f, N, A, Charges(f, r), Frames(r), st)
  PROVE  Minds(t, st, ps)
<1> DEFINE s == <<f>> \o r
           F == {f}
           B == Charges(f, r)
           R == Frames(r)
<1>1. Minds(s, st, ps) /\ Based(s, F, B, r)
  BY BaseOne DEF Minded, Charges
<1>2. \A c : (Doomed(c, F) <=> Cancels(f, c)) /\ (ToStart(c, F) <=> Starts(f, c))
  BY Lone
<1>3. /\ \E x \in F : x.fn \notin Idling
      /\ \A x \in F : x.fn # "set"
  OBVIOUS
<1>4. (\E h \in F : h.fn \in Starters) <=> f.fn \in Starters
  OBVIOUS
<1>5. Serve(f, N, A, B, R, st)
  OBVIOUS
<1> HIDE DEF s, F, B, R
<1>6. Tends(F, N, A, B, R, st)
  BY <1>2, <1>3, <1>4, <1>5 DEF Tends, Serve
<1> QED
  BY <1>1, <1>6, MindsSwap DEF R

\* A call that has nothing to do any more returns.
LEMMA MindsDrop ==
  ASSUME NEW f, NEW r, NEW st, NEW ps, Minded(f, r, st, ps),
         \A p \in Holder : ~Waits(f, r, p), ~(f.fn = "set" /\ f.obj \in Comp),
         \A c \in Comp : Open(c, st) => ~Cancels(f, c),
         \A c \in Comp : st[c] = "NEW" => ~Starts(f, c)
  PROVE  Minds(r, st, ps)
<1> DEFINE s == <<f>> \o r
           R == Frames(r)
           K == {f} \cup R
<1>1. /\ f \in Call /\ r \in Seq(Call) /\ Linked(r)
      /\ Quiet(K, ps) /\ Skips(K, st) /\ Parallels(K, st) /\ Tended(s, st)
  BY MindedParts
<1>2. Frames(s) = K
  BY <1>1, FramesPush
<1>3. \A p \in Holder : Attended(p, s) => Attended(p, r)
  BY <1>1, AttendedPush
<1>4. \A c \in Comp : /\ Doomed(c, K) <=> Cancels(f, c) \/ Doomed(c, R)
                      /\ Ending(c, K) <=> Ending(c, {f}) \/ Ending(c, R)
                      /\ ToStart(c, K) <=> Starts(f, c) \/ ToStart(c, R)
  BY Joint, Lone
<1>5. \A c \in Comp : ~Ending(c, {f})
  BY DEF Ending
<1>6. \A x \in R : x \in K
  OBVIOUS
<1> HIDE DEF s, K, R
<1>7. \A c \in Comp : Live(c, R, st) <=> Live(c, K, st)
  BY <1>4, <1>5 DEF Live, Open
<1>8. Quiet(R, ps)
  BY <1>1, <1>6 DEF Quiet
<1>9. Skips(R, st)
  BY <1>1, <1>6 DEF Skips
<1>10. Parallels(R, st)
  <2> SUFFICES ASSUME NEW g \in Comp, Kind[g] = "parallel", Live(g, R, st),
                      NEW c \in Components(g), st[c] = "NEW"
               PROVE  Doomed(c, R) \/ ToStart(c, R)
    BY DEF Parallels
  <2>1. c \in Comp /\ Open(c, st)
    BY PartsIn DEF Open
  <2>2. Doomed(c, K) \/ ToStart(c, K)
    BY <1>1, <1>7 DEF Parallels
  <2> QED
    BY <1>4, <2>1, <2>2
<1>11. \A p \in Holder : Cared(p, s, st) => Cared(p, r, st)
  BY <1>2, <1>3, <1>7 DEF Cared, R
<1>12. Tended(r, st)
  <2>1. ASSUME NEW g \in Comp \ Task, Live(g, R, st) PROVE Cared(g, r, st)
    <3>1. Cared(g, s, st)
      BY <1>1, <1>2, <1>7, <2>1 DEF Tended
    <3> QED BY <1>11, <3>1 DEF Holder
  <2>2. Cared(Root, r, st)
    BY <1>1, <1>11 DEF Tended, Holder
  <2> QED BY <2>1, <2>2 DEF Tended, R
<1> QED
  BY <1>1, <1>8, <1>9, <1>10, <1>12 DEF Minds, R

\* A group or a task ends, and its parent is told.
LEMMA GivesUp ==
  ASSUME NEW f, NEW r, NEW st, NEW ps, Minded(f, r, st, ps), f.fn \notin Idling \cup {"set"},
         \A h \in Frames(r) : h.fn \in Worked,
         \A c \in Comp : ~Cancels(f, c) /\ ~Starts(f, c),
         NEW g \in Comp, \A p \in Holder : Waits(f, r, p) => p = g,
         NEW t, NEW N, NEW A, Piled(t, N, A, r),
         \A h \in N : h.fn \in {"set", "cancel_subtasks", "cancel_task"} \cup Tell,
         \A h \in N : h.fn \notin Tell => h.obj = g,
         \A h \in N : h.fn = "set" => h.arg \in Terminal,
         \E h \in N : h.fn \in {"set", "cancel_task"},
         Parent[g] \in A
  PROVE  Minds(t, st, ps)
<1>1. g # Root
  BY TreeAssumption
<1>2. \A h \in N : Proper(h)
  BY <1>1 DEF Proper, Tell, Told
<1>4. \A h \in N : h.fn \notin Starters \cup {"activate_each", "activate_first"}
  BY DEF Starters, Tell, Told
<1>5. \A h \in Frames(r) : h.fn \notin Starters
  BY DEF Starters, Worked
<1>6. Doomed(g, N) \/ Ending(g, N)
  <2>1. PICK h \in N : h.fn \in {"set", "cancel_task"}
    OBVIOUS
  <2>2. h.obj = g
    BY <2>1 DEF Tell, Told
  <2>3. CASE h.fn = "set"
    BY <2>2, <2>3 DEF Ending
  <2>4. CASE h.fn = "cancel_task"
    BY <2>2, <2>4 DEF Doomed, Cancels
  <2> QED BY <2>1, <2>3, <2>4
<1>7. ~Live(g, N \cup Frames(r), st)
  BY <1>6, Joint DEF Live
<1>8. \A c \in Comp : Doomed(c, N) \/ Ending(c, N) => c = g \/ Parent[c] = g
  <2> SUFFICES ASSUME NEW c \in Comp, Doomed(c, N) \/ Ending(c, N) PROVE c = g \/ Parent[c] = g
    OBVIOUS
  <2>1. CASE Doomed(c, N)
    <3>1. PICK h \in N : Cancels(h, c)
      BY <2>1 DEF Doomed
    <3>2. h.fn \notin {"cancel_each"} /\ (h.fn \in {"set", "cancel_subtasks", "cancel_task"} => h.obj = g)
      BY DEF Tell, Told
    <3>3. c = g \/ c \in Components(g)
      BY <3>1, <3>2 DEF Cancels
    <3> QED BY <3>3, PartsIn
  <2>2. CASE Ending(c, N)
    BY <2>2 DEF Ending, Tell, Told
  <2> QED BY <2>1, <2>2
<1>9. \A c \in Comp : st[c] = "EXECUTION" /\ ~Cancels(f, c) /\ (Doomed(c, N) \/ Ending(c, N)) =>
           \/ Parent[c] \in A
           \/ Parent[c] \in Comp /\ ~Live(Parent[c], N \cup Frames(r), st)
  BY <1>7, <1>8
<1>10. \A p \in Holder : Waits(f, r, p) => p \in Comp /\ ~Live(p, N \cup Frames(r), st)
  BY <1>7
<1>11. \A h \in N : h.fn = "set" /\ h.arg # "DISCARDED" =>
           \A x \in N \cup Frames(r) : x.fn \notin Starters
  BY <1>4, <1>5
<1> QED
  <2>1. Serve(f, N, A, Charges(f, r), Frames(r), st)
    BY <1>2, <1>4, <1>9, <1>10, <1>11 DEF Serve, Charges
  <2> QED BY <2>1, MindsOne

\* Calls that go on with the process
ForRoot(h) ==
  \/ h.fn \in {"end_process", "cancel_process", "cancel_subtasks_and_close", "activate_next",
               "propagate_done", "activate_tasks"}
  \/ h.fn \in {"cancel_subtasks", "except_cancelled"} /\ h.obj = Root
  \/ h.fn = "set" /\ h.obj = Root /\ h.arg \in {"COMPLETED", "FAILED"}

\* The process is gone on with.
LEMMA ForProcess ==
  ASSUME NEW f, NEW r, NEW st, NEW ps, Minded(f, r, st, ps), f.fn \notin Idling \cup {"set"},
         \A c \in Comp : ~Cancels(f, c),
         \A c \in Comp : st[c] = "NEW" => ~Starts(f, c),
         \A p \in Holder : Waits(f, r, p) => p = Root,
         NEW t, NEW N, NEW A, Piled(t, N, A, r), \A h \in N : ForRoot(h), Root \in A,
         (\E h \in N : h.fn = "set") => \A h \in Frames(r) : h.fn \notin Starters
  PROVE  Minds(t, st, ps)
<1>1. Root \notin Comp /\ \A s \in {"COMPLETED", "FAILED"} : s # "PAUSED" /\ s # "DISCARDED"
  BY TreeAssumption
<1>2. \A h \in N : Proper(h)
  BY DEF Proper, ForRoot
<1>4. \A h \in N : h.fn \notin Starters \cup {"activate_each", "activate_first"}
  BY DEF Starters, ForRoot
<1>5. \A c \in Comp : Doomed(c, N) \/ Ending(c, N) => Parent[c] = Root
  <2> SUFFICES ASSUME NEW c \in Comp, Doomed(c, N) \/ Ending(c, N) PROVE Parent[c] = Root
    OBVIOUS
  <2>1. CASE Doomed(c, N)
    <3>1. PICK h \in N : Cancels(h, c)
      BY <2>1 DEF Doomed
    <3>2. c \in Components(Root)
      BY <1>1, <3>1 DEF Cancels, ForRoot
    <3> QED BY <3>2, PartsIn
  <2>2. CASE Ending(c, N)
    BY <1>1, <2>2 DEF Ending, ForRoot
  <2> QED BY <2>1, <2>2
<1>6. \A h \in N : h.fn = "set" /\ h.arg # "DISCARDED" =>
           \A x \in N \cup Frames(r) : x.fn \notin Starters
  BY <1>4
<1> QED
  <2>1. Serve(f, N, A, Charges(f, r), Frames(r), st)
    BY <1>2, <1>4, <1>5, <1>6 DEF Serve, Charges
  <2> QED BY <2>1, MindsOne

\* The transition on top of s, if any, is not refused and starts nothing.
Fine(s, st) ==
  s # <<>> /\ Head(s).fn = "set" =>
    /\ Head(s).arg # "EXECUTION"
    /\ Head(s).obj \in Comp /\ Head(s).arg \in {"COMPLETED", "REJECTED"}
         => st[Head(s).obj] = "EXECUTION"

\* Unless the first call starts something or will be refused, Alive is Care.
LEMMA AliveWhen ==
  ASSUME NEW s, NEW st, NEW ps, Fine(s, st)
  PROVE  Care(s, st, ps) <=> Alive(s, st, ps)
BY DEF Fine, Alive, Late, Beginning

\* The operation of a, before and after a step
Awake(a) == Alive(calls[a], status, procStatus)

\* The same of what a has to do after the step
Wakes(a) == Alive(calls'[a], status', procStatus')

\* The pending call of an operation, but for a transition
LEMMA TopMinded ==
  ASSUME TypeOK, NEW a \in Actor, calls[a] # <<>>, Awake(a), Top(a).fn # "set",
         procStatus \in {"EXECUTION", "PAUSED"}
  PROVE  Minded(Top(a), Tail(calls[a]), status, procStatus)
<1> DEFINE s == calls[a]
<1>1. s \in Seq(Call) /\ s # <<>>
  BY DEF TypeOK
<1>2. Head(s) \in Call /\ Tail(s) \in Seq(Call) /\ <<Head(s)>> \o Tail(s) = s
  BY <1>1, HeadTailProperties, HeadOnTail
<1>3. Head(s).fn # "set"
  BY DEF Top
<1> HIDE DEF s
<1>4. Fine(s, status)
  BY <1>3 DEF Fine
<1>5. Care(s, status, procStatus)
  BY <1>4, AliveWhen DEF Awake, s
<1>6. Minds(s, status, procStatus)
  BY <1>5 DEF Care
<1>7. Minded(Head(s), Tail(s), status, procStatus)
  BY <1>2, <1>6 DEF Minded
<1> QED
  BY <1>7 DEF s, Top

\* Steps that change no status: calls are made in the place of the first one,
\* it returns, or it throws.
LEMMA GoesAwake ==
  ASSUME TypeOK, NEW a \in Actor, calls[a] # <<>>, Awake(a), Top(a).fn # "set",
         UNCHANGED <<status, procStatus>>, NEW s, Continue(a, s),
         Fine(s \o Tail(calls[a]), status),
         Minded(Top(a), Tail(calls[a]), status, procStatus) => Minds(s \o Tail(calls[a]), status, procStatus)
  PROVE  Wakes(a)
<1> DEFINE t == s \o Tail(calls[a])
<1>1. calls'[a] = t
  BY Continued
<1>2. Care(t, status, procStatus)
  BY TopMinded DEF Care
<1> HIDE DEF t
<1>3. Fine(t, status)
  BY DEF t
<1> QED
  BY <1>1, <1>2, <1>3, AliveWhen DEF Wakes

\* A call returns.
LEMMA ReturnsAwake ==
  ASSUME TypeOK, NEW a \in Actor, calls[a] # <<>>, Awake(a), Top(a).fn # "set",
         UNCHANGED <<status, procStatus>>, Continue(a, <<>>),
         Fine(Tail(calls[a]), status),
         Minded(Top(a), Tail(calls[a]), status, procStatus) => Minds(Tail(calls[a]), status, procStatus)
  PROVE  Wakes(a)
<1>1. calls[a] \in Seq(Call)
  BY DEF TypeOK
<1>2. <<>> \o Tail(calls[a]) = Tail(calls[a])
  BY <1>1
<1> QED
  BY <1>2, GoesAwake

\* A call raises an exception.
LEMMA ThrowsAwake ==
  ASSUME TypeOK, NEW a \in Actor, calls[a] # <<>>, Awake(a), Top(a).fn # "set",
         UNCHANGED <<status, procStatus>>, NEW e, Throw(a, e),
         Fine(Unwound(Tail(calls[a]), e), status),
         Minded(Top(a), Tail(calls[a]), status, procStatus) =>
           Minds(Unwound(Tail(calls[a]), e), status, procStatus)
  PROVE  Wakes(a)
<1> DEFINE t == Unwound(Tail(calls[a]), e)
<1>1. calls'[a] = t
  BY Thrown
<1>2. Care(t, status, procStatus)
  BY TopMinded DEF Care
<1> HIDE DEF t
<1>3. Fine(t, status)
  BY DEF t
<1> QED
  BY <1>1, <1>2, <1>3, AliveWhen DEF Wakes

\* What waits is fine.
LEMMA RestFine ==
  ASSUME NEW f, NEW r, NEW st, NEW ps, NEW ok, On(f, r, st, ps, ok)
  PROVE  Fine(r, st)
<1> SUFFICES ASSUME r # <<>>, Head(r).fn = "set"
             PROVE  /\ Head(r).arg # "EXECUTION"
                    /\ Head(r).obj \in Comp /\ Head(r).arg \in {"COMPLETED", "REJECTED"}
                         => st[Head(r).obj] = "EXECUTION"
  BY DEF Fine
<1>1. r \in Seq(Call)
  BY DEF On
<1>2. Head(r) \in Frames(r) /\ Head(r) \in Call
  BY <1>1, HeadIn, HeadTailProperties
<1>3. Needs(Head(r), st)
  BY <1>2 DEF On, Law
<1>4. Head(r).obj \in Comp \cup {Root}
  BY <1>2 DEF Call
<1> QED
  BY <1>3, <1>4 DEF Needs

\* Calls that need nothing below them
LEMMA PlainLink ==
  ASSUME NEW x, x.fn \notin Upper
  PROVE  (\A y : Link(x, y)) /\ \A r : x \in Call => Linkable(x, r)
BY DEF Link, Linkable, Upper

\* A call on others: the first one decides.
LEMMA FineTop ==
  ASSUME NEW r \in Seq(Call), NEW x \in Call, NEW st,
         x.fn = "set" =>
           /\ x.arg # "EXECUTION"
           /\ x.obj \in Comp /\ x.arg \in {"COMPLETED", "REJECTED"} => st[x.obj] = "EXECUTION"
  PROVE  /\ Fine(<<x>> \o r, st)
         /\ \A y \in Call : Fine(<<x, y>> \o r, st)
         /\ \A y, z \in Call : Fine(<<x, y, z>> \o r, st)
<1>1. \A s \in Seq(Call) : Head(<<x>> \o s) = x
  BY Push
<1>2. \A s \in Seq(Call) : Fine(<<x>> \o s, st)
  BY <1>1 DEF Fine
<1>3. \A y \in Call : <<x, y>> \o r = <<x>> \o (<<y>> \o r) /\ <<y>> \o r \in Seq(Call)
  BY Join, Push
<1>4. \A y, z \in Call : <<x, y, z>> \o r = <<x>> \o (<<y, z>> \o r) /\ <<y, z>> \o r \in Seq(Call)
  <2> SUFFICES ASSUME NEW y \in Call, NEW z \in Call
               PROVE  <<x, y, z>> \o r = <<x>> \o (<<y, z>> \o r) /\ <<y, z>> \o r \in Seq(Call)
    OBVIOUS
  <2>1. <<x, y, z>> \o r = <<x>> \o (<<y, z>> \o r)
    BY JoinTwo
  <2>2. <<y, z>> \o r = <<y>> \o (<<z>> \o r)
    BY Join
  <2>3. <<y>> \o (<<z>> \o r) \in Seq(Call)
    BY Push
  <2> QED BY <2>1, <2>2, <2>3
<1> QED
  BY <1>2, <1>3, <1>4

\* A call is made, or two, in the place of a call that goes on with nobody.
LEMMA GoesOne ==
  ASSUME TypeOK, NEW a \in Actor, calls[a] # <<>>, Awake(a), Top(a).fn \notin Idling \cup {"set"},
         UNCHANGED <<status, procStatus>>, Tail(calls[a]) \in Seq(Call),
         NEW x, Linkable(x, Tail(calls[a])), Continue(a, <<x>>),
         x.fn = "set" =>
           /\ x.arg # "EXECUTION"
           /\ x.obj \in Comp /\ x.arg \in {"COMPLETED", "REJECTED"} => status[x.obj] = "EXECUTION",
         Minded(Top(a), Tail(calls[a]), status, procStatus) =>
           Serve(Top(a), {x}, {p \in Holder : Waits(x, Tail(calls[a]), p)},
                 Charges(Top(a), Tail(calls[a])), Frames(Tail(calls[a])), status)
  PROVE  Wakes(a)
<1> DEFINE f == Top(a)
           r == Tail(calls[a])
           A == {p \in Holder : Waits(x, r, p)}
           N == {x}
           t == <<x>> \o r
<1>1. x \in Call
  BY DEF Linkable
<1>2. Fine(t, status)
  BY <1>1, FineTop
<1>3. ASSUME Minded(f, r, status, procStatus) PROVE Minds(t, status, procStatus)
  <2>1. Linked(r)
    BY <1>3, MindedParts
  <2>2. Piled(t, N, A, r)
    BY <2>1, Pile1
  <2>3. Serve(f, N, A, Charges(f, r), Frames(r), status)
    BY <1>3
  <2>4. f.fn \notin Idling \cup {"set"}
    OBVIOUS
  <2> HIDE DEF f, r, N, A, t
  <2> QED BY <1>3, <2>2, <2>3, <2>4, MindsOne
<1> QED
  BY <1>2, <1>3, GoesAwake

\* A call is replaced by two,
LEMMA GoesTwo ==
  ASSUME TypeOK, NEW a \in Actor, calls[a] # <<>>, Awake(a), Top(a).fn \notin Idling \cup {"set"},
         UNCHANGED <<status, procStatus>>, Tail(calls[a]) \in Seq(Call),
         NEW y, Linkable(y, Tail(calls[a])), NEW x \in Call, Link(x, y), x.fn # "raise",
         Continue(a, <<x, y>>),
         x.fn = "set" =>
           /\ x.arg # "EXECUTION"
           /\ x.obj \in Comp /\ x.arg \in {"COMPLETED", "REJECTED"} => status[x.obj] = "EXECUTION",
         Minded(Top(a), Tail(calls[a]), status, procStatus) =>
           Serve(Top(a), {x, y}, {p \in Holder : Attends(x, p) \/ Waits(y, Tail(calls[a]), p)},
                 Charges(Top(a), Tail(calls[a])), Frames(Tail(calls[a])), status)
  PROVE  Wakes(a)
<1> DEFINE f == Top(a)
           r == Tail(calls[a])
           A == {p \in Holder : Attends(x, p) \/ Waits(y, r, p)}
           N == {x, y}
           t == <<x, y>> \o r
<1>1. y \in Call
  BY DEF Linkable
<1>2. Fine(t, status)
  BY <1>1, FineTop
<1>3. ASSUME Minded(f, r, status, procStatus) PROVE Minds(t, status, procStatus)
  <2>1. Linked(r)
    BY <1>3, MindedParts
  <2>2. Piled(t, N, A, r)
    BY <2>1, PileTwo
  <2>3. Serve(f, N, A, Charges(f, r), Frames(r), status)
    BY <1>3
  <2>4. f.fn \notin Idling \cup {"set"}
    OBVIOUS
  <2> HIDE DEF f, r, N, A, t
  <2> QED BY <1>3, <2>2, <2>3, <2>4, MindsOne
<1> QED
  BY <1>2, <1>3, GoesAwake

\* or by three.
LEMMA GoesThree ==
  ASSUME TypeOK, NEW a \in Actor, calls[a] # <<>>, Awake(a), Top(a).fn \notin Idling \cup {"set"},
         UNCHANGED <<status, procStatus>>, Tail(calls[a]) \in Seq(Call),
         NEW z, Linkable(z, Tail(calls[a])), NEW y \in Call, Link(y, z), NEW x \in Call, Link(x, y),
         x.fn # "raise", y.fn # "raise",
         Continue(a, <<x, y, z>>),
         x.fn = "set" =>
           /\ x.arg # "EXECUTION"
           /\ x.obj \in Comp /\ x.arg \in {"COMPLETED", "REJECTED"} => status[x.obj] = "EXECUTION",
         Minded(Top(a), Tail(calls[a]), status, procStatus) =>
           Serve(Top(a), {x, y, z},
                 {p \in Holder : Attends(x, p) \/ Attends(y, p) \/ Waits(z, Tail(calls[a]), p)},
                 Charges(Top(a), Tail(calls[a])), Frames(Tail(calls[a])), status)
  PROVE  Wakes(a)
<1> DEFINE f == Top(a)
           r == Tail(calls[a])
           A == {p \in Holder : Attends(x, p) \/ Attends(y, p) \/ Waits(z, r, p)}
           N == {x, y, z}
           t == <<x, y, z>> \o r
<1>1. z \in Call
  BY DEF Linkable
<1>2. Fine(t, status)
  BY <1>1, FineTop
<1>3. ASSUME Minded(f, r, status, procStatus) PROVE Minds(t, status, procStatus)
  <2>1. Linked(r)
    BY <1>3, MindedParts
  <2>2. Piled(t, N, A, r)
    BY <2>1, PileThree
  <2>3. Serve(f, N, A, Charges(f, r), Frames(r), status)
    BY <1>3
  <2>4. f.fn \notin Idling \cup {"set"}
    OBVIOUS
  <2> HIDE DEF f, r, N, A, t
  <2> QED BY <1>3, <2>2, <2>3, <2>4, MindsOne
<1> QED
  BY <1>2, <1>3, GoesAwake

\* A call that has nothing to do any more returns.
LEMMA DropsAwake ==
  ASSUME TypeOK, NEW a \in Actor, calls[a] # <<>>, Awake(a), Held(a), Top(a).fn # "set",
         UNCHANGED <<status, procStatus>>, Continue(a, <<>>),
         \A p \in Holder : ~Waits(Top(a), Tail(calls[a]), p),
         \A c \in Comp : Open(c, status) => ~Cancels(Top(a), c),
         \A c \in Comp : status[c] = "NEW" => ~Starts(Top(a), c)
  PROVE  Wakes(a)
<1> DEFINE f == Top(a)
           r == Tail(calls[a])
<1>1. On(f, r, status, procStatus, completing_ok)
  BY TopOn
<1>2. Fine(r, status)
  BY <1>1, RestFine
<1>3. ASSUME Minded(f, r, status, procStatus) PROVE Minds(r, status, procStatus)
  <2>1. /\ \A p \in Holder : ~Waits(f, r, p)
        /\ ~(f.fn = "set" /\ f.obj \in Comp)
        /\ \A c \in Comp : Open(c, status) => ~Cancels(f, c)
        /\ \A c \in Comp : status[c] = "NEW" => ~Starts(f, c)
    OBVIOUS
  <2> HIDE DEF f, r
  <2> QED BY <1>3, <2>1, MindsDrop
<1> QED
  BY <1>2, <1>3, ReturnsAwake

\* A component is cancelled.
LEMMA CancelTaskWakes ==
  ASSUME TypeOK, Stacks, NEW a \in Actor, Held(a), Awake(a), CancelTask(a)
  PROVE  Wakes(a)
<1> DEFINE f == Top(a)
           r == Tail(calls[a])
           c == Top(a).obj
           x == Do("cancel_subtasks", c, None)
           y == Set(c, "DISCARDED")
           B == Charges(f, r)
           R == Frames(r)
<1>1. calls[a] # <<>> /\ f.fn = "cancel_task"
  BY DEF CancelTask, At
<1>2. On(f, r, status, procStatus, completing_ok) /\ r \in Seq(Call) /\ f \in Call
  BY <1>1, TopOn, Running
<1>3. Needs(f, status)
  BY <1>2 DEF On, Law
<1> HIDE DEF f
<1>4. f.obj \in Comp
  BY <1>1, <1>3 DEF Needs
<1>5. c \in Comp /\ c # Root
  BY <1>4, TreeAssumption DEF f
<1> HIDE DEF c
<1>6. x \in Call
  BY <1>5, DoCall, Args DEF Fn, JobFn, DbFn
<1>7. y \in Call
  BY <1>5, SetCall, Args DEF CompStatus
<1>8. /\ x.fn = "cancel_subtasks" /\ x.obj = c
      /\ y.fn = "set" /\ y.obj = c /\ y.arg = "DISCARDED"
  BY DEF Do, Set
<1> HIDE DEF r, x, y
<1>9. \A h : h \in {x, y} => Proper(h)
  BY <1>5, <1>8 DEF Proper
<1>11. \A p : ~Waits(f, r, p)
  BY <1>1 DEF Waits, Attends, Tell, Told
<1>12. B = {}
  BY <1>11 DEF Charges
<1>13. f.obj = c
  BY DEF c, f
<1>14. \A d : Cancels(f, d) <=> d = c
  BY <1>1, <1>13 DEF Cancels
<1>15. \A d : ~Starts(f, d)
  BY <1>1 DEF Starts
<1>16. \A h : h \in {x, y} => h.fn \notin Starters \cup {"activate_each", "activate_first"}
                            /\ (h.fn = "set" => h.arg = "DISCARDED")
  BY <1>8 DEF Starters
<1>17. \A N : c \in Comp /\ y \in N /\ N \subseteq {x, y} =>
         /\ Doomed(c, N)
         /\ \A d \in Comp : Doomed(d, N) \/ Ending(d, N) => d = c \/ Parent[d] = c
  <2> SUFFICES ASSUME NEW N, y \in N, N \subseteq {x, y}
               PROVE  /\ Doomed(c, N)
                      /\ \A d \in Comp : Doomed(d, N) \/ Ending(d, N) => d = c \/ Parent[d] = c
    OBVIOUS
  <2>1. Doomed(c, N)
    BY <1>8 DEF Doomed, Cancels
  <2>2. ASSUME NEW d \in Comp, Doomed(d, N) PROVE d = c \/ Parent[d] = c
    <3>1. Cancels(x, d) \/ Cancels(y, d)
      BY <2>2 DEF Doomed
    <3>2. d = c \/ d \in Components(c)
      BY <1>8, <3>1 DEF Cancels
    <3> QED BY <3>2, PartsIn
  <2>3. ASSUME NEW d \in Comp, Ending(d, N) PROVE d = c
    BY <1>8, <2>3 DEF Ending
  <2> QED BY <2>1, <2>2, <2>3
<1>18. \A N, A : y \in N /\ N \subseteq {x, y} => Serve(f, N, A, B, R, status)
  <2> SUFFICES ASSUME NEW N, NEW A, y \in N, N \subseteq {x, y} PROVE Serve(f, N, A, B, R, status)
    OBVIOUS
  <2>1. ~Live(c, N \cup R, status)
    BY <1>5, <1>17, Joint DEF Live
  <2>2. \A d \in Comp : status[d] = "EXECUTION" /\ ~Cancels(f, d) /\ (Doomed(d, N) \/ Ending(d, N))
            => Parent[d] \in Comp /\ ~Live(Parent[d], N \cup R, status)
    BY <1>5, <1>14, <1>17, <2>1
  <2>3. /\ \A h \in N : Proper(h)
       
        /\ \A h \in N : h.fn \notin Starters \cup {"activate_each", "activate_first"}
        /\ \A h \in N : h.fn = "set" => h.arg = "DISCARDED"
    BY <1>9, <1>16
  <2>4. \A d \in Comp : Open(d, status) /\ Cancels(f, d) => Doomed(d, N)
    BY <1>5, <1>14, <1>17
  <2> QED BY <1>12, <1>15, <2>2, <2>3, <2>4 DEF Serve
<1>19. CASE c \in Task
  <2>1. Continue(a, <<y>>) /\ UNCHANGED <<status, procStatus>>
    BY <1>19, SameData DEF CancelTask, c, y
  <2>2. Linkable(y, r)
    BY <1>7, <1>8, PlainLink DEF Upper
  <2>3. \A A : Serve(f, {y}, A, B, R, status)
    BY <1>18
  <2> QED BY <1>1, <1>2, <1>8, <2>1, <2>2, <2>3, GoesOne DEF f, r, Idling, Worked
<1>20. CASE c \notin Task
  <2>1. Continue(a, <<x, y>>) /\ UNCHANGED <<status, procStatus>>
    BY <1>20, SameData DEF CancelTask, c, x, y
  <2>2. Linkable(y, r) /\ Link(x, y)
    BY <1>7, <1>8, PlainLink DEF Upper
  <2>3. \A A : Serve(f, {x, y}, A, B, R, status)
    BY <1>18
  <2> QED BY <1>1, <1>2, <1>6, <1>8, <2>1, <2>2, <2>3, GoesTwo DEF f, r, Idling, Worked
<1> QED
  BY <1>19, <1>20

\* What is below a group or the process is cancelled.
LEMMA CancelSubtasksWakes ==
  ASSUME TypeOK, Stacks, NEW a \in Actor, Held(a), Awake(a), CancelSubtasks(a)
  PROVE  Wakes(a)
<1> DEFINE f == Top(a)
           r == Tail(calls[a])
           g == Top(a).obj
           S == Pending(Components(g))
           x == Each("cancel_each", g, S)
           B == Charges(f, r)
           R == Frames(r)
<1>1. calls[a] # <<>> /\ f.fn = "cancel_subtasks" /\ f.obj = g
  BY DEF CancelSubtasks, At
<1>2. r \in Seq(Call) /\ f \in Call /\ g \in Comp \cup {Root}
  BY <1>1, Running
<1>3. S \subseteq Comp /\ \A c \in Components(g) : Open(c, status) => c \in S
  BY DEF Pending, Components, Open
<1>4. x \in Call
  BY <1>2, <1>3, EachCall DEF Fn, JobFn, DbFn
<1>5. x.fn = "cancel_each" /\ x.todo = S
  BY DEF Each
<1>6. S \subseteq Components(g)
  BY DEF Pending
<1>7. Continue(a, <<x>>) /\ UNCHANGED <<status, procStatus>>
  BY SameData DEF CancelSubtasks
<1> HIDE DEF f, r, g, S, x
<1>8. \A p : ~Waits(f, r, p)
  BY <1>1 DEF Waits, Attends, Tell, Told
<1>9. B = {}
  BY <1>8 DEF Charges
<1>10. \A d : Cancels(f, d) <=> d \in Components(g)
  BY <1>1 DEF Cancels
<1>11. \A d : Doomed(d, {x}) <=> d \in S
  BY <1>5 DEF Doomed, Cancels
<1>12. \A d : ~Ending(d, {x}) /\ ~Starts(f, d)
  BY <1>1, <1>5 DEF Ending, Starts
<1>13. Proper(x) /\ x.fn \notin Starters \cup {"set"}
  BY <1>5 DEF Proper, Starters, Set, Do
<1>14. \A A : Serve(f, {x}, A, B, R, status)
  BY <1>3, <1>6, <1>9, <1>10, <1>11, <1>12, <1>13, <1>5 DEF Serve
<1>15. Linkable(x, r)
  BY <1>4, <1>5, PlainLink DEF Upper
<1> QED
  BY <1>1, <1>2, <1>5, <1>7, <1>14, <1>15, GoesOne DEF f, r, Idling, Worked

\* One after the other
LEMMA CancelEachWakes ==
  ASSUME TypeOK, Stacks, NEW a \in Actor, Held(a), Awake(a), CancelEach(a)
  PROVE  Wakes(a)
<1> DEFINE f == Top(a)
           r == Tail(calls[a])
           g == Top(a).obj
           B == Charges(f, r)
           R == Frames(r)
<1>1. calls[a] # <<>> /\ f.fn = "cancel_each" /\ f.obj = g
  BY DEF CancelEach, At
<1>2. r \in Seq(Call) /\ f \in Call /\ g \in Comp \cup {Root} /\ f.todo \in SUBSET Comp
  BY <1>1, Running
<1>3. UNCHANGED <<status, procStatus>>
  BY SameData DEF CancelEach
<1>4. \A p : ~Waits(f, r, p)
  BY <1>1 DEF Waits, Attends, Tell, Told
<1>5. B = {}
  BY <1>4 DEF Charges
<1>6. \A d : Cancels(f, d) <=> d \in f.todo
  BY <1>1 DEF Cancels
<1>7. \A d : ~Starts(f, d)
  BY <1>1 DEF Starts
<1>8. CASE f.todo = {} /\ Continue(a, <<>>)
  BY <1>1, <1>3, <1>4, <1>6, <1>7, <1>8, DropsAwake
<1>9. ASSUME NEW c \in f.todo,
             Continue(a, <<Do("cancel_task", c, None), Each("cancel_each", f.obj, f.todo \ {c})>>)
      PROVE  Wakes(a)
  <2> DEFINE x == Do("cancel_task", c, None)
             S == f.todo \ {c}
             y == Each("cancel_each", g, S)
  <2>1. x \in Call
    BY <1>2, DoCall, Args DEF Fn, JobFn, DbFn
  <2>2. y \in Call
    BY <1>2, EachCall DEF Fn, JobFn, DbFn
  <2>3. x.fn = "cancel_task" /\ x.obj = c /\ y.fn = "cancel_each" /\ y.todo = S
    BY DEF Do, Each
  <2>4. Continue(a, <<x, y>>)
    BY <1>1, <1>9
  <2> HIDE DEF x, y
  <2>5. \A d : Cancels(x, d) \/ Cancels(y, d) <=> d \in f.todo
    BY <1>9, <2>3 DEF Cancels
  <2> HIDE DEF f, r, g
  <2>6. \A d : (Doomed(d, {x, y}) <=> Cancels(f, d)) /\ ~Ending(d, {x, y})
    <3>1. \A d : (Doomed(d, {x, y}) <=> Cancels(x, d) \/ Cancels(y, d))
      BY Two
    <3>2. \A d : ~Ending(d, {x, y})
      BY <2>3 DEF Ending
    <3> QED BY <1>6, <2>5, <3>1, <3>2
  <2>7. /\ Proper(x) /\ x.fn \notin Starters \cup {"set"}
        /\ Proper(y) /\ y.fn \notin Starters \cup {"set"}
    BY <2>3 DEF Proper, Starters, Set, Do
  <2>8. \A A : Serve(f, {x, y}, A, B, R, status)
    BY <1>5, <1>7, <2>3, <2>6, <2>7 DEF Serve
  <2>9. Linkable(y, r) /\ Link(x, y)
    BY <2>2, <2>3, PlainLink DEF Upper
  <2> QED
    BY <1>1, <1>2, <1>3, <2>1, <2>3, <2>4, <2>8, <2>9, GoesTwo DEF f, r, Idling, Worked
<1> QED
  BY <1>8, <1>9 DEF CancelEach

\* A try block is left; a job has failed.
LEMMA LeaveTryWakes ==
  ASSUME TypeOK, Stacks, NEW a \in Actor, Held(a), Awake(a), LeaveTry(a) \/ FailJob(a)
  PROVE  Wakes(a)
<1> DEFINE f == Top(a)
           r == Tail(calls[a])
<1>1. calls[a] # <<>> /\ f.fn \in Except \cup {"fail_job"} /\ Continue(a, <<>>)
  BY DEF LeaveTry, FailJob, At
<1>2. UNCHANGED <<status, procStatus>>
  BY SameData DEF LeaveTry, FailJob, procVars
<1> HIDE DEF f, r
<1>3. \A p : ~Waits(f, r, p)
  BY <1>1 DEF Waits, Attends, Tell, Told, Except
<1>4. \A c : ~Cancels(f, c) /\ ~Starts(f, c)
  BY <1>1 DEF Cancels, Starts, Except
<1>5. f.fn # "set"
  BY <1>1 DEF Except
<1> QED
  BY <1>1, <1>2, <1>3, <1>4, <1>5, DropsAwake DEF f, r

\* Calls that are made last, and do not start or cancel anything themselves
Closer == {"run_job", "end_completion"} \cup Tell

\* A call that ends a group or a task waits for nothing but the job of a worker.
LEMMA CloserTop ==
  ASSUME TypeOK, NEW a \in Actor, calls[a] # <<>>, Held(a), Top(a).fn \in Closer
  PROVE  /\ Top(a).fn \notin Idling \cup {"set"} \cup Starters
         /\ \A c \in Comp : ~Cancels(Top(a), c) /\ ~Starts(Top(a), c)
         /\ \A h \in Frames(Tail(calls[a])) : h.fn \in Worked
         /\ On(Top(a), Tail(calls[a]), status, procStatus, completing_ok)
         /\ Tail(calls[a]) \in Seq(Call) /\ Top(a) \in Call
         /\ status \in [Comp -> CompStatus]
<1> DEFINE f == Top(a)
           r == Tail(calls[a])
<1>1. f.fn \notin Idling \cup {"set"} \cup Starters
  BY DEF Closer, Tell, Told, Idling, Worked, Starters
<1>2. On(f, r, status, procStatus, completing_ok) /\ status \in [Comp -> CompStatus]
  BY <1>1, TopOn
<1>3. f \in Call /\ r \in Seq(Call)
  BY <1>2 DEF On
<1>4. f.fn \in Lowest
  BY DEF Closer, Lowest
<1> HIDE DEF r
<1>5. \A h \in Frames(r) : h.fn \in Worked
  BY <1>2, <1>4, AtBottom
<1>6. f.fn \in Closer
  OBVIOUS
<1> HIDE DEF f
<1>7. \A c \in Comp : ~Cancels(f, c) /\ ~Starts(f, c)
  BY <1>6 DEF Cancels, Starts, Closer, Tell, Told
<1> QED
  BY <1>1, <1>2, <1>3, <1>5, <1>7 DEF f, r

\* A group or a task ends, and its parent is told: two calls, or three.
LEMMA EndsAwake ==
  ASSUME TypeOK, NEW a \in Actor, calls[a] # <<>>, Held(a), Awake(a), Top(a).fn \in Closer,
         UNCHANGED <<status, procStatus>>, NEW g \in Comp, status[g] = "EXECUTION",
         \A p \in Holder : Waits(Top(a), Tail(calls[a]), p) => p = g,
         NEW x \in Call, x.fn \in {"set", "cancel_task"}, x.obj = g,
         x.fn = "set" => x.arg \in {"COMPLETED", "REJECTED"},
         NEW y \in Call, y.fn \in Tell, y.obj = Parent[g],
         Continue(a, <<x, y>>)
  PROVE  Wakes(a)
<1> DEFINE f == Top(a)
           r == Tail(calls[a])
           A == {p \in Holder : Attends(x, p) \/ Waits(y, r, p)}
           N == {x, y}
           t == <<x, y>> \o r
<1>1. /\ f.fn \notin Idling \cup {"set"}
      /\ \A c \in Comp : ~Cancels(f, c) /\ ~Starts(f, c)
      /\ \A h \in Frames(r) : h.fn \in Worked
      /\ r \in Seq(Call)
  BY CloserTop
<1>2. Fine(t, status)
  BY <1>1, FineTop
<1>3. Parent[g] \in A
  <2>1. Attends(y, Parent[g])
    BY DEF Attends
  <2>2. Parent[g] \in Holder
    BY ParentIn DEF Holder
  <2> QED BY <2>1, <2>2 DEF Waits
<1>4. /\ \A h \in N : h.fn \in {"set", "cancel_subtasks", "cancel_task"} \cup Tell
      /\ \A h \in N : h.fn \notin Tell => h.obj = g
      /\ \A h \in N : h.fn = "set" => h.arg \in Terminal
      /\ \E h \in N : h.fn \in {"set", "cancel_task"}
  BY DEF Terminal, Tell, Told
<1>5. Linkable(y, r) /\ Link(x, y)
  BY PlainLink DEF Upper, Tell, Told
<1>6. ASSUME Minded(f, r, status, procStatus) PROVE Minds(t, status, procStatus)
  <2>1. Linked(r)
    BY <1>6, MindedParts
  <2>2. Piled(t, N, A, r)
    BY <1>1, <1>5, <2>1, PileTwo
  <2>3. \A p \in Holder : Waits(f, r, p) => p = g
    OBVIOUS
  <2> HIDE DEF f, r, N, A, t
  <2> QED BY <1>1, <1>3, <1>4, <1>6, <2>2, <2>3, GivesUp
<1> QED
  BY <1>1, <1>2, <1>6, GoesAwake

\* A group ends, cancels what it still has, and its parent is told.
LEMMA SweepsAwake ==
  ASSUME TypeOK, NEW a \in Actor, calls[a] # <<>>, Held(a), Awake(a), Top(a).fn \in Closer,
         UNCHANGED <<status, procStatus>>, NEW g \in Comp, status[g] = "EXECUTION",
         \A p \in Holder : Waits(Top(a), Tail(calls[a]), p) => p = g,
         NEW x \in Call, NEW y \in Call, {x.fn, y.fn} = {"set", "cancel_subtasks"},
         x.obj = g, y.obj = g,
         x.fn = "set" => x.arg \in {"COMPLETED", "REJECTED"},
         y.fn = "set" => y.arg \in {"COMPLETED", "REJECTED"},
         NEW z \in Call, z.fn \in Tell, z.obj = Parent[g],
         Continue(a, <<x, y, z>>)
  PROVE  Wakes(a)
<1> DEFINE f == Top(a)
           r == Tail(calls[a])
           A == {p \in Holder : Attends(x, p) \/ Attends(y, p) \/ Waits(z, r, p)}
           N == {x, y, z}
           t == <<x, y, z>> \o r
<1>1. /\ f.fn \notin Idling \cup {"set"}
      /\ \A c \in Comp : ~Cancels(f, c) /\ ~Starts(f, c)
      /\ \A h \in Frames(r) : h.fn \in Worked
      /\ r \in Seq(Call)
  BY CloserTop
<1>2. Fine(t, status)
  BY <1>1, FineTop
<1>3. Parent[g] \in A
  <2>1. Attends(z, Parent[g])
    BY DEF Attends
  <2>2. Parent[g] \in Holder
    BY ParentIn DEF Holder
  <2> QED BY <2>1, <2>2 DEF Waits
<1>4. /\ x.fn \in {"set", "cancel_subtasks"} /\ y.fn \in {"set", "cancel_subtasks"}
      /\ x.fn = "set" \/ y.fn = "set"
  OBVIOUS
<1>5. /\ \A h \in N : h.fn \in {"set", "cancel_subtasks", "cancel_task"} \cup Tell
      /\ \A h \in N : h.fn \notin Tell => h.obj = g
      /\ \A h \in N : h.fn = "set" => h.arg \in Terminal
      /\ \E h \in N : h.fn \in {"set", "cancel_task"}
  BY <1>4 DEF Terminal, Tell, Told
<1>6. Linkable(z, r) /\ Link(x, y) /\ Link(y, z)
  BY <1>4, PlainLink DEF Upper, Tell, Told
<1>7. ASSUME Minded(f, r, status, procStatus) PROVE Minds(t, status, procStatus)
  <2>1. Linked(r)
    BY <1>7, MindedParts
  <2>2. Piled(t, N, A, r)
    BY <1>1, <1>4, <1>6, <2>1, PileThree
  <2>3. \A p \in Holder : Waits(f, r, p) => p = g
    OBVIOUS
  <2> HIDE DEF f, r, N, A, t
  <2> QED BY <1>1, <1>3, <1>5, <1>7, <2>2, <2>3, GivesUp
<1> QED
  BY <1>1, <1>2, <1>7, GoesAwake

\* A group that is told has nothing to do: another component of it runs.
LEMMA IgnoresAwake ==
  ASSUME TypeOK, NEW a \in Actor, calls[a] # <<>>, Held(a), Awake(a), Top(a).fn \in Tell,
         UNCHANGED <<status, procStatus>>, Continue(a, <<>>),
         Minded(Top(a), Tail(calls[a]), status, procStatus) =>
           \E c \in Comp : Parent[c] = Top(a).obj /\ status[c] = "EXECUTION"
  PROVE  Wakes(a)
<1> DEFINE f == Top(a)
           r == Tail(calls[a])
           R == Frames(r)
           B == Charges(f, r)
<1>1. f.fn \in Closer /\ f.fn \in Tell
  BY DEF Closer
<1>2. /\ f.fn \notin Idling \cup {"set"}
      /\ \A c \in Comp : ~Cancels(f, c) /\ ~Starts(f, c)
      /\ \A h \in R : h.fn \in Worked
      /\ r \in Seq(Call)
      /\ On(f, r, status, procStatus, completing_ok)
  BY <1>1, CloserTop
<1>3. Fine(r, status)
  BY <1>2, RestFine
<1>4. ASSUME Minded(f, r, status, procStatus) PROVE Minds(r, status, procStatus)
  <2>1. Linked(r)
    BY <1>4, MindedParts
  <2>2. Piled(r, {}, {}, r)
    BY <1>2, <2>1, PileNone
  <2>3. PICK c \in Comp : Parent[c] = f.obj /\ status[c] = "EXECUTION"
    BY <1>4
  <2> HIDE DEF f, r
  <2>4. \A p \in Holder : p \in B => p = f.obj
    BY <1>1 DEF Charges, Waits, Attends, Tell, Told
  <2>5. \A d \in Comp : ~Doomed(d, {} \cup R) /\ ~Ending(d, {} \cup R)
    BY <1>2 DEF Doomed, Ending, Cancels, Worked
  <2>6. Live(c, {} \cup R, status)
    BY <2>3, <2>5 DEF Live
  <2>7. \A d \in Comp : ~Doomed(d, {}) /\ ~Ending(d, {})
    BY Lone
  <2>8. Serve(f, {}, {}, B, R, status)
    BY <1>2, <2>3, <2>4, <2>6, <2>7 DEF Serve
  <2> QED BY <1>2, <1>4, <2>2, <2>8, MindsOne
<1> QED
  BY <1>2, <1>3, <1>4, ReturnsAwake

\* A parallel group hears that a component has ended, or was cancelled.
LEMMA ParallelWakes ==
  ASSUME Rooted, TypeOK, Stacks, NEW a \in Actor, Held(a), Awake(a),
         ParallelDone(a) \/ ParallelCancel(a)
  PROVE  Wakes(a)
<1> DEFINE f == Top(a)
           r == Tail(calls[a])
           g == Top(a).obj
<1>1. calls[a] # <<>> /\ f.fn \in Tell /\ g # Root /\ Kind[g] = "parallel"
  BY DEF ParallelDone, ParallelCancel, At, Tell, Told
<1>2. UNCHANGED <<status, procStatus>>
  BY SameData DEF ParallelDone, ParallelCancel
<1>3. g \in Comp /\ status[g] = "EXECUTION" /\ status \in [Comp -> CompStatus]
  BY <1>1, GroupTold
<1>4. \A p \in Holder : Waits(f, r, p) => p = g
  BY <1>1 DEF Waits, Attends, Tell, Told
<1>5. f.fn \in Closer
  BY <1>1 DEF Closer
<1>6. CASE Continue(a, Closed(g))
  <2> DEFINE x == Set(g, "COMPLETED")
             y == Do("propagate_done", Parent[g], g)
  <2>1. x \in Call
    BY <1>3, SetCall, Args DEF CompStatus
  <2>2. y \in Call /\ y.fn \in Tell /\ y.obj = Parent[g]
    BY <1>3, TellCall DEF Tell, Told
  <2>3. x.fn = "set" /\ x.obj = g /\ x.arg = "COMPLETED" /\ Continue(a, <<x, y>>)
    BY <1>6 DEF Set, Do, Closed
  <2> HIDE DEF x, y
  <2> QED BY <1>1, <1>2, <1>3, <1>4, <1>5, <2>1, <2>2, <2>3, EndsAwake
<1>7. CASE Continue(a, Cancelled(g))
  <2> DEFINE x == Do("cancel_task", g, None)
             y == Do("propagate_cancel", Parent[g], g)
  <2>1. x \in Call
    BY <1>3, DoCall, Args DEF Fn, JobFn, DbFn
  <2>2. y \in Call /\ y.fn \in Tell /\ y.obj = Parent[g]
    BY <1>3, TellCall DEF Tell, Told
  <2>3. x.fn = "cancel_task" /\ x.obj = g /\ Continue(a, <<x, y>>)
    BY <1>7 DEF Set, Do, Cancelled
  <2> HIDE DEF x, y
  <2> QED BY <1>1, <1>2, <1>3, <1>4, <1>5, <2>1, <2>2, <2>3, EndsAwake
<1>8. CASE ~allDone(g) /\ Continue(a, <<>>)
  <2>1. ASSUME Minded(f, r, status, procStatus)
        PROVE  \E c \in Comp : Parent[c] = g /\ status[c] = "EXECUTION"
    <3>1. PICK c \in Components(g) : Open(c, status)
      BY <1>8, DoneOver
    <3>2. c \in Comp /\ Parent[c] = g
      BY PartsIn
    <3>3. Parallels({f} \cup Frames(r), status)
      BY <2>1, MindedParts
    <3>4. \A h \in Frames(r) : h.fn \in Worked
      BY <1>1, <1>5, CloserTop
    <3> HIDE DEF f, r, g
    <3>5. \A d : ~Doomed(d, {f} \cup Frames(r)) /\ ~Ending(d, {f} \cup Frames(r))
                 /\ ~ToStart(d, {f} \cup Frames(r))
      BY <1>1, <3>4 DEF Doomed, Ending, ToStart, Cancels, Starts, Worked, Tell, Told
    <3>6. Live(g, {f} \cup Frames(r), status)
      BY <1>3, <3>5 DEF Live
    <3>7. status[c] # "NEW"
      BY <1>1, <1>3, <3>1, <3>3, <3>5, <3>6 DEF Parallels
    <3> QED BY <3>1, <3>2, <3>7 DEF Open
  <2> QED BY <1>1, <1>2, <1>8, <2>1, IgnoresAwake
<1> QED
  BY <1>6, <1>7, <1>8 DEF ParallelDone, ParallelCancel

\* A sequential group hears that a component has ended.
LEMMA SequentialDoneWakes ==
  ASSUME Rooted, TypeOK, Stacks, NEW a \in Actor, Held(a), Awake(a), SequentialDone(a)
  PROVE  Wakes(a)
<1> DEFINE f == Top(a)
           r == Tail(calls[a])
           g == Top(a).obj
           c == Top(a).arg
           n == NextSibling(c)
<1>1. calls[a] # <<>> /\ f.fn \in Tell /\ f.fn \in Told /\ g # Root
  BY DEF SequentialDone, At, Tell, Told
<1>2. UNCHANGED <<status, procStatus>>
  BY SameData DEF SequentialDone
<1>3. g \in Comp /\ status[g] = "EXECUTION" /\ c \in Comp /\ g = Parent[c]
  BY <1>1, GroupTold
<1>4. \A p \in Holder : Waits(f, r, p) => p = g
  BY <1>1 DEF Waits, Attends, Tell, Told
<1>5. f.fn \in Closer
  BY <1>1 DEF Closer
<1>6. Passed(c, Done)
  BY <1>1, Running DEF Due
<1>7. CASE Continue(a, Closed(g))
  <2> DEFINE x == Set(g, "COMPLETED")
             y == Do("propagate_done", Parent[g], g)
  <2>1. x \in Call
    BY <1>3, SetCall, Args DEF CompStatus
  <2>2. y \in Call /\ y.fn \in Tell /\ y.obj = Parent[g]
    BY <1>3, TellCall DEF Tell, Told
  <2>3. x.fn = "set" /\ x.obj = g /\ x.arg = "COMPLETED" /\ Continue(a, <<x, y>>)
    BY <1>7 DEF Set, Do, Closed
  <2> HIDE DEF x, y
  <2> QED BY <1>1, <1>2, <1>3, <1>4, <1>5, <2>1, <2>2, <2>3, EndsAwake
<1>8. CASE n \in Comp /\ Continue(a, <<Do("activate_task", n, None), Do("except_sibling", g, None)>>)
  <2> DEFINE x == Do("activate_task", n, None)
             y == Do("except_sibling", g, None)
             A == {p \in Holder : Attends(x, p) \/ Waits(y, r, p)}
             B == Charges(f, r)
             R == Frames(r)
  <2>1. n \in Components(Parent[c])
    BY <1>6, <1>8, NextReady
  <2>2. Parent[n] = g
    BY <1>3, <2>1, PartsIn
  <2>3. x \in Call
    BY <1>8, DoCall, Args DEF Fn, JobFn, DbFn
  <2>4. y \in Call
    BY <1>3, TreeAssumption, Args DEF Call, Do, Fn, Except, JobFn, DbFn, Arg
  <2>5. x.fn = "activate_task" /\ x.obj = n /\ y.fn = "except_sibling" /\ y.obj = g
    BY DEF Do
  <2>6. r \in Seq(Call) /\ f.fn \notin Idling \cup {"set"}
        /\ (\A d \in Comp : ~Cancels(f, d) /\ ~Starts(f, d)) /\ \A h \in Frames(r) : h.fn \in Worked
    BY <1>1, <1>5, CloserTop
  <2>7. Continue(a, <<x, y>>)
    BY <1>8
  <2> HIDE DEF x, y, n, f, r, g
  <2>8. Linkable(y, r)
    BY <2>4, <2>5, PlainLink DEF Upper
  <2>9. Link(x, y)
    BY <2>2, <2>5 DEF Link
  <2>10. g \in A
    <3>1. Attends(x, g)
      BY <1>8, <2>2, <2>5 DEF Attends
    <3> QED BY <1>3, <3>1 DEF Holder
  <2>11. \A p \in Holder : p \in B => p \in A
    BY <1>4, <2>10 DEF Charges
  <2>12. \A d : ~Doomed(d, {x, y}) /\ ~Ending(d, {x, y})
    BY <2>5 DEF Doomed, Ending, Cancels
  <2>13. \A h \in R : h.fn # "set"
    BY <2>6 DEF Worked
  <2>14. \A h \in {x, y} : Proper(h) /\ h.fn \notin {"set", "activate_each", "activate_first"}
    BY <2>5 DEF Proper
  <2> HIDE DEF A, B, R
  <2>16. Serve(f, {x, y}, A, B, R, status)
    BY <2>6, <2>11, <2>12, <2>13, <2>14 DEF Serve
  <2> QED
    BY <1>1, <1>2, <2>3, <2>5, <2>6, <2>7, <2>8, <2>9, <2>16, GoesTwo DEF f, r, A, B, R
<1> QED
  BY <1>7, <1>8 DEF SequentialDone

\* The completion group is told: it goes on to end.
LEMMA CompletionAwake ==
  ASSUME TypeOK, NEW a \in Actor, calls[a] # <<>>, Held(a), Awake(a), Top(a).fn \in Tell,
         UNCHANGED <<status, procStatus>>, Top(a).obj = Completion,
         Continue(a, <<Do("end_completion", Completion, None)>>)
  PROVE  Wakes(a)
<1> DEFINE f == Top(a)
           r == Tail(calls[a])
           x == Do("end_completion", Completion, None)
           A == {p \in Holder : Waits(x, r, p)}
           B == Charges(f, r)
           R == Frames(r)
<1>1. f.fn \in Closer /\ f.fn \in Tell /\ f.obj = Completion
  BY DEF Closer
<1>2. /\ f.fn \notin Idling \cup {"set"}
      /\ \A c \in Comp : ~Cancels(f, c) /\ ~Starts(f, c)
      /\ \A h \in R : h.fn \in Worked
      /\ r \in Seq(Call)
  BY <1>1, CloserTop
<1>3. x \in Call
  BY DoCall, Args, TreeAssumption DEF Fn, JobFn, DbFn
<1>4. x.fn = "end_completion" /\ x.obj = Completion /\ Continue(a, <<x>>)
  BY DEF Do
<1> HIDE DEF f, r, x
<1>5. Linkable(x, r)
  BY <1>3, <1>4, PlainLink DEF Upper
<1>6. \A p \in Holder : p \in B => p \in A
  BY <1>1, <1>4 DEF Charges, Waits, Attends, Tell, Told
<1>7. \A d : ~Doomed(d, {x}) /\ ~Ending(d, {x})
  BY <1>4 DEF Doomed, Ending, Cancels
<1>8. Proper(x) /\ x.fn \notin Starters \cup {"set"}
  BY <1>4 DEF Proper, Set, Do, Starters
<1>9. Serve(f, {x}, A, B, R, status)
  BY <1>2, <1>4, <1>6, <1>7, <1>8 DEF Serve
<1> QED
  BY <1>2, <1>4, <1>5, <1>9, GoesOne DEF f, r

\* The completion group hears that a task has ended, or was cancelled.
LEMMA CompletionToldWakes ==
  ASSUME Rooted, TypeOK, Stacks, NEW a \in Actor, Held(a), Awake(a),
         CompletionDone(a) \/ CompletionCancel(a)
  PROVE  Wakes(a)
<1> DEFINE f == Top(a)
           r == Tail(calls[a])
           g == Top(a).obj
<1>1. calls[a] # <<>> /\ f.fn \in Tell /\ g = Completion
  BY DEF CompletionDone, CompletionCancel, At, Tell, Told
<1>2. UNCHANGED <<status, procStatus>>
  BY SameData DEF CompletionDone, CompletionCancel
<1>3. g \in Comp /\ status[g] = "EXECUTION" /\ status \in [Comp -> CompStatus]
  BY <1>1, GroupTold, TreeAssumption
<1>4. f.fn \in Closer
  BY <1>1 DEF Closer
<1>5. CASE Continue(a, <<Do("end_completion", g, None)>>)
  BY <1>1, <1>2, <1>5, CompletionAwake
<1>6. CASE (\E c \in Components(g) : status[c] = "EXECUTION") /\ Continue(a, <<>>)
  <2>1. \E c \in Comp : Parent[c] = g /\ status[c] = "EXECUTION"
    BY <1>6, PartsIn
  <2> QED BY <1>1, <1>2, <1>6, <2>1, IgnoresAwake
<1>7. CASE ~allDone(g) /\ Continue(a, <<>>)
  <2>1. PICK c \in Components(g) : Open(c, status)
    BY <1>7, DoneOver
  <2>2. c \in Comp /\ Parent[c] = g
    BY PartsIn
  <2>3. AllStarted({f} \cup Frames(r), status) /\ \A h \in Frames(r) : h.fn \in Worked
    BY <1>1, <1>4, CloserTop DEF On, Law
  <2> HIDE DEF f, r, g
  <2>4. \A d : ~Doomed(d, {f} \cup Frames(r)) /\ ~ToStart(d, {f} \cup Frames(r))
    BY <1>1, <2>3 DEF Doomed, ToStart, Cancels, Starts, Worked, Tell, Told
  <2>5. status[c] # "NEW"
    BY <1>1, <1>3, <2>1, <2>3, <2>4 DEF AllStarted
  <2>6. \E d \in Comp : Parent[d] = g /\ status[d] = "EXECUTION"
    BY <2>1, <2>2, <2>5 DEF Open
  <2> QED BY <1>1, <1>2, <1>7, <2>6, IgnoresAwake DEF f, g
<1>8. CASE CompletionDone(a)
  BY <1>5, <1>6, <1>8 DEF CompletionDone
<1>9. CASE CompletionCancel(a)
  BY <1>5, <1>7, <1>9 DEF CompletionCancel
<1> QED
  BY <1>8, <1>9

\* A task with finish option ended: the rest of its group is cancelled.
LEMMA GroupFinishWakes ==
  ASSUME Rooted, TypeOK, Stacks, NEW a \in Actor, Held(a), Awake(a), GroupFinish(a)
  PROVE  Wakes(a)
<1> DEFINE f == Top(a)
           r == Tail(calls[a])
           g == Top(a).obj
           x == Do("cancel_subtasks", g, None)
<1>1. calls[a] # <<>> /\ f.fn \in Tell /\ g # Root
  BY DEF GroupFinish, At, Tell, Told
<1>2. UNCHANGED <<status, procStatus>>
  BY SameData DEF GroupFinish
<1>3. g \in Comp /\ status[g] = "EXECUTION"
  BY <1>1, GroupTold
<1>4. \A p \in Holder : Waits(f, r, p) => p = g
  BY <1>1 DEF Waits, Attends, Tell, Told
<1>5. f.fn \in Closer
  BY <1>1 DEF Closer
<1>6. x \in Call
  BY <1>3, DoCall, Args DEF Fn, JobFn, DbFn
<1>7. x.fn = "cancel_subtasks" /\ x.obj = g
  BY DEF Do
<1>8. CASE g # Completion
  <2> DEFINE y == Set(g, "COMPLETED")
             z == Do("propagate_done", Parent[g], g)
  <2>1. y \in Call
    BY <1>3, SetCall, Args DEF CompStatus
  <2>2. z \in Call /\ z.fn \in Tell /\ z.obj = Parent[g]
    BY <1>3, TellCall DEF Tell, Told
  <2>3. y.fn = "set" /\ y.obj = g /\ y.arg = "COMPLETED"
    BY DEF Set, Do
  <2>4. Continue(a, <<x>> \o <<y, z>>)
    BY <1>8 DEF GroupFinish, Closed
  <2>5. <<x>> \o <<y, z>> = <<x, y, z>>
    <3> HIDE DEF x, y, z
    <3> QED BY <1>6, <2>1, <2>2, Lists
  <2>6. Continue(a, <<x, y, z>>)
    BY <2>4, <2>5
  <2> HIDE DEF x, y, z
  <2> QED
    BY <1>1, <1>2, <1>3, <1>4, <1>5, <1>6, <1>7, <2>1, <2>2, <2>3, <2>6, SweepsAwake
<1>9. CASE g = Completion
  <2> DEFINE y == Do("end_completion", g, None)
             A == {p \in Holder : Attends(x, p) \/ Waits(y, r, p)}
             B == Charges(f, r)
             R == Frames(r)
  <2>1. y \in Call
    BY <1>3, DoCall, Args DEF Fn, JobFn, DbFn
  <2>2. y.fn = "end_completion" /\ y.obj = g
    BY DEF Do
  <2>3. Continue(a, <<x>> \o <<y>>)
    BY <1>9 DEF GroupFinish
  <2>4. <<x>> \o <<y>> = <<x, y>>
    <3> HIDE DEF x, y
    <3> QED BY <1>6, <2>1, Lists
  <2>5. Continue(a, <<x, y>>)
    BY <2>3, <2>4
  <2>6. r \in Seq(Call) /\ f.fn \notin Idling \cup {"set"}
        /\ (\A d \in Comp : ~Cancels(f, d) /\ ~Starts(f, d)) /\ \A h \in Frames(r) : h.fn \in Worked
    BY <1>1, <1>5, CloserTop
  <2> HIDE DEF x, y, f, r, g
  <2>7. Linkable(y, r) /\ Link(x, y)
    BY <1>7, <2>1, <2>2, PlainLink DEF Upper
  <2>8. g \in A
    BY <1>3, <2>2 DEF Holder, Waits, Attends
  <2>9. \A p \in Holder : p \in B => p \in A
    BY <1>4, <2>8 DEF Charges
  <2>10. \A d \in Comp : Doomed(d, {x, y}) => Parent[d] = g
    <3> SUFFICES ASSUME NEW d \in Comp, Doomed(d, {x, y}) PROVE Parent[d] = g
      OBVIOUS
    <3>1. d \in Components(g)
      BY <1>7, <2>2 DEF Doomed, Cancels
    <3> QED BY <3>1, PartsIn
  <2>11. \A d : ~Ending(d, {x, y})
    BY <1>7, <2>2 DEF Ending
  <2>12. \A h \in {x, y} : Proper(h) /\ h.fn \notin Starters \cup {"set", "activate_each", "activate_first"}
    BY <1>7, <2>2 DEF Proper, Starters
  <2> HIDE DEF A, B, R
  <2>14. Serve(f, {x, y}, A, B, R, status)
    BY <2>6, <2>8, <2>9, <2>10, <2>11, <2>12 DEF Serve
  <2> QED
    BY <1>1, <1>2, <1>6, <1>7, <2>5, <2>6, <2>7, <2>14, GoesTwo DEF f, r, A, B, R
<1> QED
  BY <1>8, <1>9

\* A sequential group hears that a component was cancelled: it ends. A group is
\* refused with everything below it.
LEMMA SequentialCancelWakes ==
  ASSUME Rooted, TypeOK, Stacks, NEW a \in Actor, Held(a), Awake(a),
         SequentialCancel(a) \/ GroupRefuse(a)
  PROVE  Wakes(a)
<1> DEFINE f == Top(a)
           r == Tail(calls[a])
           g == Top(a).obj
           x == Do("cancel_subtasks", g, None)
<1>1. calls[a] # <<>> /\ f.fn \in Tell /\ g # Root
  BY DEF SequentialCancel, GroupRefuse, At, Tell, Told
<1>2. UNCHANGED <<status, procStatus>>
  BY SameData DEF SequentialCancel, GroupRefuse
<1>3. g \in Comp /\ status[g] = "EXECUTION"
  BY <1>1, GroupTold
<1>4. \A p \in Holder : Waits(f, r, p) => p = g
  BY <1>1 DEF Waits, Attends, Tell, Told
<1>5. f.fn \in Closer
  BY <1>1 DEF Closer
<1>6. x \in Call
  BY <1>3, DoCall, Args DEF Fn, JobFn, DbFn
<1>7. x.fn = "cancel_subtasks" /\ x.obj = g
  BY DEF Do
<1>8. CASE SequentialCancel(a)
  <2> DEFINE y == Set(g, "COMPLETED")
             z == Do("propagate_cancel", Parent[g], g)
  <2>1. y \in Call
    BY <1>3, SetCall, Args DEF CompStatus
  <2>2. z \in Call /\ z.fn \in Tell /\ z.obj = Parent[g]
    BY <1>3, TellCall DEF Tell, Told
  <2>3. y.fn = "set" /\ y.obj = g /\ y.arg = "COMPLETED"
    BY DEF Set, Do
  <2>4. Continue(a, <<x, y, z>>)
    BY <1>8 DEF SequentialCancel
  <2> HIDE DEF x, y, z
  <2> QED
    BY <1>1, <1>2, <1>3, <1>4, <1>5, <1>6, <1>7, <2>1, <2>2, <2>3, <2>4, SweepsAwake
<1>9. CASE GroupRefuse(a)
  <2> DEFINE y == Set(g, "REJECTED")
             z == Do("propagate_refuse", Parent[g], g)
  <2>1. y \in Call
    BY <1>3, SetCall, Args DEF CompStatus
  <2>2. z \in Call /\ z.fn \in Tell /\ z.obj = Parent[g]
    BY <1>3, TellCall DEF Tell, Told
  <2>3. y.fn = "set" /\ y.obj = g /\ y.arg = "REJECTED"
    BY DEF Set, Do
  <2>4. Continue(a, <<y, x, z>>)
    BY <1>9 DEF GroupRefuse
  <2> HIDE DEF x, y, z
  <2> QED
    BY <1>1, <1>2, <1>3, <1>4, <1>5, <1>6, <1>7, <2>1, <2>2, <2>3, <2>4, SweepsAwake
<1> QED
  BY <1>8, <1>9

\* The completion group ends the way the process does.
LEMMA EndCompletionWakes ==
  ASSUME Rooted, TypeOK, Stacks, NEW a \in Actor, Held(a), Awake(a), EndCompletion(a)
  PROVE  Wakes(a)
<1> DEFINE f == Top(a)
           r == Tail(calls[a])
           g == Completion
<1>1. calls[a] # <<>> /\ f.fn = "end_completion"
  BY DEF EndCompletion, At
<1>2. UNCHANGED <<status, procStatus>>
  BY SameData DEF EndCompletion
<1>3. Needs(f, status) /\ f.fn \in Closer
  BY <1>1, CloserTop DEF Closer, On, Law
<1> HIDE DEF f
<1>4. f.obj = g /\ status[g] = "EXECUTION"
  BY <1>1, <1>3 DEF Needs
<1>5. \A p \in Holder : Waits(f, r, p) => p = g
  BY <1>1, <1>4 DEF Waits, Attends, Tell, Told
<1>6. g \in Comp
  BY TreeAssumption
<1>7. CASE Continue(a, Closed(g))
  <2> DEFINE x == Set(g, "COMPLETED")
             y == Do("propagate_done", Parent[g], g)
  <2>1. x \in Call
    BY <1>6, SetCall, Args DEF CompStatus
  <2>2. y \in Call /\ y.fn \in Tell /\ y.obj = Parent[g]
    BY <1>6, TellCall DEF Tell, Told
  <2>3. x.fn = "set" /\ x.obj = g /\ x.arg = "COMPLETED" /\ Continue(a, <<x, y>>)
    BY <1>7 DEF Set, Do, Closed
  <2> HIDE DEF x, y, g
  <2> QED BY <1>1, <1>2, <1>3, <1>4, <1>5, <1>6, <2>1, <2>2, <2>3, EndsAwake DEF f
<1>8. CASE Continue(a, Cancelled(g))
  <2> DEFINE x == Do("cancel_task", g, None)
             y == Do("propagate_cancel", Parent[g], g)
  <2>1. x \in Call
    BY <1>6, DoCall, Args DEF Fn, JobFn, DbFn
  <2>2. y \in Call /\ y.fn \in Tell /\ y.obj = Parent[g]
    BY <1>6, TellCall DEF Tell, Told
  <2>3. x.fn = "cancel_task" /\ x.obj = g /\ Continue(a, <<x, y>>)
    BY <1>8 DEF Set, Do, Cancelled
  <2> HIDE DEF x, y, g
  <2> QED BY <1>1, <1>2, <1>3, <1>4, <1>5, <1>6, <2>1, <2>2, <2>3, EndsAwake DEF f
<1> QED
  BY <1>7, <1>8 DEF EndCompletion

\* Two and three calls whose last one needs to have something below it
LEMMA GoesTwoWhen ==
  ASSUME TypeOK, NEW a \in Actor, calls[a] # <<>>, Awake(a), Top(a).fn \notin Idling \cup {"set"},
         UNCHANGED <<status, procStatus>>, Tail(calls[a]) \in Seq(Call),
         NEW y \in Call, NEW x \in Call, Link(x, y), x.fn # "raise",
         Continue(a, <<x, y>>),
         x.fn = "set" =>
           /\ x.arg # "EXECUTION"
           /\ x.obj \in Comp /\ x.arg \in {"COMPLETED", "REJECTED"} => status[x.obj] = "EXECUTION",
         Minded(Top(a), Tail(calls[a]), status, procStatus) =>
           /\ Linkable(y, Tail(calls[a]))
           /\ Serve(Top(a), {x, y}, {p \in Holder : Attends(x, p) \/ Waits(y, Tail(calls[a]), p)},
                    Charges(Top(a), Tail(calls[a])), Frames(Tail(calls[a])), status)
  PROVE  Wakes(a)
<1> DEFINE f == Top(a)
           r == Tail(calls[a])
           A == {p \in Holder : Attends(x, p) \/ Waits(y, r, p)}
           N == {x, y}
           t == <<x, y>> \o r
<1>1. Fine(t, status)
  BY FineTop
<1>2. ASSUME Minded(f, r, status, procStatus) PROVE Minds(t, status, procStatus)
  <2>1. Linked(r)
    BY <1>2, MindedParts
  <2>2. Linkable(y, r) /\ Serve(f, N, A, Charges(f, r), Frames(r), status)
    BY <1>2
  <2>3. Piled(t, N, A, r)
    BY <2>1, <2>2, PileTwo
  <2>4. f.fn \notin Idling \cup {"set"}
    OBVIOUS
  <2> HIDE DEF f, r, N, A, t
  <2> QED BY <1>2, <2>2, <2>3, <2>4, MindsOne
<1> QED
  BY <1>1, <1>2, GoesAwake

\* A call is replaced by three, when the process runs or is paused.
LEMMA GoesThreeWhen ==
  ASSUME TypeOK, NEW a \in Actor, calls[a] # <<>>, Awake(a), Top(a).fn \notin Idling \cup {"set"},
         UNCHANGED <<status, procStatus>>, Tail(calls[a]) \in Seq(Call),
         NEW z \in Call, NEW y \in Call, Link(y, z), NEW x \in Call, Link(x, y),
         x.fn # "raise", y.fn # "raise",
         Continue(a, <<x, y, z>>),
         x.fn = "set" =>
           /\ x.arg # "EXECUTION"
           /\ x.obj \in Comp /\ x.arg \in {"COMPLETED", "REJECTED"} => status[x.obj] = "EXECUTION",
         Minded(Top(a), Tail(calls[a]), status, procStatus) =>
           /\ Linkable(z, Tail(calls[a]))
           /\ Serve(Top(a), {x, y, z},
                    {p \in Holder : Attends(x, p) \/ Attends(y, p) \/ Waits(z, Tail(calls[a]), p)},
                    Charges(Top(a), Tail(calls[a])), Frames(Tail(calls[a])), status)
  PROVE  Wakes(a)
<1> DEFINE f == Top(a)
           r == Tail(calls[a])
           A == {p \in Holder : Attends(x, p) \/ Attends(y, p) \/ Waits(z, r, p)}
           N == {x, y, z}
           t == <<x, y, z>> \o r
<1>1. Fine(t, status)
  BY FineTop
<1>2. ASSUME Minded(f, r, status, procStatus) PROVE Minds(t, status, procStatus)
  <2>1. Linked(r)
    BY <1>2, MindedParts
  <2>2. Linkable(z, r) /\ Serve(f, N, A, Charges(f, r), Frames(r), status)
    BY <1>2
  <2>3. Piled(t, N, A, r)
    BY <2>1, <2>2, PileThree
  <2>4. f.fn \notin Idling \cup {"set"}
    OBVIOUS
  <2> HIDE DEF f, r, N, A, t
  <2> QED BY <1>2, <2>2, <2>3, <2>4, MindsOne
<1> QED
  BY <1>1, <1>2, GoesAwake

\* Two and three calls, taken apart
LEMMA BaseMore ==
  ASSUME NEW t, NEW F, NEW B, NEW r, Based(t, F, B, r), t \in Seq(Call), NEW f \in Call
  PROVE  Based(<<f>> \o t, {f} \cup F, B \cup {p \in Holder : Waits(f, t, p)}, r)
<1> DEFINE s == <<f>> \o t
           C == {p \in Holder : Waits(f, t, p)}
<1>1. Frames(s) = {f} \cup Frames(t)
  BY FramesPush
<1>2. \A p \in Holder : Attended(p, s) => Waits(f, t, p) \/ Attended(p, t)
  BY AttendedPush
<1> HIDE DEF s
<1>3. Frames(s) = ({f} \cup F) \cup Frames(r)
  BY <1>1 DEF Based
<1>4. \A p \in Holder : Attended(p, s) => p \in B \cup C \/ Attended(p, r)
  BY <1>2 DEF Based
<1>5. Based(s, {f} \cup F, B \cup C, r)
  BY <1>3, <1>4 DEF Based
<1> QED
  BY <1>5 DEF s

\* A group gives up while it is activated: it is cancelled, or it ends, and an
\* exception tells the one who activated it.
Gives(s, F, h, q, st, ps) ==
  /\ Minds(s, st, ps) /\ Based(s, F, {p \in Holder : p = h.obj}, q)
  /\ q \in Seq(Call) /\ Linked(q) /\ Linkable(h, q)
  /\ h.fn = "except_activate" /\ h.obj \in Comp
  /\ (\E f \in F : f.fn \notin Idling) /\ \A f \in F : f.fn # "set"
  /\ \A c \in Comp : ~Doomed(c, F)
  /\ \A c \in Comp : st[c] = "NEW" => ~ToStart(c, F)

\* The group cannot be activated: it is cancelled, and its parent told by an
\* exception.
LEMMA GroupCancels ==
  ASSUME NEW s, NEW F, NEW h, NEW q, NEW st, NEW ps, Gives(s, F, h, q, st, ps)
  PROVE  Minds(<<Do("cancel_task", h.obj, None), Raise("TaskCancelled")>> \o q, st, ps)
<1> DEFINE g == h.obj
           x == Do("cancel_task", g, None)
           y == Raise("TaskCancelled")
           N == {x, y}
           A == {p \in Holder : Attends(x, p) \/ Waits(y, q, p)}
           B == {p \in Holder : p = g}
           R == Frames(q)
           t == <<x, y>> \o q
<1>1. g \in Comp /\ q \in Seq(Call) /\ Linked(q) /\ Linkable(h, q) /\ h.fn = "except_activate"
  BY DEF Gives
<1>2. x \in Call
  BY <1>1, DoCall, Args DEF Fn, JobFn, DbFn
<1>3. y \in Call
  BY RaiseCall, Args DEF Exception
<1>4. x.fn = "cancel_task" /\ x.obj = g /\ y.fn = "raise" /\ y.arg = "TaskCancelled"
  BY DEF Do, Raise
<1> HIDE DEF x, y, g
<1>5. q # <<>> /\ Link(h, Head(q))
  BY <1>1 DEF Linkable, Upper
<1>6. Head(q).obj = Parent[g]
  BY <1>1, <1>5 DEF Link, g
<1>7. Linkable(y, q)
  BY <1>3, <1>4, <1>5 DEF Linkable, Link
<1>8. Link(x, y)
  BY <1>4, PlainLink DEF Upper
<1>9. Piled(t, N, A, q)
  BY <1>1, <1>2, <1>4, <1>7, <1>8, PileTwo
<1>10. Parent[g] \in A
  <2>1. Waits(y, q, Parent[g])
    BY <1>4, <1>5, <1>6 DEF Waits
  <2> QED BY <1>1, <2>1, ParentIn DEF Holder
<1>11. \A d : Doomed(d, N) <=> d = g
  BY <1>4 DEF Doomed, Cancels
<1>12. \A d : ~Ending(d, N)
  BY <1>4 DEF Ending
<1>13. ~Live(g, N \cup R, st)
  BY <1>11, Joint DEF Live
<1>14. \A k \in N : Proper(k) /\ k.fn \notin Starters \cup {"set", "activate_each", "activate_first"}
  BY <1>4 DEF Proper, Starters
<1>16. Based(s, F, B, q)
  BY DEF Gives, g
<1>17. Minds(s, st, ps)
  BY DEF Gives
<1> HIDE DEF N, A, R, B, t
<1>18. Tends(F, N, A, B, R, st)
  <2>1. (\E f \in F : f.fn \notin Idling) /\ (\A f \in F : f.fn # "set")
        /\ (\A c \in Comp : ~Doomed(c, F)) /\ \A c \in Comp : st[c] = "NEW" => ~ToStart(c, F)
    BY DEF Gives
  <2>2. \A p \in Holder : p \in B => p \in Comp /\ ~Live(p, N \cup R, st)
    BY <1>1, <1>13 DEF B
  <2>3. \A c \in Comp : (Doomed(c, N) \/ Ending(c, N)) => Parent[c] \in A
    BY <1>10, <1>11, <1>12
  <2> QED BY <1>14, <2>1, <2>2, <2>3 DEF Tends
<1>19. Minds(t, st, ps)
  BY <1>9, <1>16, <1>17, <1>18, MindsSwap DEF R
<1> QED
  BY <1>19 DEF t, x, y, g

\* The group has nothing to activate: it ends, and its parent is told by an
\* exception.
LEMMA GroupEnds ==
  ASSUME NEW s, NEW F, NEW h, NEW q, NEW st, NEW ps, Gives(s, F, h, q, st, ps),
         q # <<>> => Head(q).fn \in {"except_end", "except_next"},
         \A k \in Frames(q) : k.fn \notin Starters
  PROVE  Minds(<<Set(h.obj, "COMPLETED"), Raise("TaskClosed")>> \o q, st, ps)
<1> DEFINE g == h.obj
           x == Set(g, "COMPLETED")
           y == Raise("TaskClosed")
           N == {x, y}
           A == {p \in Holder : Attends(x, p) \/ Waits(y, q, p)}
           B == {p \in Holder : p = g}
           R == Frames(q)
           t == <<x, y>> \o q
<1>1. g \in Comp /\ q \in Seq(Call) /\ Linked(q) /\ Linkable(h, q) /\ h.fn = "except_activate"
      /\ g # Root
  BY TreeAssumption DEF Gives
<1>2. x \in Call
  BY <1>1, SetCall, Args DEF CompStatus
<1>3. y \in Call
  BY RaiseCall, Args DEF Exception
<1>4. /\ x.fn = "set" /\ x.obj = g /\ x.arg = "COMPLETED"
      /\ y.fn = "raise" /\ y.arg = "TaskClosed"
  BY DEF Set, Do, Raise
<1> HIDE DEF x, y, g
<1>5. q # <<>> /\ Link(h, Head(q))
  BY <1>1 DEF Linkable, Upper
<1>6. Head(q).obj = Parent[g]
  BY <1>1, <1>5 DEF Link, g
<1>7. Linkable(y, q)
  BY <1>3, <1>4, <1>5 DEF Linkable, Link
<1>8. Link(x, y)
  BY <1>4, PlainLink DEF Upper
<1>9. Piled(t, N, A, q)
  BY <1>1, <1>2, <1>4, <1>7, <1>8, PileTwo
<1>10. Parent[g] \in A
  <2>1. Waits(y, q, Parent[g])
    BY <1>4, <1>5, <1>6 DEF Waits
  <2> QED BY <1>1, <2>1, ParentIn DEF Holder
<1>11. \A d : ~Doomed(d, N)
  BY <1>4 DEF Doomed, Cancels
<1>12. \A d : Ending(d, N) <=> d = g
  BY <1>4 DEF Ending, Terminal
<1>13. ~Live(g, N \cup R, st)
  BY <1>12, Joint DEF Live
<1>14. \A k \in N : Proper(k) /\ k.fn \notin Starters \cup {"activate_each", "activate_first"}
  BY <1>1, <1>4 DEF Proper, Starters
<1>16. Based(s, F, B, q)
  BY DEF Gives, g
<1>17. Minds(s, st, ps)
  BY DEF Gives
<1> HIDE DEF N, A, B, t
<1>18. Tends(F, N, A, B, R, st)
  <2>1. (\E f \in F : f.fn \notin Idling) /\ (\A f \in F : f.fn # "set")
        /\ (\A c \in Comp : ~Doomed(c, F)) /\ \A c \in Comp : st[c] = "NEW" => ~ToStart(c, F)
    BY DEF Gives
  <2>2. \A p \in Holder : p \in B => p \in Comp /\ ~Live(p, N \cup R, st)
    BY <1>1, <1>13 DEF B
  <2>3. \A c \in Comp : (Doomed(c, N) \/ Ending(c, N)) => Parent[c] \in A
    BY <1>10, <1>11, <1>12
  <2>4. \A k \in N \cup R : k.fn \notin Starters
    BY <1>14
  <2> HIDE DEF R
  <2> QED BY <1>14, <2>1, <2>2, <2>3, <2>4 DEF Tends
<1>19. Minds(t, st, ps)
  BY <1>9, <1>16, <1>17, <1>18, MindsSwap
<1> QED
  BY <1>19 DEF t, x, y, g

\* The component c is activated by f: those who go on with it are N.
Sets_off(f, c, N, A, R, st) ==
  /\ f.fn = "activate_task" /\ c = f.obj /\ c \in Comp /\ st[c] = "NEW"
  /\ \A d \in Comp : ~Doomed(d, {f} \cup R)
  /\ \A h \in N : h.fn \in {"activate_first", "activate_each", "except_activate"} /\ h.obj = c
  /\ c \notin Task => c \in A
  /\ Kind[c] = "parallel" => \A d \in Components(c) : ToStart(d, N)
  /\ \A d \in Components(c) : d # c /\ st[d] \notin {"COMPLETED", "REJECTED"}
  /\ \A h \in N : h.fn = "activate_first" => h.arg \in Comp \/ Hollow(c)

\* When it runs, each group is cared for.
LEMMA MindsStart ==
  ASSUME NEW f, NEW r, NEW st \in [Comp -> CompStatus], NEW ps, Minded(f, r, st, ps),
         NEW c, NEW t, NEW N, NEW A, Piled(t, N, A, r), Sets_off(f, c, N, A, Frames(r), st)
  PROVE  Minds(t, [st EXCEPT ![c] = "EXECUTION"], ps)
<1> DEFINE R == Frames(r)
           s == <<f>> \o r
           su == [st EXCEPT ![c] = "EXECUTION"]
<1>1. /\ f.fn = "activate_task" /\ c = f.obj /\ c \in Comp /\ st[c] = "NEW"
      /\ \A d \in Comp : ~Doomed(d, {f} \cup R)
      /\ \A h \in N : h.fn \in {"activate_first", "activate_each", "except_activate"} /\ h.obj = c
  BY DEF Sets_off
<1>2. /\ c \notin Task => c \in A
      /\ Kind[c] = "parallel" => \A d \in Components(c) : ToStart(d, N)
      /\ \A d \in Components(c) : d # c /\ st[d] \notin {"COMPLETED", "REJECTED"}
      /\ \A h \in N : h.fn = "activate_first" => h.arg \in Comp \/ Hollow(c)
  BY DEF Sets_off
<1>3. su[c] = "EXECUTION" /\ \A d \in Comp : d # c => su[d] = st[d]
  BY <1>1, Settled DEF CompStatus
<1>4. /\ f \in Call /\ r \in Seq(Call) /\ (\A h \in R : Proper(h))
      /\ Quiet({f} \cup R, ps) /\ Skips({f} \cup R, st) /\ Parallels({f} \cup R, st) /\ Tended(s, st)
  BY MindedParts
<1>5. Linked(t) /\ Frames(t) = N \cup R /\ \A p \in Holder : p \in A \/ Attended(p, r) => Attended(p, t)
  BY DEF Piled
<1>6. Frames(s) = {f} \cup R
  BY <1>4, FramesPush
<1> HIDE DEF R, s, su
<1>7. Quiet(N \cup R, ps)
  <2>1. ps # "PAUSED"
    BY <1>1, <1>4 DEF Quiet, Idling, Worked
  <2>4. \A h \in N : Proper(h)
    BY <1>1 DEF Proper
  <2> QED BY <1>4, <2>1, <2>4 DEF Quiet
<1>8. \A h \in R : h.fn = "set" => h.arg = "DISCARDED"
  BY <1>1, <1>4 DEF Skips, Starters
<1>9. \A d \in Comp : ~Doomed(d, R) /\ ~Ending(d, R)
  <2>1. \A d \in Comp : ~Doomed(d, R)
    BY <1>1 DEF Doomed
  <2> QED BY <1>8, <2>1 DEF Doomed, Ending, Cancels
<1>10. \A d \in Comp : ~Doomed(d, N \cup R) /\ ~Ending(d, N \cup R)
  <2>1. \A d \in Comp : ~Doomed(d, N) /\ ~Ending(d, N)
    BY <1>1 DEF Doomed, Ending, Cancels
  <2> QED BY <1>9, <2>1, Joint
<1>11. Skips(N \cup R, su)
  <2>1. ASSUME NEW h \in N \cup R, h.fn = "activate_each", NEW d \in Components(h.obj)
        PROVE  su[d] \notin {"COMPLETED", "REJECTED"}
    <3>1. d \in Comp
      BY PartsIn
    <3>2. CASE h \in N
      BY <1>1, <1>2, <1>3, <2>1, <3>1, <3>2
    <3>3. CASE h \in R
      <4>1. st[d] \notin {"COMPLETED", "REJECTED"}
        BY <1>4, <2>1, <3>3 DEF Skips
      <4> QED BY <1>3, <3>1, <4>1
    <3> QED BY <3>2, <3>3
  <2>2. \A h \in N \cup R : h.fn = "set" => h.arg = "DISCARDED"
    BY <1>1, <1>8
  <2>3. \A h \in N \cup R : h.fn = "activate_first" => h.arg \in Comp \/ Hollow(h.obj)
    BY <1>1, <1>2, <1>4 DEF Skips
  <2> QED BY <2>1, <2>2, <2>3 DEF Skips
<1>12. Parallels(N \cup R, su)
  <2> SUFFICES ASSUME NEW g \in Comp, Kind[g] = "parallel", Live(g, N \cup R, su),
                      NEW d \in Components(g), su[d] = "NEW"
               PROVE  ToStart(d, N \cup R)
    BY DEF Parallels
  <2>1. d \in Comp /\ d # c
    BY <1>3, PartsIn
  <2>2. CASE g = c
    BY <1>2, <2>2, Joint
  <2>3. CASE g # c
    <3>1. st[g] = "EXECUTION" /\ st[d] = "NEW"
      BY <1>3, <2>1, <2>3 DEF Live
    <3>2. ~Ending(g, {f} \cup R)
      <4>1. ~Ending(g, {f})
        BY <1>1 DEF Ending
      <4> QED BY <1>9, <4>1, Joint
    <3>3. ToStart(d, {f} \cup R)
      BY <1>1, <1>4, <2>1, <3>1, <3>2 DEF Parallels, Live
    <3>4. ~ToStart(d, {f})
      BY <1>1, <2>1 DEF ToStart, Starts
    <3> QED BY <3>3, <3>4, Joint
  <2> QED BY <2>2, <2>3
<1>13. Live(c, N \cup R, su)
  BY <1>1, <1>3, <1>10 DEF Live
<1>14. ASSUME NEW p \in Holder, Cared(p, s, st) PROVE Cared(p, t, su)
  <2>1. CASE \E d \in Comp : Parent[d] = p /\ Live(d, Frames(s), st)
    <3>1. PICK d \in Comp : Parent[d] = p /\ Live(d, Frames(s), st)
      BY <2>1
    <3>2. d # c
      BY <1>1, <3>1 DEF Live
    <3>3. Live(d, N \cup R, su)
      BY <1>3, <1>10, <3>1, <3>2 DEF Live
    <3> QED BY <1>5, <3>1, <3>3 DEF Cared
  <2>2. CASE Attended(p, s)
    <3>1. Waits(f, r, p) \/ Attended(p, r)
      BY <1>4, <2>2, AttendedPush DEF s
    <3>2. CASE Waits(f, r, p)
      <4>1. p = Parent[c]
        BY <1>1, <3>2, TreeAssumption DEF Waits, Attends, Tell, Told
      <4> QED BY <1>1, <1>5, <1>13, <4>1 DEF Cared
    <3>3. CASE Attended(p, r)
      BY <1>5, <3>3 DEF Cared
    <3> QED BY <3>1, <3>2, <3>3
  <2> QED BY <1>14, <2>1, <2>2 DEF Cared
<1>15. Tended(t, su)
  <2>1. Cared(Root, t, su)
    BY <1>4, <1>14 DEF Tended, Holder
  <2>2. ASSUME NEW g \in Comp \ Task, Live(g, Frames(t), su) PROVE Cared(g, t, su)
    <3>1. CASE g = c
      BY <1>2, <1>5, <3>1 DEF Cared, Holder
    <3>2. CASE g # c
      <4>1. st[g] = "EXECUTION"
        BY <1>3, <2>2, <3>2 DEF Live
      <4>2. ~Ending(g, {f} \cup R)
        <5>1. ~Ending(g, {f})
          BY <1>1 DEF Ending
        <5> QED BY <1>9, <5>1, Joint
      <4>3. Live(g, Frames(s), st)
        BY <1>1, <1>6, <4>1, <4>2 DEF Live
      <4>4. Cared(g, s, st)
        BY <1>4, <4>3 DEF Tended
      <4> QED BY <1>14, <4>4 DEF Holder
    <3> QED BY <3>1, <3>2
  <2> QED BY <2>1, <2>2 DEF Tended
<1>16. Minds(t, su, ps)
  BY <1>5, <1>7, <1>11, <1>12, <1>15 DEF Minds
<1> QED
  BY <1>16 DEF su

\* A component is about to start.
LEMMA LaunchAwake ==
  ASSUME TypeOK, NEW a \in Actor, calls[a] # <<>>, Awake(a), Top(a).fn # "set",
         UNCHANGED <<status, procStatus>>, NEW c \in Comp, NEW t \in Seq(Call),
         calls'[a] = <<Set(c, "EXECUTION")>> \o t,
         Minded(Top(a), Tail(calls[a]), status, procStatus) =>
           Minds(t, [status EXCEPT ![c] = "EXECUTION"], procStatus)
  PROVE  Wakes(a)
<1> DEFINE x == Set(c, "EXECUTION")
           s == <<x>> \o t
           su == [status EXCEPT ![c] = "EXECUTION"]
<1>1. x \in Call
  BY SetCall, Args DEF CompStatus
<1>2. x.fn = "set" /\ x.obj = c /\ x.arg = "EXECUTION"
  BY DEF Set, Do
<1>3. c # Root
  BY TreeAssumption
<1>4. Care(t, su, procStatus)
  BY TopMinded DEF Care
<1> HIDE DEF x
<1>5. s # <<>> /\ Head(s) = x /\ Tail(s) = t
  BY <1>1, Push
<1> HIDE DEF s
<1>6. ~Late(s, status)
  BY <1>2, <1>5 DEF Late
<1>7. Beginning(s)
  BY <1>2, <1>5 DEF Beginning
<1>8. Head(s).obj = c
  BY <1>2, <1>5
<1>9. Alive(s, status, procStatus)
  BY <1>3, <1>4, <1>5, <1>6, <1>7, <1>8 DEF Alive
<1> QED
  BY <1>9 DEF Wakes, s, x

\* What activate_task stands on
LEMMA ActivateTop ==
  ASSUME Rooted, TypeOK, NEW a \in Actor, Held(a), At(a, "activate_task")
  PROVE  /\ calls[a] # <<>> /\ Top(a).fn = "activate_task"
         /\ On(Top(a), Tail(calls[a]), status, procStatus, completing_ok)
         /\ Top(a) \in Call /\ Tail(calls[a]) \in Seq(Call) /\ status \in [Comp -> CompStatus]
         /\ Top(a).obj \in Comp /\ status[Top(a).obj] = "NEW"
         /\ \A d \in Comp : ~Doomed(d, {Top(a)} \cup Frames(Tail(calls[a])))
         /\ \A d \in Components(Top(a).obj) :
              d # Top(a).obj /\ status[d] \notin {"COMPLETED", "REJECTED"}
<1> DEFINE f == Top(a)
           r == Tail(calls[a])
           c == Top(a).obj
<1>1. calls[a] # <<>> /\ f.fn = "activate_task"
  BY DEF At
<1>2. On(f, r, status, procStatus, completing_ok) /\ status \in [Comp -> CompStatus]
  BY <1>1, TopOn
<1>3. /\ c \in Comp /\ status[c] = "NEW" /\ f \in Call /\ r \in Seq(Call)
      /\ \A d \in Comp : ~Doomed(d, {f} \cup Frames(r))
  BY <1>1, <1>2, Began DEF On
<1>4. NewBelow({f} \cup Frames(r), status)
  BY <1>2 DEF On, Law
<1> HIDE DEF f, r, c
<1>5. ASSUME NEW d \in Components(c)
      PROVE  d # c /\ status[d] \notin {"COMPLETED", "REJECTED"}
  <2>1. d \in Comp /\ Parent[d] = c
    BY PartsIn
  <2>2. d # c
    BY <2>1, DeeperThanParent
  <2> QED BY <1>3, <1>4, <2>1, <2>2 DEF NewBelow
<1> QED
  BY <1>1, <1>2, <1>3, <1>5 DEF f, r, c

\* A component is skipped.
LEMMA SkipWakes ==
  ASSUME Rooted, TypeOK, NEW a \in Actor, Held(a), Awake(a), At(a, "activate_task"),
         UNCHANGED <<status, procStatus>>,
         Continue(a, <<Do("cancel_task", Top(a).obj, None), Raise("TaskCancelled")>>)
  PROVE  Wakes(a)
<1> DEFINE f == Top(a)
           r == Tail(calls[a])
           c == Top(a).obj
           x == Do("cancel_task", c, None)
           y == Raise("TaskCancelled")
           A == {p \in Holder : Attends(x, p) \/ Waits(y, r, p)}
           B == Charges(f, r)
           R == Frames(r)
<1>1. /\ calls[a] # <<>> /\ f.fn = "activate_task" /\ f \in Call /\ r \in Seq(Call)
      /\ c \in Comp /\ status[c] = "NEW" /\ c # Root
  BY ActivateTop, TreeAssumption
<1>2. x \in Call /\ y \in Call
  BY <1>1, DoCall, RaiseCall, Args DEF Fn, JobFn, DbFn, Exception
<1>3. /\ x.fn = "cancel_task" /\ x.obj = c
      /\ y.fn = "raise" /\ y.arg = "TaskCancelled" /\ y.obj = Root
  BY DEF Do, Raise
<1>4. f.fn \notin Idling \cup {"set"}
  BY <1>1 DEF Idling, Worked
<1>5. Continue(a, <<x, y>>)
  OBVIOUS
<1>6. f.obj = c
  OBVIOUS
<1> HIDE DEF x, y, f, r, c
<1>7. Link(x, y)
  BY <1>3 DEF Link
<1>8. ASSUME Minded(f, r, status, procStatus)
      PROVE  Linkable(y, r) /\ Serve(f, {x, y}, A, B, R, status)
  <2>1. Linkable(f, r)
    BY <1>8, MindedParts
  <2>2. r # <<>> /\ Link(f, Head(r))
    BY <1>1, <2>1 DEF Linkable, Upper
  <2>3. Parent[c] = Head(r).obj
    BY <1>1, <1>6, <2>2 DEF Link
  <2>4. Link(y, Head(r))
    BY <1>3 DEF Link
  <2>5. Linkable(y, r)
    BY <1>2, <2>2, <2>4 DEF Linkable
  <2>6. Parent[c] \in A
    <3>1. Parent[c] \in Holder
      BY <1>1, ParentIn DEF Holder
    <3>2. Waits(y, r, Parent[c])
      BY <1>3, <2>2, <2>3 DEF Waits
    <3> QED BY <3>1, <3>2
  <2>7. \A p \in Holder : p \in B => p = Parent[c]
    BY <1>1, <1>6 DEF Charges, Waits, Attends, Tell, Told
  <2>8. \A h : h \in {x, y} => Proper(h) /\ h.fn \notin {"set", "activate_each", "activate_first"} \cup Starters
    BY <1>3 DEF Proper, Starters
  <2>10. \A d : Doomed(d, {x, y}) <=> d = c
    BY <1>3 DEF Doomed, Cancels
  <2>11. \A d : ~Ending(d, {x, y}) /\ ~Cancels(f, d) /\ (Starts(f, d) <=> d = c)
    BY <1>1, <1>3, <1>6 DEF Ending, Cancels, Starts
  <2> HIDE DEF A, B, R
  <2>12. Serve(f, {x, y}, A, B, R, status)
    BY <1>1, <2>6, <2>7, <2>8, <2>10, <2>11 DEF Serve
  <2> QED BY <2>5, <2>12
<1> QED
  BY <1>1, <1>2, <1>3, <1>4, <1>5, <1>7, <1>8, GoesTwoWhen DEF f, r

\* A task starts.
LEMMA TaskLaunches ==
  ASSUME Rooted, TypeOK, NEW a \in Actor, Held(a), Awake(a), At(a, "activate_task"),
         UNCHANGED <<status, procStatus>>, Top(a).obj \in Task,
         Continue(a, <<Set(Top(a).obj, "EXECUTION")>>)
  PROVE  Wakes(a)
<1> DEFINE f == Top(a)
           r == Tail(calls[a])
           c == Top(a).obj
<1>1. /\ calls[a] # <<>> /\ f.fn = "activate_task" /\ f \in Call /\ r \in Seq(Call)
      /\ status \in [Comp -> CompStatus] /\ c \in Comp /\ status[c] = "NEW"
      /\ \A d \in Comp : ~Doomed(d, {f} \cup Frames(r))
      /\ \A d \in Components(c) : d # c /\ status[d] \notin {"COMPLETED", "REJECTED"}
  BY ActivateTop
<1>2. calls'[a] = <<Set(c, "EXECUTION")>> \o r
  BY Continued
<1>3. f.obj = c
  OBVIOUS
<1>4. c \in Task /\ Kind[c] # "parallel"
  BY DEF Task, TaskKind
<1> HIDE DEF f, r, c
<1>5. ASSUME Minded(f, r, status, procStatus)
      PROVE  Minds(r, [status EXCEPT ![c] = "EXECUTION"], procStatus)
  <2>1. Piled(r, {}, {}, r)
    BY <1>1, <1>5, MindedParts, PileNone
  <2>2. Sets_off(f, c, {}, {}, Frames(r), status)
    BY <1>1, <1>3, <1>4 DEF Sets_off
  <2> QED BY <1>1, <1>5, <2>1, <2>2, MindsStart
<1> QED
  BY <1>1, <1>2, <1>5, LaunchAwake DEF f, r

\* A group starts.
LEMMA GroupLaunches ==
  ASSUME Rooted, TypeOK, NEW a \in Actor, Held(a), Awake(a), At(a, "activate_task"),
         UNCHANGED <<status, procStatus>>, Top(a).obj \notin Task,
         NEW x \in Call, x.fn \in {"activate_first", "activate_each"}, x.obj = Top(a).obj,
         Kind[Top(a).obj] = "parallel" => x.fn = "activate_each" /\ x.todo = Components(Top(a).obj),
         x.fn = "activate_first" => x.arg \in Comp \/ Hollow(Top(a).obj),
         Continue(a, <<Set(Top(a).obj, "EXECUTION"), x, Do("except_activate", Top(a).obj, None)>>)
  PROVE  Wakes(a)
<1> DEFINE f == Top(a)
           r == Tail(calls[a])
           c == Top(a).obj
           y == Do("except_activate", c, None)
           z == Set(c, "EXECUTION")
           t == <<x, y>> \o r
           A == {p \in Holder : Attends(x, p) \/ Waits(y, r, p)}
<1>1. /\ calls[a] # <<>> /\ f.fn = "activate_task" /\ f \in Call /\ r \in Seq(Call)
      /\ status \in [Comp -> CompStatus] /\ c \in Comp /\ status[c] = "NEW"
      /\ \A d \in Comp : ~Doomed(d, {f} \cup Frames(r))
      /\ \A d \in Components(c) : d # c /\ status[d] \notin {"COMPLETED", "REJECTED"}
  BY ActivateTop
<1>2. y \in Call /\ z \in Call
  <2>1. c \in Comp
    BY <1>1
  <2> HIDE DEF c
  <2>2. y \in Call
    BY <2>1, DoCall, Args DEF Fn, Except, JobFn, DbFn
  <2>3. z \in Call
    BY <2>1, SetCall, Args DEF CompStatus
  <2> QED BY <2>2, <2>3
<1>3. y.fn = "except_activate" /\ y.obj = c
  BY DEF Do
<1>4. f.obj = c
  OBVIOUS
<1>5. calls'[a] = <<z, x, y>> \o r
  BY Continued
<1>6. /\ c \notin Task /\ x.obj = c
      /\ Kind[c] = "parallel" => x.fn = "activate_each" /\ x.todo = Components(c)
      /\ x.fn = "activate_first" => x.arg \in Comp \/ Hollow(c)
  OBVIOUS
<1> HIDE DEF f, r, y, z
<1>7. calls'[a] = <<z>> \o t
  BY <1>1, <1>2, <1>5, JoinTwo
<1>8. t \in Seq(Call)
  BY <1>1, <1>2, Tuples, ConcatProperties
<1> HIDE DEF c
<1>9. ASSUME Minded(f, r, status, procStatus)
      PROVE  Minds(t, [status EXCEPT ![c] = "EXECUTION"], procStatus)
  <2>1. Linked(r) /\ Linkable(f, r)
    BY <1>9, MindedParts
  <2>2. r # <<>> /\ Link(f, Head(r))
    BY <1>1, <2>1 DEF Linkable, Upper
  <2>3. Link(y, Head(r))
    BY <1>1, <1>3, <1>4, <2>2 DEF Link
  <2>4. Linkable(y, r)
    BY <1>2, <2>2, <2>3 DEF Linkable
  <2>5. Link(x, y) /\ x.fn # "raise"
    BY DEF Link
  <2>6. Piled(t, {x, y}, A, r)
    BY <1>1, <2>1, <2>4, <2>5, PileTwo
  <2>7. c \in A
    BY <1>1, <1>6 DEF Holder, Attends
  <2>8. Kind[c] = "parallel" => \A d \in Components(c) : ToStart(d, {x, y})
    BY <1>6 DEF ToStart, Starts
  <2>9. \A h \in {x, y} : h.fn \in {"activate_first", "activate_each", "except_activate"} /\ h.obj = c
    BY <1>3, <1>6
  <2>10. \A h \in {x, y} : h.fn = "activate_first" => h.arg \in Comp \/ Hollow(c)
    BY <1>3, <1>6
  <2> HIDE DEF A, t
  <2>11. Sets_off(f, c, {x, y}, A, Frames(r), status)
    BY <1>1, <1>4, <2>7, <2>8, <2>9, <2>10 DEF Sets_off
  <2> QED BY <1>1, <1>9, <2>6, <2>11, MindsStart
<1>10. f.fn # "set"
  BY <1>1
<1> HIDE DEF t
<1> QED
  BY <1>1, <1>7, <1>8, <1>9, <1>10, LaunchAwake DEF f, r, z

\* A component is activated.
LEMMA ActivateTaskWakes ==
  ASSUME Rooted, Filled, TypeOK, Stacks, NEW a \in Actor, Held(a), Awake(a), ActivateTask(a)
  PROVE  Wakes(a)
<1> DEFINE c == Top(a).obj
<1>1. UNCHANGED <<status, procStatus>>
  BY SameData DEF ActivateTask
<1>2. At(a, "activate_task") /\ c \in Comp
  BY ActivateTop DEF ActivateTask
<1>3. CASE Continue(a, <<Do("cancel_task", c, None), Raise("TaskCancelled")>>)
  BY <1>1, <1>2, <1>3, SkipWakes
<1>4. CASE c \in Task /\ Continue(a, <<Set(c, "EXECUTION")>>)
  BY <1>1, <1>2, <1>4, TaskLaunches
<1>5. CASE Kind[c] = "sequential" /\ Continue(a, <<Set(c, "EXECUTION"), Do("activate_first", c, First(c)),
                                                    Do("except_activate", c, None)>>)
  <2> DEFINE x == Do("activate_first", c, First(c))
  <2>1. First(c) \in Arg
    BY Args, PartsIn, FirstPart DEF First
  <2>2. x \in Call /\ x.fn = "activate_first" /\ x.obj = c /\ x.arg = First(c)
    BY <1>2, <2>1, DoCall DEF Fn, JobFn, DbFn, Do
  <2>3. c \notin Task /\ Kind[c] # "parallel"
    BY <1>5 DEF Task, TaskKind
  <2>4. First(c) \in Comp \/ Hollow(c)
    BY <1>2, <2>3, FirstPart DEF Filled
  <2>5. Continue(a, <<Set(c, "EXECUTION"), x, Do("except_activate", c, None)>>)
    BY <1>5
  <2> HIDE DEF x
  <2> QED BY <1>1, <1>2, <2>2, <2>3, <2>4, <2>5, GroupLaunches
<1>6. CASE /\ Kind[c] \in {"parallel", "completion"}
           /\ Continue(a, <<Set(c, "EXECUTION"), Each("activate_each", c, Components(c)),
                            Do("except_activate", c, None)>>)
  <2> DEFINE x == Each("activate_each", c, Components(c))
  <2>1. Components(c) \in SUBSET Comp
    BY PartsIn
  <2>2. x \in Call /\ x.fn = "activate_each" /\ x.obj = c /\ x.todo = Components(c)
    BY <1>2, <2>1, EachCall DEF Fn, JobFn, DbFn, Each
  <2>3. c \notin Task
    BY <1>6 DEF Task, TaskKind
  <2>4. Continue(a, <<Set(c, "EXECUTION"), x, Do("except_activate", c, None)>>)
    BY <1>6
  <2> HIDE DEF x
  <2> QED BY <1>1, <1>2, <2>2, <2>3, <2>4, GroupLaunches
<1> HIDE DEF c
<1> QED
  BY <1>3, <1>4, <1>5, <1>6 DEF ActivateTask, c

\* The call f activates components of the group that h waits for.
Inside(f, r) ==
  /\ f.fn \in {"activate_each", "activate_first"} /\ f.obj \in Comp
  /\ f.fn = "activate_each" => f.todo = {}
  /\ r # <<>> /\ Head(r).fn = "except_activate" /\ Head(r).obj = f.obj

\* There is nothing to activate: the group gives up.
LEMMA InsideGives ==
  ASSUME NEW f, NEW r, NEW st, NEW ps, Minded(f, r, st, ps), Inside(f, r)
  PROVE  Gives(<<f>> \o r, {f, Head(r)}, Head(r), Tail(r), st, ps)
<1> DEFINE h == Head(r)
           q == Tail(r)
           F == {f, h}
           s == <<f>> \o r
           B == {p \in Holder : p = h.obj}
           B1 == {p \in Holder : Waits(h, q, p)}
           B2 == {p \in Holder : Waits(f, r, p)}
<1>1. f \in Call /\ r \in Seq(Call) /\ Linked(r) /\ Minds(s, st, ps)
  BY MindedParts DEF Minded
<1>2. /\ f.fn \in {"activate_each", "activate_first"} /\ f.obj \in Comp
      /\ (f.fn = "activate_each" => f.todo = {})
      /\ r # <<>> /\ h.fn = "except_activate" /\ h.obj = f.obj
  BY DEF Inside
<1>3. h \in Call /\ q \in Seq(Call)
  BY <1>1, <1>2, HeadTailProperties
<1>4. Linked(q) /\ (q # <<>> => Link(h, Head(q))) /\ (q = <<>> => h.fn \notin Upper)
  BY <1>1, <1>2, LinkedTop
<1>5. r = <<h>> \o q
  BY <1>1, <1>2, HeadOnTail
<1> HIDE DEF h, q, s
<1>6. Linkable(h, q)
  BY <1>3, <1>4 DEF Linkable
<1>7. Based(r, {h}, B1, q)
  BY <1>3, <1>5, BaseOne
<1>8. Based(s, {f} \cup {h}, B1 \cup B2, q)
  BY <1>1, <1>7, BaseMore DEF s
<1>9. B1 = {}
  BY <1>2 DEF Waits, Attends, Tell, Told
<1>10. B2 = B
  <2>1. \A p : Waits(f, r, p) <=> p = h.obj
    BY <1>2 DEF Waits, Attends, Tell, Told
  <2> QED BY <2>1
<1>11. {f} \cup {h} = F /\ B1 \cup B2 = B
  BY <1>9, <1>10
<1>12. Based(s, F, B, q)
  BY <1>8, <1>11
<1>13. f.fn \notin Idling
  BY <1>2 DEF Idling, Worked
<1>14. \A c : ~Doomed(c, F)
  BY <1>2 DEF Doomed, Cancels
<1>15. \A c : ~ToStart(c, F)
  BY <1>2 DEF ToStart, Starts
<1>16. (\E k \in F : k.fn \notin Idling) /\ \A k \in F : k.fn # "set"
  BY <1>2, <1>13
<1> HIDE DEF F
<1>17. Gives(s, F, h, q, st, ps)
  BY <1>1, <1>2, <1>3, <1>4, <1>6, <1>12, <1>14, <1>15, <1>16 DEF Gives
<1> QED
  BY <1>17 DEF s, F, h, q

\* Who waits for a group that may be without components
LEMMA HollowEnds ==
  ASSUME NEW h, NEW q, NEW K, NEW st, NEW ps, NEW ok, h \in Call, q \in Seq(Call), Shape(<<h>> \o q),
         \A k \in Frames(q) : Needs(k, st),
         Linked(<<h>> \o q), h.fn = "except_activate", h.obj \in Comp, Hollow(h.obj)
  PROVE  /\ q # <<>> /\ Head(q).fn \in {"except_end", "except_next"}
         /\ \A k \in Frames(q) : k.fn \notin Starters
<1> DEFINE s == <<h>> \o q
           u == Head(q)
           v == Tail(q)
<1>1. s \in Seq(Call) /\ s # <<>> /\ Head(s) = h /\ Tail(s) = q
  BY Push
<1> HIDE DEF s
<1>2. Shape(s) /\ Linked(s)
  BY DEF s
<1>3. Linked(q) /\ (q # <<>> => Link(h, Head(q))) /\ (q = <<>> => h.fn \notin Upper)
  BY <1>1, <1>2, LinkedTop
<1>4. q # <<>> /\ Link(h, u)
  BY <1>3 DEF Upper
<1>5. Shape(q) /\ Rests(h, u)
  BY <1>1, <1>2, <1>4, ShapeTop
<1>6. /\ u \in Call /\ v \in Seq(Call) /\ Frames(q) = {u} \cup Frames(v)
      /\ \A k \in Frames(v) : Bears(u, k)
  BY <1>4, <1>5, ShapeTop
<1>7. (v # <<>> => Link(u, Head(v))) /\ (v = <<>> => u.fn \notin Upper)
  BY <1>3, <1>4, LinkedTop
<1>8. Needs(u, st)
  BY <1>6
<1> HIDE DEF u
<1>9. u.fn \in {"except_end", "except_next"}
  <2>1. CASE h.obj = Completion
    <3>1. OfCompletion(h)
      BY <2>1 DEF OfCompletion
    <3> QED BY <1>5, <3>1 DEF Rests
  <2>2. CASE Parent[h.obj] = Root /\ h.obj # First(Root)
    <3>1. u.obj = Root /\ u.fn # "except_cancelled"
      BY <1>4, <2>2 DEF Link
    <3>2. Root \notin Comp
      BY TreeAssumption
    <3>3. u.fn # "except_sibling"
      BY <1>6, <3>1, <3>2 DEF Call
    <3>4. u.fn # "except_first"
      BY <1>8, <3>1, <3>2 DEF Needs
    <3>5. u.fn # "except_pass"
      <4> SUFFICES ASSUME u.fn = "except_pass" PROVE FALSE
        OBVIOUS
      <4>1. v # <<>> /\ Link(u, Head(v))
        BY <1>7 DEF Upper
      <4>2. Head(v).fn = "activate_each" /\ Head(v).obj = Root
        BY <3>1, <4>1 DEF Link
      <4>3. Head(v) \in Frames(q)
        BY <1>6, <4>1, HeadIn
      <4>4. Needs(Head(v), st)
        BY <4>3
      <4> QED BY <3>2, <4>2, <4>4 DEF Needs
    <3> QED BY <1>5, <3>1, <3>3, <3>4, <3>5 DEF Rests
  <2> QED BY <2>1, <2>2 DEF Hollow
<1>10. OfProcess(u)
  BY <1>9 DEF OfProcess
<1>11. \A k \in Frames(v) : k.fn \in {"except_cancelled", "fail_job"} \cup Worked
  BY <1>6, <1>10 DEF Bears
<1>12. \A k \in Frames(q) : k.fn \notin Starters
  BY <1>6, <1>9, <1>11 DEF Starters, Worked
<1> QED
  BY <1>4, <1>9, <1>12 DEF u

\* The group throws: it is cancelled or ends, and so on.
LEMMA InsideThrows ==
  ASSUME TypeOK, NEW a \in Actor, calls[a] # <<>>, Held(a), Awake(a),
         Top(a).fn \in {"activate_each", "activate_first"},
         Top(a).fn = "activate_each" => Top(a).todo = {},
         UNCHANGED <<status, procStatus>>, NEW e \in {"TaskCancelled", "TaskClosed"}, Throw(a, e),
         e = "TaskClosed" /\ Minded(Top(a), Tail(calls[a]), status, procStatus) => Hollow(Top(a).obj)
  PROVE  Wakes(a)
<1> DEFINE f == Top(a)
           r == Tail(calls[a])
           h == Head(r)
           q == Tail(r)
<1>1. f.fn # "set"
  OBVIOUS
<1>2. On(f, r, status, procStatus, completing_ok)
  BY <1>1, TopOn
<1>3. f \in Call /\ r \in Seq(Call) /\ Law({f} \cup Frames(r), status, procStatus, completing_ok)
      /\ Shape(r) /\ (r # <<>> => Rests(f, h))
  BY <1>2 DEF On
<1>4. f.obj \in Comp /\ status[f.obj] = "EXECUTION"
  BY <1>3 DEF Law, Needs
<1>5. \A k \in Frames(r) : Needs(k, status)
  BY <1>3 DEF Law
<1>6. /\ f.fn \in {"activate_each", "activate_first"}
      /\ f.fn = "activate_each" => f.todo = {}
      /\ e = "TaskClosed" /\ Minded(f, r, status, procStatus) => Hollow(f.obj)
  OBVIOUS
<1>7. CASE r = <<>>
  <2>1. Unwound(r, e) = <<>>
    BY <1>7, UnwoundNil
  <2>2. Fine(Unwound(r, e), status)
    BY <2>1 DEF Fine
  <2>3. ~Minded(f, r, status, procStatus)
    <3> HIDE DEF f, r
    <3>1. f.fn \in Upper
      BY <1>6 DEF Upper
    <3> QED BY <1>7, <3>1, MindedParts DEF Linkable
  <2> QED BY <1>1, <2>2, <2>3, ThrowsAwake
<1>8. CASE r # <<>>
  <2> DEFINE x == Do("cancel_task", h.obj, None)
             y == Raise("TaskCancelled")
             u == Set(h.obj, "COMPLETED")
             w == Raise("TaskClosed")
             t == Unwound(r, e)
  <2> HIDE DEF f
  <2>1. h.fn = "except_activate" /\ h.obj = f.obj
    BY <1>3, <1>6, <1>8 DEF Rests
  <2>2. h \in Call /\ q \in Seq(Call) /\ r = <<h>> \o q
    BY <1>3, <1>8, HeadTailProperties, HeadOnTail
  <2>3. Inside(f, r)
    BY <1>4, <1>6, <1>8, <2>1 DEF Inside
  <2>4. t = Handler(h, e) \o q
    <3>1. e \in Catches(h.fn)
      BY <2>1 DEF Catches
    <3> QED BY <1>3, <1>8, <3>1, UnwoundCaught
  <2>5. e = "TaskCancelled" => Handler(h, e) = <<x, y>>
    BY <2>1 DEF Handler
  <2>6. e = "TaskClosed" => Handler(h, e) = <<u, w>>
    BY <2>1 DEF Handler
  <2>7. x \in Call /\ y \in Call
    BY <1>4, <2>1, DoCall, RaiseCall, Args DEF Fn, JobFn, DbFn, Exception
  <2>8. u \in Call /\ w \in Call
    BY <1>4, <2>1, SetCall, RaiseCall, Args DEF Exception, CompStatus
  <2>9. /\ x.fn = "cancel_task" /\ u.fn = "set" /\ u.arg = "COMPLETED" /\ u.obj = f.obj
    BY <2>1 DEF Set, Do
  <2> DEFINE t1 == <<x, y>> \o q
             t2 == <<u, w>> \o q
  <2>10. t = IF e = "TaskCancelled" THEN t1 ELSE t2
    BY <2>4, <2>5, <2>6
  <2>11. Fine(t1, status)
    <3> HIDE DEF x, y, q
    <3> QED BY <2>2, <2>7, <2>9, FineTop
  <2>12. Fine(t2, status)
    <3> HIDE DEF u, w, q
    <3> QED BY <1>4, <2>2, <2>8, <2>9, FineTop
  <2>13. ASSUME Minded(f, r, status, procStatus) PROVE Minds(t, status, procStatus)
    <3> DEFINE s == <<f>> \o r
               F == {f, h}
    <3>1. Gives(s, F, h, q, status, procStatus)
      BY <2>3, <2>13, InsideGives
    <3> HIDE DEF s, F, h, q, r
    <3>2. Minds(t1, status, procStatus)
      BY <3>1, GroupCancels
    <3>3. CASE e = "TaskClosed"
      <4>1. Hollow(h.obj)
        BY <1>6, <2>1, <2>13, <3>3 DEF r
      <4>2. Shape(<<h>> \o q) /\ Linked(<<h>> \o q)
        BY <1>3, <2>2, <2>13, MindedParts
      <4>3. Frames(r) = {h} \cup Frames(q)
        BY <2>2, FramesPush
      <4>4. q # <<>> /\ Head(q).fn \in {"except_end", "except_next"} /\ \A k \in Frames(q) : k.fn \notin Starters
        BY <1>4, <1>5, <2>1, <2>2, <4>1, <4>2, <4>3, HollowEnds
      <4>5. Minds(t2, status, procStatus)
        BY <3>1, <4>4, GroupEnds
      <4> QED BY <2>10, <3>3, <4>5
    <3>4. CASE e = "TaskCancelled"
      BY <2>10, <3>2, <3>4
    <3> QED BY <3>3, <3>4
  <2>14. Fine(t, status)
    BY <2>10, <2>11, <2>12
  <2> HIDE DEF x, y, u, w, t1, t2, h, q
  <2> QED BY <1>1, <2>13, <2>14, ThrowsAwake DEF t, f, r
<1> QED
  BY <1>7, <1>8

\* What a call finds that activates components of a group
LEMMA InsideTop ==
  ASSUME Rooted, TypeOK, Stacks, NEW a \in Actor, calls[a] # <<>>, Held(a),
         Top(a).fn \in {"activate_each", "activate_first"}
  PROVE  /\ On(Top(a), Tail(calls[a]), status, procStatus, completing_ok)
         /\ Top(a) \in Call /\ Tail(calls[a]) \in Seq(Call) /\ status \in [Comp -> CompStatus]
         /\ Top(a).obj \in Comp \ Task /\ status[Top(a).obj] = "EXECUTION"
         /\ Top(a).fn \notin Idling \cup {"set"} /\ Top(a).fn \in Starters
         /\ \A d \in Comp : ~Doomed(d, {Top(a)} \cup Frames(Tail(calls[a])))
         /\ \A d \in Comp : ~Cancels(Top(a), d)
         /\ \A p : Waits(Top(a), Tail(calls[a]), p) <=> p = Top(a).obj
         /\ \A d \in Components(Top(a).obj) : ~ToStart(d, Frames(Tail(calls[a])))
<1> DEFINE f == Top(a)
           r == Tail(calls[a])
<1>1. f.fn \notin Idling \cup {"set"} /\ f.fn \in Starters
  BY DEF Idling, Worked, Starters
<1>2. On(f, r, status, procStatus, completing_ok) /\ status \in [Comp -> CompStatus]
  BY <1>1, TopOn
<1>3. f \in Call /\ r \in Seq(Call) /\ Good(f, Done)
  BY <1>2, Running DEF On, Fits
<1>4. f.obj \in Comp /\ status[f.obj] = "EXECUTION"
  BY <1>2 DEF On, Law, Needs
<1>5. f.obj \notin Task
  BY <1>3, TreeAssumption DEF Good, Task, TaskKind
<1>6. f.fn \in {"activate_each", "activate_first"}
  OBVIOUS
<1> HIDE DEF f, r
<1>7. Harmless(f) /\ \A d \in Comp : ~Cancels(f, d)
  BY <1>6 DEF Harmless, Canceller, Cancels
<1>8. \A d \in Comp : ~Doomed(d, {f} \cup Frames(r))
  BY <1>2, <1>7, NoneDoomed
<1>9. \A p : Waits(f, r, p) <=> p = f.obj
  BY <1>6 DEF Waits, Attends, Tell, Told
<1>10. ASSUME NEW d \in Components(f.obj), NEW k \in Frames(r), Starts(k, d)
       PROVE  FALSE
  <2>1. Bears(f, k)
    BY <1>2 DEF On
  <2>2. k.fn = "activate_each" /\ d \in k.todo
    BY <1>10, <2>1 DEF Bears, Starts
  <2>3. d \in Comp /\ Parent[d] = f.obj
    BY PartsIn
  <2>4. Clear(f, d)
    BY <1>6, <2>1, <2>2, <2>3 DEF Bears, Multiple, Keeps
  <2>5. Depth[f.obj] \in Nat /\ Depth[d] \in Nat /\ Depth[f.obj] < Depth[d]
    BY <2>3, DeeperThanParent
  <2> QED BY <2>4, <2>5 DEF Clear
<1>11. \A d \in Components(f.obj) : ~ToStart(d, Frames(r))
  BY <1>10 DEF ToStart
<1> QED
  BY <1>1, <1>2, <1>3, <1>4, <1>5, <1>7, <1>8, <1>9, <1>11 DEF f, r

\* The next component of a parallel group is activated.
LEMMA EachAwake ==
  ASSUME Rooted, TypeOK, Stacks, NEW a \in Actor, calls[a] # <<>>, Held(a), Awake(a),
         Top(a).fn = "activate_each", UNCHANGED <<status, procStatus>>, NEW c \in Top(a).todo,
         Continue(a, <<Do("activate_task", c, None), Do("except_pass", Top(a).obj, None),
                       Each("activate_each", Top(a).obj, Top(a).todo \ {c})>>)
  PROVE  Wakes(a)
<1> DEFINE f == Top(a)
           r == Tail(calls[a])
           g == Top(a).obj
           x == Do("activate_task", c, None)
           y == Do("except_pass", g, None)
           z == Each("activate_each", g, Top(a).todo \ {c})
           A == {p \in Holder : Attends(x, p) \/ Attends(y, p) \/ Waits(z, r, p)}
           B == Charges(f, r)
           R == Frames(r)
<1>1. /\ f \in Call /\ r \in Seq(Call) /\ g \in Comp
      /\ f.fn \notin Idling \cup {"set"} /\ f.fn \in Starters
      /\ \A d \in Comp : ~Cancels(f, d)
      /\ \A p : Waits(f, r, p) <=> p = g
      /\ On(f, r, status, procStatus, completing_ok)
  BY InsideTop
<1>2. f.fn = "activate_each" /\ f.obj = g /\ c \in f.todo
  OBVIOUS
<1>3. f.todo \subseteq Components(g)
  BY <1>1, <1>2 DEF On, Law, Needs
<1>4. f.todo \in SUBSET Comp
  BY <1>3, PartsIn
<1>5. c \in Comp /\ Parent[c] = g
  BY <1>2, <1>3, PartsIn
<1>6. x \in Call /\ y \in Call
  BY <1>1, <1>5, DoCall, Args DEF Fn, Except, JobFn, DbFn
<1>7. z \in Call
  BY <1>1, <1>4, EachCall DEF Fn, JobFn, DbFn
<1>8. /\ x.fn = "activate_task" /\ x.obj = c /\ y.fn = "except_pass" /\ y.obj = g
      /\ z.fn = "activate_each" /\ z.obj = g /\ z.todo = f.todo \ {c}
  BY DEF Do, Each
<1>9. Continue(a, <<x, y, z>>)
  OBVIOUS
<1> HIDE DEF x, y, z, f, r, g
<1>10. Link(x, y) /\ Link(y, z)
  BY <1>5, <1>8 DEF Link
<1>11. ASSUME Minded(f, r, status, procStatus)
       PROVE  Linkable(z, r) /\ Serve(f, {x, y, z}, A, B, R, status)
  <2>1. Linkable(f, r) /\ Skips({f} \cup R, status)
    BY <1>11, MindedParts
  <2>2. r # <<>>
    BY <1>2, <2>1 DEF Linkable, Upper
  <2>3. Linkable(z, r)
    BY <1>7, <1>8, <2>2 DEF Linkable, Link
  <2>4. g \in A
    <3>1. Waits(z, r, g)
      BY <1>8 DEF Waits, Attends
    <3> QED BY <1>1, <3>1 DEF Holder
  <2>5. \A p \in Holder : p \in B => p \in A
    BY <1>1, <2>4 DEF Charges
  <2>6. \A h \in {x, y, z} : Proper(h) /\ h.fn \notin {"set", "activate_first"}
    BY <1>8 DEF Proper
  <2>7. \A h \in {x, y, z} : h.fn = "activate_each" =>
          \A d \in Components(h.obj) : status[d] \notin {"COMPLETED", "REJECTED"}
    <3>1. \A d \in Components(g) : status[d] \notin {"COMPLETED", "REJECTED"}
      BY <1>2, <2>1 DEF Skips
    <3> QED BY <1>8, <3>1
  <2>9. \A d : ~Doomed(d, {x, y, z}) /\ ~Ending(d, {x, y, z})
    BY <1>8 DEF Doomed, Ending, Cancels
  <2>10. \A d : Starts(f, d) => ToStart(d, {x, y, z})
    BY <1>2, <1>8 DEF ToStart, Starts
  <2> HIDE DEF A, B, R
  <2>11. Serve(f, {x, y, z}, A, B, R, status)
    BY <1>1, <2>5, <2>6, <2>7, <2>9, <2>10 DEF Serve
  <2> QED BY <2>3, <2>11
<1>12. x.fn # "raise" /\ y.fn # "raise" /\ x.fn # "set"
  BY <1>8
<1>13. f.fn \notin Idling \cup {"set"} /\ r \in Seq(Call)
  BY <1>1
<1> HIDE DEF A, B, R
<1> QED
  BY <1>6, <1>7, <1>9, <1>10, <1>11, <1>12, <1>13, GoesThreeWhen DEF f, r, A, B, R

\* A group has activated its components, and one of them runs.
LEMMA EachReturns ==
  ASSUME Rooted, TypeOK, Stacks, NEW a \in Actor, calls[a] # <<>>, Held(a), Awake(a),
         Top(a).fn = "activate_each", UNCHANGED <<status, procStatus>>, Top(a).todo = {},
         ~allDone(Top(a).obj), Continue(a, <<>>)
  PROVE  Wakes(a)
<1> DEFINE f == Top(a)
           r == Tail(calls[a])
           g == Top(a).obj
           B == Charges(f, r)
           R == Frames(r)
<1>1. /\ On(f, r, status, procStatus, completing_ok)
      /\ f \in Call /\ r \in Seq(Call) /\ status \in [Comp -> CompStatus]
      /\ g \in Comp \ Task /\ status[g] = "EXECUTION"
      /\ f.fn \notin Idling \cup {"set"} /\ f.fn \in Starters
      /\ \A d \in Comp : ~Doomed(d, {f} \cup R)
      /\ \A d \in Comp : ~Cancels(f, d)
      /\ \A p : Waits(f, r, p) <=> p = g
      /\ \A d \in Components(g) : ~ToStart(d, R)
  BY InsideTop
<1>2. f.fn = "activate_each" /\ f.obj = g /\ f.todo = {}
  OBVIOUS
<1>3. PICK c \in Components(g) : Open(c, status)
  BY DoneOver
<1>4. c \in Comp /\ c # Completion /\ Parent[c] = g
  BY PartsIn
<1>5. Good(f, Done)
  BY Running DEF Fits
<1>6. Kind[g] \in {"parallel", "completion"}
  BY <1>2, <1>5 DEF Good
<1>7. AllStarted({f} \cup R, status)
  BY <1>1 DEF On, Law
<1>8. Fine(r, status)
  BY <1>1, RestFine
<1> HIDE DEF f, r, g
<1>9. ASSUME Minded(f, r, status, procStatus) PROVE Minds(r, status, procStatus)
  <2>1. Linked(r) /\ Skips({f} \cup R, status) /\ Parallels({f} \cup R, status)
    BY <1>9, MindedParts
  <2>2. \A h \in {f} \cup R : h.fn = "set" => h.arg = "DISCARDED"
    BY <1>1, <2>1 DEF Skips
  <2>3. \A d \in Comp : ~Ending(d, {f} \cup R)
    BY <1>1, <2>2 DEF Ending, Doomed, Cancels
  <2>4. ~ToStart(c, {f} \cup R)
    <3>1. ~ToStart(c, {f})
      BY <1>2 DEF ToStart, Starts
    <3> QED BY <1>1, <3>1, Joint
  <2>5. status[c] # "NEW"
    <3>1. CASE g = Completion
      BY <1>1, <1>3, <1>4, <1>7, <2>4, <3>1 DEF AllStarted
    <3>2. CASE g # Completion
      <4>1. Kind[g] = "parallel"
        BY <1>1, <1>6, <3>2, TreeAssumption
      <4>2. Live(g, {f} \cup R, status)
        BY <1>1, <2>3 DEF Live
      <4> QED BY <1>1, <1>4, <2>1, <2>4, <4>1, <4>2 DEF Parallels
    <3> QED BY <3>1, <3>2
  <2>6. status[c] = "EXECUTION"
    BY <1>3, <2>5 DEF Open
  <2>7. Live(c, R, status)
    <3>1. ~Doomed(c, R) /\ ~Ending(c, R)
      BY <1>1, <1>4, <2>3, Joint
    <3> QED BY <2>6, <3>1 DEF Live
  <2>8. Piled(r, {}, {}, r)
    BY <1>1, <2>1, PileNone
  <2>9. \A p \in Holder : p \in B => p = Parent[c]
    BY <1>1, <1>4 DEF Charges
  <2>10. \A d : ~Doomed(d, {}) /\ ~Ending(d, {})
    BY Lone
  <2>11. \A d : ~Starts(f, d)
    BY <1>2 DEF Starts
  <2> HIDE DEF B, R
  <2>12. {} \cup R = R
    OBVIOUS
  <2>13. Serve(f, {}, {}, B, R, status)
    BY <1>1, <1>4, <2>7, <2>9, <2>10, <2>11, <2>12 DEF Serve
  <2> QED BY <1>1, <1>9, <2>8, <2>13, MindsOne DEF B, R
<1>10. f.fn # "set"
  BY <1>2
<1> QED
  BY <1>8, <1>9, <1>10, ReturnsAwake DEF f, r

\* The components of a parallel group or of the completion group are activated.
LEMMA ActivateEachWakes ==
  ASSUME Rooted, Filled, TypeOK, Stacks, NEW a \in Actor, Held(a), Awake(a), ActivateEach(a)
  PROVE  Wakes(a)
<1> DEFINE f == Top(a)
           r == Tail(calls[a])
<1>1. calls[a] # <<>> /\ f.fn = "activate_each"
  BY DEF ActivateEach, At
<1>2. UNCHANGED <<status, procStatus>>
  BY SameData DEF ActivateEach
<1>3. f.obj \in Comp \ Task /\ status \in [Comp -> CompStatus]
  BY <1>1, InsideTop
<1>4. ASSUME NEW c \in f.todo,
             Continue(a, <<Do("activate_task", c, None), Do("except_pass", f.obj, None),
                           Each("activate_each", f.obj, f.todo \ {c})>>)
      PROVE  Wakes(a)
  BY <1>1, <1>2, <1>4, EachAwake
<1>5. CASE f.todo = {} /\ Throw(a, "TaskCancelled")
  BY <1>1, <1>2, <1>5, InsideThrows
<1>6. CASE f.todo = {} /\ ~allCancelled(f.obj) /\ allDone(f.obj) /\ Throw(a, "TaskClosed")
  <2>1. ASSUME Minded(f, r, status, procStatus) PROVE Hollow(f.obj)
    <3> DEFINE g == f.obj
    <3>1. Skips({f} \cup Frames(r), status)
      BY <2>1, MindedParts
    <3> HIDE DEF f, r
    <3>2. \A d \in Components(g) : status[d] \notin {"COMPLETED", "REJECTED"}
      BY <1>1, <3>1 DEF Skips
    <3>3. \A d \in Components(g) : ~Open(d, status) /\ d \in Comp
      BY <1>6, DoneOver, PartsIn
    <3>4. \A d \in Components(g) : status[d] = "DISCARDED"
      BY <1>3, <3>2, <3>3 DEF Open, CompStatus
    <3>5. Components(g) = {}
      BY <1>6, <3>4 DEF allCancelled
    <3> QED BY <1>3, <3>5 DEF Filled
  <2> QED BY <1>1, <1>2, <1>6, <2>1, InsideThrows
<1>7. CASE f.todo = {} /\ ~allDone(f.obj) /\ Continue(a, <<>>)
  BY <1>1, <1>2, <1>7, EachReturns
<1> QED
  BY <1>4, <1>5, <1>6, <1>7 DEF ActivateEach

\* The first component of a sequential group is activated, or a later one.
LEMMA ActivateFirstWakes ==
  ASSUME Rooted, TypeOK, Stacks, NEW a \in Actor, Held(a), Awake(a), ActivateFirst(a)
  PROVE  Wakes(a)
<1> DEFINE f == Top(a)
           r == Tail(calls[a])
           g == Top(a).obj
           c == Top(a).arg
           x == Do("activate_task", c, None)
           y == Do("except_first", g, c)
           A == {p \in Holder : Attends(x, p) \/ Waits(y, r, p)}
           B == Charges(f, r)
           R == Frames(r)
<1>1. calls[a] # <<>> /\ f.fn = "activate_first"
  BY DEF ActivateFirst, At
<1>2. UNCHANGED <<status, procStatus>>
  BY SameData DEF ActivateFirst
<1>3. /\ f \in Call /\ r \in Seq(Call) /\ g \in Comp
      /\ f.fn \notin Idling \cup {"set"} /\ f.fn \in Starters
      /\ \A d \in Comp : ~Cancels(f, d)
      /\ \A p : Waits(f, r, p) <=> p = g
  BY <1>1, InsideTop
<1>4. CASE c \notin Comp /\ Throw(a, "TaskClosed")
  <2>1. ASSUME Minded(f, r, status, procStatus) PROVE Hollow(f.obj)
    <3>1. Skips({f} \cup Frames(r), status)
      BY <2>1, MindedParts
    <3> HIDE DEF r
    <3> QED BY <1>1, <1>4, <3>1 DEF Skips
  <2> QED BY <1>1, <1>2, <1>4, <2>1, InsideThrows
<1>5. CASE c \in Comp /\ Continue(a, <<x, y>>)
  <2>1. Good(f, Done)
    BY <1>1, Running DEF Fits
  <2>2. c \in Components(g)
    BY <1>1, <1>5, <2>1 DEF Good
  <2>3. Parent[c] = g
    BY <2>2, PartsIn
  <2>4. x \in Call
    BY <1>5, DoCall, Args DEF Fn, JobFn, DbFn
  <2>5. y \in Call
    BY <1>3, <1>5, DoCall, Args DEF Fn, Except, JobFn, DbFn
  <2>6. x.fn = "activate_task" /\ x.obj = c /\ y.fn = "except_first" /\ y.obj = g
    BY DEF Do
  <2>7. f.obj = g /\ Continue(a, <<x, y>>) /\ c \in Comp
    BY <1>5
  <2> HIDE DEF x, y, f, r, g, c
  <2>8. Link(x, y)
    BY <2>3, <2>6 DEF Link
  <2>9. ASSUME Minded(f, r, status, procStatus)
        PROVE  Linkable(y, r) /\ Serve(f, {x, y}, A, B, R, status)
    <3>1. Linkable(f, r)
      BY <2>9, MindedParts
    <3>2. r # <<>>
      BY <1>1, <3>1 DEF Linkable, Upper
    <3>3. Linkable(y, r)
      BY <2>5, <2>6, <3>2 DEF Linkable, Link
    <3>4. g \in A
      <4>1. Attends(x, g)
        BY <2>3, <2>6, <2>7 DEF Attends
      <4> QED BY <1>3, <4>1 DEF Holder
    <3>5. \A p \in Holder : p \in B => p \in A
      BY <1>3, <3>4 DEF Charges
    <3>6. \A h \in {x, y} : Proper(h) /\ h.fn \notin {"set", "activate_each", "activate_first"}
      BY <2>6 DEF Proper
    <3>8. \A d : ~Doomed(d, {x, y}) /\ ~Ending(d, {x, y}) /\ ~Starts(f, d)
      BY <1>1, <2>6 DEF Doomed, Ending, Cancels, Starts
    <3> HIDE DEF A, B, R
    <3>9. Serve(f, {x, y}, A, B, R, status)
      BY <1>3, <3>5, <3>6, <3>8 DEF Serve
    <3> QED BY <3>3, <3>9
  <2> HIDE DEF A, B, R
  <2> QED BY <1>1, <1>2, <1>3, <2>4, <2>5, <2>6, <2>7, <2>8, <2>9, GoesTwoWhen DEF f, r, A, B, R
<1> QED
  BY <1>4, <1>5 DEF ActivateFirst

\* One call that needs to have something below it
LEMMA GoesOneWhen ==
  ASSUME TypeOK, NEW a \in Actor, calls[a] # <<>>, Awake(a), Top(a).fn \notin Idling \cup {"set"},
         UNCHANGED <<status, procStatus>>, Tail(calls[a]) \in Seq(Call),
         NEW x \in Call, x.fn # "set", Continue(a, <<x>>),
         Minded(Top(a), Tail(calls[a]), status, procStatus) =>
           /\ Linkable(x, Tail(calls[a]))
           /\ Serve(Top(a), {x}, {p \in Holder : Waits(x, Tail(calls[a]), p)},
                    Charges(Top(a), Tail(calls[a])), Frames(Tail(calls[a])), status)
  PROVE  Wakes(a)
<1> DEFINE f == Top(a)
           r == Tail(calls[a])
           A == {p \in Holder : Waits(x, r, p)}
           N == {x}
           t == <<x>> \o r
<1>1. Fine(t, status)
  BY FineTop
<1>2. ASSUME Minded(f, r, status, procStatus) PROVE Minds(t, status, procStatus)
  <2>1. Linked(r)
    BY <1>2, MindedParts
  <2>2. Linkable(x, r) /\ Serve(f, N, A, Charges(f, r), Frames(r), status)
    BY <1>2
  <2>3. Piled(t, N, A, r)
    BY <2>1, <2>2, Pile1
  <2>4. f.fn \notin Idling \cup {"set"}
    OBVIOUS
  <2> HIDE DEF f, r, N, A, t
  <2> QED BY <1>2, <2>2, <2>3, <2>4, MindsOne
<1> QED
  BY <1>1, <1>2, GoesAwake

\* The calls with which the process is gone on with
ProcessCall(f) ==
  \/ f.fn \in {"activate_tasks", "activate_next", "end_process", "cancel_process",
               "cancel_subtasks_and_close"}
  \/ f.fn \in Tell /\ f.obj = Root

\* What such a call stands on, and for whom it goes on
LEMMA RootTop ==
  ASSUME TypeOK, Stacks, NEW a \in Actor, calls[a] # <<>>, Held(a), ProcessCall(Top(a))
  PROVE  /\ On(Top(a), Tail(calls[a]), status, procStatus, completing_ok)
         /\ Top(a) \in Call /\ Tail(calls[a]) \in Seq(Call) /\ status \in [Comp -> CompStatus]
         /\ Top(a).fn \notin Idling \cup {"set"} \cup Starters
         /\ \A c \in Comp : ~Cancels(Top(a), c) /\ ~Starts(Top(a), c)
         /\ \A p : Waits(Top(a), Tail(calls[a]), p) <=> p = Root
<1>1. Top(a).fn \notin Idling \cup {"set"} \cup Starters
  BY DEF ProcessCall, Idling, Worked, Starters, Tell, Told
<1>2. Top(a) \in Call /\ Tail(calls[a]) \in Seq(Call)
  BY Running
<1>3. On(Top(a), Tail(calls[a]), status, procStatus, completing_ok) /\ status \in [Comp -> CompStatus]
  BY <1>1, TopOn
<1>4. \A c \in Comp : ~Cancels(Top(a), c) /\ ~Starts(Top(a), c)
  BY DEF ProcessCall, Cancels, Starts, Tell, Told
<1>5. \A p : Waits(Top(a), Tail(calls[a]), p) <=> p = Root
  BY DEF ProcessCall, Waits, Attends, Tell, Told
<1> QED
  BY <1>1, <1>2, <1>3, <1>4, <1>5

\* Whatever else the calls do, the process is gone on with.
LEMMA RootGoes ==
  ASSUME TypeOK, Stacks, NEW a \in Actor, calls[a] # <<>>, Held(a), Awake(a), ProcessCall(Top(a)),
         UNCHANGED <<status, procStatus>>, NEW s, Continue(a, s),
         Fine(s \o Tail(calls[a]), status),
         NEW N, NEW A, \A h \in N : ForRoot(h), Root \in A,
         Linked(Tail(calls[a])) => Piled(s \o Tail(calls[a]), N, A, Tail(calls[a])),
         (\E h \in N : h.fn = "set") => \A h \in Frames(Tail(calls[a])) : h.fn \notin Starters
  PROVE  Wakes(a)
<1> DEFINE f == Top(a)
           r == Tail(calls[a])
           t == s \o r
<1>1. /\ f.fn \notin Idling \cup {"set"}
      /\ \A c \in Comp : ~Cancels(f, c) /\ ~Starts(f, c)
      /\ \A p : Waits(f, r, p) <=> p = Root
  BY RootTop
<1>2. ASSUME Minded(f, r, status, procStatus) PROVE Minds(t, status, procStatus)
  <2>1. Linked(r)
    BY <1>2, MindedParts
  <2>2. Piled(t, N, A, r)
    BY <2>1
  <2>3. (\E h \in N : h.fn = "set") => \A h \in Frames(r) : h.fn \notin Starters
    OBVIOUS
  <2> HIDE DEF f, r, t
  <2> QED BY <1>1, <1>2, <2>2, <2>3, ForProcess
<1>3. f.fn # "set" /\ Fine(t, status)
  BY <1>1
<1> QED
  BY <1>2, <1>3, GoesAwake

\* A call of the process is replaced by another one,
LEMMA RootGoesOne ==
  ASSUME TypeOK, Stacks, NEW a \in Actor, calls[a] # <<>>, Held(a), Awake(a), ProcessCall(Top(a)),
         UNCHANGED <<status, procStatus>>, NEW x \in Call, Continue(a, <<x>>),
         ForRoot(x), x.fn \notin Upper, Attends(x, Root),
         x.fn = "set" => \A h \in Frames(Tail(calls[a])) : h.fn \notin Starters
  PROVE  Wakes(a)
<1> DEFINE r == Tail(calls[a])
           A == {p \in Holder : Waits(x, r, p)}
           s == <<x>>
           t == s \o r
           N == {x}
<1>1. r \in Seq(Call)
  BY RootTop
<1>2. Linkable(x, r)
  BY PlainLink
<1>3. Linked(r) => Piled(t, N, A, r)
  BY <1>1, <1>2, Pile1
<1>4. Root \in A
  BY DEF Waits, Holder
<1>5. x.fn = "set" => x.obj = Root /\ x.arg # "EXECUTION"
  BY DEF ForRoot
<1>6. Root \notin Comp
  BY TreeAssumption
<1>7. Fine(t, status)
  BY <1>1, <1>5, <1>6, FineTop
<1>8. \A h \in N : ForRoot(h)
  OBVIOUS
<1>9. (\E h \in N : h.fn = "set") => \A h \in Frames(r) : h.fn \notin Starters
  OBVIOUS
<1>10. Continue(a, s)
  OBVIOUS
<1> HIDE DEF A, N, s
<1> QED
  BY <1>3, <1>4, <1>7, <1>8, <1>9, <1>10, RootGoes

\* or by two.
LEMMA RootGoesTwo ==
  ASSUME TypeOK, Stacks, NEW a \in Actor, calls[a] # <<>>, Held(a), Awake(a), ProcessCall(Top(a)),
         UNCHANGED <<status, procStatus>>, NEW x \in Call, NEW y \in Call, Continue(a, <<x, y>>),
         ForRoot(x), ForRoot(y), y.fn \notin Upper, x.fn \notin {"set"}, y.fn # "set",
         Attends(x, Root) \/ Attends(y, Root)
  PROVE  Wakes(a)
<1> DEFINE r == Tail(calls[a])
           A == {p \in Holder : Attends(x, p) \/ Waits(y, r, p)}
           s == <<x, y>>
           t == s \o r
           N == {x, y}
<1>1. r \in Seq(Call)
  BY RootTop
<1>2. Linkable(y, r)
  BY PlainLink
<1>3. Link(x, y) /\ x.fn # "raise"
  BY DEF Link, ForRoot
<1>4. Linked(r) => Piled(t, N, A, r)
  BY <1>1, <1>2, <1>3, PileTwo
<1>5. Root \in A
  BY DEF Waits, Holder
<1>6. Fine(t, status)
  BY <1>1, FineTop
<1>7. \A h \in N : ForRoot(h) /\ h.fn # "set"
  OBVIOUS
<1>8. Continue(a, s)
  OBVIOUS
<1> HIDE DEF A, N, s
<1> QED
  BY <1>4, <1>5, <1>6, <1>7, <1>8, RootGoes

\* The calls of the process that the steps below make
LEMMA RootCalls ==
  /\ \A s \in Arg : Do("end_process", Root, s) \in Call /\ Set(Root, s) \in Call
  /\ Do("cancel_subtasks", Root, None) \in Call /\ Do("cancel_process", Root, None) \in Call
  /\ Do("except_cancelled", Root, None) \in Call /\ Do("activate_tasks", Root, None) \in Call
  /\ \A n \in Arg : /\ Do("activate_next", Root, n) \in Call
                    /\ Do("propagate_done", Root, n) \in Call
                    /\ Do("except_next", Root, n) \in Call
                    /\ Do("except_end", Root, n) \in Call
  /\ \A c \in Comp : Do("activate_task", c, None) \in Call
<1>1. \A s \in Arg : Do("end_process", Root, s) \in Call /\ Set(Root, s) \in Call
  BY DoCall, SetCall DEF Fn, JobFn, DbFn
<1>2. Do("cancel_subtasks", Root, None) \in Call /\ Do("cancel_process", Root, None) \in Call
  BY DoCall, Args DEF Fn, JobFn, DbFn
<1>3. Do("except_cancelled", Root, None) \in Call /\ Do("activate_tasks", Root, None) \in Call
  BY DoCall, Args DEF Fn, Except, JobFn, DbFn
<1>4. \A n \in Arg : /\ Do("activate_next", Root, n) \in Call
                     /\ Do("propagate_done", Root, n) \in Call
  BY DoCall DEF Fn, JobFn, DbFn
<1>5. \A n \in Arg : /\ Do("except_next", Root, n) \in Call
                     /\ Do("except_end", Root, n) \in Call
  BY DoCall DEF Fn, Except, JobFn, DbFn
<1>6. \A c \in Comp : Do("activate_task", c, None) \in Call
  BY DoCall, Args DEF Fn, JobFn, DbFn
<1> QED
  BY <1>1, <1>2, <1>3, <1>4, <1>5, <1>6

\* A component at the top is activated: nothing that waits is a transition.
LEMMA TopStarts ==
  ASSUME NEW f, NEW N, NEW A, NEW r, NEW st,
         \A c \in Comp : ~Cancels(f, c) /\ ~Starts(f, c),
         \A p \in Holder : Waits(f, r, p) => p = Root, Root \in A,
         \A h \in N : /\ h.fn \in {"activate_task", "except_next", "except_end"}
                      /\ h.fn # "activate_task" => h.obj = Root,
         \A h \in Frames(r) : h.fn # "set"
  PROVE  Serve(f, N, A, Charges(f, r), Frames(r), st)
<1>1. \A h \in N : Proper(h)
  BY DEF Proper
<1>3. \A h \in N : h.fn \notin {"activate_each", "activate_first", "set"}
  OBVIOUS
<1>4. \A c \in Comp : ~Doomed(c, N) /\ ~Ending(c, N)
  BY DEF Doomed, Ending, Cancels
<1> QED
  BY <1>1, <1>3, <1>4 DEF Serve, Charges

\* activate_tasks starts the first component, or ends the process.
LEMMA ActivateTasksWakes ==
  ASSUME TypeOK, Stacks, NEW a \in Actor, Held(a), Awake(a), ActivateTasks(a)
  PROVE  Wakes(a)
<1> DEFINE f == Top(a)
           r == Tail(calls[a])
           c == First(Root)
           x == Do("activate_task", c, None)
           y == Do("end_process", Root, "COMPLETED")
           A == {p \in Holder : Waits(x, r, p)}
<1>1. calls[a] # <<>> /\ f.fn = "activate_tasks" /\ ProcessCall(f)
  BY DEF ActivateTasks, At, ProcessCall
<1>2. UNCHANGED <<status, procStatus>>
  BY SameData DEF ActivateTasks
<1>3. /\ On(f, r, status, procStatus, completing_ok)
      /\ f \in Call /\ r \in Seq(Call)
      /\ f.fn \notin Idling \cup {"set"}
      /\ \A d \in Comp : ~Cancels(f, d) /\ ~Starts(f, d)
      /\ \A p : Waits(f, r, p) <=> p = Root
  BY <1>1, RootTop
<1>4. CASE Components(Root) = {}
  <2>1. Continue(a, <<y>>)
    BY <1>4 DEF ActivateTasks
  <2>2. y \in Call
    BY RootCalls, Args DEF ProcStatus
  <2>3. y.fn = "end_process"
    BY DEF Do
  <2> HIDE DEF y, f, r
  <2>4. ForRoot(y) /\ y.fn \notin Upper /\ Attends(y, Root) /\ y.fn # "set"
    BY <2>3 DEF ForRoot, Upper, Attends
  <2> QED BY <1>1, <1>2, <2>1, <2>2, <2>4, RootGoesOne DEF f
<1>5. CASE Components(Root) # {}
  <2>1. Continue(a, <<x>>)
    BY <1>5 DEF ActivateTasks
  <2>2. c \in Comp /\ Parent[c] = Root
    BY <1>5, FirstPart, PartsIn
  <2>3. x \in Call
    BY <2>2, RootCalls
  <2>4. x.fn = "activate_task" /\ x.obj = c
    BY DEF Do
  <2> HIDE DEF x, f, r
  <2>5. \A h \in Frames(r) : h.fn # "set"
    BY <1>1, <1>3 DEF On, Bears, OfProcess, Worked
  <2>6. ASSUME Minded(f, r, status, procStatus)
        PROVE  Linkable(x, r) /\ Serve(f, {x}, A, Charges(f, r), Frames(r), status)
    <3>1. Linkable(f, r) /\ \A h \in Frames(r) : Proper(h)
      BY <2>6, MindedParts
    <3>2. r # <<>>
      BY <1>1, <3>1 DEF Linkable, Upper
    <3>3. Head(r).fn = "except_cancelled"
      BY <1>1, <1>3, <3>2 DEF On, Rests
    <3>4. Head(r).obj = Root
      BY <1>3, <3>1, <3>2, <3>3, HeadIn DEF Proper
    <3>5. Linkable(x, r)
      BY <2>2, <2>3, <2>4, <3>2, <3>4 DEF Linkable, Link, c
    <3>6. Root \in A
      BY <2>2, <2>4 DEF Waits, Attends, Holder
    <3>7. \A h \in {x} : /\ h.fn \in {"activate_task", "except_next", "except_end"}
                         /\ h.fn # "activate_task" => h.obj = Root
      BY <2>4
    <3> HIDE DEF A
    <3>8. Serve(f, {x}, A, Charges(f, r), Frames(r), status)
      BY <1>3, <2>5, <3>6, <3>7, TopStarts
    <3> QED BY <3>5, <3>8
  <2>7. x.fn # "set"
    BY <2>4
  <2> QED BY <1>1, <1>2, <1>3, <2>1, <2>3, <2>6, <2>7, GoesOneWhen DEF f, r, A
<1> QED
  BY <1>4, <1>5

\* A component at the top has ended: the process goes on after it.
LEMMA ProcessDoneWakes ==
  ASSUME TypeOK, Stacks, NEW a \in Actor, Held(a), Awake(a), ProcessDone(a)
  PROVE  Wakes(a)
<1> DEFINE f == Top(a)
           n == NextComp(Top(a).arg)
           x == Do("activate_next", Root, n)
           y == Do("except_cancelled", Root, None)
<1>1. calls[a] # <<>> /\ ProcessCall(f)
  BY DEF ProcessDone, At, ProcessCall, Tell, Told
<1>2. UNCHANGED <<status, procStatus>>
  BY SameData DEF ProcessDone
<1>3. Continue(a, <<x, y>>)
  BY DEF ProcessDone
<1>4. n \in Arg
  BY Args DEF NextComp
<1>5. x \in Call /\ y \in Call
  BY <1>4, RootCalls
<1>6. x.fn = "activate_next" /\ y.fn = "except_cancelled" /\ y.obj = Root
  BY DEF Do
<1> HIDE DEF f, n, x, y
<1>7. ForRoot(x) /\ ForRoot(y) /\ y.fn \notin Upper /\ x.fn # "set" /\ y.fn # "set" /\ Attends(x, Root)
  BY <1>6 DEF ForRoot, Upper, Attends
<1> QED
  BY <1>1, <1>2, <1>3, <1>5, <1>7, RootGoesTwo DEF f

\* What is left of the process is cancelled, and it ends.
LEMMA ProcessSweeps ==
  ASSUME TypeOK, Stacks, NEW a \in Actor, calls[a] # <<>>, Held(a), Awake(a), ProcessCall(Top(a)),
         UNCHANGED <<status, procStatus>>, NEW s \in Arg,
         Continue(a, <<Do("cancel_subtasks", Root, None), Do("end_process", Root, s)>>)
  PROVE  Wakes(a)
<1> DEFINE x == Do("cancel_subtasks", Root, None)
           y == Do("end_process", Root, s)
<1>1. x \in Call /\ y \in Call
  BY RootCalls
<1>2. x.fn = "cancel_subtasks" /\ x.obj = Root /\ y.fn = "end_process"
  BY DEF Do
<1>3. Continue(a, <<x, y>>)
  OBVIOUS
<1> HIDE DEF x, y
<1>4. ForRoot(x) /\ ForRoot(y) /\ y.fn \notin Upper /\ x.fn # "set" /\ y.fn # "set" /\ Attends(y, Root)
  BY <1>2 DEF ForRoot, Upper, Attends
<1> QED
  BY <1>1, <1>3, <1>4, RootGoesTwo

\* The process ends early, or is cancelled.
LEMMA ProcessFinishWakes ==
  ASSUME TypeOK, Stacks, NEW a \in Actor, Held(a), Awake(a), ProcessFinish(a) \/ CancelProcess(a)
  PROVE  Wakes(a)
<1>1. CASE ProcessFinish(a)
  <2>1. calls[a] # <<>> /\ ProcessCall(Top(a))
    BY <1>1 DEF ProcessFinish, At, ProcessCall, Tell, Told
  <2>2. UNCHANGED <<status, procStatus>>
    BY <1>1, SameData DEF ProcessFinish
  <2>3. "COMPLETED" \in Arg
    BY Args DEF ProcStatus
  <2> QED BY <1>1, <2>1, <2>2, <2>3, ProcessSweeps DEF ProcessFinish
<1>2. CASE CancelProcess(a)
  <2>1. calls[a] # <<>> /\ ProcessCall(Top(a))
    BY <1>2 DEF CancelProcess, At, ProcessCall, Tell
  <2>2. UNCHANGED <<status, procStatus>>
    BY <1>2 DEF CancelProcess
  <2>3. "FAILED" \in Arg
    BY Args DEF ProcStatus
  <2> QED BY <1>2, <2>1, <2>2, <2>3, ProcessSweeps DEF CancelProcess
<1> QED
  BY <1>1, <1>2

\* The process hears of a component that was cancelled.
LEMMA ProcessCancelWakes ==
  ASSUME TypeOK, Stacks, NEW a \in Actor, Held(a), Awake(a), ProcessCancel(a)
  PROVE  Wakes(a)
<1> DEFINE x == Do("propagate_done", Root, Top(a).arg)
           y == Do("cancel_process", Root, None)
<1>1. calls[a] # <<>> /\ ProcessCall(Top(a))
  BY DEF ProcessCancel, At, ProcessCall, Tell, Told
<1>2. UNCHANGED <<status, procStatus>>
  BY SameData DEF ProcessCancel
<1>3. Top(a).arg \in Arg
  BY <1>1, Running
<1>4. x \in Call /\ y \in Call
  BY <1>3, RootCalls
<1>5. x.fn = "propagate_done" /\ x.obj = Root /\ y.fn = "cancel_process"
  BY DEF Do
<1>6. Continue(a, <<x>>) \/ Continue(a, <<y>>)
  BY DEF ProcessCancel
<1> HIDE DEF x, y
<1>7. ForRoot(x) /\ x.fn \notin Upper /\ x.fn # "set" /\ Attends(x, Root)
  BY <1>5 DEF ForRoot, Upper, Attends, Tell, Told
<1>8. ForRoot(y) /\ y.fn \notin Upper /\ y.fn # "set" /\ Attends(y, Root)
  BY <1>5 DEF ForRoot, Upper, Attends
<1> QED
  BY <1>1, <1>2, <1>4, <1>6, <1>7, <1>8, RootGoesOne

\* The loop over the components of the process takes the next one.
LEMMA ActivateNextWakes ==
  ASSUME TypeOK, Stacks, NEW a \in Actor, Held(a), Awake(a), ActivateNext(a)
  PROVE  Wakes(a)
<1> DEFINE f == Top(a)
           r == Tail(calls[a])
           n == Top(a).arg
           x == Do("activate_task", n, None)
           y == Do("except_next", Root, n)
           z == Do("end_process", Root, "COMPLETED")
           A == {p \in Holder : Attends(x, p) \/ Waits(y, r, p)}
<1>1. calls[a] # <<>> /\ f.fn = "activate_next" /\ ProcessCall(f)
  BY DEF ActivateNext, At, ProcessCall
<1>2. UNCHANGED <<status, procStatus>>
  BY SameData DEF ActivateNext
<1>3. /\ On(f, r, status, procStatus, completing_ok)
      /\ f \in Call /\ r \in Seq(Call)
      /\ f.fn \notin Idling \cup {"set"}
      /\ \A d \in Comp : ~Cancels(f, d) /\ ~Starts(f, d)
      /\ \A p : Waits(f, r, p) <=> p = Root
  BY <1>1, RootTop
<1>4. CASE n \notin Comp
  <2>1. Continue(a, <<z>>)
    BY <1>4 DEF ActivateNext
  <2>2. z \in Call
    BY RootCalls, Args DEF ProcStatus
  <2>3. z.fn = "end_process"
    BY DEF Do
  <2> HIDE DEF z, f, r
  <2>4. ForRoot(z) /\ z.fn \notin Upper /\ Attends(z, Root) /\ z.fn # "set"
    BY <2>3 DEF ForRoot, Upper, Attends
  <2> QED BY <1>1, <1>2, <2>1, <2>2, <2>4, RootGoesOne DEF f
<1>5. CASE n \in Comp
  <2>1. Continue(a, <<x, y>>)
    BY <1>5 DEF ActivateNext
  <2>2. n \in Components(Root)
    BY <1>1, <1>5, Running DEF Fits, Good
  <2>3. Parent[n] = Root
    BY <2>2, PartsIn
  <2>4. x \in Call /\ y \in Call
    BY <1>5, RootCalls, Args
  <2>5. x.fn = "activate_task" /\ x.obj = n /\ y.fn = "except_next" /\ y.obj = Root
    BY DEF Do
  <2>6. n \in Comp
    BY <1>5
  <2> HIDE DEF x, y, f, r, n
  <2>7. \A h \in Frames(r) : h.fn # "set"
    BY <1>1, <1>3 DEF On, Bears, OfProcess, Worked
  <2>8. Link(x, y) /\ x.fn # "raise" /\ x.fn # "set"
    BY <2>3, <2>5 DEF Link
  <2>9. ASSUME Minded(f, r, status, procStatus)
        PROVE  Linkable(y, r) /\ Serve(f, {x, y}, A, Charges(f, r), Frames(r), status)
    <3>1. Linkable(f, r)
      BY <2>9, MindedParts
    <3>2. r # <<>>
      BY <1>1, <3>1 DEF Linkable, Upper
    <3>3. Linkable(y, r)
      BY <2>4, <2>5, <3>2 DEF Linkable, Link
    <3>4. Root \in A
      <4>1. Attends(x, Root)
        BY <2>3, <2>5, <2>6 DEF Attends
      <4> QED BY <4>1 DEF Holder
    <3>5. \A h \in {x, y} : /\ h.fn \in {"activate_task", "except_next", "except_end"}
                            /\ h.fn # "activate_task" => h.obj = Root
      BY <2>5
    <3> HIDE DEF A
    <3>6. Serve(f, {x, y}, A, Charges(f, r), Frames(r), status)
      BY <1>3, <2>7, <3>4, <3>5, TopStarts
    <3> QED BY <3>3, <3>6
  <2> QED BY <1>1, <1>2, <1>3, <2>1, <2>4, <2>8, <2>9, GoesTwoWhen DEF f, r, A
<1> QED
  BY <1>4, <1>5

\* The process ends; its completion group runs first.
LEMMA EndProcessWakes ==
  ASSUME TypeOK, Stacks, NEW a \in Actor, Held(a), Awake(a), EndProcess(a)
  PROVE  Wakes(a)
<1> DEFINE f == Top(a)
           r == Tail(calls[a])
           s == Top(a).arg
           x == Do("activate_task", Completion, None)
           y == Do("except_end", Root, s)
           z == Set(Root, s)
           A == {p \in Holder : Attends(x, p) \/ Waits(y, r, p)}
<1>1. calls[a] # <<>> /\ f.fn = "end_process" /\ ProcessCall(f)
  BY DEF EndProcess, At, ProcessCall
<1>2. UNCHANGED <<status, procStatus>>
  BY SameData DEF EndProcess
<1>3. /\ On(f, r, status, procStatus, completing_ok)
      /\ f \in Call /\ r \in Seq(Call)
      /\ f.fn \notin Idling \cup {"set"}
      /\ \A d \in Comp : ~Cancels(f, d) /\ ~Starts(f, d)
      /\ \A p : Waits(f, r, p) <=> p = Root
  BY <1>1, RootTop
<1>4. s \in {"COMPLETED", "FAILED"}
  BY <1>1, <1>3 DEF On, Law, Serves
<1>5. s \in Arg
  BY <1>4, Args DEF ProcStatus
<1>6. \A h \in Frames(r) : h.fn \in {"except_cancelled"} \cup Worked
  <2> HIDE DEF f, r
  <2> QED BY <1>1, <1>3, ProcessBottom DEF OfProcess
<1>7. \A h \in Frames(r) : h.fn \notin Starters /\ h.fn # "set"
  BY <1>6 DEF Starters, Worked
<1>8. CASE status[Completion] # "NEW"
  <2>1. Continue(a, <<z>>)
    BY <1>8 DEF EndProcess
  <2>2. z \in Call
    BY <1>5, RootCalls
  <2>3. z.fn = "set" /\ z.obj = Root /\ z.arg = s
    BY DEF Set, Do
  <2> HIDE DEF z, f, s
  <2>4. ForRoot(z) /\ z.fn \notin Upper /\ Attends(z, Root)
    BY <1>4, <2>3 DEF ForRoot, Upper, Attends, Ended
  <2> QED BY <1>1, <1>2, <1>7, <2>1, <2>2, <2>4, RootGoesOne DEF f
<1>9. CASE status[Completion] = "NEW"
  <2>1. Continue(a, <<x, y>>)
    BY <1>9 DEF EndProcess
  <2>2. Completion \in Comp /\ Parent[Completion] = Root
    BY TreeAssumption
  <2>3. x \in Call /\ y \in Call
    BY <1>5, <2>2, RootCalls
  <2>4. x.fn = "activate_task" /\ x.obj = Completion /\ y.fn = "except_end" /\ y.obj = Root
    BY DEF Do
  <2> HIDE DEF x, y, f, r, s
  <2>5. Link(x, y) /\ x.fn # "raise" /\ x.fn # "set"
    BY <2>2, <2>4 DEF Link
  <2>6. Linkable(y, r)
    BY <2>3, <2>4, PlainLink DEF Upper
  <2>7. Root \in A
    <3>1. Attends(x, Root)
      BY <2>2, <2>4 DEF Attends
    <3> QED BY <3>1 DEF Holder
  <2>8. \A h \in {x, y} : /\ h.fn \in {"activate_task", "except_next", "except_end"}
                          /\ h.fn # "activate_task" => h.obj = Root
    BY <2>4
  <2> HIDE DEF A
  <2>9. Serve(f, {x, y}, A, Charges(f, r), Frames(r), status)
    BY <1>3, <1>7, <2>7, <2>8, TopStarts
  <2> QED BY <1>1, <1>2, <1>3, <2>1, <2>3, <2>5, <2>6, <2>9, GoesTwo DEF f, r, A
<1> QED
  BY <1>8, <1>9

\* activate_process: the process is about to start, or to resume.
LEMMA ActivateProcessWakes ==
  ASSUME TypeOK, Stacks, NEW a \in Actor, Held(a), Awake(a), ActivateProcess(a)
  PROVE  Wakes(a)
<1> DEFINE f == Top(a)
           r == Tail(calls[a])
           s == <<Set(Root, "EXECUTION")>>
           u == <<Set(Root, "EXECUTION"), Do("activate_tasks", Root, None),
                  Do("except_cancelled", Root, None)>>
<1>1. calls[a] # <<>> /\ f.fn = "activate_process"
  BY DEF ActivateProcess, At
<1>2. On(f, r, status, procStatus, completing_ok)
  BY <1>1, TopOn
<1>3. status' = status /\ procStatus' = procStatus
  BY SameData DEF ActivateProcess
<1>4. r = <<>> /\ procStatus \in {"NEW", "PAUSED"}
  <2> HIDE DEF f, r
  <2>1. r = <<>>
    BY <1>1, <1>2, NothingBelow
  <2>2. procStatus \in {"NEW", "PAUSED"}
    BY <1>1, <1>2 DEF On, Law, Serves
  <2> QED BY <2>1, <2>2
<1>5. s \o <<>> = s /\ u \o <<>> = u
  OBVIOUS
<1>6. calls'[a] = IF procStatus = "PAUSED" THEN s ELSE u
  <2>1. Continue(a, IF procStatus = "PAUSED" THEN s ELSE u)
    BY DEF ActivateProcess
  <2> HIDE DEF s, u
  <2>2. calls'[a] = (IF procStatus = "PAUSED" THEN s ELSE u) \o r
    BY <2>1, Continued
  <2> QED BY <2>2, <1>4, <1>5
<1>7. /\ s # <<>> /\ u # <<>> /\ Head(s) = Set(Root, "EXECUTION") /\ Head(u) = Set(Root, "EXECUTION")
      /\ Len(s) = 1 /\ Len(u) = 3
  OBVIOUS
<1>8. /\ Set(Root, "EXECUTION").fn = "set" /\ Set(Root, "EXECUTION").obj = Root
      /\ Set(Root, "EXECUTION").arg = "EXECUTION"
  BY DEF Set, Do
<1>9. Root \notin Comp
  BY TreeAssumption
<1>10. procStatus = "PAUSED" => Care(<<>>, status, procStatus)
  <2> SUFFICES ASSUME procStatus = "PAUSED" PROVE Minds(<<>>, status, procStatus)
    BY DEF Care
  <2>1. Minded(f, <<>>, status, procStatus)
    BY <1>1, <1>4, TopMinded
  <2>2. \A p \in Holder : ~Waits(f, <<>>, p)
    BY <1>1 DEF Waits, Attends, Tell, Told
  <2>3. /\ ~(f.fn = "set" /\ f.obj \in Comp)
        /\ \A c \in Comp : ~Cancels(f, c)
        /\ \A c \in Comp : ~Starts(f, c)
    BY <1>1 DEF Cancels, Starts
  <2> HIDE DEF f
  <2> QED BY <2>1, <2>2, <2>3, MindsDrop
<1> DEFINE t == calls'[a]
<1>11. t # <<>> /\ Head(t) = Set(Root, "EXECUTION")
  BY <1>6, <1>7
<1>12. IF Len(t) = 1 THEN procStatus = "PAUSED" /\ Care(<<>>, status, procStatus) ELSE procStatus = "NEW"
  BY <1>4, <1>6, <1>7, <1>10
<1> HIDE DEF t
<1>13. ~Late(t, status) /\ Beginning(t) /\ ~(Head(t).obj \in Comp)
  BY <1>8, <1>9, <1>11 DEF Late, Beginning
<1>14. Alive(t, status, procStatus)
  BY <1>12, <1>13 DEF Alive
<1> QED
  BY <1>3, <1>14 DEF Wakes, t

\* The process is dismissed, which is not done while it runs.
LEMMA DismissWakes ==
  ASSUME TypeOK, Stacks, NEW a \in Actor, Held(a), Awake(a), DismissProcess(a) \/ DismissCompletion(a)
  PROVE  Wakes(a)
<1> DEFINE f == Top(a)
           r == Tail(calls[a])
           x == Do("cancel_subtasks", Root, None)
           y == Do("dismiss_completion", Root, None)
           z == Set(Root, "DISCARDED")
           c == Do("cancel_task", Completion, None)
<1>1. calls[a] # <<>> /\ f.fn \in {"dismiss_process", "dismiss_completion"}
  BY DEF DismissProcess, DismissCompletion, At
<1>2. UNCHANGED <<status, procStatus>>
  BY SameData DEF DismissProcess, DismissCompletion
<1>3. ~Minded(f, r, status, procStatus)
  BY <1>1, MindedParts DEF Proper
<1>4. f.fn # "set" /\ r \in Seq(Call)
  BY <1>1, Running
<1>5. On(f, r, status, procStatus, completing_ok)
  BY <1>1, <1>4, TopOn
<1>6. x \in Call /\ z \in Call
  BY RootCalls, Args DEF ProcStatus
<1>7. y \in Call /\ c \in Call
  BY DoCall, Args, TreeAssumption DEF Fn, JobFn, DbFn
<1>8. x.fn # "set" /\ c.fn # "set"
  BY DEF Do
<1>9. \/ Continue(a, <<x, y, z>>) \/ Continue(a, <<c>>) \/ Continue(a, <<>>)
  BY DEF DismissProcess, DismissCompletion
<1>10. CASE Continue(a, <<x, y, z>>)
  <2> HIDE DEF x, y, z
  <2>1. Fine(<<x, y, z>> \o r, status)
    BY <1>4, <1>6, <1>7, <1>8, FineTop
  <2> QED BY <1>1, <1>2, <1>3, <1>4, <1>10, <2>1, GoesAwake
<1>11. CASE Continue(a, <<c>>)
  <2> HIDE DEF c
  <2>1. Fine(<<c>> \o r, status)
    BY <1>4, <1>7, <1>8, FineTop
  <2> QED BY <1>1, <1>2, <1>3, <1>4, <1>11, <2>1, GoesAwake
<1>12. CASE Continue(a, <<>>)
  <2>1. Fine(r, status)
    BY <1>5, RestFine
  <2> QED BY <1>1, <1>2, <1>3, <1>4, <1>12, <2>1, ReturnsAwake
<1> QED
  BY <1>9, <1>10, <1>11, <1>12

\* A step of the process
LEMMA ProcessStepWakes ==
  ASSUME TypeOK, Stacks, NEW a \in Actor, Held(a), Awake(a), ProcessStep(a)
  PROVE  Wakes(a)
<1>1. CASE ActivateProcess(a)
  BY <1>1, ActivateProcessWakes
<1>2. CASE ActivateTasks(a) \/ ProcessDone(a) \/ ProcessCancel(a)
  BY <1>2, ActivateTasksWakes, ProcessDoneWakes, ProcessCancelWakes
<1>3. CASE ActivateNext(a) \/ EndProcess(a)
  BY <1>3, ActivateNextWakes, EndProcessWakes
<1>4. CASE ProcessFinish(a) \/ CancelProcess(a)
  BY <1>4, ProcessFinishWakes
<1>5. CASE DismissProcess(a) \/ DismissCompletion(a)
  BY <1>5, DismissWakes
<1> QED
  BY <1>1, <1>2, <1>3, <1>4, <1>5 DEF ProcessStep

\* A step of a component
LEMMA ComponentStepWakes ==
  ASSUME Rooted, Filled, TypeOK, Stacks, NEW a \in Actor, Held(a), Awake(a), ComponentStep(a)
  PROVE  Wakes(a)
<1>1. CASE ActivateTask(a) \/ ActivateEach(a) \/ ActivateFirst(a)
  BY <1>1, ActivateTaskWakes, ActivateEachWakes, ActivateFirstWakes
<1>2. CASE CancelTask(a) \/ CancelSubtasks(a) \/ CancelEach(a)
  BY <1>2, CancelTaskWakes, CancelSubtasksWakes, CancelEachWakes
<1>3. CASE ParallelDone(a) \/ ParallelCancel(a) \/ SequentialDone(a)
  BY <1>3, ParallelWakes, SequentialDoneWakes
<1>4. CASE CompletionDone(a) \/ CompletionCancel(a) \/ EndCompletion(a)
  BY <1>4, CompletionToldWakes, EndCompletionWakes
<1>5. CASE GroupFinish(a) \/ SequentialCancel(a) \/ GroupRefuse(a)
  BY <1>5, GroupFinishWakes, SequentialCancelWakes
<1> QED
  BY <1>1, <1>2, <1>3, <1>4, <1>5 DEF ComponentStep

\* The first call of two lists
LEMMA HeadOfConcat ==
  ASSUME NEW w \in Seq(Call), w # <<>>, NEW q \in Seq(Call)
  PROVE  w \o q # <<>> /\ Head(w \o q) = Head(w)
<1>1. Len(w) >= 1 /\ Len(w) \in Nat /\ Head(w) = w[1] /\ Len(q) \in Nat
  BY EmptySeq
<1> DEFINE v == w \o q
<1>2. v \in Seq(Call) /\ Len(v) = Len(w) + Len(q) /\ v[1] = w[1]
  BY <1>1
<1> HIDE DEF v
<1>3. v # <<>> /\ Head(v) = v[1]
  BY <1>1, <1>2
<1> QED
  BY <1>1, <1>2, <1>3 DEF v

\* What is left after an exception is fine.
LEMMA UnwoundFine ==
  ASSUME NEW s \in Seq(Call), Shape(s), NEW st, NEW ps, NEW ok,
         \A h \in Frames(s) : Needs(h, st) /\ Serves(h, st, ps, ok), NEW e \in Exception
  PROVE  Fine(Unwound(s, e), st)
<1> DEFINE H == {i \in 1 .. Len(s) : e \in Catches(s[i].fn)}
           k == CHOOSE i \in H : \A j \in H : i <= j
           g == s[k]
           q == SubSeq(s, k + 1, Len(s))
           u == Unwound(s, e)
<1>1. u = IF H = {} THEN <<>> ELSE Handler(g, e) \o q
  BY DEF Unwound
<1>2. CASE H = {}
  BY <1>1, <1>2 DEF Fine
<1>3. CASE H # {}
  <2>1. k \in H
    <3>1. H \subseteq Nat
      OBVIOUS
    <3> HIDE DEF H
    <3>2. \E i \in H : \A j \in H : i <= j
      BY <1>3, <3>1, LeastNumber
    <3> QED BY <3>2
  <2>2. k \in 1 .. Len(s)
    BY <2>1
  <2> HIDE DEF k
  <2>3. g \in Call /\ g \in Frames(s)
    BY <2>2 DEF Frames
  <2>4. Needs(g, st) /\ Serves(g, st, ps, ok)
    BY <2>3
  <2>5. q \in Seq(Call) /\ Frames(q) \subseteq Frames(s)
    BY <2>2, ShapeBelow
  <2>6. \A h \in Frames(q) : Needs(h, st)
    BY <2>5
  <2> HIDE DEF q, g
  <2>7. Fine(q, st)
    <3> SUFFICES ASSUME q # <<>> PROVE Fine(q, st)
      BY DEF Fine
    <3> DEFINE v == Head(q)
    <3>1. v \in Call /\ Needs(v, st)
      BY <2>5, <2>6, HeadIn
    <3>2. v.obj \in Comp \cup {Root}
      BY <3>1 DEF Call
    <3> HIDE DEF v
    <3>3. v.fn = "set" => /\ v.arg # "EXECUTION"
                          /\ v.obj \in Comp /\ v.arg \in {"COMPLETED", "REJECTED"} => st[v.obj] = "EXECUTION"
      BY <3>1, <3>2 DEF Needs
    <3> QED BY <3>3 DEF Fine, v
  <2>8. Root \notin Comp
    BY TreeAssumption
  <2>9. CASE Handler(g, e) = <<>>
    BY <1>1, <1>3, <2>5, <2>7, <2>9
  <2>10. CASE Handler(g, e) # <<>>
    <3> DEFINE w == Handler(g, e)
    <3>1. w \in Seq(Call)
      BY <2>3, HandlerCalls, Args
    <3>2. g.fn \in {"except_activate", "except_first", "except_sibling", "except_next",
                    "except_cancelled", "except_end", "except_job", "except_mq"}
      BY <2>10 DEF Handler
    <3>3. Head(w).fn = "set" =>
            \/ Head(w) = Set(g.obj, "COMPLETED") /\ g.fn = "except_activate"
            \/ Head(w) = Set(Root, g.arg) /\ g.fn = "except_end"
            \/ Head(w) = Set(Root, "PAUSED")
      BY <3>2 DEF Handler, Do, Set
    <3>4. /\ Head(w).fn = "set" => Head(w).arg # "EXECUTION"
          /\ Head(w).fn = "set" /\ Head(w).obj \in Comp => st[Head(w).obj] = "EXECUTION"
      <4> HIDE DEF w
      <4> QED BY <2>4, <2>8, <3>3 DEF Set, Do, Needs, Serves
    <3>5. w # <<>>
      BY <2>10
    <3> HIDE DEF w
    <3>6. w \o q # <<>> /\ Head(w \o q) = Head(w)
      BY <2>5, <3>1, <3>5, HeadOfConcat
    <3>7. u = w \o q
      BY <1>1, <1>3 DEF w
    <3> HIDE DEF u
    <3> DEFINE v == Head(w)
    <3>8. Head(u) = v
      BY <3>6, <3>7
    <3>9. v.fn = "set" => v.arg # "EXECUTION" /\ (v.obj \in Comp => st[v.obj] = "EXECUTION")
      BY <3>4
    <3> HIDE DEF v
    <3>10. Fine(u, st)
      BY <3>8, <3>9 DEF Fine
    <3> QED BY <3>10 DEF u
  <2> QED BY <2>9, <2>10
<1> QED
  BY <1>2, <1>3

\* The try block that comes first, and what it goes on with
Blocked(f, r) ==
  /\ f.fn = "raise" /\ r # <<>> /\ Head(r).fn \in Except

\* An exception and the try block below it
LEMMA RaisedOne ==
  ASSUME NEW f, NEW r, NEW st, NEW ps, Minded(f, r, st, ps), Blocked(f, r)
  PROVE  /\ Based(<<f>> \o r, {f, Head(r)}, {p \in Holder : p = Head(r).obj}, Tail(r))
         /\ Head(r) \in Call /\ Tail(r) \in Seq(Call) /\ Linked(Tail(r)) /\ Linkable(Head(r), Tail(r))
<1> DEFINE h == Head(r)
           q == Tail(r)
           s == <<f>> \o r
           B == {p \in Holder : p = h.obj}
           B1 == {p \in Holder : Waits(h, q, p)}
           B2 == {p \in Holder : Waits(f, r, p)}
<1>1. f \in Call /\ r \in Seq(Call) /\ Linked(r)
  BY MindedParts
<1>2. f.fn = "raise" /\ r # <<>> /\ h.fn \in Except
  BY DEF Blocked
<1>3. h \in Call /\ q \in Seq(Call)
  BY <1>1, <1>2, HeadTailProperties
<1>4. Linked(q) /\ (q # <<>> => Link(h, Head(q))) /\ (q = <<>> => h.fn \notin Upper)
  BY <1>1, <1>2, LinkedTop
<1>5. r = <<h>> \o q
  BY <1>1, <1>2, HeadOnTail
<1>6. B2 = B
  BY <1>2 DEF Waits, Attends, Tell, Told
<1> HIDE DEF h, q, s
<1>7. Linkable(h, q)
  BY <1>3, <1>4 DEF Linkable
<1>8. Based(r, {h}, B1, q)
  BY <1>3, <1>5, BaseOne
<1>9. Based(s, {f} \cup {h}, B1 \cup B2, q)
  BY <1>1, <1>8, BaseMore DEF s
<1>10. B1 = {}
  BY <1>2 DEF Waits, Attends, Tell, Told, Except
<1>11. {f} \cup {h} = {f, h} /\ B1 \cup B2 = B
  BY <1>6, <1>10
<1>12. Based(s, {f, h}, B, q)
  BY <1>9, <1>11
<1> QED
  BY <1>3, <1>4, <1>7, <1>12 DEF s, h, q

\* An exception that passes a try block, and the next one
LEMMA RaisedTwo ==
  ASSUME NEW f, NEW r, NEW st, NEW ps, Minded(f, r, st, ps), Blocked(f, r),
         Tail(r) # <<>>, Head(Tail(r)).fn \in Except
  PROVE  /\ Based(<<f>> \o r, {f, Head(r), Head(Tail(r))}, {p \in Holder : p = Head(r).obj}, Tail(Tail(r)))
         /\ Head(Tail(r)) \in Call /\ Tail(Tail(r)) \in Seq(Call) /\ Linked(Tail(Tail(r)))
         /\ Linkable(Head(Tail(r)), Tail(Tail(r)))
<1> DEFINE g == Head(r)
           v == Tail(r)
           h == Head(v)
           q == Tail(v)
           s == <<f>> \o r
           B == {p \in Holder : p = g.obj}
           B0 == {p \in Holder : Waits(h, q, p)}
           B1 == {p \in Holder : Waits(g, v, p)}
           B2 == {p \in Holder : Waits(f, r, p)}
<1>1. f \in Call /\ r \in Seq(Call) /\ Linked(r)
  BY MindedParts
<1>2. f.fn = "raise" /\ r # <<>> /\ g.fn \in Except /\ v # <<>> /\ h.fn \in Except
  BY DEF Blocked
<1>3. g \in Call /\ v \in Seq(Call) /\ Linked(v)
  BY RaisedOne
<1>4. h \in Call /\ q \in Seq(Call)
  BY <1>2, <1>3, HeadTailProperties
<1>5. Linked(q) /\ (q # <<>> => Link(h, Head(q))) /\ (q = <<>> => h.fn \notin Upper)
  BY <1>2, <1>3, LinkedTop
<1>6. r = <<g>> \o v /\ v = <<h>> \o q
  BY <1>1, <1>2, <1>3, HeadOnTail
<1>7. B2 = B
  BY <1>2 DEF Waits, Attends, Tell, Told
<1> HIDE DEF g, v, h, q, s
<1>8. Linkable(h, q)
  BY <1>4, <1>5 DEF Linkable
<1>9. Based(v, {h}, B0, q)
  BY <1>4, <1>6, BaseOne
<1>10. Based(r, {g} \cup {h}, B0 \cup B1, q)
  BY <1>3, <1>6, <1>9, BaseMore
<1>11. Based(s, {f} \cup ({g} \cup {h}), (B0 \cup B1) \cup B2, q)
  BY <1>1, <1>10, BaseMore DEF s
<1>12. B0 = {} /\ B1 = {}
  BY <1>2 DEF Waits, Attends, Tell, Told, Except
<1>13. {f} \cup ({g} \cup {h}) = {f, g, h} /\ (B0 \cup B1) \cup B2 = B
  BY <1>7, <1>12
<1>14. Based(s, {f, g, h}, B, q)
  BY <1>11, <1>13
<1> QED
  BY <1>4, <1>5, <1>8, <1>14 DEF s, g, v, h, q

\* The process goes on when an exception reaches it.
LEMMA RootRescued ==
  ASSUME NEW s, NEW F, NEW q \in Seq(Call), NEW st, NEW ps, Minds(s, st, ps),
         Based(s, F, {p \in Holder : p = Root}, q), Linked(q),
         NEW x, Linkable(x, q), ForRoot(x), Attends(x, Root),
         \A k \in F : k.fn \in {"raise"} \cup Except, \E k \in F : k.fn = "raise",
         x.fn = "set" => \A k \in Frames(q) : k.fn \notin Starters
  PROVE  Minds(<<x>> \o q, st, ps)
<1> DEFINE t == <<x>> \o q
           N == {x}
           A == {p \in Holder : Waits(x, q, p)}
           B == {p \in Holder : p = Root}
           R == Frames(q)
<1>1. Piled(t, N, A, q)
  BY Pile1
<1>2. Root \in A
  BY DEF Waits, Holder
<1>3. (\E k \in F : k.fn \notin Idling) /\ \A k \in F : k.fn # "set"
  BY DEF Idling, Worked, Except
<1>4. \A c \in Comp : ~Doomed(c, F) /\ ~ToStart(c, F)
  BY DEF Doomed, Cancels, ToStart, Starts, Except
<1>5. Root \notin Comp
  BY TreeAssumption
<1>6. Proper(x)
  BY DEF Proper, ForRoot
<1>8. x.fn \notin Starters \cup {"activate_each", "activate_first"}
  BY DEF Starters, ForRoot
<1>9. \A c \in Comp : Doomed(c, N) \/ Ending(c, N) => Parent[c] = Root
  <2>1. \A c \in Comp : Doomed(c, N) => Parent[c] = Root
    <3> SUFFICES ASSUME NEW c \in Comp, Cancels(x, c) PROVE Parent[c] = Root
      BY Lone
    <3>1. c \in Components(Root)
      BY <1>5 DEF Cancels, ForRoot
    <3> QED BY <3>1, PartsIn
  <2>2. \A c \in Comp : ~Ending(c, N)
    BY <1>5 DEF Ending, ForRoot
  <2> QED BY <2>1, <2>2
<1>10. \A k \in N \cup R : x.fn = "set" => k.fn \notin Starters
  BY <1>8
<1>11. /\ \A k \in N : Proper(k) /\ k.fn \notin Starters \cup {"activate_each", "activate_first"}
      
       /\ \A k \in N : k.fn = "set" => x.fn = "set"
  BY <1>6, <1>8
<1>12. \A p \in B : p = Root
  OBVIOUS
<1> HIDE DEF N, A, B, R, t
<1>13. Tends(F, N, A, B, R, st)
  BY <1>2, <1>3, <1>4, <1>9, <1>10, <1>11, <1>12 DEF Tends
<1>14. Minds(t, st, ps)
  BY <1>1, <1>13, MindsSwap DEF B, R
<1> QED
  BY <1>14 DEF t

\* The calls of an activated parallel group go on after a component of it.
LEMMA PassedOn ==
  ASSUME NEW f, NEW r, NEW st, NEW ps, Minded(f, r, st, ps), Blocked(f, r), Head(r).fn = "except_pass"
  PROVE  Minds(Tail(r), st, ps)
<1> DEFINE g == Head(r)
           q == Tail(r)
           h == Head(q)
           v == Tail(q)
           s == <<f>> \o r
           F == {f, g}
           B == {p \in Holder : p = g.obj}
           R == Frames(q)
<1>1. /\ Based(s, F, B, q) /\ g \in Call /\ q \in Seq(Call) /\ Linked(q) /\ Linkable(g, q)
  BY RaisedOne
<1>2. f.fn = "raise" /\ g.fn = "except_pass"
  BY DEF Blocked
<1>3. Minds(s, st, ps)
  BY DEF Minded
<1> HIDE DEF g, q, s
<1>4. q # <<>> /\ h.fn = "activate_each" /\ h.obj = g.obj
  BY <1>1, <1>2 DEF Linkable, Upper, Link
<1>5. h \in Call /\ v \in Seq(Call) /\ q = <<h>> \o v
  BY <1>1, <1>4, HeadTailProperties, HeadOnTail
<1>6. Attended(g.obj, q)
  <2>1. Waits(h, v, g.obj)
    BY <1>4 DEF Waits, Attends
  <2> HIDE DEF h, v
  <2> QED BY <1>5, <2>1, AttendedPush
<1>7. Piled(q, {}, {}, q)
  BY <1>1, PileNone
<1>8. Piled(q, {}, B, q)
  BY <1>6, <1>7 DEF Piled
<1>9. \A c : ~Doomed(c, F) /\ ~ToStart(c, F)
  BY <1>2 DEF Doomed, Cancels, ToStart, Starts
<1>10. (\E k \in F : k.fn \notin Idling) /\ \A k \in F : k.fn # "set"
  BY <1>2 DEF Idling, Worked
<1>11. \A c : ~Doomed(c, {}) /\ ~Ending(c, {})
  BY Lone
<1> HIDE DEF F, B, R
<1>12. Tends(F, {}, B, B, R, st)
  BY <1>9, <1>10, <1>11 DEF Tends
<1>13. Minds(q, st, ps)
  BY <1>1, <1>3, <1>8, <1>12, MindsSwap DEF R
<1> QED
  BY <1>13 DEF q

\* A sequential group of which a component was cancelled is cancelled.
LEMMA SiblingGives ==
  ASSUME NEW f, NEW r, NEW st, NEW ps, Minded(f, r, st, ps), Blocked(f, r),
         Head(r).fn = "except_sibling", Head(r).obj \in Comp,
         \A h \in Frames(Tail(r)) : h.fn \in Worked
  PROVE  Minds(<<Do("cancel_task", Head(r).obj, None),
                 Do("propagate_cancel", Parent[Head(r).obj], Head(r).obj)>> \o Tail(r), st, ps)
<1> DEFINE c == Head(r).obj
           q == Tail(r)
           s == <<f>> \o r
           F == {f, Head(r)}
           B == {p \in Holder : p = c}
           R == Frames(q)
           x == Do("cancel_task", c, None)
           y == Do("propagate_cancel", Parent[c], c)
           N == {x, y}
           A == {p \in Holder : Attends(x, p) \/ Waits(y, q, p)}
           t == <<x, y>> \o q
<1>1. Based(s, F, B, q) /\ q \in Seq(Call) /\ Linked(q)
  BY RaisedOne
<1>2. f.fn = "raise" /\ Head(r).fn = "except_sibling" /\ c \in Comp
  BY DEF Blocked
<1>3. Minds(s, st, ps)
  BY DEF Minded
<1>4. x \in Call
  BY <1>2, DoCall, Args DEF Fn, JobFn, DbFn
<1>5. y \in Call /\ y.fn = "propagate_cancel" /\ y.obj = Parent[c]
  BY <1>2, TellCall DEF Tell, Told
<1>6. x.fn = "cancel_task" /\ x.obj = c
  BY DEF Do
<1>7. \A c2 \in Comp : ~Doomed(c2, F) /\ ~ToStart(c2, F)
  BY <1>2 DEF Doomed, Cancels, ToStart, Starts
<1>8. (\E k \in F : k.fn \notin Idling) /\ \A k \in F : k.fn # "set"
  BY <1>2 DEF Idling, Worked
<1> HIDE DEF x, y, q, s, F
<1>9. Linkable(y, q)
  BY <1>5, PlainLink DEF Upper
<1>10. Link(x, y) /\ x.fn # "raise"
  BY <1>6, PlainLink DEF Upper
<1>11. Piled(t, N, A, q)
  BY <1>1, <1>4, <1>9, <1>10, PileTwo
<1>12. Parent[c] \in A
  <2>1. Waits(y, q, Parent[c])
    BY <1>5 DEF Waits, Attends, Tell, Told
  <2> QED BY <1>2, <2>1, ParentIn DEF Holder
<1>13. \A d : Doomed(d, N) <=> d = c
  BY <1>5, <1>6 DEF Doomed, Cancels
<1>14. \A d : ~Ending(d, N)
  BY <1>5, <1>6 DEF Ending
<1>15. ~Live(c, N \cup R, st)
  BY <1>13, Joint DEF Live
<1>16. \A k \in N : Proper(k) /\ k.fn \notin Starters \cup {"set", "activate_each", "activate_first"}
  BY <1>5, <1>6 DEF Proper, Starters
<1>18. \A p \in Holder : p \in B => p \in Comp /\ ~Live(p, N \cup R, st)
  BY <1>2, <1>15
<1> HIDE DEF N, A, B, R, t
<1>19. Tends(F, N, A, B, R, st)
  BY <1>7, <1>8, <1>12, <1>13, <1>14, <1>16, <1>18 DEF Tends
<1>20. Minds(t, st, ps)
  BY <1>1, <1>3, <1>11, <1>19, MindsSwap DEF R
<1> QED
  BY <1>20 DEF t, x, y, q

\* A group is given up while one of its components is activated.
LEMMA FirstGives ==
  ASSUME NEW f, NEW r, NEW st, NEW ps, Minded(f, r, st, ps), Blocked(f, r),
         Head(r).fn = "except_first", Tail(r) # <<>>, Head(Tail(r)).fn = "except_activate",
         Head(Tail(r)).obj = Head(r).obj, Head(r).obj \in Comp
  PROVE  Gives(<<f>> \o r, {f, Head(r), Head(Tail(r))}, Head(Tail(r)), Tail(Tail(r)), st, ps)
<1> DEFINE g == Head(r)
           h == Head(Tail(r))
           q == Tail(Tail(r))
           s == <<f>> \o r
           F == {f, g, h}
           B == {p \in Holder : p = g.obj}
<1>1. h.fn \in Except
  BY DEF Except
<1>2. Based(s, F, B, q) /\ h \in Call /\ q \in Seq(Call) /\ Linked(q) /\ Linkable(h, q)
  BY <1>1, RaisedTwo
<1>3. f.fn = "raise" /\ g.fn = "except_first" /\ h.fn = "except_activate" /\ h.obj = g.obj /\ h.obj \in Comp
  BY DEF Blocked
<1>4. Minds(s, st, ps)
  BY DEF Minded
<1> HIDE DEF g, h, q, s
<1>5. \A c : ~Doomed(c, F) /\ ~ToStart(c, F)
  BY <1>3 DEF Doomed, Cancels, ToStart, Starts
<1>6. (\E k \in F : k.fn \notin Idling) /\ \A k \in F : k.fn # "set"
  BY <1>3 DEF Idling, Worked
<1>7. Based(s, F, {p \in Holder : p = h.obj}, q)
  BY <1>2, <1>3
<1> HIDE DEF F
<1>8. Gives(s, F, h, q, st, ps)
  BY <1>2, <1>3, <1>4, <1>5, <1>6, <1>7 DEF Gives
<1> QED
  BY <1>8 DEF s, F, g, h, q

\* The process goes on in the first try block, or in the one below it.
LEMMA RescuedOne ==
  ASSUME NEW f, NEW r, NEW st, NEW ps, Minded(f, r, st, ps), Blocked(f, r), Head(r).obj = Root,
         NEW x, Linkable(x, Tail(r)), ForRoot(x), Attends(x, Root),
         x.fn = "set" => \A k \in Frames(Tail(r)) : k.fn \notin Starters
  PROVE  Minds(<<x>> \o Tail(r), st, ps)
<1> DEFINE s == <<f>> \o r
           F == {f, Head(r)}
           q == Tail(r)
<1>1. Based(s, F, {p \in Holder : p = Head(r).obj}, q) /\ q \in Seq(Call) /\ Linked(q)
  BY RaisedOne
<1>2. Based(s, F, {p \in Holder : p = Root}, q)
  BY <1>1
<1>3. Minds(s, st, ps)
  BY DEF Minded
<1>4. (\A k \in F : k.fn \in {"raise"} \cup Except) /\ \E k \in F : k.fn = "raise"
  BY DEF Blocked
<1>5. Linkable(x, q) /\ (x.fn = "set" => \A k \in Frames(q) : k.fn \notin Starters)
  OBVIOUS
<1> HIDE DEF s, F, q
<1>6. Minds(<<x>> \o q, st, ps)
  BY <1>1, <1>2, <1>3, <1>4, <1>5, RootRescued
<1> QED
  BY <1>6 DEF q

\* An except clause of the process makes a call in place of two.
LEMMA RescuedTwo ==
  ASSUME NEW f, NEW r, NEW st, NEW ps, Minded(f, r, st, ps), Blocked(f, r), Head(r).obj = Root,
         Tail(r) # <<>>, Head(Tail(r)).fn \in Except,
         NEW x, Linkable(x, Tail(Tail(r))), ForRoot(x), Attends(x, Root), x.fn # "set"
  PROVE  Minds(<<x>> \o Tail(Tail(r)), st, ps)
<1> DEFINE s == <<f>> \o r
           F == {f, Head(r), Head(Tail(r))}
           q == Tail(Tail(r))
<1>1. Based(s, F, {p \in Holder : p = Head(r).obj}, q) /\ q \in Seq(Call) /\ Linked(q)
  BY RaisedTwo
<1>2. Based(s, F, {p \in Holder : p = Root}, q)
  BY <1>1
<1>3. Minds(s, st, ps)
  BY DEF Minded
<1>4. (\A k \in F : k.fn \in {"raise"} \cup Except) /\ \E k \in F : k.fn = "raise"
  BY DEF Blocked
<1>5. Linkable(x, q)
  OBVIOUS
<1> HIDE DEF s, F, q
<1>6. Minds(<<x>> \o q, st, ps)
  BY <1>1, <1>2, <1>3, <1>4, <1>5, RootRescued
<1> QED
  BY <1>6 DEF q

\* What an exception meets first
LEMMA RaiseTop ==
  ASSUME NEW f, NEW r, NEW st, NEW ps, NEW ok, Minded(f, r, st, ps), On(f, r, st, ps, ok), f.fn = "raise"
  PROVE  /\ f.arg \in {"TaskCancelled", "TaskClosed"} /\ Blocked(f, r) /\ r \in Seq(Call) /\ r # <<>>
         /\ Head(r).fn \in {"except_pass", "except_first", "except_sibling", "except_next",
                            "except_end", "except_cancelled"}
         /\ f.arg = "TaskClosed" => Head(r).fn \in {"except_end", "except_next"}
         /\ Head(r) \in Call /\ Tail(r) \in Seq(Call) /\ Shape(Tail(r))
         /\ \A h \in Frames(Tail(r)) : Bears(Head(r), h)
         /\ Tail(r) # <<>> => Rests(Head(r), Head(Tail(r)))
         /\ Linkable(Head(r), Tail(r)) /\ Proper(Head(r))
         /\ Needs(Head(r), st) /\ Serves(Head(r), st, ps, ok)
<1>1. f.arg \in {"TaskCancelled", "TaskClosed"} /\ r \in Seq(Call) /\ Shape(r)
  BY DEF On, Law, Needs
<1>2. Linkable(f, r) /\ \A h \in Frames(r) : Proper(h)
  BY MindedParts
<1>3. r # <<>>
  BY <1>2 DEF Linkable, Upper
<1>4. Rests(f, Head(r)) /\ Link(f, Head(r))
  BY <1>2, <1>3 DEF On, Linkable
<1>5. Head(r).fn \in {"except_pass", "except_first", "except_sibling", "except_next",
                      "except_end", "except_cancelled"}
  BY <1>4 DEF Rests
<1>6. Blocked(f, r)
  BY <1>3, <1>5 DEF Blocked, Except
<1>7. /\ Head(r) \in Call /\ Tail(r) \in Seq(Call) /\ Shape(Tail(r))
      /\ Frames(r) = {Head(r)} \cup Frames(Tail(r))
      /\ \A h \in Frames(Tail(r)) : Bears(Head(r), h)
      /\ Tail(r) # <<>> => Rests(Head(r), Head(Tail(r)))
  BY <1>1, <1>3, ShapeTop
<1>8. Head(r) \in Frames(r)
  BY <1>7
<1>9. Linkable(Head(r), Tail(r))
  BY <1>6, RaisedOne
<1>10. Needs(Head(r), st) /\ Serves(Head(r), st, ps, ok)
  BY <1>8 DEF On, Law
<1>11. f.arg = "TaskClosed" => Head(r).fn \in {"except_end", "except_next"}
  BY <1>4 DEF Link
<1> QED
  BY <1>1, <1>2, <1>3, <1>5, <1>6, <1>7, <1>8, <1>9, <1>10, <1>11

\* An exception out of a component: somebody goes on.
LEMMA RaiseMinds ==
  ASSUME NEW f, NEW r, NEW st, NEW ps, NEW ok, Minded(f, r, st, ps), On(f, r, st, ps, ok), f.fn = "raise"
  PROVE  Minds(Unwound(r, f.arg), st, ps)
<1> DEFINE e == f.arg
           g == Head(r)
           q == Tail(r)
<1>0. /\ e \in {"TaskCancelled", "TaskClosed"} /\ Blocked(f, r) /\ r \in Seq(Call) /\ r # <<>>
      /\ g.fn \in {"except_pass", "except_first", "except_sibling", "except_next",
                   "except_end", "except_cancelled"}
      /\ e = "TaskClosed" => g.fn \in {"except_end", "except_next"}
      /\ g \in Call /\ q \in Seq(Call) /\ Shape(q)
      /\ \A h \in Frames(q) : Bears(g, h)
      /\ q # <<>> => Rests(g, Head(q))
      /\ Linkable(g, q) /\ Proper(g)
      /\ Needs(g, st) /\ Serves(g, st, ps, ok)
  BY RaiseTop
<1>c. e \in Catches(g.fn) => Unwound(r, e) = Handler(g, e) \o q
  BY <1>0, UnwoundCaught
<1>p. e \notin Catches(g.fn) => Unwound(r, e) = Unwound(q, e)
  BY <1>0, UnwoundPassed
<1> HIDE DEF e
<1>1. CASE g.fn = "except_pass"
  <2>1. Handler(g, e) = <<>> /\ e \in Catches(g.fn)
    BY <1>0, <1>1 DEF Handler, Catches
  <2>2. <<>> \o q = q
    BY <1>0
  <2>3. Minds(q, st, ps)
    BY <1>0, <1>1, PassedOn
  <2> QED BY <1>c, <2>1, <2>2, <2>3 DEF e
<1>2. CASE g.fn = "except_first"
  <2>1. e = "TaskCancelled" /\ e \notin Catches(g.fn)
    BY <1>0, <1>2 DEF Catches
  <2>2. q # <<>>
    BY <1>0, <1>2 DEF Linkable, Upper
  <2> DEFINE h == Head(q)
  <2>3. h.fn = "except_activate" /\ h.obj = g.obj
    BY <1>0, <1>2, <2>2 DEF Rests
  <2>4. g.obj \in Comp
    BY <1>0, <1>2 DEF Needs
  <2>5. Gives(<<f>> \o r, {f, g, h}, h, Tail(q), st, ps)
    BY <1>0, <1>2, <2>2, <2>3, <2>4, FirstGives
  <2>6. Unwound(q, e) = Handler(h, e) \o Tail(q)
    BY <1>0, <2>1, <2>2, <2>3, UnwoundCaught DEF Catches
  <2>7. Handler(h, e) = <<Do("cancel_task", h.obj, None), Raise("TaskCancelled")>>
    BY <2>1, <2>3 DEF Handler
  <2> DEFINE s == <<f>> \o r
             F == {f, g, h}
             u == Tail(q)
  <2> HIDE DEF s, F, u, h
  <2>8. Minds(<<Do("cancel_task", h.obj, None), Raise("TaskCancelled")>> \o u, st, ps)
    BY <2>5, GroupCancels DEF s, F, u, h
  <2> QED BY <1>p, <2>1, <2>6, <2>7, <2>8 DEF e, u, h
<1>3. CASE g.fn = "except_sibling"
  <2>1. e = "TaskCancelled" /\ e \in Catches(g.fn)
    BY <1>0, <1>3 DEF Catches
  <2>2. Handler(g, e) = <<Do("cancel_task", g.obj, None), Do("propagate_cancel", Parent[g.obj], g.obj)>>
    BY <1>3 DEF Handler
  <2>3. \A h \in Frames(q) : h.fn \in Worked
    BY <1>0, <1>3 DEF Bears, Lowest
  <2>4. g.obj \in Comp
    BY <1>0, <1>3 DEF Needs
  <2>5. Minds(<<Do("cancel_task", g.obj, None), Do("propagate_cancel", Parent[g.obj], g.obj)>> \o q, st, ps)
    BY <1>0, <1>3, <2>3, <2>4, SiblingGives
  <2> QED BY <1>c, <2>1, <2>2, <2>5 DEF e
<1>4. CASE g.fn = "except_cancelled"
  <2>1. e = "TaskCancelled" /\ e \in Catches(g.fn) /\ g.obj = Root
    BY <1>0, <1>4 DEF Catches, Proper
  <2> DEFINE x == Do("cancel_subtasks_and_close", Root, None)
  <2>2. Handler(g, e) = <<x>>
    BY <1>4 DEF Handler
  <2>3. x \in Call /\ x.fn = "cancel_subtasks_and_close" /\ x.obj = Root
    BY DoCall, Args DEF Fn, JobFn, DbFn, Do
  <2> HIDE DEF x
  <2>4. Linkable(x, q) /\ ForRoot(x) /\ Attends(x, Root)
    BY <2>3, PlainLink DEF Upper, ForRoot, Attends
  <2>5. Minds(<<x>> \o q, st, ps)
    BY <1>0, <2>1, <2>3, <2>4, RescuedOne
  <2> QED BY <1>c, <2>1, <2>2, <2>5 DEF e
<1>5. CASE g.fn = "except_end"
  <2>1. e \in Catches(g.fn) /\ g.obj = Root /\ g.arg \in {"COMPLETED", "FAILED"}
    <3>1. e \in Catches(g.fn)
      BY <1>0, <1>5 DEF Catches
    <3>2. g.obj = Root
      BY <1>0, <1>5 DEF Proper
    <3>3. g.arg \in {"COMPLETED", "FAILED"}
      BY <1>0, <1>5 DEF Serves
    <3> QED BY <3>1, <3>2, <3>3
  <2> DEFINE x == Set(Root, g.arg)
  <2>2. Handler(g, e) = <<x>>
    BY <1>5 DEF Handler
  <2>3. x \in Call /\ x.fn = "set" /\ x.obj = Root /\ x.arg = g.arg
    <3>1. g.arg \in Arg
      BY <2>1, Args DEF CompStatus, ProcStatus
    <3>2. x \in Call
      BY <3>1, RootCalls
    <3> QED BY <3>2 DEF Set, Do
  <2> HIDE DEF x
  <2>4. Linkable(x, q) /\ ForRoot(x) /\ Attends(x, Root)
    BY <2>1, <2>3, PlainLink DEF Upper, ForRoot, Attends, Ended
  <2>5. \A k \in Frames(q) : k.fn \notin Starters
    BY <1>0, <1>5 DEF Bears, OfProcess, Starters, Worked
  <2>6. Minds(<<x>> \o q, st, ps)
    BY <1>0, <2>1, <2>4, <2>5, RescuedOne
  <2> QED BY <1>c, <2>1, <2>2, <2>6 DEF e
<1>6. CASE g.fn = "except_next" /\ e = "TaskClosed"
  <2>1. e \in Catches(g.fn) /\ g.obj = Root
    BY <1>0, <1>6 DEF Catches, Proper
  <2> DEFINE x == Do("activate_next", Root, NextComp(g.arg))
  <2>2. Handler(g, e) = <<x>>
    BY <1>6 DEF Handler
  <2>3. x \in Call /\ x.fn = "activate_next" /\ x.obj = Root
    <3>1. NextComp(g.arg) \in Arg
      BY DEF NextComp, Arg
    <3> QED BY <3>1, RootCalls DEF Do
  <2> HIDE DEF x
  <2>4. q # <<>>
    BY <1>0, <1>6 DEF Linkable, Upper
  <2>5. Linkable(x, q)
    BY <2>3, <2>4 DEF Linkable, Link
  <2>6. ForRoot(x) /\ Attends(x, Root)
    BY <2>3 DEF ForRoot, Attends
  <2>7. Minds(<<x>> \o q, st, ps)
    BY <1>0, <2>1, <2>3, <2>5, <2>6, RescuedOne
  <2> QED BY <1>c, <2>1, <2>2, <2>7 DEF e
<1>7. CASE g.fn = "except_next" /\ e = "TaskCancelled"
  <2>1. e \notin Catches(g.fn) /\ g.obj = Root
    BY <1>0, <1>7 DEF Catches, Proper
  <2>2. q # <<>>
    BY <1>0, <1>7 DEF Linkable, Upper
  <2> DEFINE h == Head(q)
             x == Do("cancel_subtasks_and_close", Root, None)
  <2>3. h.fn = "except_cancelled"
    BY <1>0, <1>7, <2>2 DEF Rests
  <2>4. Unwound(q, e) = Handler(h, e) \o Tail(q)
    BY <1>0, <1>7, <2>2, <2>3, UnwoundCaught DEF Catches
  <2>5. Handler(h, e) = <<x>>
    BY <2>3 DEF Handler
  <2>6. x \in Call /\ x.fn = "cancel_subtasks_and_close" /\ x.obj = Root
    BY DoCall, Args DEF Fn, JobFn, DbFn, Do
  <2> HIDE DEF x
  <2>7. Linkable(x, Tail(q)) /\ ForRoot(x) /\ Attends(x, Root)
    BY <2>6, PlainLink DEF Upper, ForRoot, Attends
  <2>8. h.fn \in Except
    BY <2>3 DEF Except
  <2>9. Minds(<<x>> \o Tail(q), st, ps)
    BY <1>0, <2>1, <2>2, <2>6, <2>7, <2>8, RescuedTwo
  <2> QED BY <1>p, <2>1, <2>4, <2>5, <2>9 DEF e
<1> QED
  BY <1>0, <1>1, <1>2, <1>3, <1>4, <1>5, <1>6, <1>7

\* An exception is raised again.
LEMMA RaiseWakes ==
  ASSUME TypeOK, Stacks, NEW a \in Actor, Held(a), Awake(a), RaiseAgain(a)
  PROVE  Wakes(a)
<1> DEFINE f == Top(a)
           r == Tail(calls[a])
<1>1. calls[a] # <<>> /\ f.fn = "raise" /\ Throw(a, f.arg) /\ UNCHANGED <<status, procStatus>>
  BY SameData DEF RaiseAgain, At
<1>2. On(f, r, status, procStatus, completing_ok)
  BY <1>1, TopOn
<1>3. f.arg \in Exception /\ r \in Seq(Call) /\ Shape(r)
  BY <1>1, <1>2 DEF On, Law, Needs, Exception
<1>4. \A h \in Frames(r) : Needs(h, status) /\ Serves(h, status, procStatus, completing_ok)
  BY <1>2 DEF On, Law
<1> DEFINE e == f.arg
<1> HIDE DEF f, r
<1>5. Fine(Unwound(r, e), status)
  BY <1>3, <1>4, UnwoundFine
<1>6. Minded(f, r, status, procStatus) => Minds(Unwound(r, e), status, procStatus)
  BY <1>1, <1>2, RaiseMinds
<1>7. f.fn # "set"
  BY <1>1
<1> QED
  BY <1>1, <1>5, <1>6, <1>7, ThrowsAwake DEF f, r

\* Calls that neither change what the components are going to do nor wait for it
Aside(k) ==
  \/ k.fn \in {"fail_job", "run_job", "cancel_process", "activate_process", "close_task"} \cup Worked
  \/ k.fn = "set" /\ k.obj = Root /\ k.arg = "PAUSED"

\* What such calls do
LEMMA AsideFacts ==
  ASSUME NEW K, \A k \in K : Aside(k)
  PROVE  /\ \A c \in Comp : ~Doomed(c, K) /\ ~Ending(c, K) /\ ~ToStart(c, K)
         /\ \A k \in K : /\ Proper(k) /\ k.fn \notin Upper \cup Starters \cup {"raise"}
                         /\ \A p : Attends(k, p) => k.fn = "cancel_process"
<1>1. Root \notin Comp
  BY TreeAssumption
<1>2. \A k \in K : Proper(k)
  BY DEF Aside, Proper, Worked
<1>3. \A k \in K : k.fn \notin Upper \cup Starters \cup {"raise"}
  BY DEF Aside, Upper, Starters, Worked
<1>4. \A k \in K : \A p : Attends(k, p) => k.fn = "cancel_process"
  BY DEF Aside, Attends, Worked, Ended, Tell, Told
<1>5. \A c \in Comp : ~Doomed(c, K)
  BY <1>1 DEF Doomed, Cancels, Aside, Worked
<1>6. \A c \in Comp : ~Ending(c, K)
  BY <1>1 DEF Ending, Aside, Worked
<1>7. \A c \in Comp : ~ToStart(c, K)
  BY <1>1 DEF ToStart, Starts, Aside, Worked
<1> QED
  BY <1>2, <1>3, <1>4, <1>5, <1>6, <1>7

\* What the calls of a stack attend
LEMMA AsideAttend ==
  ASSUME NEW s \in Seq(Call), \A k \in Frames(s) : Aside(k), \A k \in Frames(s) : k.fn # "cancel_process"
  PROVE  \A p : ~Attended(p, s)
<1> SUFFICES ASSUME NEW p, Attended(p, s) PROVE FALSE
  OBVIOUS
<1>1. PICK i \in 1 .. Len(s) : Attends(s[i], p) \/ s[i].fn = "raise"
  BY DEF Attended
<1>2. s[i] \in Frames(s)
  BY DEF Frames
<1> QED
  BY <1>1, <1>2, AsideFacts

\* Such calls wait for nothing.
LEMMA AsideLinked ==
  ASSUME NEW s \in Seq(Call), \A k \in Frames(s) : Aside(k)
  PROVE  Linked(s)
<1>1. \A i \in 1 .. Len(s) : s[i] \in Frames(s)
  BY DEF Frames
<1>2. \A i \in 1 .. Len(s) : s[i].fn \notin Upper
  BY <1>1, AsideFacts
<1>3. \A i \in 1 .. Len(s) - 1 : Link(s[i], s[i + 1])
  <2> SUFFICES ASSUME NEW i \in 1 .. Len(s) - 1 PROVE Link(s[i], s[i + 1])
    OBVIOUS
  <2>1. s[i].fn \notin Upper
    BY <1>2
  <2> QED BY <2>1, PlainLink
<1>4. s # <<>> => Len(s) \in 1 .. Len(s)
  <2> SUFFICES ASSUME s # <<>> PROVE Len(s) \in 1 .. Len(s)
    OBVIOUS
  <2>1. Len(s) \in Nat /\ Len(s) >= 1
    BY EmptySeq
  <2> QED BY <2>1
<1> QED
  BY <1>2, <1>3, <1>4 DEF Linked

\* With nothing but such calls, each group is cared for when it is without them,
LEMMA AsideIn ==
  ASSUME NEW s \in Seq(Call), \A k \in Frames(s) : Aside(k), NEW st, NEW ps, Minds(<<>>, st, ps),
         ps = "PAUSED" => \A k \in Frames(s) : k.fn \in Idling
  PROVE  Minds(s, st, ps)
<1> DEFINE K == Frames(s)
<1>1. /\ \A c \in Comp : ~Doomed(c, K) /\ ~Ending(c, K) /\ ~ToStart(c, K)
      /\ \A k \in K : Proper(k) /\ k.fn \notin Starters
  BY AsideFacts
<1>2. Frames(<<>>) = {}
  BY NoFrames
<1>3. \A c \in Comp : ~Doomed(c, {}) /\ ~Ending(c, {}) /\ ~ToStart(c, {})
  BY Lone
<1>4. Linked(s)
  BY AsideLinked
<1>5. \A p : ~Attended(p, <<>>)
  BY NothingAttended
<1>6. Skips({}, st) /\ Parallels({}, st) /\ Tended(<<>>, st)
  BY <1>2 DEF Minds
<1> HIDE DEF K
<1>7. Quiet(K, ps)
  BY <1>1 DEF Quiet, K
<1>8. Skips(K, st)
  BY <1>1 DEF Skips, Starters
<1>9. \A c \in Comp : Live(c, K, st) <=> Live(c, {}, st)
  BY <1>1, <1>3 DEF Live
<1>10. Parallels(K, st)
  BY <1>1, <1>3, <1>6, <1>9, PartsIn DEF Parallels
<1>11. \A p : Cared(p, <<>>, st) => Cared(p, s, st)
  BY <1>2, <1>5, <1>9 DEF Cared, K
<1>12. Tended(s, st)
  BY <1>2, <1>6, <1>9, <1>11 DEF Tended, K
<1> QED
  BY <1>4, <1>7, <1>8, <1>10, <1>12 DEF Minds, K

\* and the other way round.
LEMMA AsideOut ==
  ASSUME NEW s \in Seq(Call), \A k \in Frames(s) : Aside(k), \A k \in Frames(s) : k.fn # "cancel_process",
         NEW st, NEW ps, Minds(s, st, ps)
  PROVE  Minds(<<>>, st, ps)
<1> DEFINE K == Frames(s)
<1>1. \A c \in Comp : ~Doomed(c, K) /\ ~Ending(c, K) /\ ~ToStart(c, K)
  BY AsideFacts
<1>2. Frames(<<>>) = {}
  BY NoFrames
<1>3. \A c \in Comp : ~Doomed(c, {}) /\ ~Ending(c, {}) /\ ~ToStart(c, {})
  BY Lone
<1>4. Linked(<<>>)
  BY NothingAttended
<1>5. \A p : ~Attended(p, s)
  BY AsideAttend
<1>6. Parallels(K, st) /\ Tended(s, st)
  BY DEF Minds
<1> HIDE DEF K
<1>7. Quiet({}, ps)
  BY DEF Quiet
<1>8. Skips({}, st)
  BY DEF Skips
<1>9. \A c \in Comp : Live(c, K, st) <=> Live(c, {}, st)
  BY <1>1, <1>3 DEF Live
<1>10. Parallels({}, st)
  BY <1>1, <1>3, <1>6, <1>9, PartsIn DEF Parallels
<1>11. \A p : Cared(p, s, st) => Cared(p, <<>>, st)
  BY <1>2, <1>5, <1>9 DEF Cared, K
<1>12. Tended(<<>>, st)
  BY <1>2, <1>6, <1>9, <1>11 DEF Tended, K
<1> QED
  BY <1>2, <1>4, <1>7, <1>8, <1>10, <1>12 DEF Minds

\* What is left of a job after an exception
LEMMA AsideUnwound ==
  ASSUME NEW s \in Seq(Call), \A k \in Frames(s) : k.fn \in Worked, NEW e \in Exception
  PROVE  /\ Unwound(s, e) \in Seq(Call)
         /\ \A k \in Frames(Unwound(s, e)) : Aside(k) /\ k.fn # "cancel_process"
<1>1. CASE s = <<>>
  <2>1. Unwound(s, e) = <<>> /\ Frames(<<>>) = {}
    BY <1>1, UnwoundNil, NoFrames
  <2> QED BY <2>1
<1>2. CASE s # <<>>
  <2> DEFINE h == Head(s)
             r == Tail(s)
             x == Set(Root, "PAUSED")
             y == Do("fail_job", h.obj, None)
  <2>1. h \in Call /\ r \in Seq(Call) /\ h \in Frames(s) /\ Frames(r) \subseteq Frames(s)
    BY <1>2, WorkedShape, ShapeTop
  <2>2. h.fn \in Worked /\ \A g \in Frames(r) : g.fn \in Worked
    BY <2>1
  <2>3. Unwound(s, e) = Handler(h, e) \o r
    BY <1>2, <2>2, UnwoundCaught DEF Catches, Worked
  <2>4. x \in Call /\ y \in Call
    <3>1. h.obj \in System
      BY <2>1, <2>2 DEF Call, JobFn, Worked
    <3>2. y \in Call
      BY <3>1, JobCall DEF JobFn
    <3>3. x \in Call
      BY SetCall, Args DEF ProcStatus
    <3> QED BY <3>2, <3>3
  <2>5. Aside(x) /\ Aside(y) /\ x.fn # "cancel_process" /\ y.fn # "cancel_process"
    BY DEF Aside, Set, Do
  <2>6. Handler(h, e) = IF h.fn = "except_job" THEN <<x, y>> ELSE <<y>>
    BY <2>2 DEF Handler, Worked
  <2> HIDE DEF x, y, h, r
  <2>7. \A g \in Frames(r) : Aside(g) /\ g.fn # "cancel_process"
    BY <2>2 DEF Aside, Worked
  <2>8. <<y>> \o r \in Seq(Call) /\ Frames(<<y>> \o r) = {y} \cup Frames(r)
    BY <2>1, <2>4, FramesPush, Push
  <2>9. <<x, y>> \o r = <<x>> \o (<<y>> \o r)
    BY <2>1, <2>4, Join
  <2>10. <<x, y>> \o r \in Seq(Call) /\ Frames(<<x, y>> \o r) = {x} \cup ({y} \cup Frames(r))
    BY <2>4, <2>8, <2>9, FramesPush, Push
  <2>11. CASE h.fn = "except_job"
    BY <2>3, <2>5, <2>6, <2>7, <2>10, <2>11
  <2>12. CASE h.fn # "except_job"
    BY <2>3, <2>5, <2>6, <2>7, <2>8, <2>12
  <2> QED BY <2>11, <2>12
<1> QED
  BY <1>1, <1>2

\* An answer that comes too late: the process is cared for without it.
LEMMA LateWakes ==
  ASSUME NEW a \in Actor, UNCHANGED <<status, procStatus>>, NEW r \in Seq(Call), NEW t \in Task,
         NEW v \in {"COMPLETED", "REJECTED"}, NEW fn \in Tell,
         calls'[a] = <<Set(t, v), Do(fn, Parent[t], t)>> \o r,
         status[t] # "EXECUTION", procStatus # "PAUSED", Care(r, status, procStatus)
  PROVE  Wakes(a)
<1> DEFINE x == Set(t, v)
           y == Do(fn, Parent[t], t)
           s == <<x, y>> \o r
<1>1. t \in Comp
  BY DEF Task
<1>2. x \in Call /\ x.fn = "set" /\ x.obj = t /\ x.arg = v
  <2>1. v \in Arg
    BY Args DEF CompStatus
  <2>2. x \in Call
    BY <1>1, <2>1, SetCall
  <2> QED BY <2>2 DEF Set, Do
<1>3. y \in Call
  BY <1>1, TellCall
<1> HIDE DEF x, y
<1>4. s = <<x>> \o (<<y>> \o r) /\ <<y>> \o r \in Seq(Call) /\ Tail(<<y>> \o r) = r
  BY <1>2, <1>3, Join, Push
<1>5. s # <<>> /\ Head(s) = x /\ Tail(s) = <<y>> \o r
  BY <1>2, <1>4, Push
<1>6. Tail(Tail(s)) = r
  BY <1>4, <1>5
<1> HIDE DEF s
<1>7. ~Beginning(s) /\ Late(s, status)
  BY <1>1, <1>2, <1>5 DEF Beginning, Late
<1>8. Alive(s, status, procStatus)
  BY <1>6, <1>7 DEF Alive
<1>9. calls'[a] = s /\ status' = status /\ procStatus' = procStatus
  BY DEF s, x, y
<1> QED
  BY <1>8, <1>9 DEF Wakes

\* The operation of a goes on with calls that change nothing.
LEMMA AsideWakes ==
  ASSUME NEW a \in Actor, UNCHANGED <<status, procStatus>>, calls'[a] \in Seq(Call),
         \A k \in Frames(calls'[a]) : Aside(k),
         procStatus = "PAUSED" => \A k \in Frames(calls'[a]) : k.fn \in Idling,
         Care(<<>>, status, procStatus)
  PROVE  Wakes(a)
<1> DEFINE s == calls'[a]
<1>1. Care(s, status, procStatus)
  BY AsideIn DEF Care
<1>2. Fine(s, status)
  <2> SUFFICES ASSUME s # <<>>, Head(s).fn = "set"
               PROVE  Head(s).arg = "PAUSED" /\ Head(s).obj \notin Comp
    BY DEF Fine
  <2>1. Head(s) \in Frames(s)
    BY HeadIn
  <2>2. Aside(Head(s))
    BY <2>1
  <2> QED BY <2>2, TreeAssumption DEF Aside, Worked
<1> HIDE DEF s
<1>3. Alive(s, status, procStatus)
  BY <1>1, <1>2, AliveWhen
<1> QED
  BY <1>3 DEF Wakes, s

\* The implementation of a system task ends, or fails.
LEMMA RunJobWakes ==
  ASSUME {"cancelled", "completed"} \cap Outcomes = {}, "async" \notin Outcomes,
         TypeOK, Stacks, NEW a \in Actor, Held(a), Awake(a), RunJob(a)
  PROVE  Wakes(a)
<1> DEFINE f == Top(a)
           r == Tail(calls[a])
           t == Top(a).obj
<1>1. calls[a] # <<>> /\ f.fn = "run_job" /\ UNCHANGED <<status, procStatus>>
  BY DEF RunJob, At, procVars
<1>2. /\ \A h \in Frames(r) : h.fn \in Worked
      /\ r \in Seq(Call) /\ f \in Call
  BY <1>1, CloserTop DEF Closer
<1>3. t \in Task /\ t \in Comp
  BY <1>1, <1>2 DEF Call, JobFn, System, Task, TaskKind
<1>4. procStatus # "PAUSED" /\ Care(r, status, procStatus)
  <2> SUFFICES ASSUME procStatus \in {"EXECUTION", "PAUSED"}
               PROVE  procStatus # "PAUSED" /\ Minds(r, status, procStatus)
    BY DEF Care
  <2>1. Minded(f, r, status, procStatus)
    BY <1>1, TopMinded
  <2> HIDE DEF f, r
  <2>2. procStatus # "PAUSED"
    BY <1>1, <2>1, MindedParts DEF Quiet, Idling, Worked
  <2>3. /\ \A p \in Holder : ~Waits(f, r, p)
        /\ ~(f.fn = "set" /\ f.obj \in Comp)
        /\ \A c \in Comp : ~Cancels(f, c) /\ ~Starts(f, c)
    BY <1>1 DEF Waits, Attends, Cancels, Starts, Tell, Told
  <2>4. Minds(r, status, procStatus)
    BY <2>1, <2>3, MindsDrop
  <2> QED BY <2>2, <2>4
<1>5. Care(<<>>, status, procStatus)
  <2> SUFFICES ASSUME Minds(r, status, procStatus) PROVE Minds(<<>>, status, procStatus)
    BY <1>4 DEF Care
  <2>1. \A k \in Frames(r) : Aside(k) /\ k.fn # "cancel_process"
    BY <1>2 DEF Aside, Worked
  <2> QED BY <1>2, <2>1, AsideOut
<1>6. ASSUME NEW v \in {"COMPLETED", "REJECTED"}, NEW fn \in Tell,
             Continue(a, <<Set(t, v), Do(fn, Parent[t], t)>>)
      PROVE  Wakes(a)
  <2> DEFINE x == Set(t, v)
             y == Do(fn, Parent[t], t)
  <2>1. x \in Call /\ x.fn = "set" /\ x.obj = t /\ x.arg = v
    <3>1. v \in Arg
      BY Args DEF CompStatus
    <3>2. x \in Call
      BY <1>3, <3>1, SetCall
    <3> QED BY <3>2 DEF Set, Do
  <2>2. y \in Call /\ y.fn \in Tell /\ y.obj = Parent[t]
    BY <1>3, TellCall
  <2>3. Continue(a, <<x, y>>)
    BY <1>6
  <2> HIDE DEF x, y
  <2>4. CASE status[t] = "EXECUTION"
    <3>1. \A p \in Holder : ~Waits(f, r, p)
      BY <1>1 DEF Waits, Attends, Tell, Told
    <3>2. Top(a).fn \in Closer
      BY <1>1 DEF Closer
    <3> HIDE DEF t
    <3> QED BY <1>1, <1>3, <2>1, <2>2, <2>3, <2>4, <3>1, <3>2, EndsAwake
  <2>5. CASE status[t] # "EXECUTION"
    <3>1. calls'[a] = <<x, y>> \o r
      BY <2>3, Continued
    <3> HIDE DEF t, f, r
    <3> QED BY <1>1, <1>2, <1>3, <1>4, <2>5, <3>1, LateWakes DEF x, y
  <2> QED BY <2>4, <2>5
<1>7. ASSUME NEW x \in Call, Aside(x), Continue(a, <<x>>) PROVE Wakes(a)
  <2>1. calls'[a] = <<x>> \o r
    BY <1>7, Continued
  <2>2. \A k \in Frames(r) : Aside(k)
    BY <1>2 DEF Aside
  <2> HIDE DEF r
  <2>3. calls'[a] \in Seq(Call) /\ Frames(calls'[a]) = {x} \cup Frames(r)
    BY <1>2, <2>1, FramesPush, Push
  <2>4. \A k \in Frames(calls'[a]) : Aside(k)
    BY <1>7, <2>2, <2>3
  <2> QED BY <1>1, <1>4, <1>5, <2>3, <2>4, AsideWakes
<1>8. CASE Throw(a, "ElementsError")
  <2> DEFINE u == Unwound(r, "ElementsError")
  <2>1. calls'[a] = u
    BY <1>8 DEF TypeOK, Throw
  <2>2. u \in Seq(Call) /\ \A k \in Frames(u) : Aside(k)
    <3> HIDE DEF r
    <3> QED BY <1>2, AsideUnwound DEF Exception
  <2> HIDE DEF u
  <2> QED BY <1>1, <1>4, <1>5, <2>1, <2>2, AsideWakes
<1>9. CASE Continue(a, Closing(t, FALSE))
  <2>1. PICK fn \in Tell \ {"propagate_refuse"} :
           Closing(t, FALSE) = <<Set(t, "COMPLETED"), Do(fn, Parent[t], t)>>
    BY <1>3, Answers
  <2>2. Continue(a, <<Set(t, "COMPLETED"), Do(fn, Parent[t], t)>>)
    BY <1>9, <2>1
  <2> QED BY <1>6, <2>2
<1>10. CASE Continue(a, Refusing(t))
  <2>1. PICK fn \in Tell : Refusing(t) = <<Set(t, "REJECTED"), Do(fn, Parent[t], t)>>
    BY <1>3, Answers
  <2>2. Continue(a, <<Set(t, "REJECTED"), Do(fn, Parent[t], t)>>)
    BY <1>10, <2>1
  <2> QED BY <1>6, <2>2
<1>11. CASE Continue(a, <<Set(Root, "PAUSED")>>)
  <2>1. Set(Root, "PAUSED") \in Call /\ Aside(Set(Root, "PAUSED"))
    BY SetCall, Args DEF ProcStatus, Aside, Set, Do
  <2> QED BY <1>7, <1>11, <2>1
<1>12. CASE Continue(a, <<Do("cancel_process", Root, None)>>)
  <2>1. Do("cancel_process", Root, None) \in Call /\ Aside(Do("cancel_process", Root, None))
    BY RootCalls DEF Aside, Do
  <2> QED BY <1>7, <1>12, <2>1
<1>13. \E o \in Outcomes \ {"inactive"} :
         \/ o = "done"      /\ Continue(a, Closing(t, FALSE))
         \/ o = "refused"   /\ Continue(a, Refusing(t))
         \/ o = "paused"    /\ Continue(a, <<Set(Root, "PAUSED")>>)
         \/ o = "aborted"   /\ Continue(a, <<Do("cancel_process", Root, None)>>)
         \/ o = "error"     /\ Throw(a, "ElementsError")
  <2>1. \A o \in Outcomes : o # "cancelled" /\ o # "completed" /\ o # "async"
    OBVIOUS
  <2> QED BY <2>1 DEF RunJob
<1> QED
  BY <1>8, <1>9, <1>10, <1>11, <1>12, <1>13

\* A step of a worker
LEMMA JobStepWakes ==
  ASSUME {"cancelled", "completed"} \cap Outcomes = {}, "async" \notin Outcomes,
         TypeOK, Stacks, NEW a \in Actor, Held(a), Awake(a), JobStep(a)
  PROVE  Wakes(a)
<1>1. ASSUME calls[a] # <<>>, Top(a).fn \in DbFn PROVE FALSE
  <2>1. Top(a) \in Call
    BY <1>1, Running
  <2> QED BY <1>1, <2>1 DEF Call
<1>2. ~DbComplete(a) /\ ~DbDiscard(a) /\ ~DbDiscardEach(a)
  BY <1>1 DEF DbComplete, DbDiscard, DbDiscardEach, At, DbFn
<1> QED
  BY <1>2, RunJobWakes, LeaveTryWakes DEF JobStep

\* A component ends as it was going to.
LEMMA SettlesDown ==
  ASSUME NEW f, NEW r, NEW st \in [Comp -> CompStatus], NEW ps, Minded(f, r, st, ps),
         f.fn = "set", f.obj \in Comp, f.arg \in Terminal
  PROVE  Minds(r, [st EXCEPT ![f.obj] = f.arg], ps)
<1> DEFINE c == f.obj
           v == f.arg
           R == Frames(r)
           K == {f} \cup R
           su == [st EXCEPT ![c] = v]
<1>1. /\ f \in Call /\ r \in Seq(Call) /\ Linked(r) /\ Quiet(K, ps) /\ Skips(K, st)
      /\ Parallels(K, st) /\ Tended(<<f>> \o r, st)
  BY MindedParts
<1>2. v \in CompStatus /\ Root \notin Comp /\ v \notin {"NEW", "EXECUTION"} /\ c \in Comp /\ f.fn = "set"
      /\ f.arg = v /\ f.obj = c
  BY TreeAssumption DEF Terminal, CompStatus
<1>3. su[c] = v /\ \A d \in Comp : d # c => su[d] = st[d]
  BY <1>2, Settled
<1>4. /\ \A d : Doomed(d, K) <=> (d = c /\ v = "DISCARDED") \/ Doomed(d, R)
      /\ \A d : Ending(d, K) <=> d = c \/ Ending(d, R)
      /\ \A d : ToStart(d, K) <=> ToStart(d, R)
  <2>1. /\ \A d : Doomed(d, K) <=> Doomed(d, {f}) \/ Doomed(d, R)
        /\ \A d : Ending(d, K) <=> Ending(d, {f}) \/ Ending(d, R)
        /\ \A d : ToStart(d, K) <=> ToStart(d, {f}) \/ ToStart(d, R)
    BY Joint
  <2>2. /\ \A d : Doomed(d, {f}) <=> Cancels(f, d)
        /\ \A d : Ending(d, {f}) <=> f.fn = "set" /\ f.obj = d /\ f.arg \in Terminal
        /\ \A d : ToStart(d, {f}) <=> Starts(f, d)
    BY Lone
  <2>3. \A d : (Cancels(f, d) <=> d = c /\ v = "DISCARDED") /\ ~Starts(f, d)
    BY <1>2 DEF Cancels, Starts
  <2>4. v \in Terminal
    OBVIOUS
  <2> HIDE DEF K, R, c, v
  <2> QED BY <1>2, <2>1, <2>2, <2>3, <2>4
<1>5. \A p \in Holder : Attended(p, <<f>> \o r) => Attended(p, r)
  <2> SUFFICES ASSUME NEW p \in Holder, Waits(f, r, p) PROVE FALSE
    BY <1>1, AttendedPush
  <2> QED BY <1>2 DEF Waits, Attends, Tell, Told
<1>6. Frames(<<f>> \o r) = K
  BY <1>1, FramesPush
<1>7. Root \in Holder /\ Comp \subseteq Holder /\ f \in K /\ R \subseteq K
  BY DEF Holder
<1> DEFINE s == <<f>> \o r
<1> HIDE DEF c, v, R, K, su, s
<1>8. Quiet(R, ps)
  BY <1>1, <1>7 DEF Quiet
<1>9. Skips(R, su)
  <2>1. (\E k \in R : k.fn \in Starters) => v = "DISCARDED"
    BY <1>1, <1>2, <1>7 DEF Skips
  <2>2. \A k \in R : k.fn = "activate_each" =>
          \A d \in Components(k.obj) : su[d] \notin {"COMPLETED", "REJECTED"}
    <3> SUFFICES ASSUME NEW k \in R, k.fn = "activate_each", NEW d \in Components(k.obj)
                 PROVE  su[d] \notin {"COMPLETED", "REJECTED"}
      OBVIOUS
    <3>1. st[d] \notin {"COMPLETED", "REJECTED"} /\ d \in Comp
      BY <1>1, <1>7, PartsIn DEF Skips
    <3>2. v = "DISCARDED"
      BY <2>1 DEF Starters
    <3> QED BY <1>3, <3>1, <3>2
  <2>3. (\E k \in R : k.fn \in Starters) => \A k \in R : k.fn = "set" => k.arg = "DISCARDED"
    BY <1>1, <1>7 DEF Skips
  <2>4. \A k \in R : k.fn = "activate_first" => k.arg \in Comp \/ Hollow(k.obj)
    BY <1>1, <1>7 DEF Skips
  <2> QED BY <2>2, <2>3, <2>4 DEF Skips
<1>10. \A d \in Comp : Live(d, R, su) <=> Live(d, K, st)
  BY <1>2, <1>3, <1>4 DEF Live
<1>11. Parallels(R, su)
  <2> SUFFICES ASSUME NEW g \in Comp, Kind[g] = "parallel", Live(g, R, su),
                      NEW d \in Components(g), su[d] = "NEW"
               PROVE  Doomed(d, R) \/ ToStart(d, R)
    BY DEF Parallels
  <2>1. d \in Comp /\ d # c /\ st[d] = "NEW"
    BY <1>2, <1>3, PartsIn
  <2>2. Doomed(d, K) \/ ToStart(d, K)
    BY <1>1, <1>10, <2>1 DEF Parallels
  <2> QED BY <1>4, <2>1, <2>2
<1>12. \A p \in Holder : Cared(p, s, st) => Cared(p, r, su)
  BY <1>5, <1>6, <1>10 DEF Cared, R, s
<1>13. Tended(r, su)
  <2>1. Tended(s, st)
    BY <1>1 DEF s
  <2>2. Cared(Root, r, su)
    BY <1>7, <1>12, <2>1 DEF Tended
  <2>3. \A g \in Comp \ Task : Live(g, Frames(r), su) => Cared(g, r, su)
    BY <1>6, <1>7, <1>10, <1>12, <2>1 DEF Tended, R, s
  <2> QED BY <2>2, <2>3 DEF Tended
<1>14. Minds(r, su, ps)
  BY <1>1, <1>8, <1>9, <1>11, <1>13 DEF Minds, R
<1> QED
  BY <1>14 DEF su, c, v

\* Calls that need what they find are fine.
LEMMA NeedsFine ==
  ASSUME NEW r \in Seq(Call), NEW st, \A h \in Frames(r) : Needs(h, st)
  PROVE  Fine(r, st)
<1> SUFFICES ASSUME r # <<>>, Head(r).fn = "set" PROVE Fine(r, st)
  BY DEF Fine
<1>1. Needs(Head(r), st)
  BY HeadIn
<1>2. Head(r).obj \in Comp \cup {Root}
  <2>1. Head(r) \in Call
    BY EmptySeq
  <2> QED BY <2>1 DEF Call
<1> DEFINE v == Head(r)
<1>3. Needs(v, st) /\ v.fn = "set" /\ v.obj \in Comp \cup {Root}
  BY <1>1, <1>2
<1> HIDE DEF v
<1>4. /\ v.arg # "EXECUTION"
      /\ v.obj \in Comp /\ v.arg \in {"COMPLETED", "REJECTED"} => st[v.obj] = "EXECUTION"
  BY <1>3 DEF Needs
<1> QED
  BY <1>4 DEF Fine, v

\* The calls that remain after a step, the statuses having changed
LEMMA RemainsWakes ==
  ASSUME NEW a \in Actor, Fine(calls'[a], status'), Care(calls'[a], status', procStatus')
  PROVE  Wakes(a)
BY AliveWhen DEF Wakes

\* A component changes its status.
LEMMA SetComponentWakes ==
  ASSUME TypeOK, Stacks, NEW a \in Actor, Held(a), Awake(a), SetComponent(a)
  PROVE  Wakes(a)
<1> DEFINE f == Top(a)
           r == Tail(calls[a])
           s == calls[a]
           su == [status EXCEPT ![f.obj] = f.arg]
<1>1. /\ s # <<>> /\ f.fn = "set" /\ f.obj \in Comp /\ <<status[f.obj], f.arg>> \in CompSteps
      /\ status' = su /\ procStatus' = procStatus
  BY DEF SetComponent, At, procVars
<1>2. /\ s \in Seq(Call) /\ status \in [Comp -> CompStatus] /\ Head(s) = f /\ s[1] = f /\ Root \notin Comp
      /\ r \in Seq(Call) /\ s = <<f>> \o r /\ f \in Call
  <2>1. s \in Seq(Call) /\ Head(s) = f /\ s[1] = f /\ status \in [Comp -> CompStatus] /\ Root \notin Comp
    BY <1>1, TreeAssumption DEF TypeOK, Top
  <2>2. r \in Seq(Call) /\ f \in Call
    BY <1>1, Running
  <2>3. s = <<f>> \o r
    BY <1>1, <2>1, HeadOnTail
  <2> QED BY <2>1, <2>2, <2>3
<1>3. calls'[a] = r
  <2>1. calls'[a] = <<>> \o r
    BY Continued DEF SetComponent
  <2> QED BY <1>2, <2>1
<1>4. Sound(s, status, procStatus, completing_ok) /\ Alive(s, status, procStatus)
  BY DEF Held, Awake
<1> HIDE DEF f, r, s
<1>5. Normal(r, su, procStatus, completing_ok)
  <2>1. ~Vain(s, status, procStatus, completing_ok)
    BY <1>1, <1>2 DEF Vain, CompSteps
  <2>2. ~Boot(s, status, procStatus, completing_ok)
    BY <1>1, <1>2, Booting
  <2>3. CASE Launch(s, status, procStatus, completing_ok)
    <3>1. Tail(s) = r
      BY DEF r, s
    <3> QED BY <1>2, <2>3, <3>1 DEF Launch
  <2>4. CASE Normal(s, status, procStatus, completing_ok)
    <3>1. On(f, r, status, procStatus, completing_ok)
      BY <1>1, <1>2, <2>4, NormalOn DEF r, s
    <3> QED BY <1>1, <1>2, <3>1, SetDown
  <2> QED BY <1>4, <2>1, <2>2, <2>3, <2>4 DEF Sound
<1>6. Fine(r, su)
  <2>1. \A h \in Frames(r) : Needs(h, su)
    BY <1>5 DEF Normal, Law
  <2> HIDE DEF su
  <2> QED BY <1>2, <2>1, NeedsFine
<1>7. Care(r, su, procStatus)
  <2>1. CASE f.arg = "EXECUTION"
    <3>1. Beginning(s) /\ Head(s).obj \in Comp
      BY <1>1, <1>2, <2>1 DEF Beginning
    <3>2. Tail(s) = r /\ su = [status EXCEPT ![Head(s).obj] = "EXECUTION"]
      BY <1>2, <2>1 DEF r, s
    <3> HIDE DEF su
    <3> QED BY <1>4, <3>1, <3>2 DEF Alive
  <2>2. CASE f.arg # "EXECUTION"
    <3>1. f.arg \in Terminal
      BY <1>1, <2>2 DEF CompSteps, Terminal
    <3>2. ~Beginning(s) /\ ~Late(s, status)
      BY <1>1, <1>2, <2>2 DEF Beginning, Late, CompSteps
    <3>3. Care(s, status, procStatus)
      BY <1>4, <3>2 DEF Alive
    <3>4. ASSUME procStatus \in {"EXECUTION", "PAUSED"} PROVE Minds(r, su, procStatus)
      <4>1. Minds(s, status, procStatus)
        BY <3>3, <3>4 DEF Care
      <4>2. Minded(f, r, status, procStatus)
        BY <1>2, <4>1 DEF Minded
      <4> QED BY <1>1, <1>2, <3>1, <4>2, SettlesDown
    <3> QED BY <3>4 DEF Care
  <2> QED BY <2>1, <2>2
<1> QED
  BY <1>1, <1>3, <1>6, <1>7, RemainsWakes

\* A process that is about to start, and one that is about to resume
LEMMA BootAwake ==
  ASSUME TypeOK, NEW a \in Actor, Awake(a), At(a, "set"),
         Boot(calls[a], status, procStatus, completing_ok)
  PROVE  \/ /\ procStatus = "PAUSED" /\ Tail(calls[a]) = <<>> /\ Care(<<>>, status, procStatus)
         \/ /\ procStatus = "NEW"
            /\ Tail(calls[a]) = <<Do("activate_tasks", Root, None), Do("except_cancelled", Root, None)>>
<1> DEFINE s == calls[a]
           t == <<Do("activate_tasks", Root, None), Do("except_cancelled", Root, None)>>
<1>1. /\ s # <<>> /\ Head(s).obj = Root /\ Head(s).arg = "EXECUTION"
      /\ Tail(s) = <<>> \/ (procStatus = "NEW" /\ Tail(s) = t)
  BY Booting
<1>2. s \in Seq(Call) /\ Head(s).fn = "set"
  BY DEF TypeOK, At, Top
<1>3. t # <<>>
  <2>1. Len(t) = 2
    OBVIOUS
  <2> QED BY <2>1
<1>4. Alive(s, status, procStatus)
  BY DEF Awake
<1> HIDE DEF s, t
<1>5. Beginning(s)
  BY <1>1, <1>2 DEF Beginning
<1>6. IF Len(s) = 1 THEN procStatus = "PAUSED" /\ Care(<<>>, status, procStatus) ELSE procStatus = "NEW"
  BY <1>1, <1>4, <1>5 DEF Alive
<1>7. Len(s) \in Nat /\ Len(s) >= 1 /\ Len(Tail(s)) = Len(s) - 1
  BY <1>1, <1>2, EmptySeq, HeadTailProperties
<1>8. Len(s) = 1 <=> Tail(s) = <<>>
  <2>1. Tail(s) \in Seq(Call)
    BY <1>1, <1>2, HeadTailProperties
  <2>2. Tail(s) = <<>> <=> Len(Tail(s)) = 0
    BY <2>1, EmptySeq
  <2> QED BY <1>7, <2>2
<1>9. CASE Len(s) = 1
  BY <1>6, <1>8, <1>9 DEF s
<1>10. CASE Len(s) # 1
  BY <1>1, <1>6, <1>8, <1>10 DEF s, t
<1> QED
  BY <1>9, <1>10

\* The process starts: it calls activate_tasks.
LEMMA FirstMinds ==
  ASSUME NEW st, \A c \in Comp : st[c] = "NEW"
  PROVE  Minds(<<Do("activate_tasks", Root, None), Do("except_cancelled", Root, None)>>, st, "EXECUTION")
<1> DEFINE x == Do("activate_tasks", Root, None)
           y == Do("except_cancelled", Root, None)
           w == <<>>
           u == <<y>> \o w
           t == <<x>> \o u
<1>1. x \in Call /\ y \in Call
  BY RootCalls
<1>2. x.fn = "activate_tasks" /\ y.fn = "except_cancelled" /\ y.obj = Root
  BY DEF Do
<1> HIDE DEF x, y
<1>17. t = <<x, y>>
  <2>1. <<x, y>> \o w = t
    <3>1. w \in Seq(Call)
      OBVIOUS
    <3> HIDE DEF w
    <3> QED BY <1>1, <3>1, Join
  <2> DEFINE p == <<x, y>>
  <2>2. p \in Seq(Call)
    BY <1>1
  <2> HIDE DEF p
  <2>3. p \o w = p
    BY <2>2
  <2> QED BY <2>1, <2>3 DEF p
<1>4. w \in Seq(Call) /\ w = <<>> /\ Linked(w) /\ Frames(w) = {}
  BY NothingAttended, NoFrames
<1> HIDE DEF w
<1>5. Linked(u)
  BY <1>1, <1>2, <1>4, LinkedPush DEF Upper
<1>6. u \in Seq(Call) /\ u # <<>> /\ Head(u) = y
  BY <1>1, <1>4, Push
<1> HIDE DEF u
<1>18. Frames(u) = {y}
  <2>1. Frames(<<y>> \o w) = {y} \cup Frames(w)
    BY <1>1, <1>4, FramesPush
  <2> QED BY <1>4, <2>1 DEF u
<1>7. Link(x, y)
  BY <1>2 DEF Link
<1>8. Linked(t)
  <2>1. Linked(<<x>> \o u)
    <3>1. u # <<>> => Link(x, Head(u))
      BY <1>6, <1>7
    <3> QED BY <1>1, <1>5, <1>6, <3>1, LinkedPush
  <2> QED BY <2>1
<1>9. Frames(t) = {x} \cup {y}
  BY <1>1, <1>6, <1>18, FramesPush
<1>10. Attended(Root, t)
  BY <1>1, <1>2, <1>6, AttendedPush DEF Waits, Attends
<1> HIDE DEF t
<1>11. Quiet({x} \cup {y}, "EXECUTION")
  BY <1>2 DEF Quiet, Proper
<1>12. Skips({x} \cup {y}, st)
  BY <1>2 DEF Skips, Starters
<1>13. \A c \in Comp : \A K : ~Live(c, K, st)
  BY DEF Live
<1>14. Parallels({x} \cup {y}, st) /\ Tended(t, st)
  BY <1>10, <1>13 DEF Parallels, Tended, Cared
<1>15. Minds(t, st, "EXECUTION")
  BY <1>8, <1>9, <1>11, <1>12, <1>14 DEF Minds
<1> QED
  BY <1>15, <1>17 DEF x, y

\* The process starts.
LEMMA StartProcessWakes ==
  ASSUME TypeOK, Stacks, NEW a \in Actor, Held(a), Awake(a), StartProcess(a)
  PROVE  Wakes(a)
<1> DEFINE t == <<Do("activate_tasks", Root, None), Do("except_cancelled", Root, None)>>
<1>1. /\ At(a, "set") /\ calls[a] # <<>> /\ Top(a).obj = Root /\ Top(a).arg = "EXECUTION"
      /\ procStatus = "NEW" /\ procStatus' = "EXECUTION" /\ status' = [c \in Comp |-> "NEW"]
  BY DEF StartProcess, At
<1>2. Boot(calls[a], status, procStatus, completing_ok)
  BY <1>1, ProcessTop
<1>3. Tail(calls[a]) = t
  BY <1>1, <1>2, BootAwake
<1>4. calls'[a] = t
  <2>1. calls'[a] = <<>> \o Tail(calls[a])
    BY Continued DEF StartProcess
  <2>2. t \in Seq(Call)
    BY RootCalls
  <2> HIDE DEF t
  <2> QED BY <1>3, <2>1, <2>2
<1>5. \A c \in Comp : status'[c] = "NEW"
  BY <1>1
<1>6. Minds(t, status', "EXECUTION")
  BY <1>5, FirstMinds
<1>7. Fine(t, status')
  BY DEF Fine, Do
<1> HIDE DEF t
<1> QED
  BY <1>1, <1>4, <1>6, <1>7, RemainsWakes DEF Care

\* The process resumes.
LEMMA ResumeProcessWakes ==
  ASSUME TypeOK, Stacks, NEW a \in Actor, Held(a), Awake(a), ResumeProcess(a)
  PROVE  Wakes(a)
<1>1. /\ At(a, "set") /\ calls[a] # <<>> /\ Top(a).obj = Root /\ Top(a).arg = "EXECUTION"
      /\ procStatus = "PAUSED" /\ procStatus' = "EXECUTION" /\ status' = status
  BY DEF ResumeProcess, At
<1>2. Boot(calls[a], status, procStatus, completing_ok)
  BY <1>1, ProcessTop
<1>3. Tail(calls[a]) = <<>> /\ Care(<<>>, status, "PAUSED")
  BY <1>1, <1>2, BootAwake
<1>4. calls'[a] = <<>>
  <2>1. calls'[a] = <<>> \o Tail(calls[a])
    BY Continued DEF ResumeProcess
  <2> QED BY <1>3, <2>1
<1>5. Minds(<<>>, status, "EXECUTION")
  <2>1. Minds(<<>>, status, "PAUSED")
    BY <1>3 DEF Care
  <2>2. Quiet(Frames(<<>>), "EXECUTION")
    BY NoFrames DEF Quiet
  <2> QED BY <2>1, <2>2 DEF Minds
<1>6. Fine(<<>>, status)
  BY DEF Fine
<1> QED
  BY <1>1, <1>4, <1>5, <1>6, RemainsWakes DEF Care

\* The process ends or pauses.
LEMMA LeaveProcessWakes ==
  ASSUME TypeOK, Stacks, NEW a \in Actor, Held(a), Awake(a), LeaveProcess(a)
  PROVE  Wakes(a)
<1> DEFINE f == Top(a)
           r == Tail(calls[a])
<1>1. /\ At(a, "set") /\ calls[a] # <<>> /\ f.fn = "set" /\ f.obj = Root /\ f.arg # "EXECUTION"
      /\ <<procStatus, f.arg>> \in ProcSteps /\ procStatus' = f.arg /\ status' = status
  BY DEF LeaveProcess, At
<1>2. On(f, r, status, procStatus, completing_ok)
  <2>1. Boot(calls[a], status, procStatus, completing_ok) => Head(calls[a]).arg = "EXECUTION"
    BY Booting
  <2>2. Head(calls[a]) = f
    BY DEF Top
  <2> HIDE DEF f, r
  <2>3. \/ Boot(calls[a], status, procStatus, completing_ok)
        \/ On(f, r, status, procStatus, completing_ok)
    BY <1>1, ProcessTop DEF f, r
  <2> QED BY <1>1, <2>1, <2>2, <2>3
<1>3. r \in Seq(Call) /\ f \in Call /\ calls[a] = <<f>> \o r
  <2>1. r \in Seq(Call) /\ f \in Call
    BY <1>1, Running
  <2>2. calls[a] \in Seq(Call) /\ Head(calls[a]) = f
    BY DEF TypeOK, Top
  <2> QED BY <1>1, <2>1, <2>2, HeadOnTail
<1>4. calls'[a] = r
  <2>1. calls'[a] = <<>> \o r
    BY Continued DEF LeaveProcess
  <2> HIDE DEF r
  <2> QED BY <1>3, <2>1
<1>5. Alive(<<f>> \o r, status, procStatus)
  BY <1>3 DEF Awake
<1> HIDE DEF f, r
<1>6. Fine(r, status)
  BY <1>2, RestFine
<1>7. Care(r, status, f.arg)
  <2> SUFFICES ASSUME f.arg \in {"EXECUTION", "PAUSED"} PROVE Minds(r, status, f.arg)
    BY DEF Care
  <2>1. f.arg = "PAUSED" /\ procStatus = "EXECUTION"
    BY <1>1 DEF ProcSteps
  <2> DEFINE s == <<f>> \o r
  <2>2. s # <<>> /\ Head(s) = f
    BY <1>3, Push
  <2>3. Fine(s, status)
    BY <1>1, <2>1, <2>2, TreeAssumption DEF Fine
  <2> HIDE DEF s
  <2>4. Care(s, status, procStatus)
    BY <1>5, <2>3, AliveWhen DEF s
  <2>5. Minded(f, r, status, procStatus)
    BY <1>3, <2>1, <2>4 DEF Care, Minded, s
  <2>6. Minds(r, status, procStatus)
    <3>1. /\ \A p \in Holder : ~Waits(f, r, p)
          /\ ~(f.fn = "set" /\ f.obj \in Comp)
          /\ \A c \in Comp : ~Cancels(f, c) /\ ~Starts(f, c)
      BY <1>1, <2>1, TreeAssumption DEF Waits, Attends, Cancels, Starts, Tell, Told, Ended
    <3> QED BY <2>5, <3>1, MindsDrop
  <2>7. \A k \in Frames(r) : k.fn \in Idling
    <3>1. OfProcess(f) /\ \A k \in Frames(r) : Bears(f, k)
      BY <1>1, <1>2 DEF OfProcess, On
    <3> QED BY <3>1 DEF Bears, Idling, Worked
  <2>8. Quiet(Frames(r), "PAUSED")
    BY <2>6, <2>7 DEF Minds, Quiet
  <2> QED BY <2>1, <2>6, <2>8 DEF Minds
<1> QED
  BY <1>1, <1>4, <1>6, <1>7, RemainsWakes

\* A transition is refused.
LEMMA RefuseStateWakes ==
  ASSUME TypeOK, Stacks, NEW a \in Actor, Held(a), Awake(a), RefuseState(a)
  PROVE  Wakes(a)
<1> DEFINE f == Top(a)
           r == Tail(calls[a])
           s == calls[a]
           e == "ElementsError"
<1>1. /\ s # <<>> /\ f.fn = "set" /\ Throw(a, e) /\ At(a, "set")
      /\ IF f.obj = Root THEN <<procStatus, f.arg>> \notin ProcSteps
                         ELSE <<status[f.obj], f.arg>> \notin CompSteps
  BY DEF RefuseState, At
<1>2. UNCHANGED <<status, procStatus>>
  BY SameData DEF RefuseState
<1>3. s \in Seq(Call) /\ status \in [Comp -> CompStatus] /\ Head(s) = f /\ s[1] = f /\ Root \notin Comp
      /\ f.obj \in Comp \cup {Root} /\ r = Tail(s) /\ r \in Seq(Call) /\ procStatus \in ProcStatus
  BY <1>1, TreeAssumption, Running DEF TypeOK, Top
<1>4. Sound(s, status, procStatus, completing_ok)
  BY DEF Held
<1>5. calls'[a] = Unwound(r, e)
  BY <1>1, Thrown
<1>6. Alive(s, status, procStatus)
  BY DEF Awake
<1>7. e = "ElementsError" /\ e \in Exception
  BY DEF Exception
<1>8. CASE Boot(s, status, procStatus, completing_ok)
  <2>1. f.obj = Root /\ f.arg = "EXECUTION"
    BY <1>3, <1>8, Booting
  <2>2. procStatus \in {"PAUSED", "NEW"}
    BY <1>1, <1>8, BootAwake
  <2> QED BY <1>1, <2>1, <2>2 DEF ProcSteps
<1> HIDE DEF f, s, r, e
<1>9. CASE Vain(s, status, procStatus, completing_ok)
  <2>1. /\ Len(s) >= 2 /\ s[2].fn \in Tell
        /\ \A i \in 3 .. Len(s) : s[i].fn \in Worked
        /\ f.obj \in Comp /\ f.arg \in {"COMPLETED", "REJECTED"} /\ status[f.obj] # "EXECUTION"
    BY <1>3, <1>9 DEF Vain
  <2>2. Late(s, status)
    BY <1>1, <1>3, <2>1 DEF Late
  <2>3. procStatus # "PAUSED" /\ Care(Tail(Tail(s)), status, procStatus)
    BY <1>6, <2>2 DEF Alive
  <2>4. r # <<>> /\ Head(r) = s[2] /\ Len(r) = Len(s) - 1 /\ \A i \in 1 .. Len(r) : r[i] = s[i + 1]
    <3>1. Len(r) = Len(s) - 1 /\ \A i \in 1 .. Len(r) : r[i] = s[i + 1]
      BY <1>1, <1>3
    <3>2. Len(r) >= 1 /\ 1 \in 1 .. Len(r)
      BY <1>3, <2>1, <3>1
    <3>3. r[1] = s[1 + 1] /\ 1 + 1 = 2
      BY <3>1, <3>2
    <3>4. r # <<>> /\ Head(r) = r[1]
      <4>1. r \in Seq(Call) /\ Len(r) >= 1
        BY <1>3, <3>2
      <4>2. r # <<>>
        BY <4>1
      <4> QED BY <4>1, <4>2
    <3> QED BY <3>1, <3>3, <3>4
  <2>5. e \notin Catches(Head(r).fn)
    BY <1>7, <2>1, <2>4 DEF Catches, Tell, Told
  <2> DEFINE w == Tail(r)
  <2>6. w \in Seq(Call) /\ Len(w) = Len(r) - 1 /\ \A i \in 1 .. Len(w) : w[i] = r[i + 1]
    BY <1>3, <2>4
  <2>7. Unwound(r, e) = Unwound(w, e)
    BY <1>3, <2>4, <2>5, UnwoundPassed
  <2>8. Care(w, status, procStatus)
    BY <1>3, <2>3
  <2> HIDE DEF w
  <2>9. \A h \in Frames(w) : h.fn \in Worked
    <3>1. ASSUME NEW i \in 1 .. Len(w) PROVE w[i].fn \in Worked
      <4>1. i + 1 \in 1 .. Len(r) /\ (i + 1) + 1 \in 3 .. Len(s)
        BY <1>3, <2>4, <2>6
      <4>2. w[i] = s[(i + 1) + 1]
        BY <2>4, <2>6, <4>1
      <4> QED BY <2>1, <4>1, <4>2
    <3> QED BY <3>1 DEF Frames
  <2>10. \A h \in Frames(w) : Aside(h) /\ h.fn # "cancel_process"
    BY <2>9 DEF Aside, Worked
  <2>11. Care(<<>>, status, procStatus)
    BY <2>6, <2>8, <2>10, AsideOut DEF Care
  <2> DEFINE u == Unwound(w, e)
  <2>12. u \in Seq(Call) /\ \A h \in Frames(u) : Aside(h)
    BY <1>7, <2>6, <2>9, AsideUnwound
  <2>13. calls'[a] = u
    BY <1>5, <2>7
  <2> HIDE DEF u
  <2> QED BY <1>2, <2>3, <2>11, <2>12, <2>13, AsideWakes
<1>10. ~Launch(s, status, procStatus, completing_ok)
  BY <1>1, <1>3 DEF Launch, CompSteps
<1>11. CASE Normal(s, status, procStatus, completing_ok)
  <2>1. On(f, r, status, procStatus, completing_ok)
    BY <1>1, <1>3, <1>11, NormalOn
  <2>2. \A h \in Frames(s) : Needs(h, status)
    BY <1>11 DEF Normal, Law
  <2>3. Needs(f, status)
    BY <2>1 DEF On, Law
  <2>4. f.obj = Root
    BY <1>1, <1>3, <2>3 DEF Needs, CompSteps, Open
  <2>5. Fine(s, status)
    BY <1>3, <2>2, NeedsFine
  <2>6. Care(s, status, procStatus)
    BY <1>6, <2>5, AliveWhen
  <2>7. procStatus \notin {"EXECUTION", "PAUSED"}
    <3> SUFFICES ASSUME procStatus \in {"EXECUTION", "PAUSED"} PROVE FALSE
      OBVIOUS
    <3>1. Quiet(Frames(s), procStatus)
      BY <2>6 DEF Care, Minds
    <3>2. f \in Frames(s)
      BY <1>1, <1>3, HeadIn
    <3>3. f.arg \in {"COMPLETED", "FAILED", "PAUSED"}
      BY <1>1, <2>4, <3>1, <3>2 DEF Quiet, Proper
    <3>4. procStatus # "PAUSED"
      BY <1>1, <3>1, <3>2 DEF Quiet, Idling, Worked
    <3> QED BY <1>1, <2>4, <3>3, <3>4 DEF ProcSteps
  <2> DEFINE u == Unwound(r, e)
  <2>12. u \in Seq(Call)
    BY <1>3, <1>7, UnwoundCalls DEF Arg
  <2>8. Normal(u, status, procStatus, completing_ok)
    BY <1>1, <1>3, <1>7, <2>1, <2>4, ProcessRefuses
  <2> HIDE DEF u
  <2>9. u \in Seq(Call) /\ \A h \in Frames(u) : Needs(h, status)
    BY <2>8, <2>12 DEF Normal, Law
  <2>10. Fine(u, status)
    BY <2>9, NeedsFine
  <2>11. calls'[a] = u
    BY <1>5 DEF u
  <2> QED BY <1>2, <2>7, <2>10, <2>11, RemainsWakes DEF Care
<1> QED
  BY <1>4, <1>8, <1>9, <1>10, <1>11 DEF Sound, f, s, r, e

\* A transition
LEMMA StateStepWakes ==
  ASSUME TypeOK, Stacks, NEW a \in Actor, Held(a), Awake(a), StateStep(a)
  PROVE  Wakes(a)
BY SetComponentWakes, StartProcessWakes, ResumeProcessWakes, LeaveProcessWakes, RefuseStateWakes
   DEF StateStep

\* Every step of the one operation
LEMMA StepWakes ==
  ASSUME Rooted, Filled, {"cancelled", "completed"} \cap Outcomes = {}, "async" \notin Outcomes,
         TypeOK, Stacks, NEW a \in Actor, Held(a), Awake(a), Step(a)
  PROVE  Wakes(a)
BY LeaveTryWakes, RaiseWakes, StateStepWakes, ComponentStepWakes, ProcessStepWakes, JobStepWakes
   DEF Step

(* Operations that begin                                                      *)

\* It begins with one call that changes nothing.
LEMMA FirstAside ==
  ASSUME TypeOK, NEW a \in Actor, NEW x \in Call, Begin(a, <<x>>), UNCHANGED <<status, procStatus>>,
         Aside(x), procStatus = "PAUSED" => x.fn \in Idling, Care(<<>>, status, procStatus)
  PROVE  Wakes(a)
<1> DEFINE s == <<x>>
<1>1. calls'[a] = s /\ s \in Seq(Call)
  BY Begun
<1>2. \A k \in Frames(s) : k = x
  BY DEF Frames
<1> HIDE DEF s
<1> QED
  BY <1>1, <1>2, AsideWakes

\* Users activate, hold, cancel or dismiss the process.
LEMMA ProcessOperationWakes ==
  ASSUME TypeOK, NEW a \in Actor, Care(<<>>, status, procStatus), ProcessOperation(a)
  PROVE  Wakes(a)
<1>1. CASE op_activate_process(a)
  <2> DEFINE x == Do("activate_process", Root, None)
  <2>1. x \in Call /\ x.fn = "activate_process"
    BY RootCalls, DoCall, Args DEF Fn, JobFn, DbFn, Do
  <2>2. UNCHANGED <<status, procStatus>>
    BY <1>1 DEF op_activate_process, procVars
  <2>3. Begin(a, <<x>>)
    BY <1>1 DEF op_activate_process
  <2> HIDE DEF x
  <2>4. Aside(x) /\ x.fn \in Idling
    BY <2>1 DEF Aside, Idling
  <2> QED BY <2>1, <2>2, <2>3, <2>4, FirstAside
<1>2. CASE op_onhold_process(a)
  <2> DEFINE x == Set(Root, "PAUSED")
  <2>1. x \in Call /\ x.fn = "set" /\ x.obj = Root /\ x.arg = "PAUSED"
    BY SetCall, Args DEF ProcStatus, Set, Do
  <2>2. UNCHANGED <<status, procStatus>>
    BY <1>2, SameData DEF op_onhold_process
  <2>3. Begin(a, <<x>>) /\ procStatus = "EXECUTION"
    BY <1>2 DEF op_onhold_process
  <2> HIDE DEF x
  <2>4. Aside(x)
    BY <2>1 DEF Aside
  <2> QED BY <2>1, <2>2, <2>3, <2>4, FirstAside
<1>3. CASE op_cancel_process(a)
  <2> DEFINE x == Do("cancel_process", Root, None)
  <2>1. x \in Call /\ x.fn = "cancel_process"
    BY DoCall, Args DEF Fn, JobFn, DbFn, Do
  <2>2. UNCHANGED <<status, procStatus>>
    BY <1>3, SameData DEF op_cancel_process
  <2>3. Begin(a, <<x>>) /\ procStatus # "PAUSED"
    BY <1>3 DEF op_cancel_process
  <2> HIDE DEF x
  <2>4. Aside(x)
    BY <2>1 DEF Aside
  <2> QED BY <2>1, <2>2, <2>3, <2>4, FirstAside
<1>4. CASE op_dismiss_process(a)
  <2> DEFINE x == Do("dismiss_process", Root, None)
             s == <<x>>
  <2>1. x \in Call /\ x.fn # "set"
    BY DoCall, Args DEF Fn, JobFn, DbFn, Do
  <2>2. UNCHANGED <<status, procStatus>>
    BY <1>4, SameData DEF op_dismiss_process
  <2>3. Begin(a, s) /\ procStatus \notin {"EXECUTION", "PAUSED"}
    BY <1>4 DEF op_dismiss_process
  <2>4. calls'[a] = s
    BY <2>3, Begun
  <2> HIDE DEF x
  <2>5. Fine(s, status)
    BY <2>1 DEF Fine
  <2> HIDE DEF s
  <2> QED BY <2>2, <2>3, <2>4, <2>5, RemainsWakes DEF Care
<1> QED
  BY <1>1, <1>2, <1>3, <1>4 DEF ProcessOperation

\* A user answers for a task that runs.
LEMMA AnswerWakes ==
  ASSUME TypeOK, NEW a \in Actor, Care(<<>>, status, procStatus), procStatus # "PAUSED",
         UNCHANGED <<status, procStatus>>, NEW g \in Task, status[g] = "EXECUTION",
         NEW v \in {"COMPLETED", "REJECTED"}, NEW fn \in Tell,
         Begin(a, <<Set(g, v), Do(fn, Parent[g], g)>>)
  PROVE  Wakes(a)
<1> DEFINE x == Set(g, v)
           y == Do(fn, Parent[g], g)
           r == <<>>
           t == <<x, y>> \o r
           f == Do("close_task", g, None)
           N == {x, y}
           A == {p \in Holder : Attends(x, p) \/ Waits(y, r, p)}
<1>1. g \in Comp /\ Parent[g] \in Holder
  BY ParentIn DEF Task, Holder
<1>2. x \in Call /\ x.fn = "set" /\ x.obj = g /\ x.arg = v
  BY <1>1, SetCall, Args DEF CompStatus, Set, Do
<1>3. y \in Call /\ y.fn = fn /\ y.obj = Parent[g]
  <2>1. fn \in Fn \ (JobFn \cup DbFn \cup {"except_sibling"})
    BY DEF Tell, Told, Fn, JobFn, DbFn
  <2>2. g \in Arg /\ Parent[g] \in Comp \cup {Root}
    BY <1>1, Args, ParentIn
  <2>3. y \in Call
    BY <2>1, <2>2, DoCall
  <2> QED BY <2>3 DEF Do
<1>4. f \in Call /\ f.fn = "close_task"
  <2>1. "close_task" \in Fn \ (JobFn \cup DbFn \cup {"except_sibling"})
    BY DEF Fn, JobFn, DbFn
  <2>2. f \in Call
    BY <1>1, <2>1, DoCall, Args
  <2> QED BY <2>2 DEF Do
<1>5. t = <<x, y>> /\ r \in Seq(Call) /\ Linked(r) /\ Frames(r) = {} /\ r = <<>>
  BY NoFrames, NothingAttended
<1>6. calls'[a] = t
  BY <1>5, Begun
<1> HIDE DEF x, y, r, f
<1>7. Fine(t, status)
  BY <1>2, <1>3, <1>5, FineTop
<1>8. ASSUME procStatus = "EXECUTION" PROVE Minds(t, status, procStatus)
  <2>1. Minds(r, status, procStatus)
    BY <1>5, <1>8 DEF Care
  <2> DEFINE s == <<f>> \o r
  <2>2. s \in Seq(Call) /\ Frames(s) = {f} \cup Frames(r)
    BY <1>4, <1>5, Push, FramesPush
  <2>3. \A k \in Frames(s) : Aside(k)
    BY <1>4, <1>5, <2>2 DEF Aside
  <2> HIDE DEF s
  <2>4. Minds(s, status, procStatus)
    BY <1>5, <1>8, <2>1, <2>2, <2>3, AsideIn
  <2>5. Minded(f, r, status, procStatus)
    BY <1>4, <1>5, <2>4 DEF Minded, s
  <2>6. f.fn \notin Idling \cup {"set"}
    BY <1>4 DEF Idling, Worked
  <2>7. \A c \in Comp : ~Cancels(f, c) /\ ~Starts(f, c)
    BY <1>4 DEF Cancels, Starts
  <2>8. \A p \in Holder : Waits(f, r, p) => p = g
    BY <1>4 DEF Waits, Attends, Tell, Told
  <2>9. Linkable(y, r) /\ Link(x, y)
    BY <1>2, <1>3, <1>5, PlainLink DEF Upper, Tell, Told
  <2>10. Piled(t, N, A, r)
    BY <1>2, <1>3, <1>5, <2>9, PileTwo
  <2>11. /\ \A h \in N : h.fn \in {"set", "cancel_subtasks", "cancel_task"} \cup Tell
         /\ \A h \in N : h.fn \notin Tell => h.obj = g
         /\ \A h \in N : h.fn = "set" => h.arg \in Terminal
         /\ \E h \in N : h.fn \in {"set", "cancel_task"}
    BY <1>2, <1>3 DEF Terminal, Tell, Told
  <2>12. Parent[g] \in A
    BY <1>1, <1>3 DEF Waits, Attends
  <2>13. \A h \in Frames(r) : h.fn \in Worked
    BY <1>5
  <2> HIDE DEF t, N, A
  <2> QED BY <1>1, <2>5, <2>6, <2>7, <2>8, <2>10, <2>11, <2>12, <2>13, GivesUp
<1> HIDE DEF t
<1> QED
  BY <1>6, <1>7, <1>8, RemainsWakes DEF Care

\* A user closes, forwards or refuses a task.
LEMMA TaskOperationWakes ==
  ASSUME HoldEnforced, TypeOK, OnHold, NEW a \in Actor, Care(<<>>, status, procStatus), NEW t \in Task,
         TaskOperation(a, t)
  PROVE  Wakes(a)
<1>1. UNCHANGED <<status, procStatus>>
  BY SameData DEF TaskOperation, op_close_task, op_forward_task, op_refuse_task
<1>2. Changeable(t)
  BY DEF TaskOperation, op_close_task, op_forward_task, op_refuse_task
<1>3. status[t] = "EXECUTION" /\ procStatus # "PAUSED"
  BY <1>2 DEF Changeable, OnHold
<1>4. ASSUME NEW w \in BOOLEAN, Begin(a, Closing(t, w))
      PROVE  Wakes(a)
  <2>1. PICK fn \in Tell \ {"propagate_refuse"} : Closing(t, w) = <<Set(t, "COMPLETED"), Do(fn, Parent[t], t)>>
    BY Answers
  <2> QED BY <1>1, <1>3, <1>4, <2>1, AnswerWakes
<1>5. CASE Begin(a, Refusing(t))
  <2>1. PICK fn \in Tell : Refusing(t) = <<Set(t, "REJECTED"), Do(fn, Parent[t], t)>>
    BY Answers
  <2> QED BY <1>1, <1>3, <1>5, <2>1, AnswerWakes
<1> QED
  BY <1>4, <1>5 DEF TaskOperation, op_close_task, op_forward_task, op_refuse_task

\* A worker takes a job.
LEMMA TakeJobWakes ==
  ASSUME TypeOK, NEW a \in Actor, Care(<<>>, status, procStatus), NEW t \in System,
         procStatus = "EXECUTION", UNCHANGED <<status, procStatus>>,
         \/ Begin(a, <<Set(Root, "PAUSED"), Do("except_mq", t, None)>>)
         \/ Begin(a, <<Do("run_job", t, None), Do("except_job", t, None), Do("except_mq", t, None)>>)
  PROVE  Wakes(a)
<1> DEFINE x == Do("run_job", t, None)
           j == Do("except_job", t, None)
           m == Do("except_mq", t, None)
           p == Set(Root, "PAUSED")
<1>1. x \in Call /\ x.fn = "run_job" /\ j \in Call /\ j.fn = "except_job" /\ m \in Call /\ m.fn = "except_mq"
  BY JobCall, Args DEF Do, JobFn
<1>2. p \in Call /\ p.fn = "set" /\ p.obj = Root /\ p.arg = "PAUSED"
  BY SetCall, Args DEF ProcStatus, Set, Do
<1> HIDE DEF x, j, m, p
<1>3. Aside(x) /\ Aside(j) /\ Aside(m) /\ Aside(p)
  BY <1>1, <1>2 DEF Aside, Worked
<1>4. CASE Begin(a, <<p, m>>)
  <2> DEFINE s == <<p, m>>
  <2>1. calls'[a] = s /\ s \in Seq(Call)
    BY <1>1, <1>2, <1>4, Begun
  <2>2. \A i \in 1 .. Len(s) : s[i] \in {p, m}
    OBVIOUS
  <2> HIDE DEF s
  <2>3. \A k \in Frames(s) : Aside(k)
    BY <1>3, <2>2 DEF Frames
  <2> QED BY <2>1, <2>3, AsideWakes
<1>5. CASE Begin(a, <<x, j, m>>)
  <2> DEFINE s == <<x, j, m>>
  <2>1. calls'[a] = s /\ s \in Seq(Call)
    BY <1>1, <1>2, <1>5, Begun
  <2>2. \A i \in 1 .. Len(s) : s[i] \in {x, j, m}
    OBVIOUS
  <2> HIDE DEF s
  <2>3. \A k \in Frames(s) : Aside(k)
    BY <1>3, <2>2 DEF Frames
  <2> QED BY <2>1, <2>3, AsideWakes
<1> QED
  BY <1>4, <1>5 DEF x, j, m, p

(* Every operation keeps each group cared for                                 *)

\* No conversion is under way.
NoConversion == \A t \in System : conversions[t] = 0

\* An implementation that does not go on in the background starts none.
LEMMA StepConverts ==
  ASSUME "async" \notin Outcomes, NEW a \in Actor, Step(a)
  PROVE  UNCHANGED conversions
<1> USE DEF data, jobVars
<1>1. CASE LeaveTry(a) \/ RaiseAgain(a) \/ StateStep(a)
  BY <1>1 DEF LeaveTry, RaiseAgain, StateStep, SetComponent, StartProcess,
     ResumeProcess, LeaveProcess, RefuseState
<1>2. CASE ComponentStep(a)
  BY <1>2 DEF ComponentStep, ActivateTask, ActivateEach,
     ActivateFirst, CancelTask, CancelSubtasks, CancelEach, ParallelDone,
     SequentialDone, CompletionDone, GroupFinish, ParallelCancel,
     SequentialCancel, CompletionCancel, EndCompletion, GroupRefuse
<1>3. CASE ProcessStep(a)
  BY <1>3 DEF ProcessStep, ActivateProcess, ActivateTasks, ProcessDone,
     ActivateNext, ProcessFinish, ProcessCancel, CancelProcess, DismissProcess,
     DismissCompletion, EndProcess
<1>4. CASE RunJob(a)
  BY <1>4 DEF RunJob
<1>5. CASE JobStep(a) /\ ~RunJob(a)
  BY <1>5 DEF JobStep, DbComplete, DbDiscard, DbDiscardEach, FailJob
<1> QED
  BY <1>1, <1>2, <1>3, <1>4, <1>5 DEF Step, JobStep

\* No step of any actor starts a conversion.
LEMMA NextConverts ==
  ASSUME "async" \notin Outcomes, TypeOK, NoConversion, [Next]_vars
  PROVE  NoConversion'
<1>1. ASSUME NEW a \in Actor, Step(a) PROVE NoConversion'
  BY <1>1, StepConverts DEF NoConversion
<1>2. ASSUME NEW a \in Actor, FailState(a) \/ Crash(a) PROVE NoConversion'
  BY <1>2 DEF FailState, Crash, jobVars, NoConversion
<1>3. ASSUME NEW a \in Actor, ProcessOperation(a) PROVE NoConversion'
  BY <1>3 DEF ProcessOperation, op_activate_process, op_onhold_process, op_cancel_process,
     op_dismiss_process, data, jobVars, NoConversion
<1>4. ASSUME NEW a \in Actor, NEW t \in Task, TaskOperation(a, t) PROVE NoConversion'
  BY <1>4 DEF TaskOperation, op_close_task, op_forward_task, op_refuse_task, data, jobVars, NoConversion
<1>5. ASSUME NEW a \in Actor, NEW t \in System, TakeJob(a, t) PROVE NoConversion'
  BY <1>5 DEF TakeJob, NoConversion
<1>6. ASSUME NEW t \in System, RestartJob(t) PROVE NoConversion'
  BY <1>6 DEF RestartJob, NoConversion
<1>7. ASSUME NEW a \in Acs, NEW t \in System PROVE ~Callback(a, t)
  <2>1. ~(conversions[t] > 0)
    <3>1. conversions[t] = 0
      BY DEF NoConversion
    <3> QED BY <3>1
  <2> QED BY <2>1 DEF Callback, convert_files_done, convert_files_failed
<1>8. CASE UNCHANGED vars
  BY <1>8 DEF vars, NoConversion
<1>9. Session \subseteq Actor /\ Worker \subseteq Actor
  BY DEF Actor
<1> QED
  BY <1>1, <1>2, <1>3, <1>4, <1>5, <1>6, <1>7, <1>8, <1>9 DEF Next

\* The operation that is under way goes on, or one has begun.
LEMMA WakesAlone ==
  ASSUME NEW a \in Actor, Wakes(a), \A b \in Actor \ {a} : calls'[b] = <<>>
  PROVE  AliveInv'
<1>1. ASSUME calls'[a] = <<>>
      PROVE  Care(<<>>, status', procStatus')
  <2>1. Alive(<<>>, status', procStatus')
    BY <1>1 DEF Wakes
  <2>2. Fine(<<>>, status')
    BY DEF Fine
  <2> QED BY <2>1, <2>2, AliveWhen
<1> QED
  BY <1>1 DEF AliveInv, Quiescent, Idle, Wakes

\* Every operation that runs alone, in a schema in which every group that is
\* reached has components, with users who cannot change the tasks of a paused
\* process and implementations that do not go on in the background
Steady == OneByOne /\ "async" \notin Outcomes /\ HoldEnforced /\ Filled

\* Every step keeps it.
LEMMA NextAlive ==
  ASSUME Steady, TypeOK, Stacks, OneAtATime, SerialInv, OnHold, NoConversion, AliveInv, [Next]_vars
  PROVE  AliveInv'
<1> SUFFICES ASSUME faults' = 0 PROVE AliveInv'
  BY DEF AliveInv
<1>0. /\ Rooted /\ Filled /\ {"cancelled", "completed"} \cap Outcomes = {} /\ "async" \notin Outcomes
      /\ HoldEnforced /\ MaxBusy = 1 /\ IsFiniteSet(Actor) /\ faults \in Nat
  BY DEF Steady, OneByOne, TypeOK
<1>1. ASSUME faults = 0, UNCHANGED <<status, procStatus, calls>>
      PROVE  AliveInv'
  BY <1>1 DEF AliveInv, Quiescent, Idle
<1>2. ASSUME NEW a \in Actor, Step(a) PROVE AliveInv'
  <2>1. calls[a] # <<>> /\ \A b \in Actor \ {a} : calls'[b] = calls[b]
    BY <1>2, StepMoves
  <2>2. faults = 0
    BY <1>2, StepFaults
  <2>3. Held(a) /\ \A b \in Actor \ {a} : calls'[b] = <<>>
    BY <2>1, <2>2 DEF SerialInv, Held, OneAtATime, Idle
  <2>4. Awake(a)
    BY <2>1, <2>2 DEF AliveInv, Awake, Idle
  <2>5. Wakes(a)
    BY <1>0, <1>2, <2>3, <2>4, StepWakes
  <2> QED BY <2>3, <2>5, WakesAlone
<1>3. ASSUME NEW a \in Actor PROVE ~FailState(a) /\ ~Crash(a)
  BY <1>0 DEF FailState, Crash
<1>4. ASSUME NEW a \in Actor, NEW s, Begin(a, s), faults = 0,
             Care(<<>>, status, procStatus) => Wakes(a)
      PROVE  AliveInv'
  <2>1. \A b \in Actor \ {a} : calls'[b] = <<>>
    BY <1>0, <1>4, BeginsAlone
  <2>2. Quiescent
    BY <1>0, <1>4, QuietBegin
  <2>3. Care(<<>>, status, procStatus)
    BY <1>4, <2>2 DEF AliveInv
  <2> QED BY <1>4, <2>1, <2>3, WakesAlone
<1>5. ASSUME NEW a \in Actor, ProcessOperation(a) PROVE AliveInv'
  <2>1. \E s : Begin(a, s)
    BY <1>5 DEF ProcessOperation, op_activate_process, op_onhold_process, op_cancel_process, op_dismiss_process
  <2>2. faults = 0
    BY <1>5 DEF ProcessOperation, op_activate_process, op_onhold_process, op_cancel_process,
                op_dismiss_process, data, bounds
  <2> QED BY <1>4, <1>5, <2>1, <2>2, ProcessOperationWakes
<1>6. ASSUME NEW a \in Actor, NEW t \in Task, TaskOperation(a, t) PROVE AliveInv'
  <2>1. \E s : Begin(a, s)
    BY <1>6 DEF TaskOperation, op_close_task, op_forward_task, op_refuse_task
  <2>2. faults = 0
    BY <1>6 DEF TaskOperation, op_close_task, op_forward_task, op_refuse_task, data, bounds
  <2> QED BY <1>0, <1>4, <1>6, <2>1, <2>2, TaskOperationWakes
<1>7. ASSUME NEW a \in Acs, NEW t \in System PROVE ~Callback(a, t)
  <2>1. ~(conversions[t] > 0)
    <3>1. conversions[t] = 0
      BY DEF NoConversion
    <3> QED BY <3>1
  <2> QED BY <2>1 DEF Callback, convert_files_done, convert_files_failed
<1>8. ASSUME NEW a \in Actor, NEW t \in System, TakeJob(a, t) PROVE AliveInv'
  <2>1. faults = 0 /\ UNCHANGED <<status, procStatus>>
    BY <1>8 DEF TakeJob, bounds, procVars
  <2>2. CASE UNCHANGED calls
    BY <1>1, <2>1, <2>2
  <2>3. ASSUME procStatus = "EXECUTION",
               \/ Begin(a, <<Set(Root, "PAUSED"), Do("except_mq", t, None)>>)
               \/ Begin(a, <<Do("run_job", t, None), Do("except_job", t, None), Do("except_mq", t, None)>>)
        PROVE  AliveInv'
    BY <1>4, <2>1, <2>3, TakeJobWakes
  <2> QED BY <1>8, <2>2, <2>3 DEF TakeJob
<1>9. ASSUME NEW t \in System, RestartJob(t) PROVE AliveInv'
  BY <1>1, <1>9 DEF RestartJob, bounds, procVars
<1>10. CASE UNCHANGED vars
  BY <1>1, <1>10 DEF vars
<1>11. Session \subseteq Actor /\ Worker \subseteq Actor
  BY DEF Actor
<1> QED
  BY <1>2, <1>3, <1>5, <1>6, <1>7, <1>8, <1>9, <1>10, <1>11 DEF Next

\* A schema whose groups are nested to a finite depth
FiniteHeight == \E n \in Nat : \A c \in Comp : Depth[c] <= n

\* When each group that runs has a component that runs, a task runs.
LEMMA Descent ==
  ASSUME Rooted, FiniteHeight, NEW S \in SUBSET Comp, S # {},
         \A g \in S \ Task : \E c \in S : Parent[c] = g
  PROVE  \E t \in Task : t \in S
<1> SUFFICES ASSUME \A t \in Task : t \notin S PROVE FALSE
  OBVIOUS
<1>1. PICK n \in Nat : \A c \in Comp : Depth[c] <= n
  BY DEF FiniteHeight
<1>2. \A c \in Comp : Depth[c] \in Nat /\ Depth[Parent[c]] \in Nat /\ Depth[c] = Depth[Parent[c]] + 1
  BY Depths, TreeAssumption
<1> DEFINE T == {n - Depth[c] : c \in S}
<1>3. T \in SUBSET Nat /\ T # {}
  <2>1. ASSUME NEW c \in S PROVE n - Depth[c] \in Nat
    BY <1>1, <1>2
  <2> QED BY <2>1
<1> HIDE DEF T
<1>4. PICK m \in T : \A k \in T : m <= k
  BY <1>3, LeastNumber
<1>5. PICK g \in S : m = n - Depth[g]
  BY <1>4 DEF T
<1>6. PICK c \in S : Parent[c] = g
  OBVIOUS
<1>7. n - Depth[c] \in T
  BY DEF T
<1>8. m <= n - Depth[c]
  BY <1>4, <1>7
<1>9. Depth[c] = Depth[g] + 1 /\ Depth[g] \in Nat /\ n \in Nat
  BY <1>2, <1>6
<1> QED
  BY <1>5, <1>8, <1>9

\* What each group is cared for means when nothing is under way
LEMMA AliveAtRest ==
  ASSUME Rooted, FiniteHeight, NEW st \in [Comp -> CompStatus], Care(<<>>, st, "EXECUTION")
  PROVE  \E t \in Task : st[t] = "EXECUTION"
<1> DEFINE S == {c \in Comp : st[c] = "EXECUTION"}
           r == <<>>
<1>1. r = <<>> /\ Frames(r) = {} /\ \A p : ~Attended(p, r)
  BY NoFrames, NothingAttended
<1>2. Minds(r, st, "EXECUTION")
  BY DEF Care
<1> HIDE DEF r
<1>3. \A c \in Comp : Live(c, Frames(r), st) <=> c \in S
  BY <1>1 DEF Live, Doomed, Ending
<1>4. \E c \in Comp : Parent[c] = Root /\ c \in S
  BY <1>1, <1>2, <1>3 DEF Minds, Tended, Cared
<1>5. ASSUME NEW g \in S \ Task PROVE \E c \in S : Parent[c] = g
  BY <1>1, <1>2, <1>3, <1>5 DEF Minds, Tended, Cared
<1>6. S \in SUBSET Comp /\ S # {}
  BY <1>4
<1>7. \E t \in Task : t \in S
  <2> HIDE DEF S
  <2> QED BY <1>5, <1>6, Descent
<1> QED
  BY <1>7

\* The inductive invariant: that of the theorems above, the mark of a paused
\* process, no conversions, and each group that runs is cared for
AInv == SInv /\ OnHold /\ NoConversion /\ AliveInv

\* It holds at first,
LEMMA InitAInv == Steady /\ Init => AInv
<1> SUFFICES ASSUME Steady, Init PROVE AInv
  OBVIOUS
<1>1. SInv
  BY InitSInv DEF Steady
<1>2. OnHold /\ NoConversion
  BY DEF Init, OnHold, NoConversion
<1>3. AliveInv
  <2>1. procStatus = "NEW" /\ \A a \in Actor : Idle(a)
    BY DEF Init, Idle
  <2> QED BY <2>1 DEF AliveInv, Care
<1> QED
  BY <1>1, <1>2, <1>3 DEF AInv

\* and every step keeps it.
LEMMA NextAInv == Steady /\ AInv /\ [Next]_vars => AInv'
<1> SUFFICES ASSUME Steady, AInv, [Next]_vars PROVE AInv'
  OBVIOUS
<1>1. TypeOK /\ Stacks /\ OneAtATime /\ SerialInv /\ OnHold /\ NoConversion /\ AliveInv /\ SInv
  BY DEF AInv, SInv, IInv
<1>2. OneByOne /\ "async" \notin Outcomes
  BY DEF Steady
<1>3. SInv'
  BY <1>1, <1>2, NextSInv
<1>4. OnHold'
  BY <1>1, NextOnHold
<1>5. NoConversion'
  BY <1>1, <1>2, NextConverts
<1>6. AliveInv'
  BY <1>1, NextAlive
<1> QED
  BY <1>3, <1>4, <1>5, <1>6 DEF AInv

\* It implies that a running process has a running task.
LEMMA AliveRuns == Steady /\ FiniteHeight /\ AInv => NoStall
<1> SUFFICES ASSUME Steady, FiniteHeight, AInv, Whole, procStatus = "EXECUTION"
             PROVE  \E t \in Task : status[t] = "EXECUTION"
  BY DEF NoStall
<1>1. Care(<<>>, status, "EXECUTION")
  BY DEF AInv, AliveInv, Whole
<1>2. Rooted /\ status \in [Comp -> CompStatus]
  BY DEF Steady, OneByOne, AInv, SInv, IInv, TypeOK
<1> QED
  BY <1>1, <1>2, AliveAtRest

\* A running process always has a running task: when an operation has returned
\* and nothing was cut off, the propagate methods have started what comes next,
\* or have ended the process.
THEOREM AlwaysRuns == Steady /\ FiniteHeight /\ Spec => []NoStall
<1> SUFFICES ASSUME Steady, FiniteHeight PROVE Spec => []NoStall
  OBVIOUS
<1>1. Init => AInv
  BY InitAInv
<1>2. AInv /\ [Next]_vars => AInv'
  BY NextAInv
<1>3. AInv => NoStall
  BY AliveRuns
<1> QED
  BY <1>1, <1>2, <1>3, PTL DEF Spec
=============================================================================
