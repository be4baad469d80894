---------------------------- MODULE Broker_proofs ----------------------------
(***************************************************************************)
(* Proofs about the broker, for any number of requests, documents, workers *)
(* and faults.                                                             *)
(***************************************************************************)
EXTENDS BrokerProps, FiniteSetTheorems, SequenceTheorems, TLAPS

\* Tasks of a queue, and those of a queue and of workers
In(q) == {q[i] : i \in DOMAIN q}
Held(q, act) == In(q) \cup ({act[w] : w \in Worker} \ {None})

\* Every task is held once
Once(q, act) ==
  /\ \A i, j \in DOMAIN q : q[i] = q[j] => i = j
  /\ \A v, w \in Worker : act[v] = act[w] /\ act[v] # None => v = w
  /\ \A w \in Worker : act[w] \notin In(q)

Acting == [Worker -> Task \cup {None}]
-----------------------------------------------------------------------------
(* Giving tasks to workers *)

\* The places of a finite set of numbers are those from 1 to its size.
LEMMA Places ==
  ASSUME NEW P \in SUBSET Int, IsFiniteSet(P)
  PROVE  LET place(w) == Cardinality({v \in P : v <= w})
         IN /\ \A w \in P : place(w) \in 1 .. Cardinality(P)
            /\ \A v, w \in P : place(v) = place(w) => v = w
            /\ \A i \in 1 .. Cardinality(P) : \E w \in P : place(w) = i
<1>. DEFINE upto(w) == {v \in P : v <= w}
            place(w) == Cardinality(upto(w))
            f == [w \in P |-> place(w)]
            K == Cardinality(P)
<1>1. K \in Nat
  BY FS_CardinalityType
<1>2. ASSUME NEW w \in P PROVE IsFiniteSet(upto(w)) /\ place(w) \in 1 .. K
  <2>1. upto(w) \in SUBSET P /\ w \in upto(w)
    OBVIOUS
  <2>2. IsFiniteSet(upto(w)) /\ place(w) <= K
    BY <2>1, FS_Subset
  <2>3. place(w) \in Nat /\ place(w) # 0
    BY <2>1, <2>2, FS_CardinalityType, FS_EmptySet
  <2>. QED
    BY <1>1, <2>2, <2>3
<1>3. ASSUME NEW v \in P, NEW w \in P, v < w PROVE place(v) # place(w)
  <2>1. w \in upto(w) /\ w \notin upto(v)
    BY <1>3
  <2>2. upto(v) \subseteq upto(w)
    <3>1. \A u \in P : u <= v => u <= w
      BY <1>3
    <3>. QED
      BY <3>1
  <2>. QED
    BY <1>2, <2>1, <2>2, FS_Subset
<1>4. ASSUME NEW v \in P, NEW w \in P, place(v) = place(w) PROVE v = w
  <2>. HIDE DEF place
  <2>1. v < w \/ w < v \/ v = w
    OBVIOUS
  <2>. QED
    BY <1>3, <1>4, <2>1
<1>5. \A i \in 1 .. K : \E w \in P : place(w) = i
  <2>. HIDE DEF place
  <2>1. f \in Injection(P, 1 .. K)
    BY <1>2, <1>4 DEF Injection, IsInjective
  <2>2. IsFiniteSet(1 .. K) /\ Cardinality(1 .. K) = K
    BY <1>1, FS_Interval
  <2>3. f \in Surjection(P, 1 .. K)
    BY <2>1, <2>2, FS_Injection
  <2>. QED
    BY <2>3 DEF Surjection
<1>. QED
  BY <1>2, <1>4, <1>5

\* The first n tasks of q are given to idle workers of S; pos is the place of a
\* worker's task, or 0.
Gives(S, q, act, n, pos) ==
  /\ \A w \in Worker : pos[w] # 0 => w \in S /\ act[w] = None
  /\ \A v, w \in Worker : pos[v] = pos[w] /\ pos[v] # 0 => v = w
  /\ \A i \in 1 .. n : \E w \in Worker : pos[w] = i
  /\ active' = [w \in Worker |-> IF pos[w] = 0 THEN act[w] ELSE q[pos[w]]]
  /\ work_queue' \in Seq(Task) /\ Len(work_queue') = Len(q) - n
  /\ \A i \in 1 .. Len(q) - n : work_queue'[i] = q[n + i]
  /\ n < Len(q) => \A w \in S : act[w] = None /\ ~only_checks(w) => pos[w] # 0

\* The idle workers of S take tasks from the front of the queue, one each.
LEMMA Positions ==
  ASSUME NEW S \in SUBSET Worker, NEW q \in Seq(Task), NEW act \in Acting,
         run_task(S, q, act)
  PROVE  \E n \in 0 .. Len(q) : \E pos \in [Worker -> 0 .. n] : Gives(S, q, act, n, pos)
<1>. DEFINE idle == {w \in S : act[w] = None}
            plain == {w \in idle : ~only_checks(w)}
            place(w) == Cardinality({v \in plain : v <= w})
            taken == IF Cardinality(plain) < Len(q) THEN Cardinality(plain) ELSE Len(q)
            rest == SubSeq(q, taken + 1, Len(q))
            checked == \E w \in idle : only_checks(w) /\ rest # <<>> /\ Head(rest).cmd = "check"
            n == IF checked THEN taken + 1 ELSE taken
            pos == [w \in Worker |->
                      IF w \in plain /\ place(w) <= taken THEN place(w)
                      ELSE IF w \in idle \ plain /\ checked THEN taken + 1 ELSE 0]
<1>1. /\ active' = [w \in Worker |->
                      IF w \in plain /\ place(w) <= taken THEN q[place(w)]
                      ELSE IF w \in idle \ plain /\ checked THEN Head(rest) ELSE act[w]]
      /\ work_queue' = IF checked THEN Tail(rest) ELSE rest
  BY Zenon DEF run_task
<1>2. /\ Len(q) \in Nat /\ N \in Nat
      /\ \A i \in 1 .. Len(q) : q[i] \in Task
  <2>1. Len(q) \in Nat /\ \A i \in 1 .. Len(q) : q[i] \in Task
    BY LenProperties, ElementOfSeq
  <2>. QED
    BY <2>1, WorkersAssumption
<1>3. plain \in SUBSET Int /\ IsFiniteSet(plain)
  <2>1. IsFiniteSet(0 .. N - 1) /\ 0 .. N - 1 \in SUBSET Int
    BY <1>2, FS_Interval
  <2>2. plain \in SUBSET (0 .. N - 1)
    BY DEF Worker
  <2>3. IsFiniteSet(plain)
    BY <2>1, <2>2, FS_Subset, Zenon
  <2>. QED
    BY <2>1, <2>2, <2>3, Zenon
<1>4. Cardinality(plain) \in Nat
  BY <1>3, FS_CardinalityType
<1>. HIDE DEF plain
<1>5. /\ \A w \in plain : place(w) \in 1 .. Cardinality(plain)
      /\ \A v, w \in plain : place(v) = place(w) => v = w
      /\ \A i \in 1 .. Cardinality(plain) : \E w \in plain : place(w) = i
  BY <1>3, Places
<1>. HIDE DEF place
<1>6. /\ taken \in 0 .. Len(q) /\ taken <= Cardinality(plain)
      /\ taken < Len(q) => taken = Cardinality(plain)
  BY <1>2, <1>4
<1>. HIDE DEF taken
<1>7. /\ rest \in Seq(Task) /\ Len(rest) = Len(q) - taken
      /\ \A i \in 1 .. Len(q) - taken : rest[i] = q[taken + i]
  <2>1. /\ rest \in Seq(Task)
        /\ Len(rest) = IF taken + 1 <= Len(q) THEN Len(q) - (taken + 1) + 1 ELSE 0
        /\ \A i \in 1 .. Len(q) - (taken + 1) + 1 : rest[i] = q[taken + 1 + i - 1]
    BY <1>2, <1>6, SubSeqProperties
  <2>2. Len(rest) = Len(q) - taken
    BY <1>2, <1>6, <2>1
  <2>3. ASSUME NEW i \in 1 .. Len(q) - taken PROVE rest[i] = q[taken + i]
    <3>1. i \in 1 .. Len(q) - (taken + 1) + 1 /\ taken + 1 + i - 1 = taken + i
      BY <1>2, <1>6
    <3>. QED
      BY <2>1, <3>1
  <2>. QED
    BY <2>1, <2>2, <2>3
<1>. HIDE DEF rest
<1>8. checked => /\ taken + 1 <= Len(q) /\ Head(rest) = q[taken + 1]
                 /\ Tail(rest) \in Seq(Task) /\ Len(Tail(rest)) = Len(q) - n
                 /\ \A i \in 1 .. Len(q) - n : Tail(rest)[i] = q[n + i]
  <2>. SUFFICES ASSUME checked PROVE /\ taken + 1 <= Len(q) /\ Head(rest) = q[taken + 1]
                 /\ Tail(rest) \in Seq(Task) /\ Len(Tail(rest)) = Len(q) - n
                 /\ \A i \in 1 .. Len(q) - n : Tail(rest)[i] = q[n + i]
    OBVIOUS
  <2>1. rest # <<>> /\ n = taken + 1
    OBVIOUS
  <2>2. Len(rest) \in Nat \ {0}
    BY <1>7, <2>1, EmptySeq
  <2>3. taken + 1 <= Len(q) /\ 1 \in 1 .. Len(q) - taken
    BY <1>2, <1>6, <1>7, <2>2
  <2>4. Head(rest) = q[taken + 1]
    BY <1>7, <2>3
  <2>5. /\ Tail(rest) \in Seq(Task) /\ Len(Tail(rest)) = Len(q) - n
        /\ \A i \in 1 .. Len(q) - n : Tail(rest)[i] = rest[i + 1]
    BY <1>2, <1>6, <1>7, <2>1, HeadTailProperties
  <2>6. ASSUME NEW i \in 1 .. Len(q) - n PROVE Tail(rest)[i] = q[n + i]
    <3>1. i + 1 \in 1 .. Len(q) - taken /\ taken + (i + 1) = n + i
      BY <1>2, <1>6, <2>1
    <3>. QED
      BY <1>7, <2>5, <3>1
  <2>. QED
    BY <2>3, <2>4, <2>5, <2>6
<1>9. \A v, w \in idle \ plain : v = w
  <2>1. \A w \in idle \ plain : only_checks(w)
    BY DEF plain
  <2>. QED
    BY <2>1 DEF only_checks
<1>10. checked => \E w \in idle \ plain : TRUE
  BY DEF plain
<1>. HIDE DEF checked
<1>11. n \in 0 .. Len(q) /\ taken <= n
  <2>1. CASE checked
    <3>1. n = taken + 1 /\ taken + 1 <= Len(q)
      BY <1>8, <2>1
    <3>. QED
      BY <1>2, <1>6, <3>1
  <2>2. CASE ~checked
    <3>1. n = taken
      BY <2>2
    <3>. QED
      BY <1>2, <1>6, <3>1
  <2>. QED
    BY <2>1, <2>2
<1>12. plain \in SUBSET S /\ idle \in SUBSET S /\ \A w \in plain \cup idle : act[w] = None
  BY DEF plain
<1>13. pos \in [Worker -> 0 .. n]
  BY <1>2, <1>4, <1>5, <1>6, <1>11
<1>14. \A w \in Worker : pos[w] # 0 => w \in S /\ act[w] = None
  BY <1>12
<1>15. \A v, w \in Worker : pos[v] = pos[w] /\ pos[v] # 0 => v = w
  BY <1>2, <1>4, <1>5, <1>6, <1>9
<1>16. ASSUME NEW i \in 1 .. n PROVE \E w \in Worker : pos[w] = i
  <2>1. CASE i <= taken
    <3>1. PICK w \in plain : place(w) = i
      BY <1>4, <1>5, <1>6, <1>11, <2>1
    <3>. QED
      BY <1>12, <2>1, <3>1
  <2>2. CASE checked /\ i = taken + 1
    <3>1. PICK w \in idle \ plain : TRUE
      BY <1>10, <2>2
    <3>. QED
      BY <1>12, <2>2, <3>1
  <2>. QED
    BY <1>2, <1>6, <1>11, <2>1, <2>2
<1>17. active' = [w \in Worker |-> IF pos[w] = 0 THEN act[w] ELSE q[pos[w]]]
  <2>. SUFFICES ASSUME NEW w \in Worker
                PROVE active'[w] = IF pos[w] = 0 THEN act[w] ELSE q[pos[w]]
    BY <1>1
  <2>1. CASE w \in plain /\ place(w) <= taken
    BY <1>1, <1>5, <2>1
  <2>2. CASE ~(w \in plain /\ place(w) <= taken) /\ w \in idle \ plain /\ checked
    <3>1. active'[w] = q[taken + 1] /\ pos[w] = taken + 1 /\ taken + 1 # 0
      BY <1>1, <1>6, <1>8, <2>2
    <3>. QED
      BY <3>1
  <2>3. CASE ~(w \in plain /\ place(w) <= taken) /\ ~(w \in idle \ plain /\ checked)
    BY <1>1, <2>3
  <2>. QED
    BY <2>1, <2>2, <2>3
<1>18. /\ work_queue' \in Seq(Task) /\ Len(work_queue') = Len(q) - n
       /\ \A i \in 1 .. Len(q) - n : work_queue'[i] = q[n + i]
  BY <1>1, <1>7, <1>8
<1>19. ASSUME n < Len(q), NEW w \in S, act[w] = None, ~only_checks(w) PROVE pos[w] # 0
  <2>1. w \in plain /\ taken = Cardinality(plain)
    BY <1>2, <1>6, <1>11, <1>19 DEF plain
  <2>2. place(w) <= taken /\ place(w) # 0
    BY <1>4, <1>5, <2>1
  <2>. QED
    BY <1>12, <2>1, <2>2
<1>. HIDE DEF n, pos
<1>. QED
  BY <1>11, <1>13, <1>14, <1>15, <1>16, <1>17, <1>18, <1>19 DEF Gives

\* What follows: the tasks are the same as before, held once, and only idle
\* workers of S have changed theirs.  What is left in the queue keeps none of
\* them idle.
Given(S, q, act) ==
  /\ work_queue' \in Seq(Task) /\ active' \in Acting
  /\ Once(work_queue', active')
  /\ Held(work_queue', active') = Held(q, act)
  /\ \A w \in Worker : active'[w] # act[w] => w \in S /\ act[w] = None
  /\ work_queue' # <<>> => q # <<>> /\ \A w \in S : ~only_checks(w) => active'[w] # None

LEMMA RunTask ==
  ASSUME NEW S \in SUBSET Worker, NEW q \in Seq(Task), NEW act \in Acting,
         Once(q, act), run_task(S, q, act)
  PROVE  Given(S, q, act)
<1>a. PICK n \in 0 .. Len(q) : \E pos \in [Worker -> 0 .. n] : Gives(S, q, act, n, pos)
  BY Positions
<1>b. PICK pos \in [Worker -> 0 .. n] : Gives(S, q, act, n, pos)
  BY <1>a
<1>1. /\ \A w \in Worker : pos[w] # 0 => w \in S /\ act[w] = None
      /\ \A v, w \in Worker : pos[v] = pos[w] /\ pos[v] # 0 => v = w
      /\ \A i \in 1 .. n : \E w \in Worker : pos[w] = i
      /\ active' = [w \in Worker |-> IF pos[w] = 0 THEN act[w] ELSE q[pos[w]]]
      /\ work_queue' \in Seq(Task) /\ Len(work_queue') = Len(q) - n
      /\ \A i \in 1 .. Len(q) - n : work_queue'[i] = q[n + i]
      /\ n < Len(q) => \A w \in S : act[w] = None /\ ~only_checks(w) => pos[w] # 0
  BY <1>b DEF Gives
<1>2. /\ Len(q) \in Nat /\ DOMAIN q = 1 .. Len(q) /\ \A i \in 1 .. Len(q) : q[i] \in Task
      /\ DOMAIN work_queue' = 1 .. Len(q) - n
  BY <1>1, LenProperties, ElementOfSeq
<1>3. None \notin Task
  BY NoneAssumption
<1>4. \A w \in Worker : pos[w] # 0 => pos[w] \in 1 .. n /\ pos[w] \in 1 .. Len(q)
  BY <1>1, <1>2
<1>5. \A i \in 1 .. Len(q) - n : n + i \in 1 .. Len(q) /\ n + i \notin 1 .. n
  BY <1>2
<1>6. active' \in Acting
  BY <1>1, <1>2, <1>4 DEF Acting
<1>7. In(work_queue') = {q[n + i] : i \in 1 .. Len(q) - n}
  <2>1. \A i \in 1 .. Len(q) - n : work_queue'[i] = q[n + i]
    BY <1>1
  <2>2. In(work_queue') = {work_queue'[i] : i \in 1 .. Len(q) - n}
    BY <1>2, Zenon DEF In
  <2>. QED
    BY <2>1, <2>2, Zenon
<1>8. In(work_queue') \subseteq In(q)
  BY <1>2, <1>5, <1>7 DEF In
<1>9. Once(work_queue', active')
  <2>1. ASSUME NEW i \in DOMAIN work_queue', NEW j \in DOMAIN work_queue',
               work_queue'[i] = work_queue'[j]
        PROVE  i = j
    <3>1. i \in 1 .. Len(q) - n /\ j \in 1 .. Len(q) - n
      BY <1>2
    <3>2. q[n + i] = q[n + j] /\ n + i \in DOMAIN q /\ n + j \in DOMAIN q
      BY <1>1, <1>2, <1>5, <2>1, <3>1
    <3>3. n + i = n + j
      BY <3>2 DEF Once
    <3>. QED
      BY <1>2, <3>1, <3>3
  <2>2. ASSUME NEW v \in Worker, NEW w \in Worker,
               active'[v] = active'[w], active'[v] # None
        PROVE  v = w
    <3>1. CASE pos[v] = 0 /\ pos[w] = 0
      BY <1>1, <2>2, <3>1 DEF Once
    <3>2. CASE pos[v] # 0 /\ pos[w] # 0
      <4>1. q[pos[v]] = q[pos[w]]
        BY <1>1, <2>2, <3>2
      <4>2. pos[v] = pos[w]
        BY <1>2, <1>4, <3>2, <4>1 DEF Once
      <4>. QED
        BY <1>1, <3>2, <4>2
    <3>3. CASE pos[v] = 0 /\ pos[w] # 0
      BY <1>1, <1>2, <1>4, <2>2, <3>3 DEF Once, In
    <3>4. CASE pos[v] # 0 /\ pos[w] = 0
      BY <1>1, <1>2, <1>4, <2>2, <3>4 DEF Once, In
    <3>. QED
      BY <3>1, <3>2, <3>3, <3>4
  <2>3. ASSUME NEW w \in Worker PROVE active'[w] \notin In(work_queue')
    <3>1. CASE pos[w] = 0
      BY <1>1, <1>8, <3>1 DEF Once
    <3>2. CASE pos[w] # 0
      <4>1. active'[w] = q[pos[w]] /\ pos[w] \in 1 .. n
        BY <1>1, <1>4, <3>2
      <4>2. \A i \in 1 .. Len(q) - n : q[n + i] # q[pos[w]]
        BY <1>2, <1>4, <1>5, <3>2, <4>1 DEF Once
      <4>. QED
        BY <1>7, <4>1, <4>2
    <3>. QED
      BY <3>1, <3>2
  <2>. QED
    BY <2>1, <2>2, <2>3 DEF Once
<1>10. Held(work_queue', active') = Held(q, act)
  <2>1. ASSUME NEW t \in Held(work_queue', active') PROVE t \in Held(q, act)
    <3>1. CASE t \in In(work_queue')
      BY <1>8, <3>1 DEF Held
    <3>2. CASE t \notin In(work_queue')
      <4>1. PICK w \in Worker : t = active'[w] /\ t # None
        BY <2>1, <3>2 DEF Held
      <4>2. CASE pos[w] = 0
        BY <1>1, <4>1, <4>2 DEF Held
      <4>3. CASE pos[w] # 0
        BY <1>1, <1>2, <1>4, <4>1, <4>3 DEF Held, In
      <4>. QED
        BY <4>2, <4>3
    <3>. QED
      BY <3>1, <3>2
  <2>2. ASSUME NEW i \in 1 .. Len(q) PROVE q[i] \in Held(work_queue', active')
    <3>1. CASE i <= n
      <4>1. PICK w \in Worker : pos[w] = i
        BY <1>1, <3>1
      <4>2. active'[w] = q[i] /\ q[i] # None
        BY <1>1, <1>2, <1>3, <4>1
      <4>. QED
        BY <4>2 DEF Held
    <3>2. CASE ~(i <= n)
      <4>1. i - n \in 1 .. Len(q) - n /\ n + (i - n) = i
        BY <1>2, <3>2
      <4>2. q[i] \in In(work_queue')
        BY <1>7, <4>1
      <4>. QED
        BY <4>2 DEF Held
    <3>. QED
      BY <3>1, <3>2
  <2>3. ASSUME NEW w \in Worker, act[w] # None PROVE act[w] \in Held(work_queue', active')
    <3>1. active'[w] = act[w]
      BY <1>1, <2>3
    <3>. QED
      BY <2>3, <3>1 DEF Held
  <2>. QED
    BY <1>2, <2>1, <2>2, <2>3 DEF Held, In
<1>11. \A w \in Worker : active'[w] # act[w] => w \in S /\ act[w] = None
  BY <1>1
<1>12. ASSUME work_queue' # <<>>
       PROVE  q # <<>> /\ \A w \in S : ~only_checks(w) => active'[w] # None
  <2>1. n < Len(q)
    BY <1>1, <1>2, <1>12, EmptySeq
  <2>2. q # <<>>
    BY <2>1, <1>2, EmptySeq
  <2>3. ASSUME NEW w \in S, ~only_checks(w), active'[w] = None PROVE FALSE
    <3>1. w \in Worker /\ pos[w] # 0
      BY <1>1, <2>1, <2>3
    <3>2. active'[w] \in Task
      BY <1>1, <1>2, <1>4, <3>1
    <3>. QED
      BY <1>3, <2>3, <3>2
  <2>. QED
    BY <2>2, <2>3
<1>. QED
  BY <1>1, <1>6, <1>9, <1>10, <1>11, <1>12 DEF Given

LEMMA Giving ==
  \A S \in SUBSET Worker, q \in Seq(Task), act \in Acting :
    Once(q, act) /\ run_task(S, q, act) => Given(S, q, act)
BY RunTask

\* Scheduling a task holds it, and nothing else that was not held.
Scheduled(t, rs, tds, act) ==
  /\ work_queue' \in Seq(Task) /\ active' \in Acting
  /\ Once(work_queue', active')
  /\ Held(work_queue', active') = DOMAIN tds \cup {t}
  /\ DOMAIN task_deferreds' = DOMAIN tds \cup {t}
  /\ \A u \in DOMAIN tds : u # t => task_deferreds'[u] = tds[u]
  /\ task_deferreds'[t] = IF t \in DOMAIN tds THEN tds[t] \cup rs ELSE rs
  /\ \A w \in Worker : active'[w] # act[w] => w \in ReadyWorkers /\ act[w] = None
  /\ \/ work_queue' = work_queue /\ active' = act
     \/ work_queue' # <<>> => \A w \in ReadyWorkers : ~only_checks(w) => active'[w] # None

LEMMA ScheduleTask ==
  ASSUME work_queue \in Seq(Task), NEW act \in Acting, Once(work_queue, act),
         NEW t \in Task, NEW rs, NEW tds, DOMAIN tds = Held(work_queue, act),
         schedule_task(t, rs, tds, act)
  PROVE  Scheduled(t, rs, tds, act)
<1>1. CASE t \in DOMAIN tds
  BY <1>1 DEF schedule_task, Scheduled
<1>2. CASE t \notin DOMAIN tds
  <2>. DEFINE q == Append(work_queue, t)
  <2>1. /\ q \in Seq(Task) /\ Len(q) = Len(work_queue) + 1
        /\ \A i \in 1 .. Len(work_queue) : q[i] = work_queue[i]
        /\ q[Len(work_queue) + 1] = t
    BY AppendProperties
  <2>2. /\ Len(work_queue) \in Nat /\ DOMAIN work_queue = 1 .. Len(work_queue)
        /\ DOMAIN q = 1 .. Len(work_queue) + 1
    BY <2>1, LenProperties
  <2>. HIDE DEF q
  <2>3. In(q) = In(work_queue) \cup {t}
    <3>1. \A i \in DOMAIN q : i \in DOMAIN work_queue \/ i = Len(work_queue) + 1
      BY <2>2
    <3>2. /\ DOMAIN work_queue \subseteq DOMAIN q
          /\ Len(work_queue) + 1 \in DOMAIN q
      BY <2>2
    <3>. QED
      BY <2>1, <2>2, <3>1, <3>2 DEF In
  <2>4. t \notin Held(work_queue, act) /\ t # None
    BY <1>2, NoneAssumption
  <2>5. Once(q, act)
    <3>1. ASSUME NEW i \in DOMAIN q, NEW j \in DOMAIN q, q[i] = q[j] PROVE i = j
      <4>1. \A k \in DOMAIN work_queue : work_queue[k] # t
        BY <2>4 DEF Held, In
      <4>. QED
        BY <2>1, <2>2, <3>1, <4>1 DEF Once
    <3>2. \A w \in Worker : act[w] \notin In(q)
      BY <2>3, <2>4 DEF Once, Held
    <3>. QED
      BY <3>1, <3>2 DEF Once
  <2>6. Held(q, act) = DOMAIN tds \cup {t}
    BY <2>3 DEF Held
  <2>7. /\ task_deferreds' = [u \in DOMAIN tds \cup {t} |-> IF u = t THEN rs ELSE tds[u]]
        /\ run_task(ReadyWorkers, q, act)
    BY <1>2 DEF schedule_task, q
  <2>8. ReadyWorkers \in SUBSET Worker
    BY DEF ReadyWorkers
  <2>9. Given(ReadyWorkers, q, act)
    BY <2>1, <2>5, <2>7, <2>8, Giving, Zenon
  <2>. QED
    BY <1>2, <2>6, <2>7, <2>9 DEF Given, Scheduled
<1>. QED
  BY <1>1, <1>2

LEMMA Scheduling ==
  ASSUME work_queue \in Seq(Task)
  PROVE  \A act \in Acting, t \in Task : \A rs, tds :
           /\ Once(work_queue, act) /\ DOMAIN tds = Held(work_queue, act)
           /\ schedule_task(t, rs, tds, act)
           => Scheduled(t, rs, tds, act)
BY ScheduleTask
-----------------------------------------------------------------------------
(* Who waits for what *)

Asks(p, r, u) == \/ p[r] = "check" /\ u = Check(DocOf[r])
                 \/ p[r] = "register" /\ u = Register(DocOf[r])

Lists(p, tds) ==
  /\ \A u \in DOMAIN tds : tds[u] \subseteq Request
  /\ \A u \in DOMAIN tds : \A r \in Request : r \in tds[u] <=> Asks(p, r, u)
  /\ \A r \in Request : \A u \in Task : Asks(p, r, u) => u \in DOMAIN tds

\* A request asks for one task, and whether it does depends on its state only.
LEMMA AsksOne ==
  /\ \A p, r, u, v : Asks(p, r, u) /\ Asks(p, r, v) => u = v
  /\ \A p, o, r, u : p[r] = o[r] => (Asks(p, r, u) <=> Asks(o, r, u))
  /\ \A p, r, u : Asks(p, r, u) => p[r] \in {"check", "register"}
  /\ \A r \in Request : Check(DocOf[r]) \in Task /\ Register(DocOf[r]) \in Task
  /\ \A d, e : Check(d) # Register(e)
<1>1. \A p, r, u, v : Asks(p, r, u) /\ Asks(p, r, v) => u = v
  BY DEF Asks
<1>2. \A p, o, r, u : p[r] = o[r] => (Asks(p, r, u) <=> Asks(o, r, u))
  BY DEF Asks
<1>3. \A p, r, u : Asks(p, r, u) => p[r] \in {"check", "register"}
  BY DEF Asks
<1>4. \A r \in Request : Check(DocOf[r]) \in Task /\ Register(DocOf[r]) \in Task
  BY RequestAssumption DEF Task
<1>5. \A d, e : Check(d) # Register(e)
  BY DEF Check, Register
<1>. QED
  BY <1>1, <1>2, <1>3, <1>4, <1>5

\* Attached, in these terms.
LEMMA AttachedIsLists ==
  ASSUME DOMAIN task_deferreds \subseteq Task,
         \A t \in DOMAIN task_deferreds : task_deferreds[t] \subseteq Request
  PROVE  Attached <=> Lists(pc, task_deferreds)
<1>1. \A r \in Request : \A u : Asks(pc, r, u) <=> Waits(r) /\ TaskOf(r) = u
  BY DEF Asks, Waits, TaskOf
<1>2. \A r \in Request : TaskOf(r) \in Task
  BY RequestAssumption DEF TaskOf, Task
<1>3. ASSUME Attached PROVE Lists(pc, task_deferreds)
  BY <1>1, <1>3 DEF Attached, Lists
<1>4. ASSUME Lists(pc, task_deferreds) PROVE Attached
  BY <1>1, <1>2, <1>4 DEF Attached, Lists
<1>. QED
  BY <1>3, <1>4

\* A task is popped, and everyone who waited for it goes on elsewhere.
LEMMA PoppedLists ==
  ASSUME Lists(pc, task_deferreds), NEW t \in DOMAIN task_deferreds, NEW p,
         \A r \in Request : r \notin task_deferreds[t] => p[r] = pc[r],
         \A r \in task_deferreds[t] : p[r] \notin {"check", "register"}
  PROVE  Lists(p, Popped(t))
<1>1. /\ DOMAIN Popped(t) = DOMAIN task_deferreds \ {t}
      /\ \A u \in DOMAIN Popped(t) : Popped(t)[u] = task_deferreds[u]
  BY DEF Popped
<1>2. ASSUME NEW r \in Request, NEW u \in DOMAIN Popped(t)
      PROVE  r \in Popped(t)[u] <=> Asks(p, r, u)
  BY <1>1, AsksOne DEF Lists
<1>3. ASSUME NEW r \in Request, NEW u \in Task, Asks(p, r, u)
      PROVE  u \in DOMAIN Popped(t)
  BY <1>1, <1>3, AsksOne DEF Lists
<1>. QED
  BY <1>1, <1>2, <1>3 DEF Lists

\* rs join the lists of tds to wait for t
Joins(t, rs, tds) ==
  /\ DOMAIN task_deferreds' = DOMAIN tds \cup {t}
  /\ \A u \in DOMAIN tds : u # t => task_deferreds'[u] = tds[u]
  /\ task_deferreds'[t] = IF t \in DOMAIN tds THEN tds[t] \cup rs ELSE rs

\* Some who do not wait, as p says, begin to wait for t.
LEMMA JoinedLists ==
  ASSUME NEW p, NEW tds, Lists(p, tds), NEW t \in Task, NEW rs \in SUBSET Request,
         Joins(t, rs, tds),
         \A r \in Request : r \notin rs => pc'[r] = p[r],
         \A r \in rs : p[r] \notin {"check", "register"} /\ Asks(pc', r, t)
  PROVE  Lists(pc', task_deferreds')
<1>1. ASSUME NEW r \in Request, NEW u \in DOMAIN task_deferreds'
      PROVE  r \in task_deferreds'[u] <=> Asks(pc', r, u)
  <2>1. CASE r \in rs
    BY <2>1, AsksOne DEF Lists, Joins
  <2>2. CASE r \notin rs
    BY <2>2, AsksOne DEF Lists, Joins
  <2>. QED
    BY <2>1, <2>2
<1>2. ASSUME NEW r \in Request, NEW u \in Task, Asks(pc', r, u)
      PROVE  u \in DOMAIN task_deferreds'
  BY <1>2, AsksOne DEF Lists, Joins
<1>. QED
  BY <1>1, <1>2 DEF Lists, Joins
-----------------------------------------------------------------------------
(* The inductive invariant *)

\* A worker that can be given a task, or will be when it is connected again, has
\* left no line behind that could be taken for an answer.
Fresh ==
  \A w \in Worker :
    (active[w] = None /\ is_ready[w]) \/ proc[w] = "respawn" => pipe[w] = None

IInv == TypeOK /\ Tracked /\ Attached /\ BusyIsReady /\ NoneIdle /\ NoMixUp /\ Fresh

\* What IInv says of queue and lists
LEMMA Sharing ==
  ASSUME IInv
  PROVE  /\ work_queue \in Seq(Task) /\ active \in Acting
         /\ Once(work_queue, active)
         /\ DOMAIN task_deferreds = Held(work_queue, active)
         /\ DOMAIN task_deferreds \subseteq Task
         /\ Lists(pc, task_deferreds)
<1>1. /\ work_queue \in Seq(Task) /\ active \in Acting
      /\ DOMAIN task_deferreds \subseteq Task
      /\ \A t \in DOMAIN task_deferreds : task_deferreds[t] \subseteq Request
  BY DEF IInv, TypeOK, Acting
<1>2. DOMAIN task_deferreds = Held(work_queue, active)
  BY DEF IInv, Tracked, Queued, Running, Held, In
<1>3. Once(work_queue, active)
  <2>1. /\ DOMAIN work_queue = 1 .. Len(work_queue)
        /\ \A i \in 1 .. Len(work_queue) : work_queue[i] \in Task
    BY <1>1, LenProperties, ElementOfSeq
  <2>2. \A w \in Worker : active[w] \notin In(work_queue)
    BY <1>1, <2>1, NoneAssumption DEF IInv, Tracked, Queued, Running, In
  <2>. QED
    BY <2>2 DEF IInv, Tracked, Once
<1>. QED
  BY <1>1, <1>2, <1>3, AttachedIsLists DEF IInv

\* and the other way round, of the next state
LEMMA SharingKept ==
  ASSUME work_queue' \in Seq(Task), active' \in Acting, Once(work_queue', active'),
         DOMAIN task_deferreds' = Held(work_queue', active'),
         Lists(pc', task_deferreds')
  PROVE  /\ DOMAIN task_deferreds' \subseteq Task
         /\ \A t \in DOMAIN task_deferreds' : task_deferreds'[t] \subseteq Request
         /\ Tracked' /\ Attached'
<1>1. DOMAIN task_deferreds' \subseteq Task
  <2>1. /\ DOMAIN work_queue' = 1 .. Len(work_queue')
        /\ \A i \in 1 .. Len(work_queue') : work_queue'[i] \in Task
    BY LenProperties, ElementOfSeq
  <2>. QED
    BY <2>1 DEF Held, In, Acting
<1>2. Tracked'
  BY DEF Tracked, Queued, Running, Once, Held, In
<1>3. \A r \in Request : \A u : Asks(pc', r, u) <=> Waits(r)' /\ TaskOf(r)' = u
  BY DEF Asks, Waits, TaskOf
<1>4. \A r \in Request : TaskOf(r)' \in Task
  BY RequestAssumption DEF TaskOf, Task
<1>5. Attached'
  BY <1>1, <1>3, <1>4 DEF Attached, Lists
<1>. QED
  BY <1>1, <1>2, <1>5 DEF Lists

LEMMA SharingSame ==
  ASSUME IInv, UNCHANGED <<work_queue, task_deferreds, active, pc>>
  PROVE  /\ Tracked' /\ Attached'
         /\ UNCHANGED is_ready => BusyIsReady' /\ NoneIdle'
<1>1. Tracked'
  BY DEF IInv, Tracked, Queued, Running
<1>2. Attached'
  BY DEF IInv, Attached, Waits, TaskOf
<1>3. UNCHANGED is_ready => BusyIsReady' /\ NoneIdle'
  BY DEF IInv, BusyIsReady, NoneIdle
<1>. QED
  BY <1>1, <1>2, <1>3

\* Tasks are taken from workers (act is what is left) and then given to some of
\* S.  Pipes are emptied only.
Regular(S, act) ==
  /\ \A w \in Worker : act[w] # active[w] =>
       act[w] = None /\ (pipe'[w] = None \/ ~is_ready'[w])
  /\ \A w \in Worker : active'[w] # act[w] => w \in S /\ act[w] = None
  /\ \A w \in S : is_ready'[w] /\ (act[w] = None => pipe'[w] = None)
  /\ \A w \in Worker : pipe'[w] = pipe[w] \/ pipe'[w] = None
  /\ \A w \in Worker : is_ready'[w] # is_ready[w] =>
       IF is_ready'[w] THEN pipe'[w] = None ELSE active'[w] = None
  /\ \A w \in Worker : proc'[w] = "respawn" => pipe'[w] = None

LEMMA WorkersKept ==
  ASSUME IInv, NEW S \in SUBSET Worker, NEW act, Regular(S, act),
         is_ready' \in [Worker -> BOOLEAN]
  PROVE  BusyIsReady' /\ NoMixUp' /\ Fresh'
<1>1. BusyIsReady'
  BY DEF IInv, TypeOK, Regular, BusyIsReady
<1>2. NoMixUp'
  <2>. SUFFICES ASSUME NEW w \in Worker, active'[w] # None, pipe'[w] \notin {None, "error"}
                PROVE  active'[w] = active[w] /\ pipe'[w] = pipe[w]
    BY DEF IInv, NoMixUp
  <2>1. pipe'[w] = pipe[w]
    BY DEF Regular
  <2>2. act[w] = active[w]
    BY <1>1 DEF Regular, BusyIsReady
  <2>3. active'[w] = act[w]
    BY DEF Regular
  <2>. QED
    BY <2>1, <2>2, <2>3
<1>3. Fresh'
  <2>. SUFFICES ASSUME NEW w \in Worker, active'[w] = None, is_ready'[w], pipe'[w] # None
                PROVE  FALSE
    BY DEF Fresh, Regular
  <2>1. pipe'[w] = pipe[w] /\ is_ready[w] /\ act[w] = active[w] /\ active[w] = None
    BY DEF Regular, IInv, TypeOK
  <2>. QED
    BY <2>1 DEF IInv, Fresh
<1>. QED
  BY <1>1, <1>2, <1>3
-----------------------------------------------------------------------------
(* Every action keeps it *)

\* A task is scheduled while the workers stay as they are.
LEMMA ScheduledKept ==
  ASSUME IInv, NEW t, NEW rs, Scheduled(t, rs, task_deferreds, active),
         UNCHANGED <<is_ready, proc, pipe>>
  PROVE  BusyIsReady' /\ NoneIdle' /\ NoMixUp' /\ Fresh'
<1>1. Regular(ReadyWorkers, active)
  BY DEF Regular, Scheduled, ReadyWorkers, IInv, Fresh
<1>2. ReadyWorkers \in SUBSET Worker /\ is_ready' \in [Worker -> BOOLEAN]
  BY DEF ReadyWorkers, IInv, TypeOK
<1>3. BusyIsReady' /\ NoMixUp' /\ Fresh'
  BY <1>1, <1>2, WorkersKept
<1>4. NoneIdle'
  BY DEF Scheduled, ReadyWorkers, IInv, NoneIdle
<1>. QED
  BY <1>3, <1>4

LEMMA RenderPost ==
  ASSUME IInv, NEW r \in Request, render_POST(r)
  PROVE  IInv'
<1>. DEFINE t == Check(DocOf[r])
<1>1. t \in Task
  BY AsksOne
<1>2. Scheduled(t, {r}, task_deferreds, active)
  BY <1>1, Sharing, Scheduling DEF render_POST
<1>. HIDE DEF t
<1>3. pc' = [s \in Request |-> IF s \in {r} THEN "check" ELSE pc[s]] /\ pc[r] = "new"
  BY DEF render_POST, Move
<1>4. Lists(pc', task_deferreds')
  <2>1. Asks(pc', r, t)
    BY <1>3 DEF Asks, t
  <2>2. Joins(t, {r}, task_deferreds)
    BY <1>2 DEF Scheduled, Joins
  <2>3. \A s \in Request : s \notin {r} => pc'[s] = pc[s]
    BY <1>3
  <2>. QED
    BY <1>1, <1>3, <2>1, <2>2, <2>3, Sharing, JoinedLists
<1>5. /\ DOMAIN task_deferreds' \subseteq Task
      /\ \A u \in DOMAIN task_deferreds' : task_deferreds'[u] \subseteq Request
      /\ Tracked' /\ Attached'
  BY <1>2, <1>4, SharingKept DEF Scheduled
<1>6. BusyIsReady' /\ NoneIdle' /\ NoMixUp' /\ Fresh'
  BY <1>2, ScheduledKept DEF render_POST, processVars
<1>7. TypeOK'
  BY <1>2, <1>3, <1>5
     DEF render_POST, processVars, IInv, TypeOK, Scheduled, Acting, Progress
<1>. QED
  BY <1>5, <1>6, <1>7 DEF IInv

LEMMA CleanStreamingCache ==
  ASSUME IInv, clean_streaming_cache
  PROVE  IInv'
<1>1. Cleanup \in Task
  BY DEF Task
<1>2. Scheduled(Cleanup, {}, task_deferreds, active)
  BY <1>1, Sharing, Scheduling DEF clean_streaming_cache
<1>3. Lists(pc', task_deferreds')
  <2>1. Joins(Cleanup, {}, task_deferreds) /\ \A s \in Request : pc'[s] = pc[s]
    BY <1>2 DEF Scheduled, Joins, clean_streaming_cache
  <2>. QED
    BY <1>1, <2>1, Sharing, JoinedLists
<1>4. /\ DOMAIN task_deferreds' \subseteq Task
      /\ \A u \in DOMAIN task_deferreds' : task_deferreds'[u] \subseteq Request
      /\ Tracked' /\ Attached'
  BY <1>2, <1>3, SharingKept DEF Scheduled
<1>5. BusyIsReady' /\ NoneIdle' /\ NoMixUp' /\ Fresh'
  BY <1>2, ScheduledKept DEF clean_streaming_cache, processVars
<1>6. TypeOK'
  BY <1>2, <1>4 DEF clean_streaming_cache, processVars, IInv, TypeOK, Scheduled, Acting
<1>. QED
  BY <1>4, <1>5, <1>6 DEF IInv

\* The deferred leaves its list with the request.
LEMMA ResponseFailed ==
  ASSUME IInv, NEW r \in Request, response_failed(r)
  PROVE  IInv'
<1>1. /\ task_deferreds' = [u \in DOMAIN task_deferreds |-> task_deferreds[u] \ {r}]
      /\ pc' = [s \in Request |-> IF s \in {r} THEN "closed" ELSE pc[s]]
      /\ UNCHANGED <<work_queue, is_ready, active, processVars, cache, faults>>
  BY DEF response_failed, Move
<1>2. Lists(pc', task_deferreds')
  <2>1. \A u : ~Asks(pc', r, u)
    BY <1>1 DEF Asks
  <2>. QED
    BY <1>1, <2>1, Sharing, AsksOne DEF Lists
<1>3. /\ DOMAIN task_deferreds' \subseteq Task
      /\ \A u \in DOMAIN task_deferreds' : task_deferreds'[u] \subseteq Request
      /\ Tracked' /\ Attached'
  BY <1>1, <1>2, Sharing, SharingKept
<1>4. TypeOK'
  BY <1>1, <1>3 DEF processVars, IInv, TypeOK, Progress, Final
<1>. QED
  BY <1>1, <1>3, <1>4
     DEF IInv, processVars, BusyIsReady, NoneIdle, NoMixUp, Fresh

LEMMA RequestEndpoint ==
  ASSUME IInv, NEW r \in Request, request_endpoint(r)
  PROVE  IInv'
<1>1. /\ pc[r] = "endpoint"
      /\ \E to \in {"answered", "failed"} :
           pc' = [s \in Request |-> IF s \in {r} THEN to ELSE pc[s]]
      /\ UNCHANGED <<work_queue, task_deferreds, is_ready, active, processVars, cache, faults>>
  BY DEF request_endpoint, Move
<1>2. Lists(pc', task_deferreds')
  <2>1. \A u : ~Asks(pc', r, u) /\ ~Asks(pc, r, u)
    BY <1>1 DEF Asks
  <2>2. \A s \in Request : s # r => pc'[s] = pc[s]
    BY <1>1
  <2>. QED
    BY <1>1, <2>1, <2>2, Sharing, AsksOne DEF Lists
<1>3. Tracked' /\ Attached'
  BY <1>1, <1>2, Sharing, SharingKept
<1>4. TypeOK'
  BY <1>1 DEF processVars, IInv, TypeOK, Progress, Final
<1>. QED
  BY <1>1, <1>3, <1>4
     DEF IInv, processVars, BusyIsReady, NoneIdle, NoMixUp, Fresh

\* What worker w leaves when its task is done
Freed(w) == [active EXCEPT ![w] = None]

LEMMA FreedOnce ==
  ASSUME IInv, NEW w \in Worker, active[w] # None
  PROVE  /\ Freed(w) \in Acting /\ Once(work_queue, Freed(w))
         /\ active[w] \in DOMAIN task_deferreds
         /\ Held(work_queue, Freed(w)) = DOMAIN task_deferreds \ {active[w]}
<1>1. /\ Freed(w) \in Acting
      /\ \A v \in Worker : Freed(w)[v] = IF v = w THEN None ELSE active[v]
  BY Sharing DEF Freed, Acting
<1>2. \A i \in DOMAIN work_queue : work_queue[i] # None
  BY Sharing, LenProperties, ElementOfSeq, NoneAssumption
<1>3. Once(work_queue, Freed(w))
  BY <1>1, <1>2, Sharing DEF Once, In
<1>4. active[w] \in Held(work_queue, active)
  BY DEF Held
<1>5. \A t : t \in Held(work_queue, Freed(w)) <=>
             t \in Held(work_queue, active) /\ t # active[w]
  <2>1. ASSUME NEW t, t \in Held(work_queue, Freed(w))
        PROVE  t \in Held(work_queue, active) /\ t # active[w]
    BY <1>1, <2>1, Sharing DEF Held, Once
  <2>2. ASSUME NEW t, t \in Held(work_queue, active), t # active[w]
        PROVE  t \in Held(work_queue, Freed(w))
    <3>1. CASE t \in In(work_queue)
      BY <3>1 DEF Held
    <3>2. CASE t \notin In(work_queue)
      <4>1. PICK v \in Worker : t = active[v] /\ t # None
        BY <2>2, <3>2 DEF Held
      <4>2. Freed(w)[v] = t
        BY <1>1, <2>2, <4>1
      <4>. QED
        BY <4>1, <4>2 DEF Held
    <3>. QED
      BY <3>1, <3>2
  <2>. QED
    BY <2>1, <2>2
<1>. QED
  BY <1>1, <1>3, <1>4, <1>5, Sharing

\* The worker that is free takes the next task.
LEMMA FreedGiven ==
  ASSUME IInv, NEW w \in Worker, active[w] # None, is_ready[w],
         run_task({w}, work_queue, Freed(w))
  PROVE  /\ Given({w}, work_queue, Freed(w))
         /\ Held(work_queue', active') = DOMAIN task_deferreds \ {active[w]}
         /\ UNCHANGED is_ready => NoneIdle'
<1>1. Given({w}, work_queue, Freed(w))
  BY FreedOnce, Sharing, Giving
<1>2. Held(work_queue', active') = DOMAIN task_deferreds \ {active[w]}
  BY <1>1, FreedOnce DEF Given
<1>3. ASSUME UNCHANGED is_ready PROVE NoneIdle'
  <2>1. \A v \in Worker : v # w => Freed(w)[v] = active[v]
    BY Sharing DEF Freed, Acting
  <2>2. \A v \in Worker : v # w => active'[v] = active[v]
    BY <1>1, <2>1 DEF Given
  <2>. QED
    BY <1>1, <1>3, <2>2 DEF Given, IInv, NoneIdle
<1>. QED
  BY <1>1, <1>2, <1>3

\* Everyone who waits for the task of w fails.
LEMMA ErrbackLists ==
  ASSUME IInv, NEW w \in Worker, active[w] # None, Errback(w)
  PROVE  /\ pc' \in [Request -> Progress]
         /\ DOMAIN task_deferreds' = DOMAIN task_deferreds \ {active[w]}
         /\ Lists(pc', task_deferreds')
<1>. DEFINE rs == task_deferreds[active[w]]
<1>1. /\ pc' = [r \in Request |-> IF r \in rs THEN "failed" ELSE pc[r]]
      /\ task_deferreds' = Popped(active[w])
  BY DEF Errback, Move
<1>2. active[w] \in DOMAIN task_deferreds /\ rs \subseteq Request
  BY FreedOnce, Sharing DEF Lists
<1>3. pc' \in [Request -> Progress]
  BY <1>1 DEF IInv, TypeOK, Progress, Final
<1>4. Lists(pc', Popped(active[w]))
  <2>1. /\ \A r \in Request : r \notin rs => pc'[r] = pc[r]
        /\ \A r \in rs : pc'[r] \notin {"check", "register"}
    BY <1>1, <1>2
  <2>. QED
    BY <1>2, <2>1, Sharing, PoppedLists
<1>. QED
  BY <1>1, <1>3, <1>4 DEF Popped

LEMMA ErrReceived ==
  ASSUME IInv, NEW w \in Worker, errReceived(w)
  PROVE  IInv'
<1>1. /\ pipe' = [pipe EXCEPT ![w] = None]
      /\ UNCHANGED <<is_ready, retries, proc, cache, faults>>
  BY DEF errReceived
<1>2. /\ pipe' \in [Worker -> Result \cup {None}]
      /\ is_ready' \in [Worker -> BOOLEAN]
  BY <1>1 DEF IInv, TypeOK
<1>3. CASE active[w] = None
  <2>1. UNCHANGED <<work_queue, task_deferreds, active, pc>>
    BY <1>3 DEF errReceived, Errback
  <2>2. TypeOK'
    BY <1>1, <1>2, <2>1 DEF IInv, TypeOK
  <2>3. NoMixUp' /\ Fresh'
    BY <1>1, <2>1 DEF IInv, TypeOK, NoMixUp, Fresh
  <2>. QED
    BY <1>1, <2>1, <2>2, <2>3, SharingSame DEF IInv
<1>4. CASE active[w] # None
  <2>1. is_ready[w]
    BY <1>4 DEF IInv, BusyIsReady
  <2>2. Errback(w) /\ run_task({w}, work_queue, Freed(w))
    BY <1>4 DEF errReceived, Freed
  <2>3. /\ pc' \in [Request -> Progress]
        /\ DOMAIN task_deferreds' = DOMAIN task_deferreds \ {active[w]}
        /\ Lists(pc', task_deferreds')
    BY <1>4, <2>2, ErrbackLists
  <2>4. /\ Given({w}, work_queue, Freed(w))
        /\ Held(work_queue', active') = DOMAIN task_deferreds \ {active[w]}
        /\ NoneIdle'
    BY <1>1, <1>4, <2>1, <2>2, FreedGiven
  <2>5. /\ DOMAIN task_deferreds' \subseteq Task
        /\ \A t \in DOMAIN task_deferreds' : task_deferreds'[t] \subseteq Request
        /\ Tracked' /\ Attached'
    BY <2>3, <2>4, SharingKept DEF Given
  <2>6. Regular({w}, Freed(w))
    BY <1>1, <2>1, <2>4 DEF Regular, Given, Freed, IInv, TypeOK, Fresh
  <2>7. BusyIsReady' /\ NoMixUp' /\ Fresh'
    BY <1>2, <2>6, WorkersKept
  <2>8. TypeOK'
    BY <1>1, <1>2, <2>3, <2>4, <2>5 DEF IInv, TypeOK, Given, Acting
  <2>. QED
    BY <2>4, <2>5, <2>7, <2>8 DEF IInv
<1>. QED
  BY <1>3, <1>4

\* The worker of a process that has ended has no task any longer.
LEMMA LostKept ==
  ASSUME IInv, NEW w \in Worker, Errback(w),
         active' = [active EXCEPT ![w] = None], UNCHANGED <<work_queue, cache, faults>>
  PROVE  /\ Tracked' /\ Attached'
         /\ DOMAIN task_deferreds' \subseteq Task
         /\ \A t \in DOMAIN task_deferreds' : task_deferreds'[t] \subseteq Request
         /\ pc' \in [Request -> Progress] /\ active' \in Acting
<1>1. CASE active[w] = None
  <2>1. UNCHANGED <<task_deferreds, pc, active>>
    BY <1>1, Sharing DEF Errback, Acting
  <2>. QED
    BY <2>1, SharingSame, Sharing DEF IInv, TypeOK
<1>2. CASE active[w] # None
  <2>1. active' = Freed(w)
    BY DEF Freed
  <2>2. /\ pc' \in [Request -> Progress]
        /\ DOMAIN task_deferreds' = DOMAIN task_deferreds \ {active[w]}
        /\ Lists(pc', task_deferreds')
    BY <1>2, ErrbackLists
  <2>3. /\ active' \in Acting /\ Once(work_queue', active')
        /\ Held(work_queue', active') = DOMAIN task_deferreds'
    BY <1>2, <2>1, <2>2, FreedOnce
  <2>. QED
    BY <2>2, <2>3, Sharing, SharingKept
<1>. QED
  BY <1>1, <1>2

LEMMA InConnectionLost ==
  ASSUME IInv, NEW w \in Worker, inConnectionLost(w)
  PROVE  IInv'
<1>1. /\ proc[w] \in Ended /\ is_ready' = [is_ready EXCEPT ![w] = FALSE]
      /\ Errback(w) /\ active' = [active EXCEPT ![w] = None]
      /\ UNCHANGED <<work_queue, processVars, cache, faults>>
  BY DEF inConnectionLost
<1>2. /\ Tracked' /\ Attached'
      /\ DOMAIN task_deferreds' \subseteq Task
      /\ \A t \in DOMAIN task_deferreds' : task_deferreds'[t] \subseteq Request
      /\ pc' \in [Request -> Progress] /\ active' \in Acting
  BY <1>1, LostKept
<1>3. TypeOK'
  BY <1>1, <1>2 DEF IInv, TypeOK, processVars, Acting
<1>4. Regular({}, active')
  BY <1>1 DEF IInv, TypeOK, Regular, Fresh, processVars
<1>5. BusyIsReady' /\ NoMixUp' /\ Fresh'
  BY <1>3, <1>4, WorkersKept DEF TypeOK
<1>6. NoneIdle'
  BY <1>1 DEF IInv, TypeOK, NoneIdle
<1>. QED
  BY <1>2, <1>3, <1>5, <1>6 DEF IInv

LEMMA ProcessEnded ==
  ASSUME IInv, NEW w \in Worker, processEnded(w)
  PROVE  IInv'
<1>1. /\ ~is_ready[w] /\ pipe[w] = None
      /\ Errback(w) /\ active' = [active EXCEPT ![w] = None]
      /\ UNCHANGED <<work_queue, is_ready, pipe, cache, faults>>
  BY DEF processEnded
<1>2. /\ proc' \in [Worker -> ProcState] /\ retries' \in [Worker -> 0 .. MAX_RETRIES]
      /\ \A v \in Worker : v # w => proc'[v] = proc[v]
  <2>. DEFINE again == proc[w] = "crashed" /\ retries[w] < MAX_RETRIES
  <2>1. /\ proc' = [proc EXCEPT ![w] = IF again THEN "respawn" ELSE "gone"]
        /\ retries' = [retries EXCEPT ![w] = IF again THEN @ + 1 ELSE @]
    BY DEF processEnded
  <2>. QED
    BY <2>1, WorkersAssumption DEF IInv, TypeOK, ProcState
<1>3. /\ Tracked' /\ Attached'
      /\ DOMAIN task_deferreds' \subseteq Task
      /\ \A t \in DOMAIN task_deferreds' : task_deferreds'[t] \subseteq Request
      /\ pc' \in [Request -> Progress] /\ active' \in Acting
  BY <1>1, LostKept
<1>4. TypeOK'
  BY <1>1, <1>2, <1>3 DEF IInv, TypeOK, Acting
<1>5. active' = active
  BY <1>1, Sharing DEF IInv, BusyIsReady, Acting
<1>6. BusyIsReady' /\ NoMixUp' /\ Fresh' /\ NoneIdle'
  BY <1>1, <1>2, <1>5 DEF IInv, BusyIsReady, NoMixUp, Fresh, NoneIdle
<1>. QED
  BY <1>3, <1>4, <1>6 DEF IInv

\* The worker looks for a task when it is connected again.
LEMMA Spawn ==
  ASSUME IInv, NEW w \in Worker, spawn(w)
  PROVE  IInv'
<1>1. /\ proc[w] = "respawn" /\ proc' = [proc EXCEPT ![w] = "starting"]
      /\ is_ready' = [is_ready EXCEPT ![w] = TRUE]
      /\ run_task({w}, work_queue, active)
      /\ UNCHANGED <<task_deferreds, pc, retries, pipe, cache, faults>>
  BY DEF spawn
<1>2. Given({w}, work_queue, active)
  BY <1>1, Sharing, Giving
<1>3. /\ DOMAIN task_deferreds' \subseteq Task
      /\ \A t \in DOMAIN task_deferreds' : task_deferreds'[t] \subseteq Request
      /\ Tracked' /\ Attached'
  BY <1>1, <1>2, Sharing, SharingKept DEF Given
<1>4. TypeOK'
  BY <1>1, <1>2, <1>3 DEF IInv, TypeOK, Given, Acting, ProcState
<1>5. Regular({w}, active)
  BY <1>1, <1>2 DEF Regular, Given, IInv, TypeOK, Fresh
<1>6. BusyIsReady' /\ NoMixUp' /\ Fresh'
  BY <1>4, <1>5, WorkersKept DEF TypeOK
<1>7. NoneIdle'
  <2>1. ASSUME NEW v \in Worker, v # w, work_queue' # <<>>, is_ready'[v], ~only_checks(v)
        PROVE  active'[v] # None
    BY <1>1, <1>2, <2>1 DEF Given, IInv, TypeOK, NoneIdle
  <2>. QED
    BY <1>2, <2>1 DEF Given, NoneIdle
<1>. QED
  BY <1>3, <1>4, <1>6, <1>7 DEF IInv

LEMMA ProcessSteps ==
  ASSUME IInv, NEW w \in Worker, WorkerReady(w) \/ run(w) \/ Die(w)
  PROVE  IInv'
<1>1. UNCHANGED <<work_queue, task_deferreds, is_ready, active, pc>>
  BY DEF WorkerReady, run, Die, brokerVars
<1>2. Tracked' /\ Attached' /\ BusyIsReady' /\ NoneIdle'
  BY <1>1, SharingSame
<1>3. TypeOK'
  <2>1. CASE WorkerReady(w)
    BY <1>1, <2>1, WorkersAssumption DEF WorkerReady, IInv, TypeOK, ProcState
  <2>2. CASE run(w)
    <3>1. /\ active[w] # None /\ active[w] \in Task
          /\ UNCHANGED <<retries, proc, faults>>
      BY <2>2, Sharing DEF run, Acting
    <3>2. PICK done \in Failure \cup CASE active[w].cmd = "check" -> cmd_check(active[w].doc)
                                         [] active[w].cmd = "register" -> cmd_register(active[w].doc)
                                         [] active[w].cmd = "cleanup" -> cmd_cleanup :
            cache' = done.cache /\ pipe' = [pipe EXCEPT ![w] = done.line]
      BY <2>2 DEF run
    <3>3. cache \subseteq Doc
      BY DEF IInv, TypeOK
    <3>4. done.cache \subseteq Doc /\ done.line \in Result
      BY <3>1, <3>2, <3>3
         DEF Task, Check, Register, Cleanup, Failure, cmd_check, cmd_register, cmd_cleanup, Result
    <3>. QED
      BY <1>1, <3>1, <3>2, <3>4 DEF IInv, TypeOK
  <2>3. CASE Die(w)
    BY <1>1, <2>3 DEF Die, IInv, TypeOK, ProcState, Ended
  <2>. QED
    BY <2>1, <2>2, <2>3
<1>4. NoMixUp' /\ Fresh'
  <2>1. CASE WorkerReady(w) \/ Die(w)
    <3>1. UNCHANGED pipe /\ \A v \in Worker : proc'[v] = "respawn" => proc[v] = "respawn"
      BY <2>1 DEF WorkerReady, Die, Ended, IInv, TypeOK
    <3>. QED
      BY <1>1, <3>1 DEF IInv, NoMixUp, Fresh
  <2>2. CASE run(w)
    <3>1. /\ proc[w] = "up" /\ active[w] # None /\ active[w] \in Task /\ UNCHANGED proc
      BY <2>2, Sharing DEF run, Acting
    <3>2. PICK done \in Failure \cup CASE active[w].cmd = "check" -> cmd_check(active[w].doc)
                                         [] active[w].cmd = "register" -> cmd_register(active[w].doc)
                                         [] active[w].cmd = "cleanup" -> cmd_cleanup :
            cache' = done.cache /\ pipe' = [pipe EXCEPT ![w] = done.line]
      BY <2>2 DEF run
    <3>3. done.line # "error" =>
            done.line \in CASE active[w].cmd = "check" -> {"Changed", "Unchanged"}
                            [] active[w].cmd = "register" -> {"Registered"}
                            [] active[w].cmd = "cleanup" -> {}
      BY <3>1, <3>2
         DEF Task, Check, Register, Cleanup, Failure, cmd_check, cmd_register, cmd_cleanup
    <3>4. pipe'[w] = done.line /\ \A v \in Worker : v # w => pipe'[v] = pipe[v]
      BY <3>2 DEF IInv, TypeOK
    <3>. QED
      BY <1>1, <3>1, <3>3, <3>4 DEF IInv, NoMixUp, Fresh
  <2>. QED
    BY <2>1, <2>2
<1>. QED
  BY <1>2, <1>3, <1>4 DEF IInv

\* What a result does to those who wait, and to the queue.
CallbackStep(w) ==
  /\ pc' \in [Request -> Progress]
  /\ work_queue' \in Seq(Task) /\ active' \in Acting
  /\ Once(work_queue', active')
  /\ DOMAIN task_deferreds' = Held(work_queue', active')
  /\ Lists(pc', task_deferreds')
  /\ active[w] \notin DOMAIN task_deferreds'
  /\ \A u \in DOMAIN task_deferreds : u # active[w] =>
       u \in DOMAIN task_deferreds' /\ task_deferreds[u] \subseteq task_deferreds'[u]
  /\ \A v \in Worker : active'[v] # Freed(w)[v] => is_ready[v] /\ Freed(w)[v] = None
  /\ UNCHANGED is_ready => NoneIdle'

LEMMA CallbackKept ==
  ASSUME IInv, NEW w \in Worker, active[w] # None, pipe[w] \notin {None, "error"},
         Callback(w, pipe[w])
  PROVE  CallbackStep(w)
<1>. DEFINE t == active[w]
            rs == task_deferreds[t]
            next == Register(t.doc)
<1>1. /\ t \in DOMAIN task_deferreds /\ t \in Task /\ rs \subseteq Request
      /\ is_ready[w] /\ Freed(w) \in Acting /\ Once(work_queue, Freed(w))
      /\ Held(work_queue, Freed(w)) = DOMAIN task_deferreds \ {t}
  BY FreedOnce, Sharing DEF IInv, BusyIsReady, Lists
<1>2. /\ DOMAIN Popped(t) = DOMAIN task_deferreds \ {t}
      /\ \A u \in DOMAIN Popped(t) : Popped(t)[u] = task_deferreds[u]
  BY DEF Popped
<1>3. CASE pipe[w] = "Changed" /\ rs # {}
  <2>. DEFINE p == [r \in Request |-> IF r \in rs THEN "new" ELSE pc[r]]
  <2>1. t.cmd = "check"
    BY <1>1, <1>3 DEF IInv, NoMixUp, Task, Check, Register, Cleanup
  <2>2. PICK d \in Doc : t = Check(d)
    BY <1>1, <2>1 DEF Task, Register, Cleanup
  <2>3. next = Register(d) /\ next \in Task /\ next # t
    BY <2>2, AsksOne DEF Task, Check
  <2>4. /\ pc' = [r \in Request |-> IF r \in rs THEN "register" ELSE pc[r]]
        /\ IF next \in DOMAIN task_deferreds
           THEN /\ task_deferreds' = [Popped(t) EXCEPT ![next] = @ \cup rs]
                /\ run_task({w}, work_queue, Freed(w))
           ELSE schedule_task(next, rs, Popped(t), Freed(w))
    BY <1>3 DEF Callback, Move, Freed
  <2>5. pc' \in [Request -> Progress]
    BY <2>4 DEF IInv, TypeOK, Progress
  <2>6. \A r \in rs : Asks(pc', r, next)
    <3>1. \A r \in rs : Asks(pc, r, Check(d))
      BY <1>1, <2>2, Sharing DEF Lists
    <3>2. \A r \in rs : DocOf[r] = d
      BY <3>1 DEF Asks, Check, Register
    <3>. QED
      BY <1>1, <2>3, <2>4, <3>2 DEF Asks
  <2>7. Lists(p, Popped(t))
    <3>1. /\ \A r \in Request : r \notin rs => p[r] = pc[r]
          /\ \A r \in rs : p[r] \notin {"check", "register"}
      BY <1>1
    <3>. HIDE DEF p
    <3>. QED
      BY <1>1, <3>1, Sharing, PoppedLists
  <2>8. /\ \A r \in Request : r \notin rs => pc'[r] = p[r]
        /\ \A r \in rs : p[r] \notin {"check", "register"}
    BY <1>1, <2>4
  <2>9. CASE next \in DOMAIN task_deferreds
    <3>1. /\ Given({w}, work_queue, Freed(w))
          /\ Held(work_queue', active') = DOMAIN task_deferreds \ {t}
          /\ UNCHANGED is_ready => NoneIdle'
      BY <1>1, <2>4, <2>9, FreedGiven
    <3>2. Joins(next, rs, Popped(t)) /\ next \in DOMAIN Popped(t)
      BY <1>2, <2>3, <2>4, <2>9 DEF Joins
    <3>3. Lists(pc', task_deferreds')
      BY <1>1, <2>3, <2>6, <2>7, <2>8, <3>2, JoinedLists
    <3>4. /\ DOMAIN task_deferreds' = DOMAIN task_deferreds \ {t}
          /\ \A u \in DOMAIN task_deferreds : u # t =>
               task_deferreds[u] \subseteq task_deferreds'[u]
      BY <1>2, <3>2 DEF Joins
    <3>. QED
      BY <1>1, <2>5, <3>1, <3>3, <3>4 DEF CallbackStep, Given
  <2>10. CASE next \notin DOMAIN task_deferreds
    <3>1. Scheduled(next, rs, Popped(t), Freed(w))
      BY <1>1, <1>2, <2>3, <2>4, <2>10, Sharing, Scheduling
    <3>2. Joins(next, rs, Popped(t))
      BY <3>1 DEF Joins, Scheduled
    <3>3. Lists(pc', task_deferreds')
      BY <1>1, <2>3, <2>6, <2>7, <2>8, <3>2, JoinedLists
    <3>4. /\ DOMAIN task_deferreds' = (DOMAIN task_deferreds \ {t}) \cup {next}
          /\ \A u \in DOMAIN task_deferreds : u # t =>
               task_deferreds[u] \subseteq task_deferreds'[u]
      BY <1>2, <2>10, <3>1 DEF Scheduled
    <3>5. /\ DOMAIN task_deferreds' = Held(work_queue', active')
          /\ \A v \in Worker : active'[v] # Freed(w)[v] => is_ready[v] /\ Freed(w)[v] = None
      BY <1>2, <3>1, <3>4 DEF Scheduled, ReadyWorkers
    <3>6. ASSUME UNCHANGED is_ready PROVE NoneIdle'
      <4>1. CASE work_queue' = work_queue /\ active' = Freed(w)
        <5>1. Held(work_queue', active') = DOMAIN task_deferreds \ {t}
          BY <1>1, <4>1
        <5>. QED
          BY <2>3, <2>10, <3>4, <3>5, <5>1
      <4>2. CASE work_queue' # <<>> =>
                   \A v \in ReadyWorkers : ~only_checks(v) => active'[v] # None
        BY <3>6, <4>2 DEF NoneIdle, ReadyWorkers
      <4>. QED
        BY <3>1, <4>1, <4>2 DEF Scheduled
    <3>. QED
      BY <2>3, <2>5, <3>1, <3>3, <3>4, <3>5, <3>6 DEF CallbackStep, Scheduled
  <2>. QED
    BY <2>9, <2>10
<1>4. CASE ~(pipe[w] = "Changed" /\ rs # {})
  <2>1. /\ pc' = [r \in Request |-> IF r \in rs \cap Viewer THEN "endpoint"
                                   ELSE IF r \in rs THEN "answered" ELSE pc[r]]
        /\ task_deferreds' = Popped(t)
        /\ run_task({w}, work_queue, Freed(w))
    BY <1>4 DEF Callback, Freed
  <2>2. pc' \in [Request -> Progress]
    BY <2>1 DEF IInv, TypeOK, Progress, Final
  <2>3. /\ \A r \in Request : r \notin rs => pc'[r] = pc[r]
        /\ \A r \in rs : pc'[r] \notin {"check", "register"}
    BY <1>1, <2>1
  <2>4. Lists(pc', task_deferreds')
    BY <1>1, <2>1, <2>3, Sharing, PoppedLists
  <2>5. /\ Given({w}, work_queue, Freed(w))
        /\ Held(work_queue', active') = DOMAIN task_deferreds \ {t}
        /\ UNCHANGED is_ready => NoneIdle'
    BY <1>1, <2>1, FreedGiven
  <2>. QED
    BY <1>1, <1>2, <2>1, <2>2, <2>4, <2>5 DEF CallbackStep, Given
<1>. QED
  BY <1>3, <1>4

LEMMA OutReceived ==
  ASSUME IInv, NEW w \in Worker, outReceived(w)
  PROVE  IInv'
<1>1. /\ pipe' = [pipe EXCEPT ![w] = None] /\ retries' = [retries EXCEPT ![w] = 0]
      /\ UNCHANGED <<is_ready, proc, cache, faults>>
  BY DEF outReceived
<1>2. /\ pipe' \in [Worker -> Result \cup {None}]
      /\ retries' \in [Worker -> 0 .. MAX_RETRIES]
      /\ is_ready' \in [Worker -> BOOLEAN]
  BY <1>1, WorkersAssumption DEF IInv, TypeOK
<1>3. CASE active[w] = None
  <2>1. UNCHANGED <<work_queue, task_deferreds, active, pc>>
    BY <1>3 DEF outReceived
  <2>2. TypeOK'
    BY <1>1, <1>2, <2>1 DEF IInv, TypeOK
  <2>3. NoMixUp' /\ Fresh'
    BY <1>1, <2>1 DEF IInv, TypeOK, NoMixUp, Fresh
  <2>. QED
    BY <1>1, <2>1, <2>2, <2>3, SharingSame DEF IInv
<1>4. CASE active[w] # None
  <2>1. CallbackStep(w) /\ is_ready[w]
    BY <1>4, CallbackKept DEF outReceived, IInv, BusyIsReady
  <2>2. /\ DOMAIN task_deferreds' \subseteq Task
        /\ \A u \in DOMAIN task_deferreds' : task_deferreds'[u] \subseteq Request
        /\ Tracked' /\ Attached'
    BY <2>1, SharingKept DEF CallbackStep
  <2>3. Regular({v \in Worker : is_ready[v]}, Freed(w))
    <3>1. \A v \in Worker : Freed(w)[v] = IF v = w THEN None ELSE active[v]
      BY Sharing DEF Freed, Acting
    <3>2. \A v \in Worker : pipe'[v] = IF v = w THEN None ELSE pipe[v]
      BY <1>1 DEF IInv, TypeOK
    <3>3. \A v \in Worker : proc[v] = "respawn" => pipe[v] = None
      BY DEF IInv, Fresh
    <3>4. \A v \in Worker : is_ready[v] /\ Freed(w)[v] = None => pipe'[v] = None
      BY <3>1, <3>2 DEF IInv, Fresh
    <3>. QED
      BY <1>1, <2>1, <3>1, <3>2, <3>3, <3>4 DEF Regular, CallbackStep
  <2>4. BusyIsReady' /\ NoMixUp' /\ Fresh'
    BY <1>2, <2>3, WorkersKept
  <2>5. TypeOK'
    BY <1>1, <1>2, <2>1, <2>2 DEF IInv, TypeOK, CallbackStep, Acting
  <2>. QED
    BY <1>1, <2>1, <2>2, <2>4, <2>5 DEF IInv, CallbackStep
<1>. QED
  BY <1>3, <1>4

LEMMA Inductive ==
  ASSUME IInv, [Next]_vars
  PROVE  IInv'
<1>1. ASSUME NEW r \in Request, render_POST(r) \/ response_failed(r) \/ request_endpoint(r)
      PROVE  IInv'
  BY <1>1, RenderPost, ResponseFailed, RequestEndpoint
<1>2. CASE clean_streaming_cache
  BY <1>2, CleanStreamingCache
<1>3. ASSUME NEW w \in Worker, Callbacks(w) PROVE IInv'
  BY <1>3, OutReceived, ErrReceived, InConnectionLost, ProcessEnded, Spawn DEF Callbacks
<1>4. ASSUME NEW w \in Worker, Process(w) \/ Die(w) PROVE IInv'
  BY <1>4, ProcessSteps DEF Process
<1>5. ASSUME UNCHANGED <<brokerVars, processVars, faults>>, cache' \subseteq Doc PROVE IInv'
  <2>1. UNCHANGED <<work_queue, task_deferreds, is_ready, active, pc, retries, proc, pipe, faults>>
    BY <1>5 DEF brokerVars, processVars
  <2>2. TypeOK'
    BY <1>5, <2>1 DEF IInv, TypeOK
  <2>3. NoMixUp' /\ Fresh'
    BY <2>1 DEF IInv, NoMixUp, Fresh
  <2>. QED
    BY <2>1, <2>2, <2>3, SharingSame DEF IInv
<1>6. ASSUME NEW d \in Doc, CheckIn(d) PROVE IInv'
  BY <1>5, <1>6 DEF CheckIn, IInv, TypeOK
<1>7. CASE UNCHANGED vars
  BY <1>5, <1>7 DEF vars, IInv, TypeOK
<1>. QED
  BY <1>1, <1>2, <1>3, <1>4, <1>6, <1>7 DEF Next

LEMMA Initially ==
  ASSUME Init
  PROVE  IInv
<1>1. TypeOK
  BY WorkersAssumption DEF Init, TypeOK, ProcState, Progress
<1>2. Tracked
  BY DEF Init, Tracked, Queued, Running
<1>3. Attached
  BY DEF Init, Attached, Waits
<1>4. BusyIsReady /\ NoneIdle /\ NoMixUp /\ Fresh
  BY DEF Init, BusyIsReady, NoneIdle, NoMixUp, Fresh
<1>. QED
  BY <1>1, <1>2, <1>3, <1>4 DEF IInv
-----------------------------------------------------------------------------
(* Theorems *)

LEMMA Invariance == Spec => []IInv
<1>1. Init => IInv
  BY Initially
<1>2. IInv /\ [Next]_vars => IInv'
  BY Inductive
<1>. QED
  BY <1>1, <1>2, PTL DEF Spec

\* All variables stay in their domains, and no worker is respawned more than
\* MAX_RETRIES times without output.
THEOREM TypeCorrect == Spec => []TypeOK
<1>1. IInv => TypeOK
  BY DEF IInv
<1>. QED
  BY <1>1, Invariance, PTL

\* Pending tasks are held once, in the queue or by a worker: a task that many
\* requests need is never started twice at the same time.
THEOREM TasksTracked == Spec => []Tracked
<1>1. IInv => Tracked
  BY DEF IInv
<1>. QED
  BY <1>1, Invariance, PTL

\* A request that waits is in the list of its own pending task and in no other.
THEOREM RequestsAttached == Spec => []Attached
<1>1. IInv => Attached
  BY DEF IInv
<1>. QED
  BY <1>1, Invariance, PTL

\* Workers with tasks are connected, so that their end is noticed.
THEOREM BusyWorkersConnected == Spec => []BusyIsReady
<1>1. IInv => BusyIsReady
  BY DEF IInv
<1>. QED
  BY <1>1, Invariance, PTL

\* No connected worker that takes every task is idle while tasks are queued.
THEOREM NoWakeupLost == Spec => []NoneIdle
<1>1. IInv => NoneIdle
  BY DEF IInv
<1>. QED
  BY <1>1, Invariance, PTL

\* The late result of a process that died answers no other task.
THEOREM ResultsNotMixedUp == Spec => []NoMixUp
<1>1. IInv => NoMixUp
  BY DEF IInv
<1>. QED
  BY <1>1, Invariance, PTL
-----------------------------------------------------------------------------
(* The broker implements SingleFlight *)

LEMMA Phases ==
  ASSUME TypeOK, Tracked
  PROVE  \A t \in Task :
           /\ Phase[t] = "running" <=> t \in Running
           /\ Phase[t] = "queued" <=> t \in Queued
           /\ Phase[t] = "idle" <=> t \notin DOMAIN task_deferreds
           /\ Phase[t] \in {"idle", "queued", "running"}
           /\ t \in DOMAIN task_deferreds => Waiting[t] = task_deferreds[t]
           /\ t \notin DOMAIN task_deferreds => Waiting[t] = {}
BY DEF Phase, Waiting, Tracked

LEMMA PhasesNext ==
  ASSUME TypeOK', Tracked'
  PROVE  \A t \in Task :
           /\ Phase'[t] = "running" <=> t \in Running'
           /\ Phase'[t] = "queued" <=> t \in Queued'
           /\ Phase'[t] = "idle" <=> t \notin DOMAIN task_deferreds'
           /\ Phase'[t] \in {"idle", "queued", "running"}
           /\ t \in DOMAIN task_deferreds' => Waiting'[t] = task_deferreds'[t]
           /\ t \notin DOMAIN task_deferreds' => Waiting'[t] = {}
BY DEF Phase, Waiting, Tracked

\* The tasks of X are finished, one at most, all others go on.
LEMMA Works ==
  ASSUME IInv, IInv', NEW X \in SUBSET Running,
         \A t, u \in X : t = u,
         X \cap DOMAIN task_deferreds' = {},
         \A u \in DOMAIN task_deferreds : u \notin X =>
           u \in DOMAIN task_deferreds' /\ task_deferreds[u] \subseteq task_deferreds'[u],
         \A w \in Worker : active[w] # None /\ active[w] \notin X => active'[w] = active[w]
  PROVE  Shared!Work
<1>1. /\ TypeOK /\ Tracked /\ TypeOK' /\ Tracked'
      /\ DOMAIN task_deferreds = Queued \cup Running
      /\ DOMAIN task_deferreds' = Queued' \cup Running'
  BY DEF IInv, Tracked
<1>2. \A t \in X : Shared!Finish(t)
  BY <1>1, Phases, PhasesNext DEF Shared!Finish, TypeOK
<1>3. \A t \in Running : t \notin X => t \in Running'
  BY DEF Running
<1>4. ASSUME NEW t \in Task, t \notin X PROVE Shared!Advance(t) /\ ~Shared!Finish(t)
  <2>1. CASE t \in Running
    BY <1>1, <1>3, <1>4, <2>1, Phases, PhasesNext DEF Shared!Advance, Shared!Finish
  <2>2. CASE t \in Queued
    BY <1>1, <1>4, <2>2, Phases, PhasesNext DEF Shared!Advance, Shared!Finish
  <2>3. CASE t \notin DOMAIN task_deferreds
    BY <1>1, <1>4, <2>3, Phases, PhasesNext DEF Shared!Advance, Shared!Finish
  <2>. QED
    BY <1>1, <2>1, <2>2, <2>3
<1>. QED
  BY <1>2, <1>4 DEF Shared!Work

\* Nothing that SingleFlight speaks of changes.
LEMMA Stutters ==
  ASSUME UNCHANGED <<work_queue, task_deferreds, active>>
  PROVE  UNCHANGED Shared!vars
BY DEF Shared!vars, Phase, Waiting, Running, Queued

\* A task is scheduled, nothing is finished.
LEMMA ScheduledWorks ==
  ASSUME IInv, IInv', NEW t, NEW rs, Scheduled(t, rs, task_deferreds, active)
  PROVE  Shared!Work
<1>1. /\ \A u \in DOMAIN task_deferreds :
           u \in DOMAIN task_deferreds' /\ task_deferreds[u] \subseteq task_deferreds'[u]
      /\ \A w \in Worker : active[w] # None => active'[w] = active[w]
  BY DEF Scheduled
<1>2. {} \in SUBSET Running
  OBVIOUS
<1>. QED
  BY <1>1, <1>2, Works

\* The task of w is finished.
LEMMA FinishedWorks ==
  ASSUME IInv, IInv', NEW w \in Worker, active[w] # None,
         active[w] \notin DOMAIN task_deferreds',
         \A u \in DOMAIN task_deferreds : u # active[w] =>
           u \in DOMAIN task_deferreds' /\ task_deferreds[u] \subseteq task_deferreds'[u],
         \A v \in Worker : v # w /\ active[v] # None => active'[v] = active[v]
  PROVE  Shared!Work
<1>. DEFINE X == {active[w]}
<1>1. X \in SUBSET Running /\ \A t, u \in X : t = u
  BY DEF Running
<1>2. X \cap DOMAIN task_deferreds' = {}
  OBVIOUS
<1>3. \A v \in Worker : active[v] # None /\ active[v] \notin X => active'[v] = active[v]
  OBVIOUS
<1>4. \A u \in DOMAIN task_deferreds : u \notin X =>
        u \in DOMAIN task_deferreds' /\ task_deferreds[u] \subseteq task_deferreds'[u]
  OBVIOUS
<1>. HIDE DEF X
<1>. QED
  BY <1>1, <1>2, <1>3, <1>4, Works

LEMMA ErrbackWorks ==
  ASSUME IInv, IInv', NEW w \in Worker, Errback(w),
         \A v \in Worker : v # w /\ active[v] # None => active'[v] = active[v],
         active[w] = None => UNCHANGED <<work_queue, active>>
  PROVE  [Shared!Next]_Shared!vars
<1>1. CASE active[w] = None
  BY <1>1, Stutters DEF Errback
<1>2. CASE active[w] # None
  <2>1. /\ DOMAIN task_deferreds' = DOMAIN task_deferreds \ {active[w]}
        /\ \A u \in DOMAIN task_deferreds : u # active[w] =>
             task_deferreds[u] = task_deferreds'[u]
    BY <1>2 DEF Errback, Popped
  <2>2. Shared!Work
    BY <1>2, <2>1, FinishedWorks
  <2>. QED
    BY <2>2 DEF Shared!Next
<1>. QED
  BY <1>1, <1>2

LEMMA Refines ==
  ASSUME IInv, IInv', [Next]_vars
  PROVE  [Shared!Next]_Shared!vars
<1>1. ASSUME NEW r \in Request, render_POST(r) PROVE Shared!Work
  <2>1. Check(DocOf[r]) \in Task
    BY AsksOne
  <2>2. Scheduled(Check(DocOf[r]), {r}, task_deferreds, active)
    BY <1>1, <2>1, Sharing, Scheduling DEF render_POST
  <2>. QED
    BY <2>2, ScheduledWorks
<1>2. ASSUME clean_streaming_cache PROVE Shared!Work
  <2>1. Cleanup \in Task
    BY DEF Task
  <2>2. Scheduled(Cleanup, {}, task_deferreds, active)
    BY <1>2, <2>1, Sharing, Scheduling DEF clean_streaming_cache
  <2>. QED
    BY <2>2, ScheduledWorks
<1>3. ASSUME NEW r \in Request, response_failed(r) PROVE Shared!Leave(r)
  <2>1. /\ task_deferreds' = [t \in DOMAIN task_deferreds |-> task_deferreds[t] \ {r}]
        /\ UNCHANGED <<work_queue, active>>
    BY <1>3 DEF response_failed
  <2>2. Waiting' = [t \in Task |-> Waiting[t] \ {r}]
    BY <2>1 DEF Waiting
  <2>3. Phase' = Phase
    BY <2>1 DEF Phase, Running, Queued
  <2>. QED
    BY <2>2, <2>3 DEF Shared!Leave
<1>4. ASSUME NEW r \in Request, request_endpoint(r) PROVE UNCHANGED Shared!vars
  BY <1>4, Stutters DEF request_endpoint
<1>5. ASSUME NEW w \in Worker, outReceived(w) PROVE [Shared!Next]_Shared!vars
  <2>1. CASE active[w] = None
    BY <1>5, <2>1, Stutters DEF outReceived
  <2>2. CASE active[w] # None
    <3>1. CallbackStep(w)
      BY <1>5, <2>2, CallbackKept DEF outReceived
    <3>2. \A v \in Worker : v # w => Freed(w)[v] = active[v]
      BY Sharing DEF Freed, Acting
    <3>3. \A v \in Worker : v # w /\ active[v] # None => active'[v] = active[v]
      BY <3>1, <3>2 DEF CallbackStep
    <3>4. Shared!Work
      BY <2>2, <3>1, <3>3, FinishedWorks DEF CallbackStep
    <3>. QED
      BY <3>4 DEF Shared!Next
  <2>. QED
    BY <2>1, <2>2
<1>6. ASSUME NEW w \in Worker, errReceived(w) PROVE [Shared!Next]_Shared!vars
  <2>1. CASE active[w] = None
    BY <1>6, <2>1, Stutters DEF errReceived, Errback
  <2>2. CASE active[w] # None
    <3>1. Given({w}, work_queue, Freed(w)) /\ Errback(w)
      BY <1>6, <2>2, FreedGiven DEF errReceived, Freed, IInv, BusyIsReady
    <3>2. \A v \in Worker : v # w => Freed(w)[v] = active[v]
      BY Sharing DEF Freed, Acting
    <3>3. \A v \in Worker : v # w /\ active[v] # None => active'[v] = active[v]
      BY <3>1, <3>2 DEF Given
    <3>. QED
      BY <2>2, <3>1, <3>3, ErrbackWorks
  <2>. QED
    BY <2>1, <2>2
<1>7. ASSUME NEW w \in Worker, inConnectionLost(w) \/ processEnded(w)
      PROVE  [Shared!Next]_Shared!vars
  <2>1. Errback(w) /\ active' = [active EXCEPT ![w] = None] /\ UNCHANGED work_queue
    BY <1>7 DEF inConnectionLost, processEnded
  <2>2. \A v \in Worker : v # w => active'[v] = active[v]
    BY <2>1, Sharing DEF Acting
  <2>3. active[w] = None => UNCHANGED active
    BY <2>1, Sharing DEF Acting
  <2>. QED
    BY <2>1, <2>2, <2>3, ErrbackWorks
<1>8. ASSUME NEW w \in Worker, spawn(w) PROVE Shared!Work
  <2>1. /\ run_task({w}, work_queue, active) /\ UNCHANGED task_deferreds
    BY <1>8 DEF spawn
  <2>2. Given({w}, work_queue, active)
    BY <2>1, Sharing, Giving
  <2>3. /\ {} \in SUBSET Running
        /\ \A v \in Worker : active[v] # None => active'[v] = active[v]
    BY <2>2 DEF Given
  <2>. QED
    BY <2>1, <2>3, Works
<1>9. ASSUME NEW w \in Worker, Process(w) \/ Die(w) PROVE UNCHANGED Shared!vars
  <2>1. UNCHANGED <<work_queue, task_deferreds, active>>
    BY <1>9 DEF Process, WorkerReady, run, Die, brokerVars
  <2>. QED
    BY <2>1, Stutters
<1>10. ASSUME UNCHANGED brokerVars PROVE UNCHANGED Shared!vars
  BY <1>10, Stutters DEF brokerVars
<1>. QED
  BY <1>1, <1>2, <1>3, <1>4, <1>5, <1>6, <1>7, <1>8, <1>9, <1>10
     DEF Next, Callbacks, CheckIn, vars, Shared!Next

\* The broker shares work as SingleFlight promises: no task is done twice at the
\* same time, and everyone who waits for it is answered by the same event.
THEOREM Implements == Spec => SharedSpec
<1>1. Init => Shared!Init
  BY DEF Init, Shared!Init, Phase, Waiting, Running, Queued
<1>2. IInv /\ IInv' /\ [Next]_vars => [Shared!Next]_Shared!vars
  BY Refines
<1>. QED
  BY <1>1, <1>2, Invariance, PTL DEF Spec, SharedSpec, Shared!Spec

=============================================================================
