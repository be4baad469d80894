------------------------ MODULE Relationships_proofs ------------------------
(***************************************************************************)
(* Proofs about the dates that relationships allow, for all dates, gaps    *)
(* and durations.                                                          *)
(***************************************************************************)
EXTENDS Relationships, TLAPS

Dates == [DR : Int, ES : Int, EF : Int, LS : Int, LF : Int,
          AA : Int \cup {None}, ZZ : Int \cup {None}]
Types == {FS, SS, FF, SF}
-----------------------------------------------------------------------------
(* The calendar *)

\* Workdays are counted from the first morning at or after a time.
Day(v) == IF late(v) THEN network2index(v) + 1 ELSE network2index(v)

LEMMA Halves ==
  ASSUME NEW v \in Int
  PROVE  /\ Day(v) \in Int
         /\ v = IF late(v) THEN 2 * Day(v) - 1 ELSE 2 * Day(v)
         /\ network2index(v) \in Int
         /\ v % 2 = IF late(v) THEN 1 ELSE 0
BY DEF Day, late, network2index

\* Both kinds of times, one by one
LEMMA EarlyOrLate ==
  ASSUME NEW v \in Int
  PROVE  /\ late(v) => v = 2 * Day(v) - 1 /\ network2index(v) = Day(v) - 1 /\ v % 2 = 1
         /\ ~late(v) => v = 2 * Day(v) /\ network2index(v) = Day(v) /\ v % 2 = 0
<1>1. CASE late(v)
  BY <1>1, Halves DEF Day
<1>2. CASE ~late(v)
  BY <1>2, Halves DEF Day
<1>. QED
  BY <1>1, <1>2

LEMMA DaysBetween ==
  ASSUME NEW a \in Int, NEW b \in Int
  PROVE  get_duration_in_days(a, b) = Day(b) - Day(a)
<1>1. Day(a) \in Int /\ Day(b) \in Int
  BY Halves
<1>2. network2index(a) + (a % 2) = Day(a) /\ network2index(b) + (b % 2) = Day(b)
  BY <1>1, EarlyOrLate
<1>3. /\ network2index(a) \in Int /\ network2index(b) \in Int
      /\ a % 2 \in Int /\ b % 2 \in Int
  BY Halves
<1>. QED
  BY <1>1, <1>2, <1>3 DEF get_duration_in_days

\* Day k begins with time 2k and the evening before it.
LEMMA DayOf ==
  ASSUME NEW v \in Int, NEW k \in Int
  PROVE  /\ v = 2 * k => Day(v) = k /\ ~late(v)
         /\ v = 2 * k - 1 => Day(v) = k /\ late(v)
<1>1. Day(v) \in Int
  BY Halves
<1>. QED
  BY <1>1, EarlyOrLate

LEMMA LaterDay ==
  ASSUME NEW v \in Int, NEW w \in Int, v <= w
  PROVE  Day(v) <= Day(w)
<1>1. Day(v) \in Int /\ Day(w) \in Int
  BY Halves
<1>2. v >= 2 * Day(v) - 1 /\ w <= 2 * Day(w)
  BY <1>1, EarlyOrLate
<1>. QED
  BY <1>1, <1>2

\* Moving by whole days
LEMMA DaysLater ==
  ASSUME NEW v \in Int, NEW k \in Int
  PROVE  /\ v + 2 * k \in Int /\ Day(v + 2 * k) = Day(v) + k
         /\ late(v + 2 * k) <=> late(v)
<1>1. Day(v) \in Int /\ Day(v) + k \in Int
  BY Halves
<1>2. CASE late(v)
  <2>1. v + 2 * k = 2 * (Day(v) + k) - 1
    BY <1>1, <1>2, EarlyOrLate
  <2>. QED
    BY <1>1, <1>2, <2>1, DayOf
<1>3. CASE ~late(v)
  <2>1. v + 2 * k = 2 * (Day(v) + k)
    BY <1>1, <1>3, EarlyOrLate
  <2>. QED
    BY <1>1, <1>3, <2>1, DayOf
<1>. QED
  BY <1>2, <1>3

\* Half a day later, half a day earlier
LEMMA HalfDay ==
  ASSUME NEW v \in Int
  PROVE  /\ late(v) => /\ Day(v + 1) = Day(v) /\ ~late(v + 1)
                        /\ Day(v - 1) = Day(v) - 1 /\ ~late(v - 1)
         /\ ~late(v) => /\ Day(v + 1) = Day(v) + 1 /\ late(v + 1)
                         /\ Day(v - 1) = Day(v) /\ late(v - 1)
<1>1. Day(v) \in Int
  BY Halves
<1>2. CASE late(v)
  <2>1. v + 1 = 2 * Day(v) /\ v - 1 = 2 * (Day(v) - 1)
    BY <1>1, <1>2, EarlyOrLate
  <2>. QED
    BY <1>1, <1>2, <2>1, DayOf
<1>3. CASE ~late(v)
  <2>1. v + 1 = 2 * (Day(v) + 1) - 1 /\ v - 1 = 2 * Day(v) - 1
    BY <1>1, <1>3, EarlyOrLate
  <2>. QED
    BY <1>1, <1>3, <2>1, DayOf
<1>. QED
  BY <1>2, <1>3
-----------------------------------------------------------------------------
(* Gaps *)

\* Where add_gap ends up: gap days later, or one more where a fixed position
\* has to end late
LEMMA GapAhead ==
  ASSUME NEW a \in Int, NEW gap \in Int, NEW fix \in BOOLEAN, NEW get_start \in BOOLEAN,
         NEW d, d = add_gap(a, gap, fix, get_start, TRUE)
  PROVE  d \in Int /\ (Day(d) = Day(a) + gap \/ Day(d) = Day(a) + gap + 1)
<1>1. PICK b \in Int : b = a + 2 * gap /\ Day(b) = Day(a) + gap
  BY DaysLater
<1>2. Day(a) \in Int /\ Day(b) \in Int /\ b + 1 \in Int /\ b - 1 \in Int
  BY Halves
<1>3. /\ late(b) => Day(b + 1) = Day(b) /\ Day(b - 1) = Day(b) - 1
      /\ ~late(b) => Day(b + 1) = Day(b) + 1 /\ Day(b - 1) = Day(b)
  BY HalfDay
<1>4. \/ d = b
      \/ d = b + 1 /\ late(b)
      \/ d = b - 1 /\ ~late(b)
      \/ d = b + 1
  BY <1>1 DEF add_gap, late
<1>5. d \in Int /\ (Day(d) = Day(b) \/ Day(d) = Day(b) + 1)
  BY <1>2, <1>3, <1>4
<1>6. Day(b) + 1 = Day(a) + gap + 1
  BY <1>1, <1>2
<1>. QED
  BY <1>1, <1>5, <1>6, Zenon

\* and likewise in the other direction
LEMMA GapBack ==
  ASSUME NEW a \in Int, NEW gap \in Int, NEW fix \in BOOLEAN, NEW get_start \in BOOLEAN,
         NEW d, d = add_gap(a, gap, fix, get_start, FALSE)
  PROVE  d \in Int /\ (Day(d) = Day(a) + gap \/ Day(d) = Day(a) + gap - 1)
<1>1. PICK b \in Int : b = a + 2 * gap /\ Day(b) = Day(a) + gap
  BY DaysLater
<1>2. Day(a) \in Int /\ Day(b) \in Int /\ b + 1 \in Int /\ b - 1 \in Int
  BY Halves
<1>3. /\ late(b) => Day(b + 1) = Day(b) /\ Day(b - 1) = Day(b) - 1
      /\ ~late(b) => Day(b + 1) = Day(b) + 1 /\ Day(b - 1) = Day(b)
  BY HalfDay
<1>4. \/ d = b
      \/ d = b + 1 /\ late(b)
      \/ d = b - 1 /\ ~late(b)
      \/ d = b - 1
  BY <1>1 DEF add_gap, late
<1>5. d \in Int /\ (Day(d) = Day(b) \/ Day(d) = Day(b) - 1)
  BY <1>2, <1>3, <1>4
<1>6. Day(b) - 1 = Day(a) + gap - 1
  BY <1>1, <1>2
<1>. QED
  BY <1>1, <1>5, <1>6, Zenon

\* A date found by add_gap is at least the gap away, to whichever side.
LEMMA GapKept ==
  ASSUME NEW a \in Int, NEW gap \in Int, NEW fix \in BOOLEAN, NEW get_start \in BOOLEAN,
         NEW d, d = add_gap(a, gap, fix, get_start, TRUE),
         NEW e, e = add_gap(a, -gap, fix, get_start, FALSE)
  PROVE  /\ d \in Int /\ Day(d) >= Day(a) + gap
         /\ e \in Int /\ Day(e) <= Day(a) - gap
<1>1. Day(a) \in Int /\ -gap \in Int
  BY Halves
<1>2. d \in Int /\ (Day(d) = Day(a) + gap \/ Day(d) = Day(a) + gap + 1)
  BY GapAhead
<1>3. e \in Int /\ (Day(e) = Day(a) + (-gap) \/ Day(e) = Day(a) + (-gap) - 1)
  BY <1>1, GapBack
<1>4. \A x \in Int : /\ x + gap >= x + gap /\ x + gap + 1 >= x + gap
                    /\ x + (-gap) <= x - gap /\ x + (-gap) - 1 <= x - gap
  OBVIOUS
<1>5. Day(d) >= Day(a) + gap /\ Day(e) <= Day(a) - gap
  BY <1>1, <1>2, <1>3, <1>4, Zenon
<1>. QED
  BY <1>2, <1>3, <1>5
-----------------------------------------------------------------------------
(* Relationships *)

\* Whatever is later than add_gap asks on one side, or earlier on the other, is
\* at least the gap away.
LEMMA FarEnough ==
  ASSUME NEW a \in Int, NEW b \in Int, NEW gap \in Int,
         NEW fix \in BOOLEAN, NEW get_start \in BOOLEAN
  PROVE  /\ b >= add_gap(a, gap, fix, get_start, TRUE) => get_duration_in_days(a, b) >= gap
         /\ a <= add_gap(b, -gap, fix, get_start, FALSE) => get_duration_in_days(a, b) >= gap
<1>1. Day(a) \in Int /\ Day(b) \in Int
  BY Halves
<1>2. ASSUME b >= add_gap(a, gap, fix, get_start, TRUE)
      PROVE  get_duration_in_days(a, b) >= gap
  <2>1. PICK d : d = add_gap(a, gap, fix, get_start, TRUE)
    OBVIOUS
  <2>2. d \in Int /\ Day(d) >= Day(a) + gap
    BY <2>1, GapKept
  <2>3. d <= b /\ Day(d) \in Int
    BY <1>2, <2>1, <2>2, Halves
  <2>4. Day(d) <= Day(b)
    BY <2>2, <2>3, LaterDay
  <2>5. Day(b) - Day(a) >= gap
    BY <1>1, <2>2, <2>3, <2>4
  <2>. QED
    BY <2>5, DaysBetween
<1>3. ASSUME a <= add_gap(b, -gap, fix, get_start, FALSE)
      PROVE  get_duration_in_days(a, b) >= gap
  <2>1. PICK e : e = add_gap(b, -gap, fix, get_start, FALSE)
    OBVIOUS
  <2>2. e \in Int /\ Day(e) <= Day(b) - gap
    BY <2>1, GapKept
  <2>3. a <= e /\ Day(e) \in Int
    BY <1>3, <2>1, <2>2, Halves
  <2>4. Day(a) <= Day(e)
    BY <2>2, <2>3, LaterDay
  <2>5. Day(b) - Day(a) >= gap
    BY <1>1, <2>2, <2>3, <2>4
  <2>. QED
    BY <2>5, DaysBetween
<1>. QED
  BY <1>2, <1>3

\* The forward pass is right about relationships: a successor that starts, or ends,
\* no earlier than relship_forward allows for the scheduled dates of its
\* predecessor does not violate the relationship.
THEOREM ForwardRespects ==
  ASSUME NEW r, r.type \in Types, r.gap \in Int,
         NEW net, net[r.pred] \in Dates, net[r.succ] \in Dates,
         \A t \in {r.pred, r.succ} : net[t].AA # None /\ net[t].ZZ # None,
         NEW row, NEW fix \in BOOLEAN,
         NEW n, n = relship_forward(net[r.pred], row, fix, r.type, r.gap, TRUE),
         IF r.type[2] = "S" THEN net[r.succ].AA >= n.ES ELSE net[r.succ].ZZ >= n.EF
  PROVE  relship_gap_from_network(r, net) >= r.gap
<1>. DEFINE from == IF r.type[1] = "F" THEN net[r.pred].ZZ ELSE net[r.pred].AA
            to == IF r.type[2] = "F" THEN net[r.succ].ZZ ELSE net[r.succ].AA
            starts == r.type[2] = "S"
<1>1. /\ r.type[1] \in {"F", "S"} /\ r.type[2] \in {"F", "S"}
      /\ r.type[1] = "F" \/ r.type[1] = "S"
  BY DEF Types, FS, SS, FF, SF
<1>2. from \in Int /\ to \in Int
  BY DEF Dates
<1>3. to >= add_gap(from, r.gap, fix, starts, TRUE)
  <2>1. /\ get_value(net[r.pred], "ZZ", "EF") = net[r.pred].ZZ
        /\ get_value(net[r.pred], "AA", "ES") = net[r.pred].AA
    BY DEF get_value
  <2>2. CASE starts
    <3>1. n.ES = add_gap(from, r.gap, fix, starts, TRUE)
      BY <1>1, <2>1, <2>2 DEF relship_forward
    <3>. QED
      BY <1>1, <2>2, <3>1
  <2>3. CASE ~starts
    <3>1. n.EF = add_gap(from, r.gap, fix, starts, TRUE)
      BY <1>1, <2>1, <2>3 DEF relship_forward
    <3>. QED
      BY <1>1, <2>3, <3>1
  <2>. QED
    BY <2>2, <2>3
<1>4. starts \in BOOLEAN
  OBVIOUS
<1>5. relship_gap_from_network(r, net) = get_duration_in_days(from, to)
  BY DEF relship_gap_from_network
<1>. HIDE DEF from, to, starts
<1>. QED
  BY <1>2, <1>3, <1>4, <1>5, FarEnough

\* So is the backward pass: a predecessor that ends, or starts, no later than
\* relship_backward allows does not violate the relationship with a successor
\* that is not before its latest dates.
THEOREM BackwardRespects ==
  ASSUME NEW r, r.type \in Types, r.gap \in Int,
         NEW net, net[r.pred] \in Dates, net[r.succ] \in Dates,
         \A t \in {r.pred, r.succ} : net[t].AA # None /\ net[t].ZZ # None,
         net[r.succ].AA >= net[r.succ].LS, net[r.succ].ZZ >= net[r.succ].LF,
         NEW row, NEW fix \in BOOLEAN,
         NEW n, n = relship_backward(row, net[r.succ], fix, r.type, r.gap),
         IF r.type[1] = "S" THEN net[r.pred].AA <= n.LS ELSE net[r.pred].ZZ <= n.LF
  PROVE  relship_gap_from_network(r, net) >= r.gap
<1>. DEFINE from == IF r.type[1] = "F" THEN net[r.pred].ZZ ELSE net[r.pred].AA
            latest == IF r.type[2] = "S" THEN net[r.succ].LS ELSE net[r.succ].LF
            to == IF r.type[2] = "F" THEN net[r.succ].ZZ ELSE net[r.succ].AA
            starts == r.type[1] = "S"
<1>1. r.type[1] \in {"F", "S"} /\ r.type[2] \in {"F", "S"}
  BY DEF Types, FS, SS, FF, SF
<1>2. from \in Int /\ to \in Int /\ latest \in Int /\ latest <= to
  BY <1>1 DEF Dates
<1>3. from <= add_gap(latest, -r.gap, fix, starts, FALSE)
  <2>1. CASE starts
    <3>1. n.LS = add_gap(latest, -r.gap, fix, starts, FALSE)
      BY <1>1, <2>1 DEF relship_backward
    <3>. QED
      BY <1>1, <2>1, <3>1
  <2>2. CASE ~starts
    <3>1. n.LF = add_gap(latest, -r.gap, fix, starts, FALSE)
      BY <1>1, <2>2 DEF relship_backward
    <3>. QED
      BY <1>1, <2>2, <3>1
  <2>. QED
    BY <2>1, <2>2
<1>4. starts \in BOOLEAN
  OBVIOUS
<1>5. relship_gap_from_network(r, net) = get_duration_in_days(from, to)
  BY DEF relship_gap_from_network
<1>. HIDE DEF from, to, starts, latest
<1>6. get_duration_in_days(from, latest) >= r.gap
  BY <1>2, <1>3, <1>4, FarEnough
<1>7. Day(from) \in Int /\ Day(latest) \in Int /\ Day(to) \in Int
  BY <1>2, Halves
<1>8. Day(latest) <= Day(to)
  BY <1>2, LaterDay
<1>9. /\ get_duration_in_days(from, to) = Day(to) - Day(from)
      /\ get_duration_in_days(from, latest) = Day(latest) - Day(from)
  BY <1>2, DaysBetween
<1>10. Day(to) - Day(from) >= r.gap
  BY <1>6, <1>7, <1>8, <1>9
<1>. QED
  BY <1>5, <1>9, <1>10

\* Floats are right about relationships from the finish of a task: if it ends no
\* later than max_end says, its successor is still far enough away.
THEOREM FloatRespects ==
  ASSUME NEW z \in Int, NEW aa \in Int, NEW zz \in Int, NEW gap \in Int,
         NEW fix \in BOOLEAN, NEW row
  PROVE  /\ z <= max_end(FS, gap, row, fix, aa, zz) => get_duration_in_days(z, aa) >= gap
         /\ z <= max_end(FF, gap, row, fix, aa, zz) => get_duration_in_days(z, zz) >= gap
<1>1. /\ FS # SS /\ FS # FF /\ FS # SF /\ FF # SS /\ FF # SF
  BY DEF FS, SS, FF, SF
<1>2. /\ max_end(FS, gap, row, fix, aa, zz) = add_gap(aa, -gap, fix, FALSE, FALSE)
      /\ max_end(FF, gap, row, fix, aa, zz) = add_gap(zz, -gap, fix, TRUE, FALSE)
  BY <1>1 DEF max_end
<1>3. FALSE \in BOOLEAN /\ TRUE \in BOOLEAN
  OBVIOUS
<1>. QED
  BY <1>2, <1>3, FarEnough, Zenon
-----------------------------------------------------------------------------
(* Durations *)

\* Tasks and milestones keep their duration: the regular task that ends after its
\* duration starts where it did when it is taken back, and whatever half of a day
\* anything else starts at, it lasts its number of workdays.
THEOREM DurationIsKept ==
  ASSUME NEW a \in Int, NEW d \in Int
  PROVE  /\ ~late(a) /\ late(d) =>
              /\ add_duration(a, d, TRUE, TRUE) = a + d
              /\ add_duration(a + d, -d, TRUE, FALSE) = a
         /\ get_duration_in_days(a, add_duration(a, d, FALSE, TRUE)) = Day(d)
<1>1. Day(a) \in Int /\ Day(d) \in Int
  BY Halves
<1>2. ASSUME ~late(a), late(d)
      PROVE  /\ add_duration(a, d, TRUE, TRUE) = a + d
             /\ add_duration(a + d, -d, TRUE, FALSE) = a
  <2>1. a + d = 2 * (Day(a) + Day(d)) - 1 /\ a + d \in Int
    BY <1>1, <1>2, EarlyOrLate
  <2>2. late(a + d)
    BY <1>1, <2>1, DayOf
  <2>3. a + d + -d = a
    OBVIOUS
  <2>. QED
    BY <1>2, <2>2, <2>3 DEF add_duration, late
<1>3. PICK b : b = add_duration(a, d, FALSE, TRUE)
  OBVIOUS
<1>4. b = IF late(d) /\ late(a) THEN a + d + 1 ELSE a + d
  BY <1>3 DEF add_duration, late
<1>5. b \in Int /\ Day(b) = Day(a) + Day(d)
  <2>1. CASE late(d) /\ late(a)
    <3>0. a = 2 * Day(a) - 1 /\ d = 2 * Day(d) - 1 /\ b = a + d + 1
      BY <1>4, <2>1, EarlyOrLate
    <3>1. b = 2 * (Day(a) + Day(d)) - 1
      BY <1>1, <3>0
    <3>. QED
      BY <1>1, <3>1, DayOf
  <2>2. CASE (late(d) /\ ~late(a)) \/ (~late(d) /\ late(a))
    <3>1. b = 2 * (Day(a) + Day(d)) - 1
      BY <1>1, <1>4, <2>2, EarlyOrLate
    <3>. QED
      BY <1>1, <3>1, DayOf
  <2>3. CASE ~late(d) /\ ~late(a)
    <3>1. b = 2 * (Day(a) + Day(d))
      BY <1>1, <1>4, <2>3, EarlyOrLate
    <3>. QED
      BY <1>1, <3>1, DayOf
  <2>. QED
    BY <2>1, <2>2, <2>3
<1>6. get_duration_in_days(a, b) = Day(d)
  BY <1>1, <1>5, DaysBetween
<1>. QED
  BY <1>2, <1>3, <1>6
=============================================================================
