--------------------------- MODULE Schedule_proofs ---------------------------
(***************************************************************************)
(* Every implementation of Schedule works its components off in order, one *)
(* at a time.                                                              *)
(***************************************************************************)
EXTENDS Schedule, TLAPS

IInv == TypeOK /\ InOrder

LEMMA InitIInv == Init => IInv
BY DEF Init, IInv, TypeOK, InOrder, Status, Precedes

LEMMA NextIInv == IInv /\ [Next]_status => IInv'
<1>. SUFFICES ASSUME IInv, [Next]_status PROVE IInv'
  OBVIOUS
<1>. USE DEF IInv, TypeOK, InOrder, Status, Terminal
<1>1. CASE Reset
  BY <1>1 DEF Reset
<1>2. ASSUME NEW c \in Comp, Start(c) PROVE IInv'
  BY <1>2 DEF Start
<1>3. ASSUME NEW c \in Comp, Skip(c) PROVE IInv'
  BY <1>3 DEF Skip
<1>4. ASSUME NEW c \in Comp, End(c) PROVE IInv'
  BY <1>4 DEF End
<1>5. CASE UNCHANGED status
  BY <1>5
<1>. QED
  BY <1>1, <1>2, <1>3, <1>4, <1>5 DEF Next

\* The components of a process and of a sequential group run in the order of
\* their positions (NextSibling and the propagate methods), for every schema.
THEOREM ScheduleInOrder == Spec => []InOrder
<1>1. IInv => InOrder
  BY DEF IInv
<1>. QED
  BY <1>1, InitIInv, NextIInv, PTL DEF Spec

\* No two of them ever run at the same time.
THEOREM ScheduleOneAtATime == Spec => []OneAtATime
<1>1. IInv => OneAtATime
  BY DEF IInv, InOrder, OneAtATime, Terminal
<1>. QED
  BY <1>1, InitIInv, NextIInv, PTL DEF Spec
=============================================================================
