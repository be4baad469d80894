------------------------------ MODULE Schedule ------------------------------
(***************************************************************************)
(* What the workflow engine promises about the order of the work: a        *)
(* component of a process or of a sequential task group starts only when   *)
(* all components before it have ended, and what has ended stays ended     *)
(* until the whole schema is reset.  Who decides it, in how many steps and *)
(* what else happens meanwhile is left open; module Workflow implements    *)
(* it.                                                                     *)
(***************************************************************************)
EXTENDS Naturals

CONSTANTS Comp, Root, Completion, Parent, Position, Kind

VARIABLE status

Terminal == {"COMPLETED", "REJECTED", "DISCARDED"}
Status   == {"NEW", "EXECUTION"} \cup Terminal

\* c and d are worked off one after the other, c first
Precedes(c, d) ==
  /\ Completion \notin {c, d} /\ Parent[c] = Parent[d] /\ Position[c] < Position[d]
  /\ Parent[c] = Root \/ Kind[Parent[c]] = "sequential"

Start(c) ==
  /\ status[c] = "NEW"
  /\ \A b \in Comp : Precedes(b, c) => status[b] \in Terminal
  /\ status' = [status EXCEPT ![c] = "EXECUTION"]

Skip(c) ==
  status[c] = "NEW" /\ status' = [status EXCEPT ![c] = "DISCARDED"]

End(c) ==
  /\ status[c] = "EXECUTION"
  /\ \E s \in Terminal : status' = [status EXCEPT ![c] = s]

Reset == status' = [c \in Comp |-> "NEW"]

Init == status = [c \in Comp |-> "NEW"]
Next == Reset \/ \E c \in Comp : Start(c) \/ Skip(c) \/ End(c)
Spec == Init /\ [][Next]_status

TypeOK == status \in [Comp -> Status]

\* A component that ran at all found all components before it ended, and
\* they still are.
InOrder ==
  \A c, d \in Comp :
    Precedes(c, d) /\ status[d] \in {"EXECUTION", "COMPLETED", "REJECTED"}
      => status[c] \in Terminal

\* Of the components of a process or of a sequential group at most one runs.
OneAtATime ==
  \A c, d \in Comp :
    Precedes(c, d) => ~(status[c] = "EXECUTION" /\ status[d] = "EXECUTION")
=============================================================================
