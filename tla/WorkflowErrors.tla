--------------------------- MODULE WorkflowErrors ---------------------------
(***************************************************************************)
(* The workflow engine with a record of errors that somebody saw: an       *)
(* operation ended with an exception, which a session shows to its user,   *)
(* or a job failed, which pauses the process and notifies its owner.       *)
(***************************************************************************)
EXTENDS WorkflowProps

VARIABLE errors

\* The exception reached the caller of the operation
Died(a) == (RefuseState(a) \/ RaiseAgain(a)) /\ calls'[a] = <<>>

ErrorInit == Init /\ errors = FALSE
ErrorNext == Next /\ errors' = (errors \/ \E a \in Actor : Died(a) \/ FailJob(a))
ErrorSpec == ErrorInit /\ [][ErrorNext]_<<vars, errors>>

\* However operations of several actors overlap, a workflow does not stop
\* without an error that somebody saw.
NoSilentStall == errors \/ NoStall

\* Nor do operations that refuse and close tasks at the same time leave running
\* components below ended groups or in an ended process, start the completion
\* group early or turn a refusal into a success.
NoSilentDamage ==
  errors \/ (Nested /\ EndedClean /\ CompletionLast /\ CancelSticks)
=============================================================================
