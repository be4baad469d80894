------------------------------- MODULE MCErrors -------------------------------
(***************************************************************************)
(* Model checking of the workflow engine with its record of errors.        *)
(***************************************************************************)
EXTENDS WorkflowErrors, Trees
=============================================================================
