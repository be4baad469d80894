----------------------------- MODULE MCWorkflow -----------------------------
(***************************************************************************)
(* Model checking of the workflow engine.                                  *)
(***************************************************************************)
EXTENDS WorkflowProps, Trees
=============================================================================
