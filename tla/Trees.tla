-------------------------------- MODULE Trees --------------------------------
(***************************************************************************)
(* Schemas to check the workflow engine on.                                *)
(***************************************************************************)
EXTENDS TLC

\* Every kind of component, groups of both kinds
MixedParent ==
  "seq" :> "process" @@ "appr" :> "seq" @@ "exec" :> "seq" @@
  "par" :> "process" @@ "exam" :> "par" @@ "sys" :> "par" @@
  "compl" :> "process" @@ "last" :> "compl"
MixedPosition ==
  "seq" :> 10 @@ "appr" :> 10 @@ "exec" :> 20 @@ "par" :> 20 @@ "exam" :> 10 @@
  "sys" :> 20 @@ "compl" :> 0 @@ "last" :> 10
MixedKind ==
  "seq" :> "sequential" @@ "appr" :> "approval" @@ "exec" :> "execution" @@
  "par" :> "parallel" @@ "exam" :> "examination" @@ "sys" :> "system" @@
  "compl" :> "completion" @@ "last" :> "execution"
MixedComp == DOMAIN MixedKind

\* Tasks side by side and groups in groups, then one more task
TeamParent ==
  "par" :> "process" @@ "a" :> "par" @@ "b" :> "par" @@ "seq" :> "par" @@
  "c" :> "seq" @@ "next" :> "process" @@ "compl" :> "process" @@ "last" :> "compl"
TeamPosition ==
  "par" :> 10 @@ "a" :> 10 @@ "b" :> 20 @@ "seq" :> 30 @@ "c" :> 10 @@
  "next" :> 20 @@ "compl" :> 0 @@ "last" :> 10
TeamKind ==
  "par" :> "parallel" @@ "a" :> "approval" @@ "b" :> "examination" @@
  "seq" :> "sequential" @@ "c" :> "execution" @@ "next" :> "execution" @@
  "compl" :> "completion" @@ "last" :> "execution"
TeamComp == DOMAIN TeamKind

\* A group without components between two others; no completion tasks
GapParent ==
  "first" :> "process" @@ "gap" :> "process" @@ "par" :> "process" @@
  "sys" :> "par" @@ "task" :> "par" @@ "compl" :> "process"
GapPosition ==
  "first" :> 10 @@ "gap" :> 20 @@ "par" :> 30 @@ "sys" :> 10 @@ "task" :> 20 @@
  "compl" :> 0
GapKind ==
  "first" :> "execution" @@ "gap" :> "parallel" @@ "par" :> "parallel" @@
  "sys" :> "system" @@ "task" :> "execution" @@ "compl" :> "completion"
GapComp == DOMAIN GapKind

\* Groups in groups of every kind, whose components may be skipped
DeepParent ==
  "outer" :> "process" @@ "inner" :> "outer" @@ "a" :> "inner" @@ "b" :> "inner" @@
  "z" :> "outer" @@ "par" :> "process" @@ "seq" :> "par" @@ "c" :> "seq" @@ "d" :> "seq" @@
  "sys" :> "par" @@ "fin" :> "process" @@ "compl" :> "process" @@ "end" :> "compl" @@
  "x" :> "end" @@ "y" :> "end"
DeepPosition ==
  "outer" :> 10 @@ "inner" :> 10 @@ "a" :> 10 @@ "b" :> 20 @@
  "z" :> 20 @@ "par" :> 20 @@
  "seq" :> 10 @@ "c" :> 10 @@ "d" :> 20 @@ "sys" :> 20 @@ "fin" :> 30 @@ "compl" :> 0 @@
  "end" :> 10 @@ "x" :> 10 @@ "y" :> 20
DeepKind ==
  "outer" :> "sequential" @@ "inner" :> "sequential" @@ "a" :> "execution" @@
  "b" :> "approval" @@ "z" :> "execution" @@ "par" :> "parallel" @@ "seq" :> "sequential" @@
  "c" :> "execution" @@ "d" :> "execution" @@ "sys" :> "system" @@ "fin" :> "approval" @@
  "compl" :> "completion" @@ "end" :> "sequential" @@ "x" :> "execution" @@
  "y" :> "execution"
DeepComp == DOMAIN DeepKind
=============================================================================
