------------------------------ MODULE MCWorkflow ------------------------------
(***************************************************************************)
(* Workflow.tla on small instances.  The retry budgets are 1 or 2 in place *)
(* of 5, so that both sides of exhaustion are reached.                     *)
(***************************************************************************)
EXTENDS Workflow, TLC

OneTask == {1}
TwoTasks == {1, 2}
OneGate == {"review"}
TwoGates == {"review", "qa"}
AnyGate == {"review", "qa", "build"}

Calls == Permutations(Call)

NoFeature == {}
Crashes == {"edits", "errors", "restart", "expiry"}
Controlled == {"controller", "late", "errors"}
Replanned == {"edits", "replan"}
Expiring == {"edits", "expiry"}
=============================================================================
