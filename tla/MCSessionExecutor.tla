-------------------------- MODULE MCSessionExecutor --------------------------
(***************************************************************************)
(* A conversation with a subagent and a subagent of its own.               *)
(***************************************************************************)
EXTENDS SessionExecutor, TLC

CONSTANTS main, sub, subsub, edit, task, consent

MCNode == {main, sub, subsub}
MCParent == main :> main @@ sub :> main @@ subsub :> sub
MCNodeOf == edit :> subsub @@ task :> subsub @@ consent :> main
MCParts == edit :> 2 @@ task :> 1 @@ consent :> 1
=============================================================================
