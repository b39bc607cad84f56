------------------------------- MODULE ToolCalls -------------------------------
(***************************************************************************)
(* What stands between an agent and its tools (the hooks of                *)
(* src/app/runtime.ts call all three): how a line for bash is read         *)
(* (ShellCommands), whether a call may be made (ToolPolicy), and what is   *)
(* left of what it answers (Guardrails).                                   *)
(***************************************************************************)
EXTENDS ToolPolicy, Guardrails

ToolCallsInit == ShellInit /\ PolicyInit /\ GuardrailInit
ToolCallsNext == \/ ShellNext /\ UNCHANGED <<policyVars, guardrailVars>>
                 \/ PolicyNext /\ UNCHANGED <<shellVars, guardrailVars>>
                 \/ GuardrailNext /\ UNCHANGED <<shellVars, policyVars>>
ToolCallsSpec == ToolCallsInit /\ [][ToolCallsNext]_<<shellVars, policyVars, guardrailVars>>

(* A call is read for what it is, governed as that, and answers nothing    *)
(* that is blocked.                                                        *)
ToolCallsAreGuarded == LinesAreReadAsWritten /\ CallsAreGoverned /\ NothingBlockedIsLeft
=============================================================================
