-------------------------------- MODULE Panels --------------------------------
(***************************************************************************)
(* The two panels that the plugin registers in the terminal                *)
(* (src/tui/index.tsx): the one of the workflow and the one of the rules.  *)
(* They live in one process and share nothing.                             *)
(***************************************************************************)
EXTENDS RulesSidebar, SessionPanel

PanelsInit == SidebarInit /\ PanelInit
PanelsNext == \/ SidebarNext /\ UNCHANGED panelVars
              \/ PanelNext /\ UNCHANGED sidebarVars
PanelsSpec == PanelsInit /\ [][PanelsNext]_<<sidebarVars, panelVars>>

(* Both panels of the terminal show the session that is open, in its last  *)
(* state, with names that tell its rules apart, whatever loads overlap or  *)
(* fail.                                                                   *)
PanelsShowTheOpen ==
    ShownIsOfTheTarget /\ NoRefreshIsLost /\ OneLoadAtATime /\ NamesTellRulesApart
    /\ OnlyTheOpenIsPutUp /\ AtRestItIsCurrent
=============================================================================
