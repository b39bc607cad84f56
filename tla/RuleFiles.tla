------------------------------- MODULE RuleFiles -------------------------------
(***************************************************************************)
(* The two kinds of files that the rules of a session come from and go to: *)
(* the rules themselves (src/rules/rule-discovery.ts) and the file that    *)
(* says which of them matched (src/rules/matched-rules-state.ts).          *)
(***************************************************************************)
EXTENDS RuleCache, MatchedRules

RuleFilesInit == RuleCacheInit /\ MatchedInit
RuleFilesNext == \/ RuleCacheNext /\ UNCHANGED matchedVars
                 \/ MatchedNext /\ UNCHANGED ruleCacheVars
RuleFilesSpec == RuleFilesInit /\ [][RuleFilesNext]_<<ruleCacheVars, matchedVars>>

(* No rule is dropped between its file and the sidebar: not by a load that *)
(* cannot read another file, not by a merge that meets a write.            *)
NoRuleIsDropped == NoRuleIsSkipped /\ MergesSurvive
=============================================================================
