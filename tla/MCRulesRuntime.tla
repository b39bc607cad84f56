--------------------------- MODULE MCRulesRuntime ---------------------------
(***************************************************************************)
(* Three rules: one without conditions, one of a file, whose content a     *)
(* hook also shows, and one of an agent or a file, which is ephemeral      *)
(* until the file has been seen.                                           *)
(***************************************************************************)
EXTENDS RulesRuntime, TLC

Hook(type, tool, block) ==
    [type |-> type, tool |-> tool, args |-> {"any"}, block |-> block]

Always == [identity |-> "/always", name |-> "Always", path |-> "always", conditions |-> <<>>,
           match |-> "any", hooks |-> {}]
OfFile == [identity |-> "/ofFile", name |-> "OfFile", path |-> "ofFile",
           conditions |-> "globs" :> {"src/f"}, match |-> "any",
           hooks |-> {Hook("PostToolUse", "edit", FALSE),
                      Hook("PreToolUse", "bash", FALSE)}]
OfAgent == [identity |-> "/ofAgent", name |-> "OfAgent", path |-> "ofAgent",
            conditions |-> "agent" :> {"agent"} @@ "globs" :> {"src/f"},
            match |-> "any", hooks |-> {Hook("PreToolUse", "edit", TRUE)}]

MCSnapshots == {Always, OfFile, OfAgent}

MCCalls == {[tool |-> "edit", args |-> "any",
             files |-> {[path |-> "src/f", content |-> {}]}],
            [tool |-> "bash", args |-> "any", files |-> {}]}

CONSTANTS loop, tool
MCServes == loop :> {"chat", "dispatch"} @@ tool :> {"chat", "before", "after"}

MCUserMessages == <<{"m1"}, {"m2"}>>
MCPrompts == {<<[text |-> "go", slash |-> FALSE]>>}
MCHistories ==
    {<<>>, <<[id |-> {"old"}, files |-> {}, prompt |-> <<>>,
              parts |-> {[kind |-> "legacy", owner |-> {"old"},
                          rules |-> {"always"}, hooks |-> {}]}]>>}
=============================================================================
