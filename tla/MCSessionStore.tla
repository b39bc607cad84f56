--------------------------- MODULE MCSessionStore ---------------------------
(***************************************************************************)
(* Instances of SessionStore for TLC: two plugin instances, the first with *)
(* two or three calls so that its promise chain matters.                   *)
(***************************************************************************)
EXTENDS SessionStore, TLC

CONSTANTS h1, h2, c1, c2, c3, c4

Hosts == {h1, h2}
Calls3 == {c1, c2, c3}
Calls4 == {c1, c2, c3, c4}
HostOf3 == c1 :> h1 @@ c2 :> h1 @@ c3 :> h2
HostOf4 == c1 :> h1 @@ c2 :> h1 @@ c3 :> h2 @@ c4 :> h2

SaveKinds == {"create", "update"}
CreateAndArchive == {"create", "archive"}

\* The calls of h1 are one of each kind, in either order in its chain.
SettleInit == Init /\ kind[c1] = "create" /\ kind[c2] = "archive"
SettleSpec == SettleInit /\ [][Next]_vars /\ Fairness
=============================================================================
