------------------------ MODULE SessionExecutor_proofs ------------------------
(***************************************************************************)
(* What holds of SessionExecutor for any conversation, any calls, any      *)
(* number of failures and of calls of clear().                             *)
(***************************************************************************)
EXTENDS SessionExecutor, SequenceTheorems, TLAPS

USE NodeAssumption, OutsideAssumption, NoneAssumption

-----------------------------------------------------------------------------
(* Types.                                                                  *)

\* A hop to a node keeps the walk well typed.
LEMMA HopType ==
    ASSUME TypeOK, NEW c \in Call, NEW p \in Node,
           NEW known \in [Node -> Node \cup {None}], Hop(c, p, known)
    PROVE  /\ cache' \in [Node -> Node \cup {None}]
           /\ pc' \in [Call -> PC]
           /\ root' \in [Call -> Node]
           /\ walked' \in [Call -> SUBSET Node]
  <1>1. CASE p \notin walked[c]
    <2>1. walked[c] \cup {p} \in SUBSET Node
      BY DEF TypeOK
    <2>2. walked' = [walked EXCEPT ![c] = walked[c] \cup {p}]
      BY <1>1 DEF Hop
    <2>3. walked' \in [Call -> SUBSET Node]
      BY <2>1, <2>2 DEF TypeOK
    <2>4. QED BY <1>1, <2>3 DEF TypeOK, Hop, PC
  <1>2. CASE p \in walked[c]
    BY <1>2 DEF TypeOK, Hop, PC
  <1>3. QED BY <1>1, <1>2

LEMMA SettleType ==
    ASSUME TypeOK, NEW c \in Call, NEW outcome \in Settled, Settle(c, outcome)
    PROVE  pc' \in [Call -> PC] /\ tail' \in [Node -> Call \cup {None}]
  BY DEF TypeOK, Settle, PC

LEMMA TypeInit == Init => TypeOK
  <1> SUFFICES ASSUME Init PROVE TypeOK
    OBVIOUS
  <1>1. [rev |-> 0, log |-> <<>>] \in SessionFile
    BY DEF SessionFile
  <1>2. QED BY <1>1 DEF Init, TypeOK, PC

\* A function on 1..n is a sequence.
LEMMA FunctionIsSeq ==
    ASSUME NEW S, NEW n \in Nat, NEW f \in [1..n -> S]
    PROVE  f \in Seq(S)
  <1>1. [1..n -> S] \in {[1..m -> S] : m \in Nat}
    OBVIOUS
  <1>2. f \in UNION {[1..m -> S] : m \in Nat}
    BY <1>1, Zenon
  <1>3. QED BY <1>2, SeqDef, Zenon

\* What a call writes is a session.
LEMMA SavedType ==
    ASSUME TypeOK, NEW c \in Call
    PROVE  [rev |-> base[c].rev + 1, log |-> base[c].log \o Change(c)] \in SessionFile
  <1>1. base[c].rev \in Nat /\ base[c].log \in Seq([by : Call, part : Nat])
    BY DEF TypeOK, SessionFile
  <1>2. Change(c) \in Seq([by : Call, part : Nat])
    <2>1. Change(c) \in [1..made[c] -> [by : Call, part : Nat]]
      BY DEF Change
    <2>2. made[c] \in Nat
      BY DEF TypeOK
    <2>3. QED BY <2>1, <2>2, FunctionIsSeq
  <1>3. base[c].log \o Change(c) \in Seq([by : Call, part : Nat])
    BY <1>1, <1>2
  <1>4. QED BY <1>1, <1>3 DEF SessionFile

LEMMA TypeStep == TypeOK /\ [Next]_vars => TypeOK'
  <1> SUFFICES ASSUME TypeOK, [Next]_vars PROVE TypeOK'
    OBVIOUS
  <1>1. ASSUME NEW c \in Call, Walk(c) PROVE TypeOK'
    <2>1. cache[root[c]] \in Node /\ cache \in [Node -> Node \cup {None}]
      BY <1>1 DEF TypeOK, Walk
    <2>2. QED BY <1>1, <2>1, HopType DEF TypeOK, Walk, resolving
  <1>2. ASSUME NEW c \in Call, AskHost(c) PROVE TypeOK'
    BY <1>2 DEF TypeOK, AskHost, PC, resolving
  <1>3. ASSUME NEW c \in Call, HostAnswers(c) PROVE TypeOK'
    <2>1. /\ Parent[root[c]] \in Node
          /\ [cache EXCEPT ![root[c]] = Parent[root[c]]] \in [Node -> Node \cup {None}]
      BY DEF TypeOK
    <2>2. QED BY <1>3, <2>1, HopType DEF TypeOK, HostAnswers, Told, resolving
  <1>4. ASSUME NEW c \in Call, HostFails(c) PROVE TypeOK'
    <2>1. /\ root[c] \in Node
          /\ [cache EXCEPT ![root[c]] = root[c]] \in [Node -> Node \cup {None}]
      BY DEF TypeOK
    <2>2. CASE Swallows
      BY <1>4, <2>1, <2>2, HopType DEF TypeOK, HostFails, Told, resolving
    <2>3. CASE ~ Swallows
      BY <1>4, <2>3 DEF TypeOK, HostFails, Fallback, PC, resolving
    <2>4. QED BY <2>2, <2>3
  <1>5. ASSUME NEW c \in Call, Join(c) PROVE TypeOK'
    BY <1>5 DEF TypeOK, Join, PC
  <1>6. ASSUME NEW c \in Call, Load(c) PROVE TypeOK'
    BY <1>6, SettleType DEF TypeOK, Load, PC, Inside, Settled
  <1>7. ASSUME NEW c \in Call, LoadOutside(c) PROVE TypeOK'
    BY <1>7 DEF TypeOK, LoadOutside, PC, Inside, Settled
  <1>8. ASSUME NEW c \in Call, Act(c) PROVE TypeOK'
    BY <1>8 DEF TypeOK, Act
  <1>9. ASSUME NEW c \in Call, Return(c) PROVE TypeOK'
    BY <1>9, SettleType DEF TypeOK, Return, PC, Inside, Settled
  <1>10. ASSUME NEW c \in Call, Throw(c) PROVE TypeOK'
    BY <1>10, SettleType DEF TypeOK, Throw, Settled
  <1>11. ASSUME NEW c \in Call, Save(c) PROVE TypeOK'
    BY <1>11, SettleType, SavedType DEF TypeOK, Save, PC, Inside, Settled
  <1>12. ASSUME NEW c \in Call, SaveRefused(c) PROVE TypeOK'
    BY <1>12, SettleType DEF TypeOK, SaveRefused, Settled
  <1>13. ASSUME NEW c \in Call, RunDeferred(c) PROVE TypeOK'
    BY <1>13, SettleType DEF TypeOK, RunDeferred, Settled
  <1>14. CASE Clear
    BY <1>14 DEF TypeOK, Clear
  <1>15. CASE UNCHANGED vars
    BY <1>15 DEF TypeOK, vars
  <1>16. QED
    BY <1>1, <1>2, <1>3, <1>4, <1>5, <1>6, <1>7, <1>8, <1>9, <1>10, <1>11,
       <1>12, <1>13, <1>14, <1>15 DEF Next, Step

\* Every variable keeps the range its code representation has.
THEOREM ExecutorTypeCorrect == Spec => []TypeOK
  BY TypeInit, TypeStep, PTL DEF Spec

-----------------------------------------------------------------------------
(* The memoised hops.                                                      *)

\* A node with its parents, their parents and so on.
Above(n) ==
    {a \in Node : \A nodes \in SUBSET Node :
                     n \in nodes /\ (\A m \in nodes : Parent[m] \in nodes) => a \in nodes}

LEMMA AboveItself ==
    ASSUME NEW n \in Node
    PROVE  n \in Above(n) /\ Parent[n] \in Above(n) /\ Above(n) \subseteq Node
  BY DEF Above

LEMMA AboveAbove ==
    ASSUME NEW n \in Node, NEW a \in Above(n)
    PROVE  Above(a) \subseteq Above(n)
  <1>1. \A m \in Above(n) : Parent[m] \in Above(n)
    BY DEF Above
  <1>2. QED BY <1>1 DEF Above

LEMMA AboveSplits ==
    ASSUME NEW n \in Node
    PROVE  Above(n) = {n} \cup Above(Parent[n])
  <1> DEFINE rest == {n} \cup Above(Parent[n])
  <1>1. /\ n \in rest /\ rest \in SUBSET Node
        /\ \A m \in rest : Parent[m] \in rest
    <2>1. Parent[n] \in Node
      OBVIOUS
    <2>2. Parent[n] \in Above(Parent[n])
      BY <2>1, AboveItself
    <2>3. \A m \in Above(Parent[n]) : Parent[m] \in Above(Parent[n])
      BY <2>1 DEF Above
    <2>4. QED BY <2>1, <2>2, <2>3 DEF Above
  <1>2. Above(n) \subseteq rest
    <2> HIDE DEF rest
    <2>1. QED BY <1>1 DEF Above
  <1>3. rest \subseteq Above(n)
    BY AboveItself, AboveAbove
  <1>4. QED BY <1>2, <1>3

LEMMA AboveARoot ==
    ASSUME NEW r \in Node, Parent[r] = r
    PROVE  Above(r) = {r}
  <1>1. {r} \in SUBSET Node /\ \A m \in {r} : Parent[m] \in {r}
    OBVIOUS
  <1>2. Above(r) \subseteq {r}
    BY <1>1 DEF Above
  <1>3. QED BY <1>2, AboveItself

\* A root above a node is above every node between them.
LEMMA RootIsAboveAll ==
    ASSUME NEW n \in Node, NEW r \in Above(n), Parent[r] = r, NEW x \in Above(n)
    PROVE  r \in Above(x)
  <1> DEFINE below == {y \in Node : r \in Above(y)}
  <1>1. ASSUME NEW y \in below PROVE Parent[y] \in below
    <2>1. y \in Node /\ r \in Above(y) /\ r \in Node
      BY DEF Above
    <2>2. CASE r = y
      BY <2>1, <2>2
    <2>3. CASE r # y
      BY <2>1, <2>3, AboveSplits
    <2>4. QED BY <2>2, <2>3
  <1>2. below \in SUBSET Node /\ n \in below
    OBVIOUS
  <1>3. x \in below
    <2> HIDE DEF below
    <2>1. QED BY <1>1, <1>2 DEF Above
  <1>4. QED BY <1>3

\* Parents that form no circle order the nodes.
LEMMA NoCircle ==
    ASSUME Forest, NEW n \in Node, NEW a \in Above(n), n \in Above(a)
    PROVE  a = n
  <1> SUFFICES ASSUME a # n PROVE FALSE
    OBVIOUS
  <1> DEFINE circle == {x \in Above(n) : n \in Above(x)}
  <1>1. n \in circle /\ circle \subseteq Node
    BY AboveItself
  <1>2. ASSUME NEW x \in circle
        PROVE  Parent[x] \in circle /\ Parent[x] # x
    <2>1. x \in Node /\ x \in Above(n) /\ n \in Above(x) /\ Parent[x] \in Node /\ a \in Node
      BY AboveItself
    <2>2. Parent[x] \in Above(n)
      BY <2>1, AboveItself, AboveAbove
    <2>3. CASE x # n
      <3>1. n \in Above(Parent[x])
        BY <2>1, <2>3, AboveSplits
      <3>2. Parent[x] # x
        BY <2>1, <2>3, AboveARoot
      <3>3. QED BY <2>2, <3>1, <3>2
    <2>4. CASE x = n
      <3>1. a \in Above(Parent[n])
        BY <2>1, AboveSplits
      <3>2. n \in Above(Parent[n])
        BY <2>1, <3>1, AboveAbove
      <3>3. Parent[n] # n
        BY AboveARoot
      <3>4. QED BY <2>2, <2>4, <3>2, <3>3
    <2>5. QED BY <2>3, <2>4
  <1>3. circle \in (SUBSET Node) \ {{}}
    BY <1>1
  <1> HIDE DEF circle
  <1>4. QED BY <1>2, <1>3 DEF Forest

\* From n up to x every hop is memoised.
KnownUpTo(known, n, x) == \A a \in Above(n) : known[a] # None \/ a \in Above(x)

\* A memoised hop leads upwards, over nodes whose own hops are memoised.
HopsInv(known) ==
    \A n \in Node : known[n] # None =>
        /\ known[n] \in Above(n)
        /\ KnownUpTo(known, n, known[n])
        /\ known[n] = n => Parent[n] = n

\* So does a walk that is under way.
WalksInv ==
    \A c \in Call : pc[c] \in {"walking", "asking"} =>
        /\ NodeOf[c] \in walked[c] /\ root[c] \in walked[c]
        /\ \A n \in walked[c] : root[c] \in Above(n) /\ KnownUpTo(cache, n, root[c])

\* One that is over found the root of its node, or gave up.
RootsInv ==
    \A c \in Call : pc[c] \notin {"walking", "asking"} /\ root[c] # NodeOf[c] =>
        /\ Parent[root[c]] = root[c] /\ root[c] \in Above(NodeOf[c])
        /\ cache[root[c]] # None /\ KnownUpTo(cache, NodeOf[c], root[c])

WalkInv == HopsInv(cache) /\ WalksInv /\ RootsInv

\* What is memoised stays memoised.
Extends(old, new) == \A n \in Node : old[n] # None => new[n] # None

LEMMA KnownStays ==
    ASSUME NEW old, NEW new, Extends(old, new), NEW n \in Node, NEW x, KnownUpTo(old, n, x)
    PROVE  KnownUpTo(new, n, x)
  BY AboveItself DEF Extends, KnownUpTo

\* A hop, to a parent that is memoised by then.
LEMMA HopKeeps ==
    ASSUME Forest, TypeOK, WalkInv, NEW c \in Call, pc[c] \in {"walking", "asking"},
           NEW p \in Node, NEW known \in [Node -> Node \cup {None}],
           Extends(cache, known), HopsInv(known), known[root[c]] = p, Hop(c, p, known)
    PROVE  WalkInv'
  <1> DEFINE x == root[c]
  <1>1. /\ x \in Node /\ x \in walked[c] /\ walked[c] \subseteq Node /\ NodeOf[c] \in walked[c]
        /\ p # None
    BY DEF TypeOK, WalkInv, WalksInv
  <1>2. p \in Above(x) /\ KnownUpTo(known, x, p) /\ (p = x => Parent[x] = x)
    BY <1>1 DEF HopsInv
  <1>3. \A n \in walked[c] : x \in Above(n) /\ KnownUpTo(known, n, x)
    <2>1. \A n \in walked[c] : x \in Above(n) /\ KnownUpTo(cache, n, x)
      BY DEF WalkInv, WalksInv
    <2>2. QED BY <1>1, <2>1, KnownStays
  <1>4. \A n \in walked[c] : p \in Above(n) /\ KnownUpTo(known, n, p)
    <2> SUFFICES ASSUME NEW n \in walked[c] PROVE p \in Above(n) /\ KnownUpTo(known, n, p)
      OBVIOUS
    <2>1. x \in Above(n) /\ n \in Node
      BY <1>1, <1>3
    <2>2. Above(x) \subseteq Above(n)
      BY <2>1, AboveAbove
    <2>3. QED BY <1>2, <1>3, <2>2 DEF KnownUpTo
  <1>5. CASE p \notin walked[c]
    <2>1. /\ pc' = [pc EXCEPT ![c] = "walking"] /\ root' = [root EXCEPT ![c] = p]
          /\ walked' = [walked EXCEPT ![c] = walked[c] \cup {p}] /\ cache' = known
      BY <1>5 DEF Hop
    <2>2. HopsInv(cache)'
      BY <2>1 DEF HopsInv, KnownUpTo
    <2>3. WalksInv'
      <3> SUFFICES ASSUME NEW d \in Call, pc'[d] \in {"walking", "asking"}
                   PROVE  /\ NodeOf[d] \in walked'[d] /\ root'[d] \in walked'[d]
                          /\ \A n \in walked'[d] : root'[d] \in Above(n)
                                                  /\ KnownUpTo(cache', n, root'[d])
        BY DEF WalksInv, KnownUpTo
      <3>1. CASE d = c
        <4>1. p \in Above(p) /\ KnownUpTo(known, p, p)
          BY AboveItself DEF KnownUpTo
        <4>2. root'[c] = p /\ walked'[c] = walked[c] \cup {p}
          BY <2>1 DEF TypeOK
        <4>3. QED BY <1>1, <1>4, <2>1, <3>1, <4>1, <4>2
      <3>2. CASE d # c
        <4>1. pc'[d] = pc[d] /\ root'[d] = root[d] /\ walked'[d] = walked[d] /\ walked[d] \subseteq Node
          BY <2>1, <3>2 DEF TypeOK
        <4>2. /\ NodeOf[d] \in walked[d] /\ root[d] \in walked[d]
              /\ \A n \in walked[d] : root[d] \in Above(n) /\ KnownUpTo(cache, n, root[d])
          BY <4>1 DEF WalkInv, WalksInv
        <4>3. QED BY <2>1, <4>1, <4>2, KnownStays
      <3>3. QED BY <3>1, <3>2
    <2>4. RootsInv'
      <3> SUFFICES ASSUME NEW d \in Call, pc'[d] \notin {"walking", "asking"}, root'[d] # NodeOf[d]
                   PROVE  /\ Parent[root'[d]] = root'[d] /\ root'[d] \in Above(NodeOf[d])
                          /\ cache'[root'[d]] # None /\ KnownUpTo(cache', NodeOf[d], root'[d])
        BY DEF RootsInv, KnownUpTo
      <3>1. d # c /\ pc'[d] = pc[d] /\ root'[d] = root[d] /\ root[d] \in Node
        BY <2>1 DEF TypeOK
      <3>2. /\ Parent[root[d]] = root[d] /\ root[d] \in Above(NodeOf[d])
            /\ cache[root[d]] # None /\ KnownUpTo(cache, NodeOf[d], root[d])
        BY <3>1 DEF WalkInv, RootsInv
      <3>3. QED BY <2>1, <3>1, <3>2, KnownStays DEF Extends
    <2>5. QED BY <2>2, <2>3, <2>4 DEF WalkInv
  <1>6. CASE p \in walked[c]
    <2>1. p = x
      BY <1>1, <1>2, <1>3, <1>6, NoCircle
    <2>2. Parent[p] = p /\ Above(p) = {p}
      BY <1>2, <2>1, AboveARoot
    <2>3. /\ pc' = [pc EXCEPT ![c] = "resolved"] /\ root' = root /\ walked' = walked
          /\ cache' = [n \in Node |-> IF n \in walked[c] THEN p ELSE known[n]]
      BY <1>6, <2>1 DEF Hop, TypeOK
    <2>4. Extends(known, cache') /\ Extends(cache, cache')
      BY <1>1, <2>3 DEF Extends
    <2>5. HopsInv(cache)'
      <3> SUFFICES ASSUME NEW n \in Node, cache'[n] # None
                   PROVE  /\ cache'[n] \in Above(n)
                          /\ KnownUpTo(cache', n, cache'[n])
                          /\ cache'[n] = n => Parent[n] = n
        BY DEF HopsInv, KnownUpTo
      <3>1. CASE n \in walked[c]
        <4>1. cache'[n] = p
          BY <2>3, <3>1
        <4>2. QED BY <1>4, <2>2, <2>4, <3>1, <4>1, KnownStays
      <3>2. CASE n \notin walked[c]
        <4>1. cache'[n] = known[n]
          BY <2>3, <3>2
        <4>2. QED BY <2>4, <4>1, KnownStays DEF HopsInv
      <3>3. QED BY <3>1, <3>2
    <2>6. WalksInv'
      <3> SUFFICES ASSUME NEW d \in Call, pc'[d] \in {"walking", "asking"}
                   PROVE  /\ NodeOf[d] \in walked[d] /\ root[d] \in walked[d]
                          /\ \A n \in walked[d] : root[d] \in Above(n) /\ KnownUpTo(cache', n, root[d])
        BY <2>3 DEF WalksInv, KnownUpTo
      <3>1. d # c /\ pc'[d] = pc[d] /\ walked[d] \subseteq Node
        BY <2>3 DEF TypeOK
      <3>2. QED BY <2>4, <3>1, KnownStays DEF WalkInv, WalksInv
    <2>7. RootsInv'
      <3> SUFFICES ASSUME NEW d \in Call, pc'[d] \notin {"walking", "asking"}, root[d] # NodeOf[d]
                   PROVE  /\ Parent[root[d]] = root[d] /\ root[d] \in Above(NodeOf[d])
                          /\ cache'[root[d]] # None /\ KnownUpTo(cache', NodeOf[d], root[d])
        BY <2>3 DEF RootsInv, KnownUpTo
      <3>1. CASE d = c
        <4>1. cache'[p] = p
          BY <1>6, <2>3
        <4>2. KnownUpTo(cache', NodeOf[c], p)
          BY <1>1, <1>4, <2>4, KnownStays
        <4>3. QED BY <1>1, <1>4, <2>1, <2>2, <3>1, <4>1, <4>2
      <3>2. CASE d # c
        <4>1. pc'[d] = pc[d] /\ root[d] \in Node
          BY <2>3, <3>2 DEF TypeOK
        <4>2. QED BY <2>4, <4>1, KnownStays DEF WalkInv, RootsInv, Extends
      <3>3. QED BY <3>1, <3>2
    <2>8. QED BY <2>5, <2>6, <2>7 DEF WalkInv
  <1>7. QED BY <1>5, <1>6

LEMMA WalkStep ==
    ~ Swallows /\ Forest /\ TypeOK /\ WalkInv /\ [Next]_vars => WalkInv'
  <1> SUFFICES ASSUME ~ Swallows, Forest, TypeOK, WalkInv, [Next]_vars
               PROVE  WalkInv'
    OBVIOUS
  <1>1. ASSUME NEW c \in Call, Walk(c) PROVE WalkInv'
    <2>1. cache \in [Node -> Node \cup {None}] /\ cache[root[c]] \in Node
      BY <1>1 DEF Walk, TypeOK
    <2>2. Extends(cache, cache)
      BY DEF Extends
    <2>3. QED BY <1>1, <2>1, <2>2, HopKeeps DEF Walk, WalkInv
  <1>2. ASSUME NEW c \in Call, HostAnswers(c) PROVE WalkInv'
    <2> DEFINE p == Parent[root[c]]
               known == [cache EXCEPT ![root[c]] = p]
    <2>1. known \in [Node -> Node \cup {None}] /\ p \in Node /\ root[c] \in Node /\ known[root[c]] = p
      BY DEF TypeOK
    <2>2. Extends(cache, known)
      BY <2>1 DEF Extends, TypeOK
    <2>3. HopsInv(known)
      <3> SUFFICES ASSUME NEW n \in Node, known[n] # None
                   PROVE  /\ known[n] \in Above(n)
                          /\ KnownUpTo(known, n, known[n])
                          /\ known[n] = n => Parent[n] = n
        BY DEF HopsInv
      <3>1. CASE n = root[c]
        <4>1. known[n] = Parent[n]
          BY <2>1, <3>1
        <4>2. KnownUpTo(known, n, Parent[n])
          BY <4>1, AboveSplits DEF KnownUpTo
        <4>3. QED BY <4>1, <4>2, AboveItself
      <3>2. CASE n # root[c]
        <4>1. known[n] = cache[n]
          BY <3>2 DEF TypeOK
        <4>2. cache[n] \in Above(n) /\ KnownUpTo(cache, n, cache[n]) /\ (cache[n] = n => Parent[n] = n)
          BY <4>1 DEF WalkInv, HopsInv
        <4>3. KnownUpTo(known, n, cache[n])
          BY <2>2, <4>2, KnownStays
        <4>4. QED BY <4>1, <4>2, <4>3
      <3>3. QED BY <3>1, <3>2
    <2>4. Hop(c, p, known) /\ pc[c] = "asking"
      BY <1>2 DEF HostAnswers, Told
    <2> HIDE DEF known, p
    <2>5. QED BY <2>1, <2>2, <2>3, <2>4, HopKeeps
  \* Of the calls whose walk goes on nothing changes, and none but c is over.
  <1>3. ASSUME NEW c \in Call, UNCHANGED <<cache, walked>>,
               root' = root \/ root' = [root EXCEPT ![c] = NodeOf[c]],
               \A d \in Call : pc'[d] \in {"walking", "asking"} =>
                                  pc[d] \in {"walking", "asking"} /\ root'[d] = root[d],
               \A d \in Call : pc[d] \in {"walking", "asking"} =>
                                  pc'[d] \in {"walking", "asking"} \/ root'[d] = NodeOf[d]
        PROVE  WalkInv'
    <2>1. HopsInv(cache)'
      BY <1>3 DEF WalkInv, HopsInv, KnownUpTo
    <2>2. WalksInv'
      BY <1>3 DEF WalkInv, WalksInv, KnownUpTo
    <2>3. RootsInv'
      <3> SUFFICES ASSUME NEW d \in Call, pc'[d] \notin {"walking", "asking"}, root'[d] # NodeOf[d]
                   PROVE  /\ Parent[root'[d]] = root'[d] /\ root'[d] \in Above(NodeOf[d])
                          /\ cache'[root'[d]] # None /\ KnownUpTo(cache', NodeOf[d], root'[d])
        BY DEF RootsInv, KnownUpTo
      <3>1. root'[d] = root[d] /\ pc[d] \notin {"walking", "asking"}
        BY <1>3 DEF TypeOK
      <3>2. QED BY <1>3, <3>1 DEF WalkInv, RootsInv
    <2>4. QED BY <2>1, <2>2, <2>3 DEF WalkInv
  <1>4. ASSUME NEW c \in Call, HostFails(c) PROVE WalkInv'
    <2>1. Fallback(c) /\ pc[c] = "asking"
      BY <1>4 DEF HostFails
    <2>2. QED BY <2>1, <1>3 DEF Fallback, TypeOK
  <1>5. ASSUME NEW c \in Call, AskHost(c) PROVE WalkInv'
    BY <1>5, <1>3 DEF AskHost, resolving, TypeOK
  <1>6. ASSUME NEW c \in Call,
               \/ Join(c) \/ Load(c) \/ LoadOutside(c) \/ Act(c) \/ Return(c)
               \/ Throw(c) \/ Save(c) \/ SaveRefused(c) \/ RunDeferred(c)
        PROVE  WalkInv'
    <2>1. UNCHANGED <<cache, walked, root>>
      BY <1>6 DEF Join, Load, LoadOutside, Act, Return, Throw, Save, SaveRefused, RunDeferred
    <2>2. /\ pc[c] \notin {"walking", "asking"} /\ pc'[c] \notin {"walking", "asking"}
          /\ \A d \in Call \ {c} : pc'[d] = pc[d]
      BY <1>6 DEF Join, Load, LoadOutside, Act, Return, Throw, Save, SaveRefused, RunDeferred,
                  Settle, Inside, Settled, TypeOK
    <2>3. QED BY <2>1, <2>2, <1>3
  <1>7. ASSUME UNCHANGED <<cache, walked, root, pc>> PROVE WalkInv'
    BY <1>7 DEF WalkInv, HopsInv, WalksInv, RootsInv, KnownUpTo
  <1>8. QED
    BY <1>1, <1>2, <1>4, <1>5, <1>6, <1>7 DEF Next, Step, vars, Clear

LEMMA WalkInit == Init => WalkInv
  <1> SUFFICES ASSUME Init PROVE WalkInv
    OBVIOUS
  <1>1. \A n \in Node : cache[n] = None
    BY DEF Init
  <1>2. \A c \in Call : pc[c] = "walking" /\ walked[c] = {NodeOf[c]} /\ root[c] = NodeOf[c]
                        /\ NodeOf[c] \in Node
    BY DEF Init
  <1>3. QED BY <1>1, <1>2, AboveItself DEF WalkInv, HopsInv, WalksInv, RootsInv, KnownUpTo

\* With a host whose failures are told from its answers, and whose sessions
\* form no circle, a node is memoised as a root only if it is one, however the
\* lookups of the calls overlap and fail.
THEOREM MemoisedRootsAreRoots == ASSUME ~ Swallows, Forest PROVE Spec => []MemoisedRootIsRoot
  <1>1. WalkInv => MemoisedRootIsRoot
    BY DEF WalkInv, HopsInv, MemoisedRootIsRoot
  <1>2. QED BY <1>1, WalkInit, WalkStep, TypeInit, TypeStep, PTL DEF Spec

\* Hops that are memoised all the way up to a root lead there.
LEMMA HopsLeadTo ==
    ASSUME Forest, TypeOK, HopsInv(cache), NEW n \in Node, NEW r \in Above(n), Parent[r] = r,
           cache[r] # None, KnownUpTo(cache, n, r)
    PROVE  LeadTo(n, r)
  <1> SUFFICES ASSUME NEW nodes \in SUBSET Node, n \in nodes, r \notin nodes,
                      \A m \in nodes : cache[m] # None => cache[m] \in nodes
               PROVE  FALSE
    BY DEF LeadTo
  <1>1. Above(r) = {r} /\ r \in Node
    BY AboveItself, AboveARoot
  <1> DEFINE under == {x \in Above(n) : \E s \in nodes : s \in Above(x)}
  <1>2. n \in under /\ under \subseteq Node
    BY AboveItself
  <1>3. ASSUME NEW x \in under
        PROVE  Parent[x] \in under /\ Parent[x] # x
    <2>1. x \in Node /\ x \in Above(n) /\ Parent[x] \in Node
      BY AboveItself
    <2>2. PICK s \in nodes : s \in Above(x)
      OBVIOUS
    <2>3. r \in Above(x)
      BY <2>1, RootIsAboveAll
    <2>4. Parent[x] # x
      <3>1. SUFFICES ASSUME Parent[x] = x PROVE FALSE
        OBVIOUS
      <3>2. Above(x) = {x}
        BY <2>1, <3>1, AboveARoot
      <3>3. QED BY <2>2, <2>3, <3>2
    <2>5. Parent[x] \in Above(n)
      BY <2>1, AboveItself, AboveAbove
    <2>6. PICK t \in nodes : t \in Above(Parent[x])
      <3>1. CASE s # x
        BY <2>1, <2>2, <3>1, AboveSplits
      <3>2. CASE s = x
        <4>1. cache[x] # None
          BY <1>1, <2>1, <2>2, <3>2 DEF KnownUpTo
        <4>2. cache[x] \in Above(x) /\ cache[x] # x
          BY <2>1, <2>4, <4>1 DEF HopsInv
        <4>3. cache[x] \in nodes
          BY <2>2, <3>2, <4>1
        <4>4. QED BY <2>1, <4>2, <4>3, AboveSplits
      <3>3. QED BY <3>1, <3>2
    <2>7. QED BY <2>4, <2>5, <2>6
  <1>4. under \in (SUBSET Node) \ {{}}
    BY <1>2
  <1> HIDE DEF under
  <1>5. QED BY <1>3, <1>4 DEF Forest

\* Under the same two conditions, a run() made inside an action finds every hop
\* to the root that is held: it asks nobody and waits for nobody.
THEOREM NestedRunsStayInline == ASSUME ~ Swallows, Forest PROVE Spec => []NestedRunsAreInline
  <1>1. TypeOK /\ WalkInv => NestedRunsAreInline
    <2> SUFFICES ASSUME TypeOK, WalkInv, NEW c \in Call, pc[c] = "acting", NodeOf[c] # root[c]
                 PROVE  LeadTo(NodeOf[c], root[c]) /\ cache[root[c]] = root[c]
      BY DEF NestedRunsAreInline
    <2>1. /\ Parent[root[c]] = root[c] /\ root[c] \in Above(NodeOf[c]) /\ root[c] \in Node
          /\ cache[root[c]] # None /\ KnownUpTo(cache, NodeOf[c], root[c])
      BY DEF WalkInv, RootsInv, TypeOK
    <2>2. cache[root[c]] = root[c]
      BY <2>1, AboveARoot DEF WalkInv, HopsInv
    <2>3. LeadTo(NodeOf[c], root[c])
      BY <2>1, HopsLeadTo DEF WalkInv
    <2>4. QED BY <2>2, <2>3
  <1>2. QED BY <1>1, WalkInit, WalkStep, TypeInit, TypeStep, PTL DEF Spec

-----------------------------------------------------------------------------
(* The queue.                                                              *)

\* The calls that hold a place in a queue.
Waiting(c) == c \notin Outside /\ pc[c] \in {"queued"} \cup Inside

\* The tail of a queue is the last of those that hold a place in it.
TailInv ==
    /\ \A n \in Node : tail[n] # None =>
          /\ Waiting(tail[n]) /\ root[tail[n]] = n /\ era[tail[n]] = clears
          /\ \A c \in Call : Waiting(c) /\ SameQueue(c, tail[n]) => place[c] <= place[tail[n]]
    /\ \A c \in Call : Waiting(c) /\ era[c] = clears => tail[root[c]] # None

\* A call is chained on the one before it.
PrevInv ==
    \A c \in Call : Waiting(c) /\ prev[c] # None =>
        /\ pc[prev[c]] \in {"queued"} \cup Inside \cup Settled
        /\ prev[c] \notin Outside
        /\ SameQueue(c, prev[c])
        /\ place[prev[c]] < place[c]
        /\ \A d \in Call : Waiting(d) /\ SameQueue(c, d) /\ place[d] < place[c]
              => place[d] <= place[prev[c]]

\* Of those that hold a place only the first has nothing to wait for.
FirstInv ==
    /\ \A c, d \in Call : Waiting(c) /\ Waiting(d) /\ SameQueue(c, d) /\ place[d] < place[c]
                             => ~ PrevSettled(c)
    /\ \A c \in Call : pc[c] \in Inside /\ c \notin Outside => PrevSettled(c)

PlaceInv ==
    /\ \A c \in Call : era[c] <= clears /\ place[c] <= joins
    /\ \A c \in Call : pc[c] \in {"walking", "asking", "resolved"} => place[c] = 0
    /\ \A c \in Call : Waiting(c) => place[c] > 0
    /\ \A c \in Outside : place[c] = 0 /\ pc[c] # "queued"
    /\ \A c, d \in Call : Waiting(c) /\ Waiting(d) /\ place[c] = place[d] => c = d

QueueInv == TailInv /\ PrevInv /\ FirstInv /\ PlaceInv

LEMMA QueueTurns == TypeOK /\ QueueInv => TurnsInOrder
  <1> SUFFICES ASSUME TypeOK, QueueInv, NEW c \in Call \ Outside, NEW d \in Call \ Outside,
                      pc[c] \in Inside, SameQueue(c, d), place[d] \in 1..(place[c] - 1)
               PROVE  pc[d] \in Settled
    BY DEF TurnsInOrder
  <1>1. Waiting(c) /\ PrevSettled(c) /\ place[d] < place[c]
    BY DEF Waiting, QueueInv, FirstInv, TypeOK
  <1>2. ~ Waiting(d)
    BY <1>1 DEF QueueInv, FirstInv
  <1>3. pc[d] \notin {"walking", "asking", "resolved"}
    BY DEF QueueInv, PlaceInv
  <1>4. QED BY <1>2, <1>3 DEF Waiting, TypeOK, PC

LEMMA QueueInit == Init => QueueInv
  <1> SUFFICES ASSUME Init PROVE QueueInv
    OBVIOUS
  <1>1. \A c \in Call : ~ Waiting(c) /\ pc[c] = "walking"
    BY DEF Init, Waiting, Inside
  <1>2. TailInv /\ PrevInv
    BY <1>1 DEF Init, TailInv, PrevInv
  <1>3. FirstInv
    BY <1>1 DEF FirstInv, Inside
  <1>4. PlaceInv
    BY <1>1 DEF Init, PlaceInv
  <1>5. QED BY <1>2, <1>3, <1>4 DEF QueueInv

\* A step that leaves the queues and the places alone, and lets no call in
\* before its turn or out of its place, keeps the order.
LEMMA QueueStays ==
    ASSUME TypeOK, QueueInv, NEW c \in Call, pc' \in [Call -> PC],
           UNCHANGED <<tail, prev, clears, joins, era, place>>,
           \A d \in Call \ {c} : pc'[d] = pc[d] /\ root'[d] = root[d],
           Waiting(c)' = Waiting(c), Waiting(c) => root'[c] = root[c],
           pc[c] \in {"queued"} \cup Inside \cup Settled
               => pc'[c] \in {"queued"} \cup Inside \cup Settled /\ root'[c] = root[c],
           pc'[c] \in Settled /\ c \notin Outside => pc[c] \in Settled,
           pc'[c] \in Inside /\ c \notin Outside => PrevSettled(c),
           pc'[c] \in {"walking", "asking", "resolved"}
               => pc[c] \in {"walking", "asking", "resolved"},
           c \in Outside => pc'[c] # "queued"
    PROVE  QueueInv'
  <1> DEFINE Joined(d) == pc[d] \in {"queued"} \cup Inside \cup Settled
  <1>1. \A d \in Call : Waiting(d)' = Waiting(d)
    BY DEF Waiting
  <1>2. \A d \in Call : Waiting(d) => root'[d] = root[d]
    OBVIOUS
  <1>3. \A d \in Call : Waiting(d) => PrevSettled(d)' = PrevSettled(d)
    <2> SUFFICES ASSUME NEW d \in Call, Waiting(d), prev[d] # None
                 PROVE  pc'[prev[d]] \in Settled <=> pc[prev[d]] \in Settled
      BY DEF PrevSettled
    <2>1. prev[d] \in Call /\ prev[d] \notin Outside /\ Joined(prev[d])
      BY DEF QueueInv, PrevInv, TypeOK
    <2>2. CASE prev[d] # c
      BY <2>1, <2>2
    <2>3. CASE prev[d] = c
      BY <2>1, <2>3 DEF Waiting, Settled, Inside
    <2>4. QED BY <2>2, <2>3
  <1>4. TailInv'
    BY <1>1, <1>2 DEF QueueInv, TailInv, TypeOK, SameQueue
  <1>5. PrevInv'
    BY <1>1, <1>2 DEF QueueInv, PrevInv, TypeOK, SameQueue
  <1>6. FirstInv'
    <2>1. \A d \in Call : pc'[d] \in Inside /\ d \notin Outside => PrevSettled(d)'
      BY <1>1, <1>3 DEF QueueInv, FirstInv, Waiting
    <2>2. QED BY <1>1, <1>2, <1>3, <2>1 DEF QueueInv, FirstInv, SameQueue
  <1>7. PlaceInv'
    <2>1. \A d \in Call : pc'[d] \in {"walking", "asking", "resolved"}
                => pc[d] \in {"walking", "asking", "resolved"}
      OBVIOUS
    <2>2. \A d \in Outside : pc'[d] # "queued"
      BY DEF QueueInv, PlaceInv
    <2>3. QED BY <1>1, <2>1, <2>2 DEF QueueInv, PlaceInv
  <1>8. QED BY <1>4, <1>5, <1>6, <1>7 DEF QueueInv

\* The first of a queue leaves it, and the one chained on it is the first.
LEMMA QueueSettles ==
    ASSUME TypeOK, QueueInv, NEW c \in Call, NEW outcome \in Settled, Settle(c, outcome),
           UNCHANGED <<root, prev, clears, joins, era, place>>,
           Waiting(c), PrevSettled(c)
    PROVE  QueueInv'
  <1>1. pc' = [pc EXCEPT ![c] = outcome] /\ pc \in [Call -> PC]
    BY DEF Settle, TypeOK
  <1>2. ~ Waiting(c)' /\ \A d \in Call \ {c} : Waiting(d)' = Waiting(d) /\ pc'[d] = pc[d]
    BY <1>1 DEF Waiting, Settled, Inside
  <1>3. \A d, e \in Call : SameQueue(d, e)' = SameQueue(d, e)
    BY DEF SameQueue
  <1>4. \A d \in Call : Waiting(d) /\ SameQueue(c, d) => place[c] <= place[d]
    BY DEF QueueInv, FirstInv, TypeOK
  <1>5. TailInv'
    <2>1. ASSUME NEW n \in Node, NEW t \in Call, tail'[n] = t
          PROVE  /\ Waiting(t)' /\ root[t] = n /\ era[t] = clears
                 /\ \A d \in Call : Waiting(d)' /\ SameQueue(d, t)' => place[d] <= place[t]
      <3>1. tail[n] = t /\ tail[n] # None
        BY <2>1 DEF Settle, TypeOK
      <3>2. Waiting(t) /\ root[t] = n /\ era[t] = clears
        BY <3>1 DEF QueueInv, TailInv
      <3>3. t # c
        BY <2>1, <3>1, <3>2 DEF Settle, TypeOK
      <3>4. \A d \in Call : Waiting(d) /\ SameQueue(d, t) => place[d] <= place[t]
        BY <3>1 DEF QueueInv, TailInv
      <3>5. QED BY <1>2, <1>3, <3>2, <3>3, <3>4
    <2>2. ASSUME NEW d \in Call, Waiting(d)', era[d] = clears
          PROVE  tail'[root[d]] # None
      <3>1. d # c /\ Waiting(d) /\ tail[root[d]] # None /\ root[d] \in Node
        BY <1>2, <2>2 DEF QueueInv, TailInv, TypeOK
      <3>2. CASE tail[root[d]] # c
        BY <3>1, <3>2 DEF Settle, TypeOK
      <3>3. CASE tail[root[d]] = c
        <4>1. SameQueue(d, c) /\ SameQueue(c, d) /\ place[d] <= place[c]
          BY <2>2, <3>1, <3>3 DEF QueueInv, TailInv, SameQueue
        <4>2. place[d] # place[c]
          BY <3>1 DEF QueueInv, PlaceInv
        <4>3. QED BY <1>4, <3>1, <4>1, <4>2 DEF TypeOK
      <3>4. QED BY <3>2, <3>3
    <2>3. tail' \in [Node -> Call \cup {None}]
      BY DEF Settle, TypeOK
    <2>4. ASSUME NEW n \in Node, tail'[n] # None
          PROVE  /\ Waiting(tail[n])' /\ root'[tail'[n]] = n /\ era'[tail'[n]] = clears'
                 /\ \A d \in Call : Waiting(d)' /\ SameQueue(d, tail[n])'
                                       => place'[d] <= place'[tail'[n]]
      <3>1. PICK t \in Call : t = tail'[n]
        BY <2>3, <2>4
      <3>2. Waiting(t)' <=> Waiting(tail[n])'
        BY <3>1 DEF Waiting
      <3>3. \A d \in Call : SameQueue(d, t)' <=> SameQueue(d, tail[n])'
        BY <3>1 DEF SameQueue
      <3>4. QED BY <2>1, <3>1, <3>2, <3>3
    <2>5. QED BY <2>2, <2>4 DEF TailInv
  <1>6. PrevInv'
    <2> SUFFICES ASSUME NEW d \in Call, Waiting(d), d # c, prev[d] # None
                 PROVE  /\ pc'[prev[d]] \in {"queued"} \cup Inside \cup Settled
                        /\ prev[d] \notin Outside
                        /\ SameQueue(d, prev[d])
                        /\ place[prev[d]] < place[d]
                        /\ \A e \in Call : Waiting(e) /\ SameQueue(d, e) /\ place[e] < place[d]
                              => place[e] <= place[prev[d]]
      BY <1>2, <1>3 DEF PrevInv, SameQueue
    <2>1. prev[d] \in Call /\ pc[prev[d]] \in {"queued"} \cup Inside \cup Settled
      BY DEF QueueInv, PrevInv, TypeOK
    <2>2. pc'[prev[d]] \in {"queued"} \cup Inside \cup Settled
      BY <1>1, <2>1
    <2>3. QED BY <2>2 DEF QueueInv, PrevInv
  <1>7. FirstInv'
    <2>1. ASSUME NEW d \in Call, PrevSettled(d) PROVE PrevSettled(d)'
      BY <1>1, <2>1 DEF PrevSettled, TypeOK
    <2>2. ASSUME NEW d \in Call, Waiting(d), d # c, NEW e \in Call, Waiting(e), e # c,
                 SameQueue(d, e), place[e] < place[d], PrevSettled(d)'
          PROVE  FALSE
      <3>1. ~ PrevSettled(d)
        BY <2>2 DEF QueueInv, FirstInv
      <3>2. prev[d] = c
        BY <1>1, <2>2, <3>1 DEF PrevSettled, TypeOK
      <3>3. place[e] <= place[c] /\ SameQueue(c, e)
        BY <2>2, <3>2 DEF QueueInv, PrevInv, SameQueue, TypeOK
      <3>4. place[e] # place[c]
        BY <2>2 DEF QueueInv, PlaceInv
      <3>5. place[c] <= place[e] /\ place[c] \in Nat /\ place[e] \in Nat
        BY <1>4, <2>2, <3>3 DEF TypeOK
      <3>6. QED BY <3>3, <3>4, <3>5
    <2>3. \A d \in Call : pc'[d] \in Inside /\ d \notin Outside => PrevSettled(d)'
      BY <1>1, <2>1 DEF QueueInv, FirstInv, Settled, Inside
    <2>4. QED BY <1>2, <1>3, <2>2, <2>3 DEF FirstInv
  <1>8. PlaceInv'
    BY <1>1, <1>2 DEF QueueInv, PlaceInv, Settled, Waiting
  <1>9. QED BY <1>5, <1>6, <1>7, <1>8 DEF QueueInv

\* The call that joins is the last of its queue, and chained on the one that
\* was the last before.
LEMMA QueueJoins ==
    ASSUME TypeOK, QueueInv, NEW c \in Call, Join(c)
    PROVE  QueueInv'
  <1>1. /\ pc' = [pc EXCEPT ![c] = "queued"] /\ pc[c] = "resolved" /\ c \notin Outside
        /\ place' = [place EXCEPT ![c] = joins + 1] /\ joins' = joins + 1
        /\ era' = [era EXCEPT ![c] = clears] /\ clears' = clears
        /\ prev' = [prev EXCEPT ![c] = tail[root[c]]]
        /\ tail' = [tail EXCEPT ![root[c]] = c] /\ root' = root /\ root[c] \in Node
    BY DEF Join, TypeOK
  <1>2. /\ Waiting(c)' /\ ~ Waiting(c)
        /\ \A d \in Call \ {c} : Waiting(d)' = Waiting(d) /\ pc'[d] = pc[d]
    BY <1>1 DEF Waiting, Inside, TypeOK
  <1>3. \A d, e \in Call \ {c} : SameQueue(d, e)' = SameQueue(d, e)
    BY <1>1 DEF SameQueue, TypeOK
  <1>4. \A d \in Call \ {c} : SameQueue(c, d)' <=> root[d] = root[c] /\ era[d] = clears
    BY <1>1 DEF SameQueue, TypeOK
  <1>5. \A d \in Call \ {c} : place'[d] = place[d] /\ place[d] < place'[c]
    BY <1>1 DEF QueueInv, PlaceInv, TypeOK
  <1>6. \A d \in Call : prev[d] = c => ~ Waiting(d)
    BY <1>1 DEF QueueInv, PrevInv, Inside, Settled, TypeOK
  <1>7. place'[c] = joins + 1 /\ prev'[c] = tail[root[c]] /\ era'[c] = clears /\ pc'[c] = "queued"
    BY <1>1 DEF TypeOK
  <1>8. \A d \in Call \ {c} : era'[d] = era[d] /\ prev'[d] = prev[d]
    BY <1>1 DEF TypeOK
  <1>9. TailInv'
    <2>1. \A d \in Call : Waiting(d)' /\ SameQueue(d, c)' => place'[d] <= place'[c]
      BY <1>5, <1>7 DEF TypeOK
    <2>2. ASSUME NEW n \in Node, n # root[c], NEW t \in Call, t = tail'[n]
          PROVE  /\ Waiting(t)' /\ root'[t] = n /\ era'[t] = clears'
                 /\ \A d \in Call : Waiting(d)' /\ SameQueue(d, t)' => place'[d] <= place'[t]
      <3>1. t = tail[n] /\ tail[n] # None
        BY <1>1, <2>2 DEF TypeOK
      <3>2. /\ Waiting(t) /\ root[t] = n /\ era[t] = clears
            /\ \A d \in Call : Waiting(d) /\ SameQueue(d, t) => place[d] <= place[t]
        BY <3>1 DEF QueueInv, TailInv
      <3>3. t # c /\ ~ SameQueue(c, t)'
        BY <1>1, <2>2, <3>2 DEF SameQueue
      <3>4. QED BY <1>1, <1>2, <1>3, <1>5, <1>8, <3>2, <3>3
    <2>3. tail'[root[c]] = c
      BY <1>1 DEF TypeOK
    <2>4. ASSUME NEW d \in Call, Waiting(d)', era'[d] = clears'
          PROVE  tail'[root'[d]] # None
      <3>1. CASE d = c
        BY <1>1, <2>3, <3>1
      <3>2. CASE d # c
        BY <1>1, <1>2, <1>8, <2>3, <2>4, <3>2 DEF QueueInv, TailInv, TypeOK
      <3>3. QED BY <3>1, <3>2
    <2>5. ASSUME NEW n \in Node, tail'[n] # None
          PROVE  /\ Waiting(tail[n])' /\ root'[tail'[n]] = n /\ era'[tail'[n]] = clears'
                 /\ \A d \in Call : Waiting(d)' /\ SameQueue(d, tail[n])'
                                       => place'[d] <= place'[tail'[n]]
      <3>1. PICK t \in Call : t = tail'[n]
        BY <1>1, <2>5 DEF TypeOK
      <3>2. Waiting(t)' <=> Waiting(tail[n])'
        BY <3>1 DEF Waiting
      <3>3. \A d \in Call : SameQueue(d, t)' <=> SameQueue(d, tail[n])'
        BY <3>1 DEF SameQueue
      <3>4. CASE n = root[c]
        <4>1. t = c
          BY <2>3, <3>1, <3>4
        <4>2. QED BY <1>1, <1>2, <1>7, <2>1, <3>1, <3>2, <3>3, <3>4, <4>1
      <3>5. CASE n # root[c]
        BY <2>2, <3>1, <3>2, <3>3, <3>5
      <3>6. QED BY <3>4, <3>5
    <2>6. QED BY <2>4, <2>5 DEF TailInv
  <1>10. PrevInv'
    <2>1. ASSUME NEW d \in Call \ {c}, Waiting(d), NEW p \in Call, p = prev[d]
          PROVE  /\ pc'[p] \in {"queued"} \cup Inside \cup Settled
                 /\ p \notin Outside /\ SameQueue(d, p)' /\ place'[p] < place'[d]
                 /\ \A e \in Call : Waiting(e)' /\ SameQueue(d, e)' /\ place'[e] < place'[d]
                       => place'[e] <= place'[p]
      <3>1. p # c
        BY <1>6, <2>1
      <3>2. /\ pc[p] \in {"queued"} \cup Inside \cup Settled
            /\ p \notin Outside /\ SameQueue(d, p) /\ place[p] < place[d]
            /\ \A e \in Call : Waiting(e) /\ SameQueue(d, e) /\ place[e] < place[d]
                  => place[e] <= place[p]
        BY <2>1 DEF QueueInv, PrevInv
      <3>3. ~ place'[c] < place'[d]
        BY <1>5, <1>7, <2>1 DEF TypeOK
      <3>4. QED BY <1>2, <1>3, <1>5, <3>1, <3>2, <3>3
    <2>2. ASSUME NEW p \in Call, p = tail[root[c]]
          PROVE  /\ pc'[p] \in {"queued"} \cup Inside \cup Settled
                 /\ p \notin Outside /\ SameQueue(c, p)' /\ place'[p] < place'[c]
                 /\ \A e \in Call : Waiting(e)' /\ SameQueue(c, e)' /\ place'[e] < place'[c]
                       => place'[e] <= place'[p]
      <3>1. /\ Waiting(p) /\ root[p] = root[c] /\ era[p] = clears /\ p # c
            /\ \A e \in Call : Waiting(e) /\ SameQueue(e, p) => place[e] <= place[p]
        BY <1>1, <1>2, <2>2 DEF QueueInv, TailInv
      <3>2. SameQueue(c, p)'
        BY <1>4, <3>1
      <3>3. \A e \in Call \ {c} : SameQueue(c, e)' => SameQueue(e, p)
        BY <1>4, <3>1 DEF SameQueue
      <3>4. ~ place'[c] < place'[c]
        BY <1>7 DEF TypeOK
      <3>5. pc[p] \in {"queued"} \cup Inside /\ p \notin Outside
        BY <3>1 DEF Waiting
      <3>6. QED BY <1>2, <1>5, <3>1, <3>2, <3>3, <3>4, <3>5
    <2>3. ASSUME NEW d \in Call, Waiting(d)', prev'[d] # None
          PROVE  /\ pc'[prev'[d]] \in {"queued"} \cup Inside \cup Settled
                 /\ prev'[d] \notin Outside /\ SameQueue(d, prev[d])'
                 /\ place'[prev'[d]] < place'[d]
                 /\ \A e \in Call : Waiting(e)' /\ SameQueue(d, e)' /\ place'[e] < place'[d]
                       => place'[e] <= place'[prev'[d]]
      <3>1. PICK p \in Call : p = prev'[d]
        BY <1>1, <2>3 DEF TypeOK
      <3>2. SameQueue(d, p)' <=> SameQueue(d, prev[d])'
        BY <3>1 DEF SameQueue
      <3>3. CASE d = c
        BY <1>7, <2>2, <3>1, <3>2, <3>3
      <3>4. CASE d # c
        BY <1>2, <1>8, <2>1, <2>3, <3>1, <3>2, <3>4
      <3>5. QED BY <3>3, <3>4
    <2>4. QED BY <2>3 DEF PrevInv
  <1>11. FirstInv'
    <2>1. \A d \in Call \ {c} : Waiting(d) => PrevSettled(d)' = PrevSettled(d)
      BY <1>2, <1>6, <1>8 DEF PrevSettled, TypeOK
    <2>2. \A d \in Call : Waiting(d) /\ root[d] = root[c] /\ era[d] = clears => ~ PrevSettled(c)'
      <3>1. SUFFICES ASSUME tail[root[c]] # None PROVE ~ PrevSettled(c)'
        BY DEF QueueInv, TailInv
      <3>2. tail[root[c]] \in Call \ {c} /\ Waiting(tail[root[c]])
        BY <1>1, <1>2, <3>1 DEF QueueInv, TailInv, TypeOK
      <3>3. pc'[tail[root[c]]] \notin Settled
        BY <1>2, <3>2 DEF Waiting, Settled, Inside
      <3>4. QED BY <1>7, <3>1, <3>3 DEF PrevSettled
    <2>3. ASSUME NEW d \in Call, NEW e \in Call, Waiting(d)', Waiting(e)',
                 SameQueue(d, e)', place'[e] < place'[d]
          PROVE  ~ PrevSettled(d)'
      <3>1. CASE d # c
        <4>1. e # c
          <5>1. place'[d] < place'[c] /\ place'[d] \in Nat /\ place'[c] \in Nat
            BY <1>5, <1>7, <3>1 DEF TypeOK
          <5>2. QED BY <2>3, <5>1
        <4>2. QED BY <1>2, <1>3, <1>5, <2>1, <2>3, <3>1, <4>1 DEF QueueInv, FirstInv
      <3>2. CASE d = c
        <4>1. e # c
          BY <1>7, <2>3, <3>2 DEF TypeOK
        <4>2. QED BY <1>2, <1>4, <2>2, <2>3, <3>2, <4>1
      <3>3. QED BY <3>1, <3>2
    <2>4. \A d \in Call : pc'[d] \in Inside /\ d \notin Outside => PrevSettled(d)'
      <3> SUFFICES ASSUME NEW d \in Call, pc'[d] \in Inside, d \notin Outside
                   PROVE  PrevSettled(d)'
        OBVIOUS
      <3>1. d # c
        BY <1>7 DEF Inside
      <3>2. QED BY <1>2, <2>1, <3>1 DEF QueueInv, FirstInv, Waiting
    <2>5. QED BY <2>3, <2>4 DEF FirstInv
  <1>12. PlaceInv'
    <2>1. \A d \in Call : era'[d] <= clears' /\ place'[d] <= joins'
      BY <1>1, <1>5, <1>7, <1>8 DEF QueueInv, PlaceInv, TypeOK
    <2>2. \A d \in Call : pc'[d] \in {"walking", "asking", "resolved"} => place'[d] = 0
      BY <1>2, <1>5, <1>7 DEF QueueInv, PlaceInv
    <2>3. \A d \in Call : Waiting(d)' => place'[d] > 0
      BY <1>2, <1>5, <1>7 DEF QueueInv, PlaceInv, TypeOK
    <2>4. \A d \in Outside : place'[d] = 0 /\ pc'[d] # "queued"
      BY <1>1, <1>2, <1>5 DEF QueueInv, PlaceInv
    <2>5. \A d, e \in Call : Waiting(d)' /\ Waiting(e)' /\ place'[d] = place'[e] => d = e
      BY <1>2, <1>5 DEF QueueInv, PlaceInv, TypeOK
    <2>6. QED BY <2>1, <2>2, <2>3, <2>4, <2>5 DEF PlaceInv
  <1>13. QED BY <1>9, <1>10, <1>11, <1>12 DEF QueueInv

\* After clear() no queue has a tail, and no call that waits is of the new era.
LEMMA QueueClears == ASSUME TypeOK, QueueInv, Clear PROVE QueueInv'
  <1> USE DEF Clear
  <1>1. \A d \in Call : Waiting(d)' = Waiting(d) /\ PrevSettled(d)' = PrevSettled(d)
    BY DEF Waiting, PrevSettled
  <1>2. \A d, e \in Call : SameQueue(d, e)' = SameQueue(d, e)
    BY DEF SameQueue
  <1>3. TailInv'
    BY DEF QueueInv, PlaceInv, TailInv, TypeOK
  <1>4. PrevInv'
    BY <1>1 DEF QueueInv, PrevInv, SameQueue
  <1>5. FirstInv'
    BY <1>1, <1>2 DEF QueueInv, FirstInv
  <1>6. PlaceInv'
    <2>1. \A d \in Call : era[d] <= clears + 1
      BY DEF QueueInv, PlaceInv, TypeOK
    <2>2. QED BY <1>1, <2>1 DEF QueueInv, PlaceInv
  <1>7. QED BY <1>3, <1>4, <1>5, <1>6 DEF QueueInv

\* An outside call is the tail of no queue, so it leaves none by settling.
LEMMA OutsideSettles ==
    ASSUME TypeOK, QueueInv, NEW c \in Outside, NEW outcome \in Settled, Settle(c, outcome)
    PROVE  pc' = [pc EXCEPT ![c] = outcome] /\ tail' = tail
  <1>1. root[c] \in Node /\ tail[root[c]] # c
    BY DEF QueueInv, TailInv, Waiting, TypeOK
  <1>2. QED BY <1>1 DEF Settle, TypeOK

LEMMA QueueStep == TypeOK /\ QueueInv /\ [Next]_vars => QueueInv'
  <1> SUFFICES ASSUME TypeOK, QueueInv, [Next]_vars PROVE QueueInv'
    OBVIOUS
  <1>0. TypeOK'
    BY TypeStep
  <1>1. pc' \in [Call -> PC] /\ pc \in [Call -> PC]
    BY <1>0 DEF TypeOK
  <1>2. ASSUME NEW c \in Call, Walk(c) \/ AskHost(c) \/ HostAnswers(c) \/ HostFails(c)
        PROVE  QueueInv'
    <2>1. /\ pc[c] \in {"walking", "asking"} /\ pc'[c] \in {"walking", "asking", "resolved"}
          /\ UNCHANGED <<tail, prev, clears, joins, era, place>>
          /\ \A d \in Call \ {c} : pc'[d] = pc[d] /\ root'[d] = root[d]
      BY <1>1, <1>2
      DEF Walk, AskHost, HostAnswers, HostFails, Told, Hop, Fallback, resolving, TypeOK
    <2>2. ~ Waiting(c) /\ Waiting(c)' = Waiting(c) /\ pc'[c] \notin {"queued"} \cup Inside \cup Settled
      BY <2>1 DEF Waiting, Inside, Settled
    <2>3. pc[c] \notin {"queued"} \cup Inside \cup Settled
      BY <2>1 DEF Inside, Settled
    <2>4. QED BY <1>1, <2>1, <2>2, <2>3, QueueStays
  <1>3. ASSUME NEW c \in Call, Join(c) PROVE QueueInv'
    BY <1>3, QueueJoins
  <1>4. ASSUME NEW c \in Call, PrevSettled(c), pc[c] \in {"queued"} \cup Inside, c \notin Outside,
               pc' = [pc EXCEPT ![c] = pc'[c]], pc'[c] \in Inside,
               UNCHANGED <<tail, root, prev, clears, joins, era, place>>
        PROVE  QueueInv'
    <2>1. Waiting(c) /\ Waiting(c)'
      BY <1>4 DEF Waiting
    <2>2. /\ \A d \in Call \ {c} : pc'[d] = pc[d] /\ root'[d] = root[d]
          /\ pc'[c] \notin Settled /\ pc'[c] \notin {"walking", "asking", "resolved"}
      BY <1>1, <1>4 DEF Inside, Settled
    <2>3. QED BY <1>1, <1>4, <2>1, <2>2, QueueStays
  <1>5. ASSUME NEW c \in Outside, pc[c] \in {"resolved"} \cup Inside,
               pc' = [pc EXCEPT ![c] = pc'[c]], pc'[c] \in Inside \cup Settled,
               UNCHANGED <<tail, root, prev, clears, joins, era, place>>
        PROVE  QueueInv'
    <2>1. c \in Call /\ ~ Waiting(c) /\ Waiting(c)' = Waiting(c)
      BY DEF Waiting
    <2>2. /\ \A d \in Call \ {c} : pc'[d] = pc[d] /\ root'[d] = root[d]
          /\ pc'[c] \notin {"walking", "asking", "resolved", "queued"}
      BY <1>1, <1>5, <2>1 DEF Inside, Settled
    <2>3. QED BY <1>1, <1>5, <2>1, <2>2, QueueStays
  <1>6. ASSUME NEW c \in Call \ Outside, pc[c] \in Inside PROVE Waiting(c) /\ PrevSettled(c)
    BY <1>6 DEF QueueInv, FirstInv, Waiting
  <1>7. ASSUME NEW c \in Call, Load(c) PROVE QueueInv'
    <2>1. c \notin Outside /\ Waiting(c) /\ PrevSettled(c)
      BY <1>7 DEF Load, QueueInv, PlaceInv, Waiting
    <2>2. CASE root[c] \in HasSession
      BY <1>1, <1>4, <1>7, <2>1, <2>2 DEF Load, Inside
    <2>3. CASE root[c] \notin HasSession
      BY <1>7, <2>1, <2>3, QueueSettles DEF Load, Settled
    <2>4. QED BY <2>2, <2>3
  <1>8. ASSUME NEW c \in Call, LoadOutside(c) PROVE QueueInv'
    BY <1>1, <1>5, <1>8 DEF LoadOutside, Inside, Settled
  <1>9. ASSUME NEW c \in Call, Act(c) PROVE QueueInv'
    <2>1. \A d \in Call : Waiting(d)' = Waiting(d) /\ PrevSettled(d)' = PrevSettled(d)
      BY <1>9 DEF Act, Waiting, PrevSettled
    <2>2. QED BY <1>9, <2>1 DEF Act, QueueInv, TailInv, PrevInv, FirstInv, PlaceInv, SameQueue, Waiting
  <1>10. ASSUME NEW c \in Call, NEW outcome \in Settled, pc[c] \in Inside, Settle(c, outcome),
                UNCHANGED <<root, prev, clears, joins, era, place>>
         PROVE  QueueInv'
    <2>1. CASE c \notin Outside
      BY <1>6, <1>10, <2>1, QueueSettles
    <2>2. CASE c \in Outside
      <3>1. pc' = [pc EXCEPT ![c] = outcome] /\ tail' = tail
        BY <1>10, <2>2, OutsideSettles
      <3>2. pc'[c] \in Inside \cup Settled /\ pc' = [pc EXCEPT ![c] = pc'[c]]
        BY <1>1, <1>10, <3>1
      <3>3. QED BY <1>5, <1>10, <2>2, <3>1, <3>2
    <2>3. QED BY <2>1, <2>2
  <1>11. ASSUME NEW c \in Call, Return(c) PROVE QueueInv'
    <2>1. CASE Settle(c, "untouched")
      BY <1>10, <1>11, <2>1 DEF Return, Inside, Settled
    <2>2. CASE ~ Settle(c, "untouched")
      <3>1. /\ pc' = [pc EXCEPT ![c] = "saving"] /\ pc[c] = "acting"
            /\ UNCHANGED <<tail, root, prev, clears, joins, era, place>>
        BY <1>11, <2>2 DEF Return
      <3>2. pc'[c] = "saving" /\ pc' = [pc EXCEPT ![c] = pc'[c]]
        BY <1>1, <3>1
      <3>3. CASE c \in Outside
        BY <1>5, <3>1, <3>2, <3>3 DEF Inside
      <3>4. CASE c \notin Outside
        BY <1>4, <1>6, <3>1, <3>2, <3>4 DEF Inside
      <3>5. QED BY <3>3, <3>4
    <2>3. QED BY <2>1, <2>2
  <1>12. ASSUME NEW c \in Call, Throw(c) \/ SaveRefused(c) \/ RunDeferred(c) PROVE QueueInv'
    BY <1>10, <1>12 DEF Throw, SaveRefused, RunDeferred, Inside, Settled
  <1>13. ASSUME NEW c \in Call, Save(c) PROVE QueueInv'
    <2>1. CASE c \in Outside
      BY <1>10, <1>13, <2>1 DEF Save, Inside, Settled
    <2>2. CASE c \notin Outside
      <3>1. /\ pc' = [pc EXCEPT ![c] = "deferring"] /\ pc[c] = "saving"
            /\ UNCHANGED <<tail, root, prev, clears, joins, era, place>>
        BY <1>13, <2>2 DEF Save
      <3>2. pc'[c] = "deferring" /\ pc' = [pc EXCEPT ![c] = pc'[c]]
        BY <1>1, <3>1
      <3>3. QED BY <1>4, <1>6, <2>2, <3>1, <3>2 DEF Inside
    <2>3. QED BY <2>1, <2>2
  <1>14. CASE UNCHANGED vars
    <2>1. \A d \in Call : Waiting(d)' = Waiting(d) /\ PrevSettled(d)' = PrevSettled(d)
      BY <1>14 DEF vars, Waiting, PrevSettled
    <2>2. QED BY <1>14, <2>1 DEF vars, QueueInv, TailInv, PrevInv, FirstInv, PlaceInv, SameQueue, Waiting
  <1>15. QED
    BY <1>2, <1>3, <1>7, <1>8, <1>9, <1>11, <1>12, <1>13, <1>14, QueueClears DEF Next, Step

\* However many calls join the queue of a root, fail in it or are refused, each
\* has its turn alone and in the order they came, until clear().
THEOREM TurnsAreTakenInOrder == Spec => []TurnsInOrder
  BY TypeInit, TypeStep, QueueInit, QueueStep, QueueTurns, PTL DEF Spec

-----------------------------------------------------------------------------
(* A run is atomic.                                                        *)

Entry == [by : Call, part : Nat]

\* The calls that have changes in a session.
Authors(log) == {log[i].by : i \in DOMAIN log}

\* A session a call holds is the one on disk, or an older one.
BaseInv ==
    \A c \in Call : pc[c] \in {"acting", "saving"} =>
        /\ base[c].rev <= file[root[c]].rev
        /\ base[c].rev = file[root[c]].rev => base[c].log = file[root[c]].log

\* What is saved is all the action does, and nothing for an outside call.
MadeInv ==
    \A c \in Call :
        /\ pc[c] \in {"walking", "asking", "resolved", "queued"} => made[c] = 0
        /\ c \notin Outside /\ pc[c] = "saving" => made[c] = Parts[c]
        /\ c \in Outside => made[c] = 0 /\ pc[c] \notin {"queued", "acting", "deferring"}

\* Only calls that have saved are in a session, and theirs is the root's.
AuthorInv ==
    /\ \A n \in Node : \A c \in Authors(file[n].log) : pc[c] \in {"deferring", "done", "failed"}
    /\ \A c \in Call : pc[c] = "deferring" => c \in Authors(file[root[c]].log)

ContentInv == BaseInv /\ MadeInv /\ AuthorInv

LEMMA AuthorsAppend ==
    ASSUME NEW s \in Seq(Entry), NEW t \in Seq(Entry)
    PROVE  Authors(s \o t) = Authors(s) \cup Authors(t)
  <1>1. /\ Len(s) \in Nat /\ Len(t) \in Nat
        /\ DOMAIN s = 1..Len(s) /\ DOMAIN t = 1..Len(t)
        /\ DOMAIN (s \o t) = 1..(Len(s) + Len(t))
    BY ConcatProperties, LenProperties
  <1>2. \A i \in 1..(Len(s) + Len(t)) : (s \o t)[i] = IF i <= Len(s) THEN s[i] ELSE t[i - Len(s)]
    BY ConcatProperties
  <1>3. ASSUME NEW a \in Authors(s \o t) PROVE a \in Authors(s) \cup Authors(t)
    <2>1. PICK i \in 1..(Len(s) + Len(t)) : a = (s \o t)[i].by
      BY <1>1, <1>3 DEF Authors
    <2>2. CASE i <= Len(s)
      BY <1>1, <1>2, <2>1, <2>2 DEF Authors
    <2>3. CASE ~ i <= Len(s)
      <3>1. i - Len(s) \in 1..Len(t) /\ a = t[i - Len(s)].by
        BY <1>1, <1>2, <2>1, <2>3
      <3>2. QED BY <1>1, <3>1 DEF Authors
    <2>4. QED BY <2>2, <2>3
  <1>4. ASSUME NEW a \in Authors(s) PROVE a \in Authors(s \o t)
    <2>1. PICK i \in 1..Len(s) : a = s[i].by
      BY <1>1, <1>4 DEF Authors
    <2>2. i \in 1..(Len(s) + Len(t)) /\ (s \o t)[i] = s[i]
      BY <1>1, <1>2
    <2>3. QED BY <1>1, <2>1, <2>2 DEF Authors
  <1>5. ASSUME NEW a \in Authors(t) PROVE a \in Authors(s \o t)
    <2>1. PICK i \in 1..Len(t) : a = t[i].by
      BY <1>1, <1>5 DEF Authors
    <2>2. /\ Len(s) + i \in 1..(Len(s) + Len(t)) /\ ~ Len(s) + i <= Len(s)
          /\ (Len(s) + i) - Len(s) = i
      BY <1>1
    <2>3. (s \o t)[Len(s) + i] = t[i]
      BY <1>2, <2>2
    <2>4. QED BY <1>1, <2>1, <2>2, <2>3 DEF Authors
  <1>6. QED BY <1>3, <1>4, <1>5

LEMMA AuthorsAreCalls ==
    ASSUME TypeOK, NEW n \in Node
    PROVE  Authors(file[n].log) \subseteq Call
  <1> DEFINE log == file[n].log
  <1>1. log \in Seq(Entry)
    BY DEF TypeOK, SessionFile, Entry
  <1> HIDE DEF log
  <1>2. \A i \in DOMAIN log : log[i] \in Entry
    BY <1>1, ElementOfSeq, LenProperties
  <1>3. Authors(log) \subseteq Call
    BY <1>2 DEF Authors, Entry
  <1>4. QED BY <1>3 DEF log

LEMMA ChangeAuthors ==
    ASSUME TypeOK, NEW c \in Call
    PROVE  /\ Change(c) \in Seq(Entry)
           /\ Authors(Change(c)) = IF made[c] = 0 THEN {} ELSE {c}
           /\ made[c] = 0 => Change(c) = <<>>
  <1>1. made[c] \in Nat
    BY DEF TypeOK
  <1>2. Change(c) \in [1..made[c] -> Entry] /\ DOMAIN Change(c) = 1..made[c]
    BY <1>1 DEF Change, Entry
  <1>3. Change(c) \in Seq(Entry)
    BY <1>1, <1>2, FunctionIsSeq
  <1>4. \A i \in 1..made[c] : Change(c)[i].by = c
    BY DEF Change
  <1>5. CASE made[c] = 0
    <2>1. Len(Change(c)) = 0
      BY <1>2, <1>3, <1>5, LenProperties
    <2>2. Change(c) = <<>>
      BY <1>3, <2>1, EmptySeq
    <2>3. QED BY <1>2, <1>3, <1>5, <2>2 DEF Authors
  <1>6. CASE made[c] # 0
    <2>1. 1 \in 1..made[c]
      BY <1>1, <1>6
    <2>2. QED BY <1>2, <1>3, <1>4, <1>6, <2>1 DEF Authors
  <1>7. QED BY <1>5, <1>6

\* A save appends to the session on disk.
LEMMA SaveAppends ==
    ASSUME TypeOK, ContentInv, NEW c \in Call, Save(c)
    PROVE  /\ file' = [file EXCEPT ![root[c]] = [rev |-> file[root[c]].rev + 1,
                                                log |-> file[root[c]].log \o Change(c)]]
           /\ file[root[c]].rev \in Nat /\ file[root[c]].log \in Seq(Entry)
           /\ Authors(file'[root[c]].log) = Authors(file[root[c]].log) \cup
                                               (IF made[c] = 0 THEN {} ELSE {c})
           /\ \A n \in Node \ {root[c]} : file'[n] = file[n]
  <1>1. base[c].rev = file[root[c]].rev /\ base[c].log = file[root[c]].log
    BY DEF Save, Fresh, ContentInv, BaseInv
  <1>2. file[root[c]].rev \in Nat /\ file[root[c]].log \in Seq(Entry) /\ root[c] \in Node
    BY DEF TypeOK, SessionFile, Entry
  <1>3. file' = [file EXCEPT ![root[c]] = [rev |-> file[root[c]].rev + 1,
                                          log |-> file[root[c]].log \o Change(c)]]
    BY <1>1 DEF Save
  <1>4. file'[root[c]].log = file[root[c]].log \o Change(c)
    BY <1>2, <1>3 DEF TypeOK
  <1>5. QED BY <1>2, <1>3, <1>4, ChangeAuthors, AuthorsAppend DEF TypeOK

LEMMA ContentInit == Init => ContentInv
  <1> SUFFICES ASSUME Init PROVE ContentInv
    OBVIOUS
  <1>1. BaseInv /\ MadeInv
    BY DEF Init, BaseInv, MadeInv
  <1>2. \A n \in Node : file[n].log = <<>> /\ DOMAIN file[n].log = {}
    BY DEF Init
  <1>3. AuthorInv
    BY <1>2 DEF Init, AuthorInv, Authors
  <1>4. QED BY <1>1, <1>3 DEF ContentInv

\* A step that writes no session, and moves one call on.
LEMMA ContentStays ==
    ASSUME TypeOK, ContentInv, NEW c \in Call, pc' \in [Call -> PC], UNCHANGED file,
           \A d \in Call \ {c} : pc'[d] = pc[d] /\ root'[d] = root[d] /\ base'[d] = base[d]
                                   /\ made'[d] = made[d],
           pc'[c] \in {"acting", "saving"} =>
               /\ base'[c].rev <= file[root'[c]].rev
               /\ base'[c].rev = file[root'[c]].rev => base'[c].log = file[root'[c]].log,
           pc'[c] \in {"walking", "asking", "resolved", "queued"} => made'[c] = 0,
           c \notin Outside /\ pc'[c] = "saving" => made'[c] = Parts[c],
           c \in Outside => made'[c] = 0 /\ pc'[c] \notin {"queued", "acting", "deferring"},
           pc[c] \in {"deferring", "done", "failed"} => pc'[c] \in {"deferring", "done", "failed"},
           pc'[c] = "deferring" => pc[c] = "deferring" /\ root'[c] = root[c]
    PROVE  ContentInv'
  <1>1. BaseInv'
    BY DEF ContentInv, BaseInv
  <1>2. MadeInv'
    BY DEF ContentInv, MadeInv
  <1>3. AuthorInv'
    <2>1. \A n \in Node : Authors(file[n].log)' = Authors(file[n].log)
      BY DEF Authors
    <2>2. \A n \in Node : Authors(file[n].log) \subseteq Call
      BY AuthorsAreCalls
    <2>3. \A n \in Node : \A d \in Authors(file[n].log) : pc'[d] \in {"deferring", "done", "failed"}
      BY <2>2 DEF ContentInv, AuthorInv
    <2>4. \A d \in Call : pc'[d] = "deferring" => d \in Authors(file[root'[d]].log)
      BY DEF ContentInv, AuthorInv
    <2>5. \A d \in Call : Authors(file[root[d]].log)' = Authors(file[root'[d]].log)
      BY DEF Authors
    <2>6. QED BY <2>1, <2>3, <2>4, <2>5 DEF AuthorInv
  <1>4. QED BY <1>1, <1>2, <1>3 DEF ContentInv

LEMMA ContentStep == TypeOK /\ ContentInv /\ [Next]_vars => ContentInv'
  <1> SUFFICES ASSUME TypeOK, ContentInv, [Next]_vars PROVE ContentInv'
    OBVIOUS
  <1>0. TypeOK'
    BY TypeStep
  <1>1. pc' \in [Call -> PC] /\ pc \in [Call -> PC]
    BY <1>0 DEF TypeOK
  <1>2. ASSUME NEW c \in Call, Walk(c) \/ AskHost(c) \/ HostAnswers(c) \/ HostFails(c)
        PROVE  ContentInv'
    <2>1. /\ pc[c] \in {"walking", "asking"} /\ pc'[c] \in {"walking", "asking", "resolved"}
          /\ UNCHANGED <<file, base, made>>
          /\ \A d \in Call \ {c} : pc'[d] = pc[d] /\ root'[d] = root[d]
      BY <1>1, <1>2
      DEF Walk, AskHost, HostAnswers, HostFails, Told, Hop, Fallback, resolving, TypeOK
    <2>2. made[c] = 0
      BY <2>1 DEF ContentInv, MadeInv
    <2>3. QED BY <1>1, <2>1, <2>2, ContentStays
  <1>3. ASSUME NEW c \in Call, Join(c) PROVE ContentInv'
    BY <1>1, <1>3, ContentStays DEF Join, ContentInv, MadeInv
  <1>4. ASSUME NEW c \in Call, Load(c) \/ LoadOutside(c) PROVE ContentInv'
    <2>1. /\ pc[c] \in {"queued", "resolved"} /\ UNCHANGED <<file, root, made>>
          /\ \/ pc'[c] = (IF c \in Outside THEN "saving" ELSE "acting") /\ base'[c] = file[root[c]]
             \/ pc'[c] = "untouched"
          /\ \A d \in Call \ {c} : pc'[d] = pc[d] /\ base'[d] = base[d]
      BY <1>1, <1>4 DEF Load, LoadOutside, Settle, TypeOK, ContentInv, MadeInv
    <2>2. base'[c] = file[root[c]] => base'[c].rev <= file[root[c]].rev
      BY DEF TypeOK, SessionFile
    <2>3. made[c] = 0
      BY <2>1 DEF ContentInv, MadeInv
    <2>4. QED BY <1>1, <2>1, <2>2, <2>3, ContentStays
  <1>5. ASSUME NEW c \in Call, Act(c) PROVE ContentInv'
    <2>1. /\ pc[c] = "acting" /\ pc' = pc /\ UNCHANGED <<file, root, base>>
          /\ \A d \in Call \ {c} : made'[d] = made[d]
      BY <1>5 DEF Act, TypeOK
    <2>2. QED BY <1>1, <2>1, ContentStays DEF ContentInv, BaseInv, MadeInv
  <1>6. ASSUME NEW c \in Call, NEW outcome \in Settled, pc[c] \in Inside, Settle(c, outcome),
               pc[c] = "deferring" => outcome # "untouched",
               UNCHANGED <<file, root, base, made>>
        PROVE  ContentInv'
    <2>1. pc'[c] \in Settled /\ \A d \in Call \ {c} : pc'[d] = pc[d]
      BY <1>1, <1>6 DEF Settle
    <2>2. pc[c] \in {"deferring", "done", "failed"} => pc'[c] \in {"done", "failed"}
      BY <1>1, <1>6 DEF Settle, Inside, Settled
    <2>3. QED BY <1>1, <1>6, <2>1, <2>2, ContentStays DEF Settled, ContentInv, MadeInv
  <1>7. ASSUME NEW c \in Call, Return(c) PROVE ContentInv'
    <2>1. CASE Settle(c, "untouched")
      BY <1>6, <1>7, <2>1 DEF Return, Inside, Settled
    <2>2. CASE ~ Settle(c, "untouched")
      <3>1. /\ pc[c] = "acting" /\ pc'[c] = "saving" /\ made[c] = Parts[c]
            /\ UNCHANGED <<file, root, base, made>>
            /\ \A d \in Call \ {c} : pc'[d] = pc[d]
        BY <1>1, <1>7, <2>2 DEF Return
      <3>2. QED BY <1>1, <3>1, ContentStays DEF ContentInv, BaseInv, MadeInv
    <2>3. QED BY <2>1, <2>2
  <1>8. ASSUME NEW c \in Call, Throw(c) \/ SaveRefused(c) \/ RunDeferred(c) PROVE ContentInv'
    BY <1>6, <1>8 DEF Throw, SaveRefused, RunDeferred, Inside, Settled
  <1>9. ASSUME NEW c \in Call, Save(c) PROVE ContentInv'
    <2>1. /\ pc[c] = "saving" /\ UNCHANGED <<root, base, made>>
          /\ pc'[c] = (IF c \in Outside THEN "untouched" ELSE "deferring")
          /\ \A d \in Call \ {c} : pc'[d] = pc[d]
      BY <1>1, <1>9 DEF Save, Settle
    <2>2. made[c] = (IF c \in Outside THEN 0 ELSE Parts[c])
      BY <2>1 DEF ContentInv, MadeInv
    <2>3. made[c] = 0 <=> c \in Outside
      BY <2>2, PartsAssumption
    <2>4. /\ file[root[c]].rev \in Nat /\ file'[root[c]].rev = file[root[c]].rev + 1
          /\ Authors(file'[root[c]].log) = Authors(file[root[c]].log) \cup
                                              (IF c \in Outside THEN {} ELSE {c})
          /\ \A n \in Node \ {root[c]} : file'[n] = file[n]
      <3>1. /\ file' = [file EXCEPT ![root[c]] = [rev |-> file[root[c]].rev + 1,
                                                  log |-> file[root[c]].log \o Change(c)]]
            /\ file[root[c]].rev \in Nat
            /\ Authors(file'[root[c]].log) = Authors(file[root[c]].log) \cup
                                                (IF made[c] = 0 THEN {} ELSE {c})
            /\ \A n \in Node \ {root[c]} : file'[n] = file[n]
        BY <1>9, SaveAppends
      <3>2. file'[root[c]].rev = file[root[c]].rev + 1
        BY <3>1 DEF TypeOK
      <3>3. QED BY <2>3, <3>1, <3>2
    <2>5. BaseInv'
      <3> SUFFICES ASSUME NEW d \in Call \ {c}, pc[d] \in {"acting", "saving"}
                   PROVE  /\ base[d].rev <= file'[root[d]].rev
                          /\ base[d].rev = file'[root[d]].rev => base[d].log = file'[root[d]].log
        BY <2>1 DEF BaseInv
      <3>1. /\ base[d].rev <= file[root[d]].rev /\ base[d].rev \in Nat /\ root[d] \in Node
            /\ base[d].rev = file[root[d]].rev => base[d].log = file[root[d]].log
        BY DEF ContentInv, BaseInv, TypeOK, SessionFile
      <3>2. CASE root[d] = root[c]
        BY <2>4, <3>1, <3>2
      <3>3. CASE root[d] # root[c]
        BY <2>4, <3>1, <3>3
      <3>4. QED BY <3>2, <3>3
    <2>6. MadeInv'
      BY <2>1 DEF ContentInv, MadeInv
    <2>7. AuthorInv'
      <3>1. ASSUME NEW n \in Node, NEW d \in Authors(file'[n].log)
            PROVE  pc'[d] \in {"deferring", "done", "failed"}
        <4>1. d \in Authors(file[n].log) \/ (d = c /\ c \notin Outside)
          BY <2>4, <3>1
        <4>2. d \in Authors(file[n].log) => d # c /\ d \in Call
          BY <2>1, AuthorsAreCalls DEF ContentInv, AuthorInv
        <4>3. QED BY <2>1, <4>1, <4>2 DEF ContentInv, AuthorInv
      <3>2. ASSUME NEW d \in Call, pc'[d] = "deferring"
            PROVE  d \in Authors(file'[root[d]].log)
        <4>1. CASE d = c
          BY <2>1, <2>4, <3>2, <4>1
        <4>2. CASE d # c
          <5>1. d \in Authors(file[root[d]].log) /\ root[d] \in Node
            BY <2>1, <3>2, <4>2 DEF ContentInv, AuthorInv, TypeOK
          <5>2. QED BY <2>4, <5>1
        <4>3. QED BY <4>1, <4>2
      <3>3. \A n \in Node : Authors(file[n].log)' = Authors(file'[n].log)
        BY DEF Authors
      <3>4. \A d \in Call : Authors(file[root[d]].log)' = Authors(file'[root[d]].log)
        BY <2>1 DEF Authors
      <3>5. QED BY <3>1, <3>2, <3>3, <3>4 DEF AuthorInv
    <2>8. QED BY <2>5, <2>6, <2>7 DEF ContentInv
  <1>10. ASSUME UNCHANGED <<file, pc, root, base, made>> PROVE ContentInv'
    <2>1. \A n \in Node : Authors(file[n].log)' = Authors(file[n].log)
      BY <1>10 DEF Authors
    <2>2. \A d \in Call : Authors(file[root[d]].log)' = Authors(file[root[d]].log)
      BY <1>10 DEF Authors
    <2>3. QED BY <1>10, <2>1, <2>2 DEF ContentInv, BaseInv, MadeInv, AuthorInv
  <1>11. QED
    BY <1>2, <1>3, <1>4, <1>5, <1>7, <1>8, <1>9, <1>10 DEF Next, Step, Clear, vars

\* What AtomicSession sees: the changes saved, and the answers given.
History == [n \in Node |-> file[n].log]
Answers == [c \in Call |-> IF pc[c] \in Settled THEN pc[c] ELSE "none"]

LEMMA HasChangedIsAuthor ==
    ASSUME NEW c \in Call
    PROVE  Atomic!HasChanged(c) <=> \E n \in Node : c \in Authors(file[n].log)
  BY DEF Atomic!HasChanged, Authors

\* A call that settles is answered.
LEMMA SettleAnswers ==
    ASSUME TypeOK, NEW c \in Call, NEW outcome \in Settled, Settle(c, outcome), pc[c] \notin Settled
    PROVE  Answers[c] = "none" /\ Answers' = [Answers EXCEPT ![c] = outcome]
  <1>1. pc' = [pc EXCEPT ![c] = outcome] /\ pc \in [Call -> PC]
    BY DEF Settle, TypeOK
  <1>2. QED BY <1>1 DEF Answers

LEMMA RefinesInit == Init => Atomic!Init
  BY DEF Init, Atomic!Init, Settled

LEMMA RefinesStep == TypeOK /\ ContentInv /\ [Next]_vars => [Atomic!Next]_(Atomic!vars)
  <1> SUFFICES ASSUME TypeOK, ContentInv, [Next]_vars PROVE [Atomic!Next]_(Atomic!vars)
    OBVIOUS
  <1>1. pc \in [Call -> PC] /\ pc' \in [Call -> PC]
    BY TypeStep DEF TypeOK
  <1>2. ASSUME UNCHANGED <<file, effects>>, UNCHANGED Answers PROVE UNCHANGED Atomic!vars
    BY <1>2 DEF Atomic!vars, Answers
  <1>3. ASSUME NEW c \in Call, UNCHANGED <<file, effects>>, pc[c] \notin Settled, pc'[c] \notin Settled,
               \A d \in Call \ {c} : pc'[d] = pc[d]
        PROVE  UNCHANGED Atomic!vars
    BY <1>2, <1>3 DEF Answers
  <1>4. ASSUME NEW c \in Call, NEW outcome \in {"failed", "untouched"}, Settle(c, outcome),
               pc[c] \notin Settled, UNCHANGED <<file, effects>>,
               outcome = "untouched" => pc[c] # "deferring"
        PROVE  Atomic!Next
    <2>1. Answers[c] = "none" /\ Answers' = [Answers EXCEPT ![c] = outcome]
      BY <1>4, SettleAnswers DEF Settled
    <2>2. outcome = "untouched" => ~ Atomic!HasChanged(c)
      BY <1>4, HasChangedIsAuthor DEF ContentInv, AuthorInv, Settled
    <2>3. Atomic!Answer(c, outcome)
      BY <1>4, <2>1, <2>2 DEF Atomic!Answer, Answers
    <2>4. QED BY <2>3 DEF Atomic!Next
  <1>5. ASSUME NEW c \in Call,
               Walk(c) \/ AskHost(c) \/ HostAnswers(c) \/ HostFails(c) \/ Join(c) \/ Act(c)
        PROVE  UNCHANGED Atomic!vars
    <2>1. /\ UNCHANGED <<file, effects>> /\ pc[c] \notin Settled /\ pc'[c] \notin Settled
          /\ \A d \in Call \ {c} : pc'[d] = pc[d]
      BY <1>1, <1>5 DEF Walk, AskHost, HostAnswers, HostFails, Told, Hop, Fallback, resolving, Join,
         Act, Settled
    <2>2. QED BY <1>3, <2>1
  <1>6. ASSUME NEW c \in Call, Load(c) \/ LoadOutside(c) PROVE [Atomic!Next]_(Atomic!vars)
    <2>1. CASE pc'[c] \in Settled
      <3>1. /\ pc' = [pc EXCEPT ![c] = "untouched"] /\ UNCHANGED <<file, effects>>
            /\ pc[c] \in {"queued", "resolved"}
        BY <1>1, <1>6, <2>1 DEF Load, LoadOutside, Settle, Settled
      <3>2. Answers[c] = "none" /\ Answers' = [Answers EXCEPT ![c] = "untouched"]
        BY <1>1, <3>1 DEF Answers, Settled
      <3>3. ~ Atomic!HasChanged(c)
        BY <3>1, HasChangedIsAuthor DEF ContentInv, AuthorInv
      <3>4. Atomic!Answer(c, "untouched")
        BY <3>1, <3>2, <3>3 DEF Atomic!Answer, Answers
      <3>5. QED BY <3>4 DEF Atomic!Next
    <2>2. CASE pc'[c] \notin Settled
      <3>1. /\ UNCHANGED <<file, effects>> /\ pc[c] \notin Settled
            /\ \A d \in Call \ {c} : pc'[d] = pc[d]
        BY <1>1, <1>6 DEF Load, LoadOutside, Settle, Settled
      <3>2. QED BY <1>3, <2>2, <3>1
    <2>3. QED BY <2>1, <2>2
  <1>7. ASSUME NEW c \in Call, Return(c) PROVE [Atomic!Next]_(Atomic!vars)
    <2>1. CASE Settle(c, "untouched")
      BY <1>4, <1>7, <2>1 DEF Return, Settled
    <2>2. CASE ~ Settle(c, "untouched")
      BY <1>1, <1>3, <1>7, <2>2 DEF Return, Settled
    <2>3. QED BY <2>1, <2>2
  <1>8. ASSUME NEW c \in Call, Throw(c) \/ SaveRefused(c) PROVE Atomic!Next
    BY <1>4, <1>8 DEF Throw, SaveRefused, Inside, Settled
  <1>9. ASSUME NEW c \in Call, RunDeferred(c) PROVE Atomic!Next
    <2>1. Answers[c] = "none" /\ Answers' = [Answers EXCEPT ![c] = "done"]
      BY <1>9, SettleAnswers DEF RunDeferred, Settled
    <2>2. Atomic!HasChanged(c)
      BY <1>9, HasChangedIsAuthor DEF RunDeferred, ContentInv, AuthorInv, TypeOK
    <2>3. Atomic!RunEffects(c)
      BY <1>9, <2>1, <2>2 DEF Atomic!RunEffects, RunDeferred, Answers
    <2>4. QED BY <2>3 DEF Atomic!Next
  <1>10. ASSUME NEW c \in Call, Save(c) PROVE [Atomic!Next]_(Atomic!vars)
    <2>1. /\ file' = [file EXCEPT ![root[c]] = [rev |-> file[root[c]].rev + 1,
                                               log |-> file[root[c]].log \o Change(c)]]
          /\ file[root[c]].log \in Seq(Entry) /\ root[c] \in Node
      BY <1>10, SaveAppends DEF TypeOK
    <2>2. History' = [History EXCEPT ![root[c]] = @ \o Change(c)]
      BY <2>1 DEF History, TypeOK
    <2>3. pc[c] = "saving" /\ effects' = effects /\ ~ Atomic!HasChanged(c)
      BY <1>10, HasChangedIsAuthor DEF Save, ContentInv, AuthorInv
    <2>4. CASE c \notin Outside
      <3>1. Answers' = Answers /\ Answers[c] = "none"
        BY <1>1, <1>10, <2>3, <2>4 DEF Save, Answers, Settled
      <3>2. Change(c) = Atomic!Entries(c)
        BY <2>3, <2>4 DEF ContentInv, MadeInv, Change, Atomic!Entries
      <3>3. PICK n \in Node : n = root[c]
        BY <2>1
      <3>4. History' = [History EXCEPT ![n] = @ \o Atomic!Entries(c)]
        BY <2>2, <3>2, <3>3
      <3>5. Atomic!Commit(c, n)
        BY <2>3, <3>1, <3>4, Zenon DEF Atomic!Commit, History, Answers
      <3>6. QED BY <3>5 DEF Atomic!Next
    <2>5. CASE c \in Outside
      <3>1. Change(c) = <<>>
        BY <2>5, ChangeAuthors DEF ContentInv, MadeInv
      <3>2. file[root[c]].log \o Change(c) = file[root[c]].log
        BY <2>1, <3>1, ConcatEmptySeq
      <3>3. History' = History
        BY <2>1, <3>2 DEF History, TypeOK
      <3>4. Answers[c] = "none" /\ Answers' = [Answers EXCEPT ![c] = "untouched"]
        BY <1>10, <2>3, <2>5, SettleAnswers DEF Save, Settled
      <3>5. Atomic!Answer(c, "untouched")
        BY <2>3, <3>3, <3>4 DEF Atomic!Answer, History, Answers
      <3>6. QED BY <3>5 DEF Atomic!Next
    <2>6. QED BY <2>4, <2>5
  <1>11. ASSUME UNCHANGED <<file, effects, pc>> PROVE UNCHANGED Atomic!vars
    BY <1>11 DEF Atomic!vars
  <1>12. QED
    BY <1>5, <1>6, <1>7, <1>8, <1>9, <1>10, <1>11 DEF Next, Step, Clear, vars

\* With lookups that fail, actions that throw half way, writers outside the
\* queue and clear(), the calls change the sessions as if each did all it does
\* in one step: SessionExecutor implements AtomicSession.
THEOREM RunImplementsAtomicSession == Spec => RunIsAtomic
  <1>1. TypeOK /\ ContentInv /\ [Next]_vars => ContentInv'
    BY ContentStep
  <1>2. QED
    BY <1>1, TypeInit, TypeStep, ContentInit, RefinesInit, RefinesStep, PTL
    DEF Spec, RunIsAtomic, Atomic!Spec
=============================================================================
