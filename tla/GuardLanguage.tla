---------------------------- MODULE GuardLanguage ----------------------------
(***************************************************************************)
(* The expressions a workflow is guarded with: their parser, evaluator and *)
(* what is left of a guard that breaks (src/schema/guard-ast.ts), and the  *)
(* facts and functions it is given (src/schema/guard-evaluator.ts).        *)
(*                                                                         *)
(* An expression is a sequence of tokens; a token is a string.  A value is *)
(* tagged with its type.  Left out are bracket access, array literals, the *)
(* order and arithmetic of other things than numbers, division, what a     *)
(* string has (length and methods), the methods of lists but three,        *)
(* session.verified, and the four accessor functions that every object     *)
(* inherits (__defineGetter__ and its like).                               *)
(***************************************************************************)
EXTENDS Integers, Sequences, FiniteSets, SequencesExt

CONSTANTS
    Names,        \* the tokens that are identifiers
    Literals,     \* the strings and numbers among the tokens: token -> value
    Contexts,     \* what guards are asked about: [facts, guards, loop, active]
    Written,      \* the expressions an author writes, as trees
    Tokens,       \* the sequences of tokens an author writes
    MaxAstDepth,  \* MAX_AST_DEPTH
    MaxSteps,     \* MAX_EVAL_STEPS
    MaxCallbacks  \* MAX_CALLBACK_CALLS

ASSUME GuardBounds == MaxAstDepth \in Nat /\ MaxSteps \in Nat /\ MaxCallbacks \in Nat

VARIABLES
    guard,    \* its tokens and what they parse to
    asked,    \* the context it is asked in, or <<>>
    opened    \* what evaluateGuard said

guardVars == <<guard, asked, opened>>

-----------------------------------------------------------------------------
(* Trees.                                                                  *)
Keywords == {"true", "false", "null", "undefined"}
Literal(value) == [type |-> "literal", value |-> value]
Identifier(name) == [type |-> "identifier", name |-> name]
Member(object, property, optional) ==
    [type |-> "member", object |-> object, property |-> property, optional |-> optional]
Call(callee, args, optional) ==
    [type |-> "call", callee |-> callee, args |-> args, optional |-> optional]
Unary(operator, argument) ==
    [type |-> "unary", operator |-> operator, argument |-> argument]
Binary(operator, left, right) ==
    [type |-> "binary", operator |-> operator, left |-> left, right |-> right]
Ternary(test, consequent, alternate) ==
    [type |-> "ternary", test |-> test, consequent |-> consequent, alternate |-> alternate]
Arrow(params, body) == [type |-> "arrow", params |-> params, body |-> body]
ParseError == [type |-> "error"]

Bool(b) == <<"boolean", b>>
Undefined == <<"undefined">>
Null == <<"null">>
Nothing == {Undefined, Null}
Broken == <<"throws">>

\* What counts as false, and as equal under "==", besides Nothing.
Zeros == {Bool(FALSE), <<"number", 0>>, <<"string", "">>}
Ones == {Bool(TRUE), <<"number", 1>>}
LiteralOf(token) ==
    CASE token = "true" -> Bool(TRUE)
      [] token = "false" -> Bool(FALSE)
      [] token = "undefined" -> Undefined
      [] token = "null" -> Null
      [] OTHER -> Literals[token]

-----------------------------------------------------------------------------
(* The parser: each function takes tokens and returns a tree and the rest. *)
Parsed(node, rest) == [node |-> node, rest |-> rest]
Failed == Parsed(ParseError, <<>>)
Fails(p) == p.node.type = "error"
Peek(ts) == IF ts = <<>> THEN "EOF" ELSE Head(ts)

\* The operators of parseLogicalOr .. parseMultiplicative, loosest first.
Levels == << {"||"}, {"&&"}, {"===", "!==", "==", "!="}, {"<", ">"}, {"+", "-"}, {"*", "/"} >>

\* Mutant: "and" and "or" bind alike.
FlatLevelOf(level) == Levels[level] \union (IF level = 2 THEN {"||"} ELSE {})

LevelOf(level) == Levels[level]

RECURSIVE parseExpr(_, _), parseNullish(_, _), ParseLevel(_, _, _), ParseRights(_, _, _),
          parseUnary(_, _), parsePrimary(_, _), parsePostfix(_, _), ParseArgs(_, _, _)

\* What is thrown ends the parse; otherwise it goes on from p.
Then(p, Go(_)) == IF Fails(p) THEN Failed ELSE Go(p)

\* parseExpr and parseTernary
parseExpr(ts, d) ==
    IF d > MaxAstDepth THEN Failed
    ELSE Then(parseNullish(ts, d + 1), LAMBDA test :
           IF Peek(test.rest) # "?" THEN test
           ELSE Then(parseExpr(Tail(test.rest), d + 2), LAMBDA yes :
                  IF Peek(yes.rest) # ":" THEN Failed
                  ELSE Then(parseExpr(Tail(yes.rest), d + 2), LAMBDA no :
                         Parsed(Ternary(test.node, yes.node, no.node), no.rest))))

parseNullish(ts, depth) ==
    Then(ParseLevel(1, ts, depth), LAMBDA left :
      IF Peek(left.rest) # "??" THEN left
      ELSE Then(parseNullish(Tail(left.rest), depth + 1), LAMBDA right :
             Parsed(Binary("??", left.node, right.node), right.rest)))

ParseLevel(level, ts, depth) ==
    IF level > Len(Levels) THEN parseUnary(ts, depth)
    ELSE Then(ParseLevel(level + 1, ts, depth), LAMBDA left : ParseRights(level, left, depth))

\* The loop of a level: its right operands, one after the other.
ParseRights(level, left, depth) ==
    IF Peek(left.rest) \notin LevelOf(level) THEN left
    ELSE Then(ParseLevel(level + 1, Tail(left.rest), depth + 1), LAMBDA right :
           ParseRights(level, Parsed(Binary(Head(left.rest), left.node, right.node), right.rest), depth))

parseUnary(ts, depth) ==
    IF Peek(ts) \notin {"!", "-", "typeof"} THEN parsePrimary(ts, depth)
    ELSE Then(parseUnary(Tail(ts), depth + 1), LAMBDA argument :
           Parsed(Unary(Head(ts), argument.node), argument.rest))

\* The parameters before "=>": names and commas, in any order.
ArrowParams(ts) ==
    LET close == {i \in DOMAIN ts : ts[i] = ")" /\ \A j \in 2..(i - 1) : ts[j] \in Names \union {","}}
    IN  {i \in close : i < Len(ts) /\ ts[i + 1] = "=>"}

\* The body of an arrow function starts at i.
ParseArrow(params, ts, i, depth) ==
    Then(parseExpr(SubSeq(ts, i, Len(ts)), depth + 1), LAMBDA body :
      Parsed(Arrow(params, body.node), body.rest))

ParseGroup(ts, depth) ==
    Then(parseExpr(ts, depth + 1), LAMBDA e :
      IF Peek(e.rest) # ")" THEN Failed ELSE Parsed(e.node, Tail(e.rest)))

\* What stands before any ".", "?." or "(".
WithoutPostfix(ts, depth) ==
    LET token == Peek(ts)
    IN  CASE token = "(" /\ ArrowParams(ts) # {} ->
               LET i == CHOOSE j \in ArrowParams(ts) : TRUE
               IN  ParseArrow(SelectSeq(SubSeq(ts, 2, i - 1), LAMBDA t : t \in Names), ts, i + 2, depth)
          [] token = "(" /\ ArrowParams(ts) = {} -> ParseGroup(Tail(ts), depth)
          [] token \in DOMAIN Literals \union Keywords -> Parsed(Literal(LiteralOf(token)), Tail(ts))
          [] token \in Names /\ Peek(Tail(ts)) = "=>" -> ParseArrow(<<token>>, ts, 3, depth)
          [] token \in Names /\ Peek(Tail(ts)) # "=>" -> Parsed(Identifier(token), Tail(ts))
          [] OTHER -> Failed

parsePrimary(ts, depth) == Then(WithoutPostfix(ts, depth), LAMBDA p : parsePostfix(p, depth))

\* Another argument, if it could be read; a comma after it may be missing.
MoreArgs(next, args, depth) ==
    IF Fails(next) THEN [args |-> <<>>, rest |-> <<>>, ok |-> FALSE]
    ELSE ParseArgs(IF Peek(next.rest) = "," THEN Tail(next.rest) ELSE next.rest,
                   Append(args, next.node), depth)

\* Arguments up to the closing bracket.
ParseArgs(ts, args, depth) ==
    CASE Peek(ts) = ")" -> [args |-> args, rest |-> Tail(ts), ok |-> TRUE]
      [] Peek(ts) = "," /\ args # <<>> -> ParseArgs(Tail(ts), args, depth)
      [] OTHER -> MoreArgs(parseExpr(ts, depth + 1), args, depth)

WithCall(p, a, optional, depth) ==
    IF ~ a.ok THEN Failed
    ELSE parsePostfix(Parsed(Call(p.node, a.args, optional), a.rest), depth)

parsePostfix(p, depth) ==
    LET rest == Tail(p.rest)
    IN  CASE Peek(p.rest) = "." ->
               IF Peek(rest) \notin Names THEN Failed
               ELSE parsePostfix(Parsed(Member(p.node, Head(rest), FALSE), Tail(rest)), depth)
          [] Peek(p.rest) = "?." ->
               CASE Peek(rest) \in Names ->
                      parsePostfix(Parsed(Member(p.node, Head(rest), TRUE), Tail(rest)), depth)
                 [] Peek(rest) = "(" -> WithCall(p, ParseArgs(Tail(rest), <<>>, depth), TRUE, depth)
                 \* the "?." is swallowed
                 [] OTHER -> Parsed(p.node, rest)
          [] Peek(p.rest) = "(" -> WithCall(p, ParseArgs(rest, <<>>, depth), FALSE, depth)
          [] OTHER -> p

\* Mutant: what follows a complete expression is not looked at.
ParsePrefix(ts) == parseExpr(ts, 0).node

parse(ts) ==
    LET p == parseExpr(ts, 0)
    IN  IF ts = <<>> \/ p.rest # <<>> THEN ParseError ELSE p.node

-----------------------------------------------------------------------------
(* The evaluator.  The budget is shared by a guard and its callbacks, and  *)
(* once it is spent the guard breaks: it is enough to count.               *)
Result(v, steps, callbacks) == [v |-> v, steps |-> steps, callbacks |-> callbacks]
Plus(a, r) == Result(r.v, a.steps + r.steps, a.callbacks + r.callbacks)
Truthy(v) == v \notin Nothing \union Zeros

\* GuardEvaluator: the builtins, and the methods of the session.
Builtins == {"approved", "isExhausted", "hasPendingTasks", "allTasksCompleted"}
BuiltinObject == <<"object", [b \in Builtins |-> <<"builtin", b>>]>>
SessionMethods == {"approved", "isExhausted", "allTasksCompleted"}
SessionOf(env) ==
    <<"object", [n \in DOMAIN env.facts \union SessionMethods |->
                   IF n \in DOMAIN env.facts THEN env.facts[n] ELSE <<"function", n>>]>>

\* A name is looked for with "in", which finds what every object inherits.
InheritedNames == {"constructor", "toString", "toLocaleString", "valueOf", "hasOwnProperty",
                   "isPrototypeOf", "propertyIsEnumerable", "__proto__"}
Prototype == <<"object", [n \in InheritedNames \ {"__proto__"} |-> <<"inherited", n>>]>>
Inherited(name) == IF name = "__proto__" THEN Prototype ELSE <<"inherited", name>>

\* Builtins come first, with all they inherit; then the session, the guards of
\* the profile, and the facts of the session.
Lookup(name, env) ==
    CASE name \in Builtins -> <<"builtin", name>>
      [] name \in InheritedNames -> Inherited(name)
      [] name = "session" -> SessionOf(env)
      [] OTHER -> IF name \in DOMAIN env.guards THEN <<"guard", env.guards[name]>>
                  ELSE IF name \in DOMAIN env.facts THEN env.facts[name] ELSE Undefined

FORBIDDEN_PROPERTIES == {"__proto__", "prototype", "constructor"}
ALLOWED_METHODS == {"every", "some", "includes"}

readProperty(v, key) ==
    CASE key \in FORBIDDEN_PROPERTIES -> Broken
      [] key \notin FORBIDDEN_PROPERTIES /\ v[1] = "object" ->
           IF key \in DOMAIN v[2] THEN v[2][key] ELSE Undefined
      [] key \notin FORBIDDEN_PROPERTIES /\ v[1] = "list" ->
           IF key \in ALLOWED_METHODS THEN <<"method", key, v[2]>> ELSE Undefined
      [] OTHER -> Undefined

\* The functions of GuardEvaluator.  A list of tasks is a list of their statuses.
approvedFn(env, args) ==
    Bool(args # <<>> /\ <<"approval", args[1], "granted">> \in ToSet(env.facts["approvals"][2]))
isExhaustedFn(env, args) ==
    LET budgets == env.facts["retryBudgets"][2]
    IN  Bool(/\ args # <<>> /\ args[1][1] = "string" /\ args[1][2] \in DOMAIN budgets
             /\ LET budget == budgets[args[1][2]][2]
                IN  budget["attempts"][2] >= budget["maximum"][2])
hasPendingTasksFn(env) ==
    LET lists == env.facts["tasks"][2]
    IN  Bool(\E key \in DOMAIN lists : \E t \in ToSet(lists[key][2]) :
               t \in {<<"string", "pending">>, <<"string", "running">>})

\* The list that is named, that of the loop, or the one that runs are open in.
KeysAsked(env, args) ==
    CASE args # <<>> /\ args[1] # Undefined -> {args[1]}
      [] OTHER -> IF env.loop # {} THEN env.loop ELSE env.active
allTasksCompletedFn(env, args) ==
    LET lists == env.facts["tasks"][2]
        keys == KeysAsked(env, args)
    IN  Bool(/\ Cardinality(keys) = 1
             /\ \E key \in DOMAIN lists :
                  /\ keys = {<<"string", key>>} /\ lists[key][2] # <<>>
                  /\ ToSet(lists[key][2]) = {<<"string", "completed">>})

\* What every object inherits, called on "this".
IsObject(v) == v[1] \notin {"undefined", "null", "boolean", "number", "string"}
InheritedFn(name, args, this) ==
    CASE name \in {"toString", "toLocaleString"} -> <<"string", "[object Object]">>
      [] name = "valueOf" -> this
      [] name = "constructor" ->
           IF args # <<>> /\ IsObject(args[1]) THEN args[1] ELSE <<"object", <<>>>>
      [] name = "isPrototypeOf" ->
           Bool(this = Prototype /\ args # <<>> /\ IsObject(args[1]) /\ args[1] # Prototype)
      [] OTHER ->
           Bool(/\ args # <<>> /\ args[1][1] = "string" /\ args[1][2] \in DOMAIN this[2]
                /\ name = "propertyIsEnumerable" => this # Prototype)

LooselyEqual(left, right) ==
    left = right \/ \E same \in {Nothing, Zeros, Ones} : {left, right} \subseteq same
Numbers(left, right) == left[1] = "number" /\ right[1] = "number"
Compare(operator, left, right) ==
    CASE operator = "===" -> Bool(left = right)
      [] operator = "!==" -> Bool(left # right)
      [] operator = "==" -> Bool(LooselyEqual(left, right))
      [] operator = "!=" -> Bool(~ LooselyEqual(left, right))
      [] operator = "<" -> Bool(Numbers(left, right) /\ left[2] < right[2])
      [] operator = ">" -> Bool(Numbers(left, right) /\ left[2] > right[2])
      [] OTHER ->
           IF ~ Numbers(left, right) THEN Undefined
           ELSE <<"number", CASE operator = "+" -> left[2] + right[2]
                              [] operator = "-" -> left[2] - right[2]
                              [] OTHER -> left[2] * right[2]>>

RECURSIVE evaluateNode(_, _), EvaluateArgs(_, _), Visit(_, _, _, _)

\* every and some, until an element decides.
Visit(method, items, closure, sum) ==
    LET facts == closure[4].facts
        body == evaluateNode(closure[3], [closure[4] EXCEPT !.facts =
                  [n \in DOMAIN facts \union ToSet(closure[2]) |->
                     IF closure[2] # <<>> /\ n = closure[2][1] THEN Head(items)
                     ELSE IF n \in ToSet(closure[2]) THEN Undefined ELSE facts[n]]])
        done == Plus(sum, body)
    IN  CASE items = <<>> -> Plus(sum, Result(Bool(method = "every"), 0, 0))
          [] OTHER ->
               IF body.v = Broken THEN done
               ELSE IF Truthy(body.v) # (method = "every")
                    THEN Plus(sum, Result(Bool(method = "some"), body.steps, body.callbacks))
                    ELSE Visit(method, Tail(items), closure, done)

AnswerOf(name, args, env) ==
    CASE name = "approved" -> approvedFn(env, args)
      [] name = "isExhausted" -> isExhaustedFn(env, args)
      [] name = "hasPendingTasks" -> hasPendingTasksFn(env)
      [] name = "allTasksCompleted" -> allTasksCompletedFn(env, args)
Invoke(f, args, this, env) ==
    CASE f[1] \in {"builtin", "function"} -> Result(AnswerOf(f[2], args, env), 0, 0)
      [] f[1] = "guard" -> Result(Bool(f[2]), 0, 0)
      [] f[1] = "inherited" -> Result(InheritedFn(f[2], args, this), 0, 0)
      [] OTHER ->
           IF f[2] = "includes" THEN Result(Bool(args # <<>> /\ args[1] \in ToSet(f[3])), 0, 0)
           ELSE IF args = <<>> \/ args[1][1] # "arrow" THEN Result(Broken, 0, 0)
           ELSE Visit(f[2], f[3], args[1], Result(Undefined, 0, 0))

EvaluateArgs(args, env) ==
    IF args = <<>> THEN [vs |-> <<>>, r |-> Result(Undefined, 0, 0)]
    ELSE LET first == evaluateNode(Head(args), env)
             others == EvaluateArgs(Tail(args), env)
         IN  IF first.v = Broken THEN [vs |-> <<>>, r |-> first]
             ELSE [vs |-> <<first.v>> \o others.vs, r |-> Plus(first, others.r)]

\* The object of a method is evaluated once for "this" and once more.  What is
\* called by a name that the builtins have is called on them, and not counted.
EvaluateCall(n, env) ==
    LET this == IF n.callee.type = "member" THEN evaluateNode(n.callee.object, env)
                ELSE Result(Undefined, 0, 0)
        callee == Plus(this, evaluateNode(n.callee, env))
        a == EvaluateArgs(n.args, env)
        called == Plus(callee, a.r)
        builtin == n.callee.type = "identifier" /\ n.callee.name \in Builtins \union InheritedNames
        counted == IF builtin THEN 0 ELSE 1
    IN  CASE this.v = Broken -> this
          [] this.v # Broken /\ callee.v = Broken -> callee
          [] OTHER -> IF callee.v[1] \notin {"builtin", "function", "method", "guard", "inherited"}
                      THEN Plus(callee, Result(Undefined, 0, 0))
                      ELSE IF a.r.v = Broken THEN called
                      ELSE LET r == Invoke(callee.v, a.vs, IF builtin THEN BuiltinObject ELSE this.v, env)
                           IN  Plus(called, Result(r.v, r.steps, r.callbacks + counted))

\* Whether the right side of a logical operator is looked at.
Continues(operator, left) ==
    CASE operator = "&&" -> Truthy(left)
      [] operator = "||" -> ~ Truthy(left)
      [] operator = "??" -> left \in Nothing
      [] OTHER -> TRUE

EvaluateBinary(n, env) ==
    LET left == evaluateNode(n.left, env)
        right == Plus(left, evaluateNode(n.right, env))
    IN  CASE left.v = Broken \/ ~ Continues(n.operator, left.v) -> left
          [] OTHER -> IF right.v = Broken \/ n.operator \in {"&&", "||", "??"} THEN right
                      ELSE Result(Compare(n.operator, left.v, right.v), right.steps, right.callbacks)

EvaluateMember(n, env) ==
    LET object == evaluateNode(n.object, env)
    IN  Plus(object, Result(
          CASE object.v = Broken -> Broken
            [] object.v \in Nothing -> IF n.optional THEN Undefined ELSE Broken
            [] OTHER -> readProperty(object.v, n.property), 0, 0))

TypeOf(v) ==
    CASE v[1] \in {"undefined", "boolean", "number", "string"} -> v[1]
      [] v[1] \in {"object", "list", "null"} -> "object"
      [] OTHER -> "function"
EvaluateUnary(n, env) ==
    LET argument == evaluateNode(n.argument, env)
    IN  Plus(argument, Result(
          CASE argument.v = Broken -> Broken
            [] OTHER -> IF n.operator = "!" THEN Bool(~ Truthy(argument.v))
                        ELSE IF n.operator = "typeof" THEN <<"string", TypeOf(argument.v)>>
                        ELSE IF argument.v[1] = "number" THEN <<"number", - argument.v[2]>>
                        ELSE Undefined, 0, 0))

evaluateNode(n, env) ==
    Plus(Result(Undefined, 1, 0),
      CASE n.type = "literal" -> Result(n.value, 0, 0)
        [] n.type = "identifier" -> Result(Lookup(n.name, env), 0, 0)
        [] n.type = "arrow" -> Result(<<"arrow", n.params, n.body, env>>, 0, 0)
        [] n.type = "member" -> EvaluateMember(n, env)
        [] n.type = "call" -> EvaluateCall(n, env)
        [] n.type = "unary" -> EvaluateUnary(n, env)
        [] n.type = "binary" -> EvaluateBinary(n, env)
        [] n.type = "ternary" ->
             LET test == evaluateNode(n.test, env)
             IN  IF test.v = Broken THEN test
                 ELSE Plus(test, evaluateNode(
                        IF Truthy(test.v) THEN n.consequent ELSE n.alternate, env)))

\* Mutant: a guard that breaks lets the transition through.
OpenOnError(n, env) ==
    n.type = "error" \/ LET r == evaluateNode(n, env) IN r.v = Broken \/ Truthy(r.v)

\* Closed by a parse error, by whatever is thrown and by a spent budget.
evaluateGuard(n, env) ==
    /\ n.type # "error"
    /\ LET r == evaluateNode(n, env)
       IN  /\ r.v # Broken /\ Truthy(r.v)
           /\ r.steps <= MaxSteps + 1
           /\ r.callbacks <= MaxCallbacks + 1

-----------------------------------------------------------------------------
(* A guard is written, compiled with its workflow and asked.               *)
NoGuard == [tokens |-> <<>>, node |-> ParseError, tree |-> ParseError]

GuardInit ==
    /\ guard = NoGuard
    /\ asked = <<>>
    /\ opened = FALSE

\* How an expression is written: brackets where the operators ask for them.
\* A ternary is 0, "??" 1, the levels 2 .. 7, a unary 8, the rest 9.
Tightness(n) ==
    CASE n.type \in {"ternary", "arrow"} -> 0
      [] n.type = "binary" -> IF n.operator = "??" THEN 1
           ELSE 1 + (CHOOSE l \in 1..6 : n.operator \in
                << {"||"}, {"&&"}, {"===", "!==", "==", "!="}, {"<", ">"}, {"+", "-"}, {"*", "/"} >>[l])
      [] n.type = "unary" -> 8
      [] OTHER -> 9

RECURSIVE Show(_, _), ShowList(_)
ShowList(ns) ==
    CASE ns = <<>> -> <<>>
      [] Len(ns) = 1 -> Show(ns[1], 0)
      [] OTHER -> Show(ns[1], 0) \o <<",">> \o ShowList(Tail(ns))

\* n where nothing looser than "at" may stand without brackets.
Show(n, at) ==
    LET bare ==
          CASE n.type = "literal" -> IF n.value[1] \in {"string", "number"}
                 THEN <<CHOOSE t \in DOMAIN Literals : Literals[t] = n.value>>
                 ELSE IF n.value \in Nothing THEN n.value
                 ELSE IF n.value[2] THEN <<"true">> ELSE <<"false">>
            [] n.type = "identifier" -> <<n.name>>
            [] n.type = "member" ->
                 Show(n.object, 9) \o <<IF n.optional THEN "?." ELSE ".", n.property>>
            [] n.type = "call" -> Show(n.callee, 9) \o
                 (IF n.optional THEN <<"?.", "(">> ELSE <<"(">>) \o ShowList(n.args) \o <<")">>
            [] n.type = "unary" -> <<n.operator>> \o Show(n.argument, 8)
            [] n.type = "ternary" -> Show(n.test, 1) \o <<"?">> \o Show(n.consequent, 0)
                 \o <<":">> \o Show(n.alternate, 0)
            [] n.type = "arrow" -> <<"(">> \o n.params \o <<")", "=>">> \o Show(n.body, 0)
            [] OTHER -> LET t == Tightness(n) IN
                 IF n.operator = "??" THEN Show(n.left, 2) \o <<"??">> \o Show(n.right, 1)
                 ELSE Show(n.left, t) \o <<n.operator>> \o Show(n.right, t + 1)
    IN  IF Tightness(n) < at THEN <<"(">> \o bare \o <<")">> ELSE bare

WriteTree(tree) ==
    /\ guard' = [tokens |-> Show(tree, 0), node |-> parse(Show(tree, 0)), tree |-> tree]
    /\ UNCHANGED <<asked, opened>>

WriteTokens(ts) ==
    /\ guard' = [tokens |-> ts, node |-> parse(ts), tree |-> ParseError]
    /\ UNCHANGED <<asked, opened>>

\* A schema with a guard that does not parse is not loaded.
AskGuard(context) ==
    /\ guard.node.type # "error" /\ asked = <<>>
    /\ asked' = context
    /\ opened' = evaluateGuard(guard.node, context)
    /\ UNCHANGED guard

GuardNext ==
    \/ guard = NoGuard /\ \E tree \in Written : WriteTree(tree)
    \/ guard = NoGuard /\ \E ts \in Tokens : WriteTokens(ts)
    \/ \E context \in Contexts : AskGuard(context)

-----------------------------------------------------------------------------
(* An expression is read as the operators bind it, whatever brackets its   *)
(* author left out.                                                        *)
ParsesAsWritten ==
    guard.tree.type # "error" => guard.node = guard.tree

\* The names and literals of a tree, from left to right.
RECURSIVE Operands(_)
Operands(n) ==
    CASE n.type \in {"literal", "identifier"} -> Show(n, 0)
      [] n.type = "member" -> Operands(n.object) \o <<n.property>>
      [] n.type = "call" -> Operands(n.callee) \o FlattenSeq([i \in DOMAIN n.args |-> Operands(n.args[i])])
      [] n.type = "unary" -> Operands(n.argument)
      [] n.type = "binary" -> Operands(n.left) \o Operands(n.right)
      [] n.type = "ternary" -> Operands(n.test) \o Operands(n.consequent) \o Operands(n.alternate)
      [] n.type = "arrow" -> n.params \o Operands(n.body)

(* Whatever is accepted, every name and literal of it is in the tree, in   *)
(* its place: no condition an author wrote is lost.                        *)
NothingWrittenIsLost ==
    guard.node.type # "error" =>
    Operands(guard.node) =
      SelectSeq(guard.tokens, LAMBDA t : t \in Names \union DOMAIN Literals \union Keywords)

(* What a guard means: it holds, fails, or throws where a property of      *)
(* something absent is read or a forbidden one is.  Left to right, as far  *)
(* as the answer is open.  A name nobody declared stands for nothing.      *)
Verdict(b) == IF b THEN "holds" ELSE "fails"
Void(v) == v \in {Undefined, Null, Bool(FALSE), <<"number", 0>>, <<"string", "">>}
NotDeclared(name, env) ==
    name \notin Builtins \union {"session"} \union DOMAIN env.guards \union DOMAIN env.facts
NameHolds(name, env) ==
    \/ name \in Builtins \union {"session"} \union DOMAIN env.guards
    \/ name \in DOMAIN env.facts /\ ~ Void(env.facts[name])

\* Every task of the list is done, and there is one.
ListIsDone(key, env) ==
    LET lists == env.facts["tasks"][2]
    IN  /\ key \in DOMAIN lists /\ lists[key][2] # <<>>
        /\ \A t \in ToSet(lists[key][2]) : t = <<"string", "completed">>
\* Without an argument: the list of the loop, or the only one with open runs.
CurrentIsDone(env) ==
    \E key \in DOMAIN env.facts["tasks"][2] :
        /\ ListIsDone(key, env)
        /\ \/ env.loop = {<<"string", key>>}
           \/ env.loop = {} /\ env.active = {<<"string", key>>}

\* A function by its name, or as a property of the session.
CallsTo(n, name) ==
    n.callee \in {Identifier(name), Member(Identifier("session"), name, FALSE)}
CallHolds(n, env) ==
    CASE n.callee = Identifier("hasPendingTasks") ->
           \E key \in DOMAIN env.facts["tasks"][2] :
             {<<"string", "pending">>, <<"string", "running">>} \intersect
               ToSet(env.facts["tasks"][2][key][2]) # {}
      [] CallsTo(n, "approved") ->
           <<"approval", n.args[1].value, "granted">> \in ToSet(env.facts["approvals"][2])
      [] CallsTo(n, "isExhausted") ->
           \E key \in DOMAIN env.facts["retryBudgets"][2] :
             LET budget == env.facts["retryBudgets"][2][key][2]
             IN  n.args[1].value = <<"string", key>> /\ budget["attempts"][2] >= budget["maximum"][2]
      [] CallsTo(n, "allTasksCompleted") ->
           IF n.args = <<>> THEN CurrentIsDone(env) ELSE ListIsDone(n.args[1].value[2], env)
      [] OTHER -> n.callee.name \in DOMAIN env.guards /\ env.guards[n.callee.name]

RECURSIVE Meaning(_, _)
\* items.every(t => ..) or items.some(t => ..): the first that decides, does.
ListMeaning(n, env) ==
    LET list == env.facts[n.callee.object.name][2]
        param == n.args[1].params[1]
        each == [i \in DOMAIN list |-> Meaning(n.args[1].body,
                   [env EXCEPT !.facts = [x \in DOMAIN @ \union {param} |-> IF x = param THEN list[i] ELSE @[x]]])]
        goesOn == Verdict(n.callee.property = "every")
        stops == {i \in DOMAIN each : each[i] # goesOn}
    IN  IF NotDeclared(n.callee.object.name, env) THEN "throws"
        ELSE IF stops = {} THEN goesOn
        ELSE each[CHOOSE i \in stops : \A j \in stops : i <= j]
OnList(n) == n.callee.type = "member" /\ n.callee.object # Identifier("session")

Meaning(n, env) ==
    LET m(e) == Meaning(e, env)
    IN  CASE n.type = "literal" -> Verdict(~ Void(n.value))
          [] n.type = "identifier" -> Verdict(NameHolds(n.name, env))
          [] n.type = "member" ->
               CASE NotDeclared(n.object.name, env) -> IF n.optional THEN "fails" ELSE "throws"
                 [] ~ NotDeclared(n.object.name, env) /\ n.property \in FORBIDDEN_PROPERTIES -> "throws"
                 [] OTHER -> Verdict(/\ n.object = Identifier("session")
                                     /\ \/ n.property \in SessionMethods
                                        \/ n.property \in DOMAIN env.facts /\ ~ Void(env.facts[n.property]))
          [] n.type = "call" -> IF OnList(n) THEN ListMeaning(n, env) ELSE Verdict(CallHolds(n, env))
          [] n.type = "unary" -> [holds |-> "fails", fails |-> "holds", throws |-> "throws"][m(n.argument)]
          [] n.type = "binary" ->
               CASE n.operator \in {"===", "!=="} ->
                      Verdict((env.facts[n.left.name] = n.right.value) = (n.operator = "==="))
                 [] n.operator = "&&" -> IF m(n.left) = "holds" THEN m(n.right) ELSE m(n.left)
                 [] OTHER -> IF m(n.left) = "fails" THEN m(n.right) ELSE m(n.left)
          [] n.type = "ternary" -> [holds |-> m(n.consequent), fails |-> m(n.alternate),
                                    throws |-> "throws"][m(n.test)]

\* The expressions Meaning is about: connectives, facts and their properties,
\* the functions of the evaluator and of the profile, every and some of "items".
PlainCall(n) ==
    \/ n.callee = Identifier("hasPendingTasks")
    \/ \E name \in {"approved", "isExhausted"} : CallsTo(n, name) /\ Len(n.args) = 1 /\ n.args[1].type = "literal"
    \/ /\ CallsTo(n, "allTasksCompleted")
       /\ n.args = <<>> \/ (Len(n.args) = 1 /\ n.args[1].type = "literal" /\ n.args[1].value[1] = "string")
    \/ n.callee.type = "identifier" /\ n.args = <<>>
         /\ n.callee.name \notin {"approved", "isExhausted", "session"}
RECURSIVE Plain(_)
Plain(n) ==
    CASE n.type \in {"literal", "identifier"} -> TRUE
      [] n.type = "member" -> n.object.type = "identifier"
      [] n.type = "unary" -> n.operator = "!" /\ Plain(n.argument)
      [] n.type = "binary" ->
           \/ n.operator \in {"&&", "||"} /\ Plain(n.left) /\ Plain(n.right)
           \/ /\ n.operator \in {"===", "!=="} /\ n.right.type = "literal"
              /\ n.left.type = "identifier" /\ n.left.name = "t"
      [] n.type = "call" ->
           \/ PlainCall(n)
           \/ /\ n.callee.type = "member" /\ n.callee.property \in {"every", "some"}
              /\ n.callee.object = Identifier("items")
              /\ Len(n.args) = 1 /\ n.args[1].type = "arrow" /\ Len(n.args[1].params) = 1
              /\ Plain(n.args[1].body)
      [] n.type = "ternary" -> Plain(n.test) /\ Plain(n.consequent) /\ Plain(n.alternate)
      [] OTHER -> FALSE

\* It has one of the names that every object inherits, as a name of its own.
RECURSIVE NamesInherited(_)
NamesInherited(n) ==
    CASE n.type = "literal" -> FALSE
      [] n.type = "identifier" -> n.name \in InheritedNames
      [] n.type = "member" -> NamesInherited(n.object)
      [] n.type = "call" -> NamesInherited(n.callee) \/ \E i \in DOMAIN n.args : NamesInherited(n.args[i])
      [] n.type = "unary" -> NamesInherited(n.argument)
      [] n.type = "binary" -> NamesInherited(n.left) \/ NamesInherited(n.right)
      [] n.type = "ternary" -> \E e \in {n.test, n.consequent, n.alternate} : NamesInherited(e)
      [] n.type = "arrow" -> NamesInherited(n.body)

(* A transition opens exactly when its guard holds, as far as its budget   *)
(* goes: neither a guard that throws nor the negation of one opens it, and *)
(* what is behind a decided "and" or "or" cannot make it throw.  Guards    *)
(* with a name that every object inherits are the exception (see           *)
(* UndeclaredNamesDoNotOpen).                                              *)
OpensWhenItHolds ==
    asked # <<>> /\ Plain(guard.node) /\ ~ NamesInherited(guard.node) =>
    /\ opened => Meaning(guard.node, asked) = "holds"
    /\ Meaning(guard.node, asked) = "holds" =>
         opened \/ evaluateNode(guard.node, asked).steps > MaxSteps

(* No transition opens by a name that nobody declared ("a name that is not *)
(* on the allowlist is not reachable, however it is written").  The code   *)
(* breaks it: evaluateNode finds what the object of the builtins inherits. *)
UndeclaredNamesDoNotOpen ==
    asked # <<>> /\ Plain(guard.node) /\ opened => Meaning(guard.node, asked) = "holds"

(* A guard that is accepted means what its author wrote: no operator binds *)
(* otherwise, no token is dropped, and what breaks is shut.                *)
GuardsMeanWhatIsWritten == ParsesAsWritten /\ NothingWrittenIsLost /\ OpensWhenItHolds
=============================================================================
