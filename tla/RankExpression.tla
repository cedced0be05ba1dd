--------------------------- MODULE RankExpression ---------------------------
(***************************************************************************)
(* The parser of ranking expressions: sums of products of signs, groups,   *)
(* fields and calls, by recursive descent, under limits of nodes and of    *)
(* nesting.  The state is the sequence of tokens, one longer each step.    *)
(***************************************************************************)
EXTENDS Naturals, Sequences, FiniteSets

CONSTANTS
  Alphabet,    \* tokens: signs, "(", ")", ",", "number", "field", "min", "abs", "ql", "string", ...
  MaxTokens,   \* bound of the sequence
  MaxNodes,    \* MAX_NODES
  MaxDepth     \* MAX_DEPTH

VARIABLE tokens

Init == tokens = << >>
Next == Len(tokens) < MaxTokens /\ \E t \in Alphabet : tokens' = Append(tokens, t)

Peek(i) == IF i \in DOMAIN tokens THEN tokens[i] ELSE "end"
Functions == {"min", "abs"}
Names == Functions \cup {"field", "unknown", "ql"}
Arity(f) == IF f = "min" THEN 2 ELSE 1
-----------------------------------------------------------------------------
Fails(code) == [ok |-> FALSE, code |-> code]
Parsed(tree, index, nodes) == [ok |-> TRUE, tree |-> tree, index |-> index, nodes |-> nodes]

Node(tree, index, nodes, depth) ==
  IF nodes + 1 > MaxNodes \/ depth > MaxDepth THEN Fails("rank_too_complex")
  ELSE Parsed(tree, index, nodes + 1)

Leaf(i) == [op |-> tokens[i], args |-> << >>]
Pair(op, left, right) == [op |-> op, args |-> <<left, right>>]

RECURSIVE Expression(_, _, _), Sum(_, _), Term(_, _, _), Product(_, _), Unary(_, _, _), Primary(_, _, _), Arguments(_, _, _, _)

Expression(depth, i, nodes) == Sum(depth, Term(depth + 1, i, nodes))

(* What follows a sum so far: another term, or the end of it.              *)
Joined(left, right, depth) ==
  IF right.ok THEN Node(Pair(Peek(left.index), left.tree, right.tree), right.index, right.nodes, depth) ELSE right

Sum(depth, left) ==
  IF left.ok /\ Peek(left.index) \in {"+", "-"}
    THEN Sum(depth, Joined(left, Term(depth + 1, left.index + 1, left.nodes), depth))
    ELSE left

Term(depth, i, nodes) == Product(depth, Unary(depth + 1, i, nodes))

\* Mutant: a product goes on to the right.
RightFactor(depth, i, nodes) == Term(depth, i, nodes)
Factor(depth, i, nodes) == Unary(depth + 1, i, nodes)

Product(depth, left) ==
  IF left.ok /\ Peek(left.index) \in {"*", "/"}
    THEN Product(depth, Joined(left, Factor(depth, left.index + 1, left.nodes), depth))
    ELSE left

Unary(depth, i, nodes) ==
  IF Peek(i) = "+" THEN Unary(depth + 1, i + 1, nodes)
  ELSE IF Peek(i) = "-"
    THEN LET value == Unary(depth + 1, i + 1, nodes)
         IN IF value.ok THEN Node([op |-> "negate", args |-> <<value.tree>>], value.index, value.nodes, depth) ELSE value
  ELSE Primary(depth + 1, i, nodes)

Group(value) ==
  IF ~value.ok THEN value
  ELSE IF Peek(value.index) # ")" THEN Fails("invalid_rank")
  ELSE Parsed(value.tree, value.index + 1, value.nodes)

(* The arguments of a call: a comma may also come before the parenthesis.  *)
Arguments(depth, i, nodes, args) ==
  IF Peek(i) = ")" THEN Parsed(args, i + 1, nodes)
  ELSE LET value == Expression(depth + 1, i, nodes)
       IN IF ~value.ok THEN value
          ELSE IF Peek(value.index) = "," THEN Arguments(depth, value.index + 1, value.nodes, Append(args, value.tree))
          ELSE IF Peek(value.index) = ")" THEN Parsed(Append(args, value.tree), value.index + 1, value.nodes)
          ELSE Fails("invalid_rank")

Call(depth, i, args) ==
  IF ~args.ok THEN args
  ELSE IF Len(args.tree) # Arity(tokens[i]) THEN Fails("invalid_rank")
  ELSE Node([op |-> tokens[i], args |-> args.tree], args.index, args.nodes, depth)

Ql(depth, i, nodes) ==
  IF Peek(i + 2) \notin {"string", "bad ql"} \/ Peek(i + 3) # ")" THEN Fails("invalid_rank")
  ELSE IF Peek(i + 2) = "bad ql" THEN Fails("invalid_rank_ql")
  ELSE Node([op |-> "ql", args |-> << >>], i + 4, nodes, depth)

Identifier(depth, i, nodes) ==
  IF Peek(i + 1) # "("
    THEN IF tokens[i] = "field" THEN Node(Leaf(i), i + 1, nodes, depth) ELSE Fails("unknown_rank_field")
  ELSE IF tokens[i] = "ql" THEN Ql(depth, i, nodes)
  ELSE IF tokens[i] \notin Functions THEN Fails("unknown_rank_function")
  ELSE Call(depth, i, Arguments(depth, i + 2, nodes, << >>))

Primary(depth, i, nodes) ==
  IF Peek(i) = "(" THEN Group(Expression(depth + 1, i + 1, nodes))
  ELSE IF Peek(i) = "number" THEN Node(Leaf(i), i + 1, nodes, depth)
  ELSE IF Peek(i) \in Names THEN Identifier(depth, i, nodes)
  ELSE Fails("invalid_rank")

Parse ==
  IF tokens = << >> THEN Fails("invalid_rank")
  ELSE LET whole == Expression(0, 1, 0)
       IN IF whole.ok /\ whole.index <= Len(tokens) THEN Fails("invalid_rank") ELSE whole
-----------------------------------------------------------------------------
(* The grammar apart from the parser: the trees of tokens i to j.          *)
(*   sum     ::=  product  |  sum  +  product  |  sum  -  product          *)
(*   product ::=  signed   |  product times or over signed                 *)
(*   signed  ::=  + signed  |  - signed  |  value                          *)
(*   value   ::=  number | field | ( sum ) | ql ( string )                 *)
(*             |  function ( sum [, sum] [,] )                             *)
RECURSIVE Sums(_, _), Products(_, _), Signed(_, _)

Splits(i, j, signs) == {k \in i + 1 .. j - 1 : tokens[k] \in signs}
Sums(i, j) ==
  Products(i, j) \cup UNION {{Pair(tokens[k], l, r) : l \in Sums(i, k - 1), r \in Products(k + 1, j)} : k \in Splits(i, j, {"+", "-"})}
Products(i, j) ==
  Signed(i, j) \cup UNION {{Pair(tokens[k], l, r) : l \in Products(i, k - 1), r \in Signed(k + 1, j)} : k \in Splits(i, j, {"*", "/"})}

Calls(f, i, j) ==
  LET last == IF i < j /\ tokens[j] = "," THEN j - 1 ELSE j IN
  IF Arity(f) = 1 THEN {[op |-> f, args |-> <<a>>] : a \in Sums(i, last)}
  ELSE UNION {{[op |-> f, args |-> <<a, b>>] : a \in Sums(i, k - 1), b \in Sums(k + 1, last)} : k \in Splits(i, last, {","})}

Values(i, j) ==
  IF i = j /\ tokens[i] \in {"number", "field"} THEN {Leaf(i)}
  ELSE IF i < j /\ tokens[i] = "(" /\ tokens[j] = ")" THEN Sums(i + 1, j - 1)
  ELSE IF i + 2 < j /\ tokens[i + 1] = "(" /\ tokens[j] = ")"
    THEN IF tokens[i] \in Functions THEN Calls(tokens[i], i + 2, j - 1)
         ELSE IF tokens[i] = "ql" /\ j = i + 3 /\ tokens[i + 2] = "string" THEN {[op |-> "ql", args |-> << >>]} ELSE {}
  ELSE {}

Signed(i, j) ==
  IF i > j THEN {}
  ELSE IF tokens[i] = "+" THEN Signed(i + 1, j)
  ELSE IF tokens[i] = "-" THEN {[op |-> "negate", args |-> <<t>>] : t \in Signed(i + 1, j)}
  ELSE Values(i, j)

Derived == Sums(1, Len(tokens))

(* An expression is accepted when the grammar has a tree for it, with that *)
(* tree: products before sums, both from the left, a sign before either;   *)
(* unless it is too large.                                                 *)
RanksFollowTheGrammar ==
  IF Parse.ok THEN Derived = {Parse.tree} /\ Parse.nodes <= MaxNodes
  ELSE Parse.code # "rank_too_complex" => Derived = {}
=============================================================================
