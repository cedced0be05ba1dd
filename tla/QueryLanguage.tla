--------------------------- MODULE QueryLanguage ---------------------------
(***************************************************************************)
(* The parser of the query language: tokens to an expression, by           *)
(* precedence climbing, under limits of tokens, nodes and nesting.         *)
(*                                                                         *)
(* The state is the sequence of tokens lex has found so far; the parser is *)
(* an operator on it.  Words are classes: what field they name, and        *)
(* whether their value is one the field takes.  The grammar the parser     *)
(* should follow is written down apart from it, as the trees that span an  *)
(* interval of tokens.                                                     *)
(***************************************************************************)
EXTENDS Naturals, Sequences, FiniteSets

CONSTANTS
  Alphabet,    \* tokens: [kind, field, value], without the space before them
  Exact,       \* fields whose values have a shape: subreddit, author, name, ...
  Available,   \* fields of this mode
  MaxTokens, MaxNodes, MaxDepth

Text == "text"   \* the field of an unqualified value

VARIABLE tokens

Init == tokens = << >>

(* lex: words stand apart from words and from the words AND, OR and NOT;   *)
(* && and ||, !, parentheses and quotes need no space.                     *)
Wordlike == {"word", "qualified", "prefix"}
MayTouch(a, b) == ~(a.kind \in Wordlike /\ b.kind \in Wordlike)
                    /\ ~(a.kind \in Wordlike /\ b.kind = "not")

Lex(t, gap) ==
  /\ Len(tokens) < MaxTokens
  /\ ~gap /\ tokens # << >> => MayTouch(tokens[Len(tokens)], t)
  /\ tokens' = Append(tokens, [kind |-> t.kind, field |-> t.field, value |-> t.value, gap |-> gap])

Next == \E t \in Alphabet, gap \in BOOLEAN : Lex(t, gap)
-----------------------------------------------------------------------------
(***************************************************************************)
(* The parser.  A step returns the tree, the index of the next token and   *)
(* the number of nodes made so far, or the code of a diagnostic.           *)
(***************************************************************************)
Fails(code) == [ok |-> FALSE, code |-> code]
Parsed(tree, index, nodes) == [ok |-> TRUE, tree |-> tree, index |-> index, nodes |-> nodes]

Node(tree, index, nodes) ==
  IF nodes + 1 > MaxNodes THEN Fails("query_too_complex") ELSE Parsed(tree, index, nodes + 1)

Kind(i) == IF i \in DOMAIN tokens THEN tokens[i].kind ELSE "end"

\* Mutant: AND and OR bind alike.
OnePrecedence(i) ==
  CASE Kind(i) \in {"or", "and"} -> 1
    [] Kind(i) \in {"close", "end"} -> 0
    [] OTHER -> IF tokens[i].gap THEN 1 ELSE 0
Precedence(i) ==
  CASE Kind(i) = "or" -> 1
    [] Kind(i) = "and" -> 2
    [] Kind(i) \in {"close", "end"} -> 0
    [] OTHER -> IF tokens[i].gap THEN 2 ELSE 0

(* What a field takes: a qualified word as the value of a field is free    *)
(* text for the fields that take text and has no shape for the others.     *)
Takes(field, t) ==
  CASE t.kind \in {"word", "phrase"} -> t.value = "good"
    [] t.kind \in {"qualified", "prefix"} -> field \notin Exact

Leaf(field, i) == [op |-> "is", field |-> field, at |-> i]
Scalar(field, i, nodes) ==
  IF Takes(field, tokens[i]) THEN Node(Leaf(field, i), i + 1, nodes) ELSE Fails("invalid_value")

RECURSIVE Expression(_, _, _, _, _), Climb(_, _, _, _), Primary(_, _, _, _)

Expression(min, field, depth, i, nodes) ==
  LET left == Primary(field, depth, i, nodes)
  IN IF left.ok THEN Climb(min, field, depth, left) ELSE left

Climb(min, field, depth, left) ==
  LET precedence == Precedence(left.index)
      explicit == Kind(left.index) \in {"and", "or"}
      right == Expression(precedence + 1, field, depth + 1,
                          left.index + (IF explicit THEN 1 ELSE 0), left.nodes)
      both == Node([op |-> IF Kind(left.index) = "or" THEN "or" ELSE "and",
                    left |-> left.tree, right |-> right.tree], right.index, right.nodes)
  IN IF precedence = 0 \/ precedence < min THEN left
     ELSE IF ~right.ok THEN right
     ELSE IF ~both.ok THEN both
     ELSE Climb(min, field, depth, both)

(* A field's value or group, after the colon.                              *)
FieldGroup(field, depth, i, nodes) == Primary(field, depth + 1, i, nodes)

QualifiedValue(field, depth, i, nodes) ==
  CASE Kind(i) = "qualified" /\ tokens[i].value = "operator" -> Fails("unexpected_token")
    [] Kind(i) = "qualified" /\ tokens[i].value = "bad" -> Fails("invalid_value")
    [] Kind(i) = "qualified" /\ tokens[i].value = "good" -> Node(Leaf(field, i), i + 1, nodes)
    [] Kind(i) = "prefix" /\ Kind(i + 1) = "open" -> FieldGroup(field, depth, i + 1, nodes)
    [] Kind(i) = "prefix" /\ Kind(i + 1) \in Wordlike \cup {"phrase"} -> Scalar(field, i + 1, nodes)
    [] OTHER -> Fails("missing_operand")

Qualified(field, depth, i, nodes) ==
  CASE field # Text -> Fails("unexpected_token")
    [] field = Text /\ tokens[i].field \notin Available -> Fails("field_not_available")
    [] OTHER -> QualifiedValue(tokens[i].field, depth, i, nodes)

Group(group) ==
  CASE ~group.ok -> group
    [] group.ok /\ Kind(group.index) # "close" -> Fails("unbalanced_group")
    [] group.ok /\ Kind(group.index) = "close" -> Parsed(group.tree, group.index + 1, group.nodes)

Not(value) ==
  IF value.ok THEN Node([op |-> "not", arg |-> value.tree], value.index, value.nodes) ELSE value

Primary(field, depth, i, nodes) ==
  IF Kind(i) # "end" /\ depth > MaxDepth THEN Fails("query_too_complex") ELSE
  CASE Kind(i) = "end" -> Fails("missing_operand")
    [] Kind(i) = "not" -> Not(Primary(field, depth + 1, i + 1, nodes))
    [] Kind(i) = "open" -> Group(Expression(0, field, depth + 1, i + 1, nodes))
    [] Kind(i) \in {"qualified", "prefix"} -> Qualified(field, depth, i, nodes)
    [] Kind(i) \in {"word", "phrase"} -> Scalar(field, i, nodes)
    [] Kind(i) \in {"and", "or", "close"} -> Fails("unexpected_token")

WholeQuery(result) ==
  IF result.ok /\ result.index <= Len(tokens)
    THEN Fails(IF Kind(result.index) = "close" THEN "unbalanced_group" ELSE "unexpected_token")
    ELSE result

Parse == IF tokens = << >> THEN Fails("empty_query") ELSE WholeQuery(Expression(0, Text, 0, 1, 0))
-----------------------------------------------------------------------------
(***************************************************************************)
(* The grammar: the trees of tokens i to j, under the field of their group.*)
(*                                                                         *)
(*   or    ::=  and  |  or OR and                                          *)
(*   and   ::=  unary  |  and AND unary  |  and <space> unary              *)
(*   unary ::=  value  |  NOT unary  |  ( or )                             *)
(*           |  field:value  |  field: value  |  field: ( or )             *)
(***************************************************************************)
RECURSIVE OrTrees(_, _, _), AndTrees(_, _, _), UnaryTrees(_, _, _)

Joined(op, lefts, rights) == {[op |-> op, left |-> l, right |-> r] : l \in lefts, r \in rights}

OrTrees(field, i, j) ==
  AndTrees(field, i, j)
    \cup UNION {Joined("or", OrTrees(field, i, k - 1), AndTrees(field, k + 1, j)) :
                  k \in {k \in i + 1 .. j - 1 : Kind(k) = "or"}}

AndTrees(field, i, j) ==
  UnaryTrees(field, i, j)
    \cup UNION {Joined("and", AndTrees(field, i, k - 1), UnaryTrees(field, k + 1, j)) :
                  k \in {k \in i + 1 .. j - 1 : Kind(k) = "and"}}
    \cup UNION {Joined("and", AndTrees(field, i, k - 1), UnaryTrees(field, k, j)) :
                  k \in {k \in i + 1 .. j : tokens[k].gap /\ Kind(k) \notin {"and", "or", "close"}}}

Values(field, i, j) ==
  IF i = j /\ Kind(i) \in Wordlike \cup {"phrase"} /\ Takes(field, tokens[i])
    THEN {Leaf(field, i)} ELSE {}

Groups(field, i, j) ==
  IF i + 2 <= j /\ Kind(i) = "open" /\ Kind(j) = "close" THEN OrTrees(field, i + 1, j - 1) ELSE {}

UnaryTrees(field, i, j) ==
  IF i > j THEN {} ELSE
  CASE Kind(i) \in {"word", "phrase"} -> Values(field, i, j)
    [] Kind(i) = "not" -> {[op |-> "not", arg |-> t] : t \in UnaryTrees(field, i + 1, j)}
    [] Kind(i) = "open" -> Groups(field, i, j)
    [] Kind(i) \in {"qualified", "prefix"} /\ field = Text /\ tokens[i].field \in Available ->
         IF Kind(i) = "qualified"
           THEN IF i = j /\ tokens[i].value = "good" THEN {Leaf(tokens[i].field, i)} ELSE {}
           ELSE Values(tokens[i].field, i + 1, j) \cup Groups(tokens[i].field, i + 1, j)
    [] OTHER -> {}

RECURSIVE Size(_)
Size(tree) ==
  CASE tree.op = "is" -> 1
    [] tree.op = "not" -> 1 + Size(tree.arg)
    [] tree.op \in {"and", "or"} -> 1 + Size(tree.left) + Size(tree.right)
-----------------------------------------------------------------------------
(***************************************************************************)
(* Properties.                                                             *)
(***************************************************************************)
Derived == OrTrees(Text, 1, Len(tokens))

(* A query the parser accepts has one meaning, the tree the grammar gives  *)
(* it: OR binds weakest, a space is an AND, NOT takes one operand, a field *)
(* reaches into its group and no further.                                  *)
AcceptsTheGrammar == Parse.ok => Derived = {Parse.tree} /\ Parse.nodes = Size(Parse.tree)

(* A query the parser rejects has no meaning, unless it is too large.      *)
RejectsTheRest ==
  ~Parse.ok /\ Parse.code # "query_too_complex" => Derived = {}

(* No tree has more nodes than the limit, however the query is nested.     *)
TreesAreBounded == Parse.ok => Size(Parse.tree) <= MaxNodes

(* parse accepts the language of the grammar, within its limits.           *)
ParserFollowsTheGrammar == AcceptsTheGrammar /\ RejectsTheRest /\ TreesAreBounded
=============================================================================
