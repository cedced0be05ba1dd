----------------------------- MODULE SearchPlan -----------------------------
(***************************************************************************)
(* What a query means for a record, and where the records that match it    *)
(* are looked for: the query compiled for Reddit's search, the scope of a  *)
(* comment search, the names of a community lookup, and the sources of a   *)
(* custom feed.                                                            *)
(*                                                                         *)
(* The state is a stack on which an expression is built, one node a step.  *)
(* The datum of a field is the set of the values it matches: a word of a   *)
(* text, the one name of an exact field, nothing for an absent one.        *)
(***************************************************************************)
EXTENDS Integers, Sequences, FiniteSets

CONSTANTS
  Leaves,      \* predicates: [op |-> "is", field, value]
  Records,     \* from fields to sets of values or Unknown
  Unknown,
  None,        \* no cover: the universal set
  Frozen,      \* the time of the search
  MaxSize,     \* bound of the nodes of an expression
  TextFields,  \* the fields of a record that a word is looked for in
  MaxNames,    \* names a community lookup takes
  MaxSubreddits, \* MAX_SUBREDDITS of a feed
  MaxSources   \* MAX_SOURCES of a feed

VARIABLE stack
-----------------------------------------------------------------------------
(***************************************************************************)
(* evaluate: three-valued, because Reddit may leave a field out.           *)
(***************************************************************************)
Negate(t) == CASE t = "true" -> "false" [] t = "false" -> "true" [] t = "unknown" -> "unknown"
Both(a, b) ==
  CASE "false" \in {a, b} -> "false"
    [] {a, b} = {"true"} -> "true"
    [] OTHER -> "unknown"
AnyOf(truths) ==
  CASE "true" \in truths -> "true"
    [] truths \subseteq {"false"} -> "false"
    [] OTHER -> "unknown"
Either(a, b) == AnyOf({a, b})

Boolean(b) == IF b THEN "true" ELSE "false"
Matches(datum, value) == IF datum = Unknown THEN "unknown" ELSE Boolean(value \in datum)

Holds(leaf, r) ==
  CASE leaf.field \in {"past", "after", "before"} /\ r.created = Unknown -> "unknown"
    [] leaf.field = "past" /\ r.created # Unknown ->
         Boolean(Frozen - leaf.value <= r.created /\ r.created <= Frozen)
    [] leaf.field = "after" /\ r.created # Unknown -> Boolean(r.created >= leaf.value)
    [] leaf.field = "before" /\ r.created # Unknown -> Boolean(r.created < leaf.value)
    [] leaf.field = "text" -> AnyOf({Matches(r[f], leaf.value) : f \in TextFields})
    [] leaf.field \in {"author", "subreddit", "title", "domain", "flair", "name", "description"} ->
         Matches(r[leaf.field], leaf.value)

RECURSIVE Evaluate(_, _)
Evaluate(e, r) ==
  CASE e.op = "is" -> Holds(e, r)
    [] e.op = "not" -> Negate(Evaluate(e.arg, r))
    [] e.op = "and" -> Both(Evaluate(e.left, r), Evaluate(e.right, r))
    [] e.op = "or" -> Either(Evaluate(e.left, r), Evaluate(e.right, r))
-----------------------------------------------------------------------------
(***************************************************************************)
(* engine.rs: the plan of a search, but for the limit of 512 bytes of the  *)
(* text that is sent, which refuses a plan and changes none.               *)
(***************************************************************************)
Searchable == {"text", "subreddit", "author", "title", "domain", "flair"}

(* Whether a node asks for both of its operands under this polarity.       *)
\* Mutant: the polarity is forgotten below a NOT.
AndAsWritten(e, negative) == e.op = "and"
AsksForBoth(e, negative) == (e.op = "and") # negative

RECURSIVE Cover(_, _)
Cover(e, negative) ==
  CASE e.op = "not" -> Cover(e.arg, ~negative)
    [] e.op = "is" -> IF ~negative /\ e.field \in Searchable THEN e ELSE None
    [] e.op \in {"and", "or"} ->
         LET left == Cover(e.left, negative)
             right == Cover(e.right, negative)
             both == AsksForBoth(e, negative)
         IN IF left # None /\ right # None
              THEN [op |-> IF both THEN "and" ELSE "or", left |-> left, right |-> right]
              ELSE IF ~both THEN None ELSE IF left # None THEN left ELSE right

(* The value every match has in the field.                                 *)
\* Mutant: the value of one branch of an OR is taken for both.
LeftValue(left, right) == left
SharedValue(left, right) == IF left = right THEN left ELSE None

RECURSIVE Required(_, _)
Required(e, field) ==
  CASE e.op = "is" -> IF e.field = field THEN e.value ELSE None
    [] e.op = "and" ->
         LET left == Required(e.left, field) IN IF left # None THEN left ELSE Required(e.right, field)
    [] e.op = "or" -> SharedValue(Required(e.left, field), Required(e.right, field))
    [] e.op = "not" -> None

(* The names one of which every match has.                                 *)
NamesOfBranches(left, right) ==
  IF left = None \/ right = None THEN None ELSE left \cup right

RECURSIVE NamesIn(_)
NamesIn(e) ==
  CASE e.op = "is" -> IF e.field = "name" THEN {e.value} ELSE None
    [] e.op = "and" -> LET left == NamesIn(e.left) IN IF left # None THEN left ELSE NamesIn(e.right)
    [] e.op = "or" -> NamesOfBranches(NamesIn(e.left), NamesIn(e.right))
    [] e.op = "not" -> None

RECURSIVE Contradictory(_)
EveryBranch(left, right) == left /\ right

Contradictory(e) ==
  CASE e.op = "and" ->
         \/ \E f \in {"subreddit", "author", "name"} :
              LET left == Required(e.left, f)  right == Required(e.right, f)
              IN None \notin {left, right} /\ left # right
         \/ Contradictory(e.left) \/ Contradictory(e.right)
    [] e.op = "or" -> EveryBranch(Contradictory(e.left), Contradictory(e.right))
    [] e.op \in {"is", "not"} -> FALSE

Refused(code) == [kind |-> "refused", code |-> code]

(* A comment search has one scope, an author before a community.           *)
CommentPlan(e) ==
  LET author == Required(e, "author")  community == Required(e, "subreddit")
  IN CASE author # None -> [kind |-> "comments", field |-> "author", value |-> author]
       [] author = None /\ community # None ->
            [kind |-> "comments", field |-> "subreddit", value |-> community]
       [] OTHER -> Refused("unsupported_capability")

(* A community lookup by name, which Neddit orders itself, or by a text    *)
(* every match has.                                                        *)
CommunitySorts == {"relevance", "activity"}

SharedText(e) ==
  LET text == Required(e, "text")  title == Required(e, "title")
  IN CASE text # None -> text
       [] text = None /\ title # None -> title
       [] OTHER -> Required(e, "description")

NamesPlan(names, sort) ==
  CASE Cardinality(names) > MaxNames -> Refused("query_too_complex")
    [] Cardinality(names) <= MaxNames /\ sort # "relevance" -> Refused("unsupported_sort")
    [] OTHER -> [kind |-> "names", names |-> names]

CommunityPlan(e, sort) ==
  LET names == NamesIn(e)  text == SharedText(e)
  IN CASE names # None -> NamesPlan(names, sort)
       [] names = None /\ text # None -> [kind |-> "communities", text |-> text]
       [] OTHER -> Refused("scope_required")

PostPlan(e) ==
  LET query == Cover(e, FALSE)
  IN IF query = None THEN Refused("scope_required") ELSE [kind |-> "posts", query |-> query]
-----------------------------------------------------------------------------
(***************************************************************************)
(* feed/mod.rs: the sources of a feed, communities read together and       *)
(* authors read one by one.                                                *)
(***************************************************************************)
Cost(p) == Cardinality(p.authors) + (IF p.subreddits = {} THEN 0 ELSE 1)

(* The cheaper of two covers: by sources, then without communities, then   *)
(* by names; the left one of equals.                                       *)
Weight(p) ==
  <<Cost(p), IF p.subreddits = {} THEN 0 ELSE 1, Cardinality(p.subreddits) + Cardinality(p.authors)>>
NotHeavier(a, b) ==
  \/ a[1] < b[1]
  \/ a[1] = b[1] /\ a[2] < b[2]
  \/ a[1] = b[1] /\ a[2] = b[2] /\ a[3] <= b[3]

ChooseCover(left, right) ==
  CASE left = None -> right
    [] left # None /\ right = None -> left
    [] left # None /\ right # None -> IF NotHeavier(Weight(left), Weight(right)) THEN left ELSE right

UnionCover(left, right) ==
  IF left = None \/ right = None THEN None ELSE
  [subreddits |-> left.subreddits \cup right.subreddits, authors |-> left.authors \cup right.authors]

LeafCover(e) ==
  CASE e.field = "subreddit" -> [subreddits |-> {e.value}, authors |-> {}]
    [] e.field = "author" -> [subreddits |-> {}, authors |-> {e.value}]
    [] OTHER -> None

RECURSIVE SourceCover(_, _)
SourceCover(e, negative) ==
  CASE e.op = "not" -> SourceCover(e.arg, ~negative)
    [] e.op = "is" -> IF negative THEN None ELSE LeafCover(e)
    [] e.op \in {"and", "or"} ->
         LET left == SourceCover(e.left, negative)
             right == SourceCover(e.right, negative)
         IN IF AsksForBoth(e, negative) THEN ChooseCover(left, right) ELSE UnionCover(left, right)

FeedPlan(e) ==
  LET cover == SourceCover(e, FALSE)
  IN CASE cover = None -> Refused("scope_required")
       [] cover # None /\ \/ Cardinality(cover.subreddits) > MaxSubreddits
                          \/ Cost(cover) > MaxSources -> Refused("query_too_complex")
       [] OTHER -> [kind |-> "feed", cover |-> cover]
-----------------------------------------------------------------------------
(***************************************************************************)
(* Every expression of at most MaxSize nodes.                              *)
(***************************************************************************)
RECURSIVE Nodes(_)
Nodes(e) ==
  CASE e.op = "is" -> 1
    [] e.op = "not" -> 1 + Nodes(e.arg)
    [] e.op \in {"and", "or"} -> 1 + Nodes(e.left) + Nodes(e.right)

RECURSIVE StackNodes(_)
StackNodes(s) == IF s = << >> THEN 0 ELSE Nodes(s[1]) + StackNodes(Tail(s))
Grows == StackNodes(stack) < MaxSize

Init == stack = << >>

Push(leaf) == Grows /\ stack' = Append(stack, leaf)

Top == stack[Len(stack)]
Not ==
  /\ Grows /\ stack # << >>
  /\ stack' = [stack EXCEPT ![Len(stack)] = [op |-> "not", arg |-> @]]

Join(op) ==
  /\ Grows /\ Len(stack) >= 2
  /\ stack' = Append(SubSeq(stack, 1, Len(stack) - 2),
                     [op |-> op, left |-> stack[Len(stack) - 1], right |-> Top])

Next == (\E leaf \in Leaves : Push(leaf)) \/ Not \/ (\E op \in {"and", "or"} : Join(op))
-----------------------------------------------------------------------------
(***************************************************************************)
(* Properties, of the expression on a stack of one.                        *)
(***************************************************************************)
Built == Len(stack) = 1
Among(datum, values) == datum # Unknown /\ datum \cap values # {}
Hits(e) == {r \in Records : Evaluate(e, r) = "true"}

(* The compiled query finds every post that the query matches, if Reddit   *)
(* finds what a predicate of it matches (engine.rs:73, None is the         *)
(* universal set).                                                         *)
PostsAreCovered ==
  Built /\ PostPlan(Top).kind = "posts" => Hits(Top) \subseteq Hits(PostPlan(Top).query)

(* The sources of a feed hold every post that its query matches, with NOT  *)
(* around AND and OR and the cheaper side of an AND dropped.               *)
FeedIsCovered ==
  Built /\ FeedPlan(Top).kind = "feed" =>
    LET cover == FeedPlan(Top).cover
    IN /\ \A r \in Hits(Top) : \/ Among(r.author, cover.authors)
                               \/ Among(r.subreddit, cover.subreddits)
       /\ Cost(cover) \in 1 .. MaxSources
       /\ Cardinality(cover.subreddits) <= MaxSubreddits

(* Every comment that the query matches is in the scope of its plan, and   *)
(* every community is among the names looked up, or has the text that is   *)
(* searched for in one of its texts.                                       *)
CommentsInScope ==
  CommentPlan(Top).kind = "comments" =>
    LET p == CommentPlan(Top) IN \A r \in Hits(Top) : Among(r[p.field], {p.value})
CommunitiesInScope ==
  \A sort \in CommunitySorts :
    LET p == CommunityPlan(Top, sort)
    IN /\ p.kind = "names" => \A r \in Hits(Top) : Among(r.name, p.names)
       /\ p.kind = "communities" =>
            \A r \in Hits(Top) : \E f \in TextFields : Among(r[f], {p.text})
ScopeIsShared == Built => CommentsInScope /\ CommunitiesInScope

(* A search that is answered without asking Reddit has no match.           *)
ContradictionsAreEmpty == Built /\ Contradictory(Top) => Hits(Top) = {}

(* What the unknown fields of a record may hold.                           *)
Completions(r) ==
  {s \in Records : \A f \in DOMAIN r : r[f] = Unknown \/ s[f] = r[f]}
(* What is published, or left out, although fields are unknown stays so    *)
(* whatever the fields hold.                                               *)
UnknownIsSafe ==
  Built => \A r \in Records : Evaluate(Top, r) # "unknown" =>
             \A s \in Completions(r) : Evaluate(Top, s) = Evaluate(Top, r)

(* A plan loses no match of its query (engine.rs, plan; feed/mod.rs,       *)
(* plan).                                                                  *)
PlanIsComplete ==
  PostsAreCovered /\ FeedIsCovered /\ ScopeIsShared /\ ContradictionsAreEmpty /\ UnknownIsSafe
=============================================================================
