---------------------------- MODULE MCAlgorithms ----------------------------
(***************************************************************************)
(* The pure algorithms of the program, each over every input of a bounded  *)
(* size.  An input is a sequence that grows by one element per step; the   *)
(* algorithms share nothing, so a behaviour is the growth of the input of  *)
(* one of them.                                                            *)
(***************************************************************************)
EXTENDS Integers, Sequences

CONSTANTS Unknown, None

VARIABLES part, input

(* The lexer of the query language, over texts.                            *)
Lexer == INSTANCE QueryLexer WITH Letters <- {"a", "O", "R"}, MaxLength <- 5, MaxTokens <- 3, source <- input

(* Its parser, over tokens: words and operators, and fields with values of *)
(* the right and of the wrong shape.                                       *)
Token(kind, field, value) == [kind |-> kind, field |-> field, value |-> value]
Operators == {Token(kind, "none", "none") : kind \in {"or", "not", "open", "close"}}
Plain == {Token("word", "none", "good"), Token("and", "none", "none")} \cup Operators
Fields ==
  {Token("word", "none", "good"), Token("phrase", "none", "bad"),
   Token("qualified", "title", "good"), Token("qualified", "author", "operator"),
   Token("prefix", "title", "none"), Token("prefix", "author", "none"), Token("prefix", "name", "none")}
    \cup Operators

PlainQuery == INSTANCE QueryLanguage WITH Alphabet <- Plain, Exact <- {"author", "name"}, Available <- {"title", "author"},
  MaxTokens <- 5, MaxNodes <- 5, MaxDepth <- 3, tokens <- input
FieldQuery == INSTANCE QueryLanguage WITH Alphabet <- Fields, Exact <- {"author", "name"}, Available <- {"title", "author"},
  MaxTokens <- 4, MaxNodes <- 5, MaxDepth <- 3, tokens <- input

(* The plans of searches and of feeds, over expressions in postfix order   *)
(* and the posts or communities they are for.                              *)
Leaf(field, value) == [op |-> "is", field |-> field, value |-> value]
PostLeaves ==
  {Leaf("author", "x"), Leaf("author", "y"), Leaf("subreddit", "x"), Leaf("text", "w"), Leaf("past", 1)}
Posts == [author : {{}, {"x"}, {"y"}, Unknown}, subreddit : {{"x"}, {"y"}},
          title : {{}, {"w"}, Unknown}, body : {{"w"}, Unknown}, created : {0, 2, Unknown}]
\* The other fields of a post, and two communities for a limit of one.
LinkLeaves == {Leaf("domain", "d"), Leaf("flair", "w"), Leaf("text", "w"), Leaf("subreddit", "x"), Leaf("subreddit", "y")}
Links == [domain : {{"d"}, {"e"}, Unknown}, flair : {{}, {"w"}, Unknown}, title : {{}, {"w"}}, body : {{}},
          author : {{}}, subreddit : {{"x"}, {"y"}}, created : {Unknown}]
CommunityLeaves ==
  {Leaf("name", "x"), Leaf("name", "y"), Leaf("text", "w"), Leaf("title", "w"), Leaf("description", "w")}
Communities == [name : {{"x"}, {"y"}, {"w"}}, title : {{}, {"w"}}, description : {{}, {"w"}}]

PostSearch == INSTANCE SearchPlan WITH Leaves <- PostLeaves, Records <- Posts, TextFields <- {"title", "body"}, Frozen <- 2,
  MaxSize <- 5, MaxNames <- 1, MaxSubreddits <- 1, MaxSources <- 2, stack <- input
LinkSearch == INSTANCE SearchPlan WITH Leaves <- LinkLeaves, Records <- Links, TextFields <- {"title", "body"}, Frozen <- 2,
  MaxSize <- 5, MaxNames <- 1, MaxSubreddits <- 1, MaxSources <- 2, stack <- input
CommunitySearch == INSTANCE SearchPlan WITH Leaves <- CommunityLeaves, Records <- Communities,
  TextFields <- {"name", "title", "description"}, Frozen <- 2,
  MaxSize <- 6, MaxNames <- 1, MaxSubreddits <- 1, MaxSources <- 2, stack <- input

(* Ranking expressions: signs and calls, calls of two arguments, and names *)
(* of every sort.                                                          *)
Arithmetic == INSTANCE RankExpression WITH Alphabet <- {"+", "-", "*", "(", ")", ",", "number", "min", "abs"},
  MaxTokens <- 5, MaxNodes <- 5, MaxDepth <- 7, tokens <- input
Pairs == INSTANCE RankExpression WITH Alphabet <- {"(", ")", ",", "number", "min", "-"},
  MaxTokens <- 7, MaxNodes <- 5, MaxDepth <- 11, tokens <- input
Calls == INSTANCE RankExpression WITH Alphabet <- {"/", "(", ")", "field", "unknown", "ql", "string", "bad ql"},
  MaxTokens <- 5, MaxNodes <- 2, MaxDepth <- 7, tokens <- input

(* Comments of a post as Reddit sends them.                                *)
Tree(depth, parent, more, name, flags) ==
  [depth |-> depth, parent |-> parent, more |-> more, name |-> name, flags |-> flags]
Trees ==
  {Tree(0, None, None, "t1", {}), Tree(1, "t1", None, "t1", {}), Tree(2, "t1", None, "t1", {}),
   Tree(0, None, "cursor", None, {}), Tree(1, "t1", "bare", None, {}), Tree(2, "t1", "bare", None, {}),
   Tree(0, None, "bare", None, {}), Tree(0, None, None, "t3", {}), Tree(1, "t1", None, "t1", {"takedown", "removed"})}

Thread == INSTANCE CommentTree WITH Trees <- Trees, MaxLength <- 4, forest <- input

Init ==
  /\ part \in {"lexer", "plain query", "field query", "posts", "links", "communities", "arithmetic", "pairs", "calls", "thread"}
  /\ input = << >>

Next ==
  /\ UNCHANGED part
  /\ \/ part = "lexer" /\ Lexer!Next
     \/ part = "plain query" /\ PlainQuery!Next
     \/ part = "field query" /\ FieldQuery!Next
     \/ part = "posts" /\ PostSearch!Next
     \/ part = "links" /\ LinkSearch!Next
     \/ part = "communities" /\ CommunitySearch!Next
     \/ part = "arithmetic" /\ Arithmetic!Next
     \/ part = "pairs" /\ Pairs!Next
     \/ part = "calls" /\ Calls!Next
     \/ part = "thread" /\ Thread!Next

Spec == Init /\ [][Next]_<<part, input>>
-----------------------------------------------------------------------------
(* A query is read as it is written (search/mod.rs): a quoted value comes  *)
(* back whole, tokens stand apart, and the parser accepts what the grammar *)
(* derives, with the tree it derives, within its limits.                   *)
QueriesReadAsWritten ==
  /\ part = "lexer" => Lexer!LexerIsFaithful
  /\ part = "plain query" => PlainQuery!ParserFollowsTheGrammar
  /\ part = "field query" => FieldQuery!ParserFollowsTheGrammar

(* The plan of a search (engine.rs) or of a feed (feed/mod.rs) misses no   *)
(* match of its query, and what is unknown decides nothing.                *)
PlansAreComplete ==
  /\ part = "posts" => PostSearch!PlanIsComplete
  /\ part = "links" => LinkSearch!PlanIsComplete
  /\ part = "communities" => CommunitySearch!PlanIsComplete

(* A ranking expression (feed/ranking.rs) is accepted when its grammar     *)
(* derives it, with the tree it derives.                                   *)
RanksFollowTheGrammar ==
  /\ part = "arithmetic" => Arithmetic!RanksFollowTheGrammar
  /\ part = "pairs" => Pairs!RanksFollowTheGrammar
  /\ part = "calls" => Calls!RanksFollowTheGrammar

(* The comments of a post (graphql.rs, view/comments.rs) are all shown, in *)
(* their order and below the comment they answer.                          *)
CommentsAreShown == part = "thread" => Thread!CommentsAreShown
=============================================================================
