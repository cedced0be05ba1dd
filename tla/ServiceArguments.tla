-------------------------- MODULE ServiceArguments --------------------------
(***************************************************************************)
(* What the service accepts of its callers.  A text is its length and      *)
(* whether it is made of the characters its place allows; an identifier is *)
(* its kind (t1, t3, ...) and the text behind it.                          *)
(***************************************************************************)
EXTENDS Naturals, Sequences

CONSTANT None

Ranges(s) == {s[i] : i \in DOMAIN s}

ValidId36(text) == text.length > 0 /\ text.plain
ValidName(text, longest) == ValidId36(text) /\ text.length <= longest
ValidUsername(text) == ValidName(text, 20)
ValidScope(names) == names # << >> /\ \A n \in Ranges(names) : ValidName(n, 21)

(* A cursor is the full name of a thing, or a revision of a wiki page.     *)
ValidListingQuery(q, cursor) ==
  /\ None \in {q.after, q.before}
  /\ {q.after, q.before} \subseteq {None, cursor}
  /\ q.limit \in {None} \cup 1 .. 100
  /\ (q.geo = None \/ ValidId36(q.geo))

ValidCommentQuery(q) ==
  /\ (q.comment = None \/ ValidId36(q.comment))
  /\ q.context \in {None} \cup 0 .. 8
  /\ q.truncate \in {None} \cup 0 .. 50

(* The comments of a post come by another way, which has fewer options.    *)
ValidOptions(q) ==
  /\ (q.comment = None \/ ValidId36(q.comment))
  /\ q.context = None /\ q.truncate = None /\ ~q.others
  /\ q.sort \notin {"random", "qa", "live"}
  /\ q.limit \in {None} \cup 1 .. 200
  /\ q.depth \in {None} \cup 1 .. 10
  /\ (q.cursor = None \/ q.cursor \in 1 .. 2048)

ValidSubredditSearch(q) ==
  ValidListingQuery(q.listing, "thing") /\ q.text > 0 /\ q.id \in {None, "uuid"}

ValidSearchQuery(q) ==
  /\ ValidListingQuery(q.listing, "thing")
  /\ q.text \in 1 .. 512
  /\ q.category \in {None} \cup 0 .. 5

ValidHistoryQuery(q) ==
  ValidListingQuery(q.listing, "thing") /\ q.context \in {None} \cup 2 .. 10

ValidInfoQuery(q) ==
  /\ \A id \in Ranges(q.ids) : id.kind \in {"t1", "t3", "t5"} /\ ValidId36(id.text)
  /\ \A scope \in Ranges(q.names) : ValidScope(scope)
  /\ q.url \in {None, "http", "https"}

ValidPostNames(names) ==
  names # << >> /\ \A id \in Ranges(names) : id.kind = "t3" /\ ValidId36(id.text)

ValidMoreChildren(q) ==
  /\ Len(q.children) \in 1 .. 100
  /\ \A child \in Ranges(q.children) : ValidId36(child)
  /\ q.link.kind = "t3" /\ ValidId36(q.link.text)
  /\ q.root \/ q.id = None \/ ValidId36(q.id)   \* the root is called _

(* A page of the wiki is a path without empty parts and parts that lead    *)
(* out of it.                                                              *)
ValidWikiPage(parts) == parts # << >> /\ \A p \in Ranges(parts) : p \notin {"", ".", ".."}
ValidWikiPageQuery(q) == {q.v, q.v2} \subseteq {None, "uuid"}

ValidCommentSearch(length) == length \in 1 .. 512

(* The communities of a call are looked at apart from its other arguments. *)
Arguments ==
  {"listing_query", "revision_query", "sort", "sr", "names", "article", "username", "comment_query", "options",
   "children", "subreddit_query", "search_query", "info_query", "history_query", "page_name", "wiki_query", "q"}

Valid(argument, x) ==
  CASE argument = "listing_query" -> ValidListingQuery(x, "thing")
    [] argument = "revision_query" -> ValidListingQuery(x, "revision")
    [] argument = "sort" -> x # "best"
    [] argument = "subreddit" -> ValidScope(x)
    [] argument = "sr" -> (x = None \/ ValidScope(x))
    [] argument = "names" -> ValidPostNames(x)
    [] argument = "article" -> ValidId36(x)
    [] argument = "username" -> ValidUsername(x)
    [] argument = "comment_query" -> ValidCommentQuery(x)
    [] argument = "options" -> ValidOptions(x)
    [] argument = "children" -> ValidMoreChildren(x)
    [] argument = "subreddit_query" -> ValidSubredditSearch(x)
    [] argument = "search_query" -> ValidSearchQuery(x)
    [] argument = "info_query" -> ValidInfoQuery(x)
    [] argument = "history_query" -> ValidHistoryQuery(x)
    [] argument = "page_name" -> ValidWikiPage(x)
    [] argument = "wiki_query" -> ValidWikiPageQuery(x)
    [] argument = "q" -> ValidCommentSearch(x)
=============================================================================
