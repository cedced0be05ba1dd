---------------------------- MODULE ServiceCalls ----------------------------
(***************************************************************************)
(* One call of the service.  Every operation is a sequence of steps: it    *)
(* checks an argument, asks Reddit, or holds an answer against the content *)
(* policy.  The steps are the same in all operations; their order is not.  *)
(*                                                                         *)
(* What Reddit answers is chosen anew at each step, so a community may be  *)
(* marked as adult between the check of it and the page it is checked for. *)
(***************************************************************************)
EXTENDS ServiceArguments, SequencesExt, Selection

CONSTANTS
  Inputs,      \* from the names of arguments to their values
  Scopes,      \* communities named in a call: sequences, "a+b" is <<a, b>>
  Listings,    \* what Reddit may list: [children, dist], a child being adult or not
  Cards,       \* comments on a search page: sequences of names
  Comments,    \* what is found for names: sets of [name, post, adult]
  BatchSize    \* names asked for at once

VARIABLES
  allow,       \* ContentPolicy
  scope, wants, \* arguments: the communities, include_over_18
  todo,        \* the steps to come
  calls,       \* what Reddit was asked
  vouched,     \* how many communities of the scope were found safe
  found,       \* what was fetched: two listings for duplicates and comments
  ids, batch, hydrated,  \* a search among comments
  gate, result

(* A listing that is counted is counted right.  What a call returns is     *)
(* something.                                                              *)
Codes == {"invalid", "blocked", "failed", "parse", "invalid_comments", "invalid_search"}
ServiceAssumption ==
  /\ DOMAIN Inputs \subseteq Arguments
  /\ \A l \in Listings : l.children \in Seq(BOOLEAN) /\ l.dist \in {None, Len(l.children)}
  /\ \A cards \in Cards : cards \in Seq(Range(cards))
  /\ None \notin [ok : BOOLEAN, code : Codes]
  /\ None \notin [ok : BOOLEAN, comments : Seq(UNION Comments)]

vars == <<allow, scope, wants, todo, calls, vouched, found, ids, batch, hydrated, gate, result>>
arguments == <<allow, scope, wants>>
search == <<ids, batch, hydrated>>
-----------------------------------------------------------------------------
(* The operations.                                                         *)
front_page_posts == <<"listing_query", "listing", "filter">>
all_posts == <<"sort", "listing_query", "listing", "filter">>
recent_ql_comments == <<"subreddit", "listing_query", "listing", "filter">>
subreddit_posts == <<"subreddit", "safe", "sort", "listing_query", "listing", "filter">>
feed_posts == <<"subreddit", "sort", "listing_query", "listing", "filter">>
posts_by_id == <<"names", "listing", "filter">>
post_duplicates == <<"article", "listing_query", "sr", "two_listings", "first", "filter">>
subreddit_about == <<"subreddit", "thing", "first">>
user_about == <<"username", "thing", "first">>
subreddits == <<"listing_query", "listing", "filter">>
search_subreddits == <<"subreddit_query", "over_18", "listing", "filter">>
subreddit_sidebar == <<"subreddit", "thing", "first", "description">>
subreddit_rules == <<"subreddit", "safe", "page">>

graphql_comments == <<"article", "post", "nonempty", "first", "options", "graphql">>
post_comments == <<"article", "comment_query">> \o graphql_comments \o <<"first">>
subreddit_post_comments == <<"subreddit">> \o post_comments
more_children == <<"children", "shown_post", "gate", "graphql">>

search_listing == <<"search_query", "over_18", "listing", "filter">>
search_subreddit == <<"subreddit", "safe">> \o search_listing
info_listing == <<"info_query", "listing", "filter">>
subreddit_info == <<"subreddit", "safe">> \o info_listing
user_listing == <<"username", "history_query", "listing", "filter">>
user_trophies == <<"username", "trophies">>
users == <<"listing_query", "listing", "filter">>
search_users == <<"subreddit_query", "listing", "filter">>

wiki_pages == <<"subreddit", "safe", "page">>
wiki_page == <<"subreddit", "safe", "page_name", "wiki_query", "page">>
wiki_revisions == <<"subreddit", "safe", "revision_query", "page_name", "page">>
wiki_discussions == <<"subreddit", "safe", "listing_query", "page_name", "listing", "filter">>
search_post_comments == <<"subreddit", "safe", "article", "q", "ids", "hydrate">>

Operations ==
  {front_page_posts, all_posts, recent_ql_comments, subreddit_posts, feed_posts, posts_by_id, post_duplicates,
   subreddit_about, user_about, subreddits, search_subreddits, subreddit_sidebar, subreddit_rules,
   graphql_comments, post_comments, subreddit_post_comments, more_children, search_listing, search_subreddit,
   info_listing, subreddit_info, user_listing, user_trophies, users, search_users,
   wiki_pages, wiki_page, wiki_revisions, wiki_discussions, search_post_comments}

-----------------------------------------------------------------------------
Empty == [children |-> << >>, dist |-> None]

Init ==
  /\ allow \in BOOLEAN /\ todo \in Operations
  /\ scope \in IF "subreddit" \in Range(todo) THEN Scopes ELSE {<< >>}
  /\ wants \in IF "over_18" \in Range(todo) THEN {None, "on", "off"} ELSE {None}
  /\ calls = {} /\ vouched = 0 /\ found = <<Empty, Empty>>
  /\ ids = << >> /\ batch = 1 /\ hydrated = {}
  /\ gate = "free" /\ result = None

Running == result = None
Step(s) == Running /\ todo # << >> /\ Head(todo) = s

Proceed == todo' = Tail(todo) /\ UNCHANGED result
(* The call returns; a permit it holds goes back.                          *)
Leave == gate' = IF gate = "mine" THEN "free" ELSE gate
Fail(code) == result' = [ok |-> FALSE, code |-> code] /\ todo' = << >>
Continue(blocked, code) == IF blocked THEN Fail(code) ELSE Proceed

CheckScope ==
  /\ Step("subreddit") /\ Continue(~Valid("subreddit", scope), "invalid")
  /\ UNCHANGED <<arguments, calls, vouched, found, search, gate>>

(* Any other argument may have any value when it is looked at.             *)
Validate ==
  /\ \E a \in DOMAIN Inputs : Step(a) /\ \E x \in Inputs[a] : Continue(~Valid(a, x), "invalid")
  /\ Leave /\ UNCHANGED <<arguments, calls, vouched, found, search>>

(* require_safe_subreddit: what is said of every community in turn.        *)
\* Mutant: the first of several communities stands for all of them.
FirstCommunity(names) == IF names = << >> THEN names ELSE <<names[1]>>
Communities(names) == names

Safe ==
  /\ Step("safe")
  /\ IF allow \/ vouched = Len(Communities(scope))
       THEN Proceed /\ UNCHANGED <<calls, vouched>>
       ELSE /\ calls' = calls \cup {"about"}
            /\ \E adult \in BOOLEAN :
                 /\ vouched' = IF adult THEN vouched ELSE vouched + 1
                 /\ IF adult THEN Fail("blocked") ELSE UNCHANGED <<todo, result>>
  /\ UNCHANGED <<arguments, found, search, gate>>

(* A search that asks for adult content; otherwise it is asked to leave it *)
(* out.                                                                    *)
Over18 ==
  /\ Step("over_18")
  /\ Continue(~allow /\ wants = "on", "blocked")
  /\ wants' = IF allow THEN wants ELSE "off"
  /\ UNCHANGED <<allow, scope, calls, vouched, found, search, gate>>

Fetched(listings) == found' = listings /\ Proceed
Single(listing) == Len(listing.children) <= 1

Fetch ==
  /\ \/ Step("listing") /\ \E l \in Listings : Fetched(<<l, Empty>>)
     \/ Step("two_listings") /\ \E l, m \in Listings : Fetched(<<l, m>>)
     \/ Step("post") /\ \E l \in Listings : Single(l) /\ Fetched(<<l, Empty>>)
     \/ Step("thing") /\ \E l \in Listings : Len(l.children) = 1 /\ Fetched(<<l, Empty>>)
     \/ Step("page") /\ Fetched(found)
     \/ Step("trophies") /\ Fetched(found)
  /\ calls' = calls \cup {Head(todo)}
  /\ UNCHANGED <<arguments, vouched, search, gate>>

(* The client refuses, or the answer is not what was asked for.            *)
FetchFails ==
  /\ \E s \in {"safe", "listing", "two_listings", "post", "thing", "page", "trophies", "graphql", "ids", "hydrate", "shown_post"} :
       /\ Step(s)
       /\ s \in {"safe", "shown_post"} => ~allow
  /\ Fail("failed") /\ Leave
  /\ calls' = calls \cup {Head(todo)}
  /\ UNCHANGED <<arguments, vouched, found, search>>

Kept(listing) ==
  IF allow THEN listing
  ELSE LET safe == Picked(listing.children, {i \in DOMAIN listing.children : ~listing.children[i]})
       IN [children |-> safe, dist |-> IF listing.dist = None THEN None ELSE Len(safe)]

Filter ==
  /\ Step("filter") /\ Proceed
  /\ found' = <<Kept(found[1]), Kept(found[2])>>
  /\ UNCHANGED <<arguments, calls, vouched, search, gate>>

(* require_post_listing, require_subreddit, require_user: the first of the *)
(* listing, if there is one.                                               *)
First ==
  /\ Step("first")
  /\ Continue(~allow /\ found[1].children # << >> /\ found[1].children[1], "blocked")
  /\ UNCHANGED <<arguments, calls, vouched, found, search, gate>>

Nonempty ==
  /\ Step("nonempty") /\ Continue(found[1].children = << >>, "invalid_comments")
  /\ UNCHANGED <<arguments, calls, vouched, found, search, gate>>

Description ==
  /\ Step("description") /\ \E missing \in BOOLEAN : Continue(missing, "parse")
  /\ UNCHANGED <<arguments, calls, vouched, found, search, gate>>

(* more_children: the post must be among those that are shown; no call is  *)
(* made for it if all are.                                                 *)
ShownPost ==
  /\ Step("shown_post")
  /\ \/ allow /\ Proceed /\ UNCHANGED <<calls, found>>
     \/ ~allow /\ \E l \in Listings :
          /\ Single(l)
          /\ found' = <<Kept(l), Empty>>
          /\ Continue(Kept(l).children = << >>, "blocked")
          /\ calls' = calls \cup {"posts_by_id"}
  /\ UNCHANGED <<arguments, vouched, search, gate>>

TakeGate ==
  /\ Step("gate") /\ gate = "free" /\ gate' = "mine" /\ Proceed
  /\ UNCHANGED <<arguments, calls, vouched, found, search>>
OthersGate ==
  /\ Running /\ "gate" \in Range(todo)
  /\ gate' = IF gate = "free" THEN "other" ELSE "free"
  /\ UNCHANGED <<arguments, todo, calls, vouched, found, search, result>>

(* Comments follow their post: they carry no mark of their own.            *)
FetchComments ==
  /\ Step("graphql") /\ Proceed /\ Leave
  /\ calls' = calls \cup {"comments"}
  /\ UNCHANGED <<arguments, vouched, found, search>>

(* search_post_comments: the names on Reddit's page, each once, are looked *)
(* up in batches; whatever is found, asked for or not, must be of the post *)
(* and takes the place of what was found by its name, and all the names    *)
(* must be found.                                                          *)
Distinct(names) == Picked(names, {i \in DOMAIN names : \A j \in DOMAIN names : j < i => names[j] # names[i]})

FetchIds ==
  /\ Step("ids") /\ calls' = calls \cup {"ids"}
  /\ \E cards \in Cards :
       /\ ids' = Distinct(cards)
       /\ IF cards = << >> THEN result' = [ok |-> TRUE, comments |-> << >>] /\ todo' = << >> ELSE Proceed
  /\ UNCHANGED <<arguments, vouched, found, batch, hydrated, gate>>

Named(comments, name) == \E c \in comments : c.name = name

Answered(all) ==
  IF \A i \in DOMAIN ids : Named(all, ids[i])
    THEN result' = [ok |-> TRUE, comments |-> [i \in DOMAIN ids |-> CHOOSE c \in all : c.name = ids[i]]] /\ todo' = << >>
    ELSE Fail("invalid_search")

Hydrate ==
  /\ Step("hydrate") /\ calls' = calls \cup {"info"}
  /\ \E comments \in Comments :
       LET shown == {c \in comments : allow \/ ~c.adult}
       IN /\ hydrated' = {c \in hydrated : ~Named(shown, c.name)} \cup shown
          /\ batch' = batch + BatchSize
          /\ IF \E c \in shown : c.post # "this" THEN Fail("invalid_search")
             ELSE IF batch' > Len(ids) THEN Answered(hydrated')
             ELSE UNCHANGED <<todo, result>>
  /\ UNCHANGED <<arguments, vouched, found, ids, gate>>

Return ==
  /\ Running /\ todo = << >> /\ Leave
  /\ result' = [ok |-> TRUE, comments |-> << >>]
  /\ UNCHANGED <<arguments, todo, calls, vouched, found, search>>

Next ==
  \/ CheckScope \/ Validate \/ Safe \/ Over18 \/ Fetch \/ FetchFails \/ Filter \/ First \/ Nonempty \/ Description
  \/ ShownPost \/ TakeGate \/ OthersGate \/ FetchComments \/ FetchIds \/ Hydrate \/ Return

Spec == Init /\ [][Next]_vars
-----------------------------------------------------------------------------
Succeeded == result # None /\ result.ok

(* With adult content turned off a call returns nothing that Reddit marks, *)
(* in whichever listing; what carries no mark, a wiki page, rules or       *)
(* comments, it returns only after every community, or the post, was found *)
(* safe in this very call.                                                 *)
NothingMarked ==
  Succeeded /\ ~allow =>
    /\ \A l \in Range(found) : TRUE \notin Range(l.children)
    /\ calls \cap {"page", "ids"} # {} => vouched = Len(scope)
    /\ "comments" \in calls => found[1].children = <<FALSE>>
    /\ \A i \in DOMAIN result.comments : ~result.comments[i].adult

(* The comments found by a search are those of Reddit's page, all of them, *)
(* once, in its order, and of the post.                                    *)
SearchIsExact ==
  Succeeded /\ result.comments # << >> =>
    /\ [i \in DOMAIN result.comments |-> result.comments[i].name] = ids
    /\ \A i \in DOMAIN result.comments : result.comments[i].post = "this"

(* A malformed community is never asked about; a count goes with what is   *)
(* listed, and no permit is kept.                                          *)
ArgumentsCount ==
  result # None =>
    /\ scope # << >> /\ ~ValidScope(scope) => ~result.ok /\ calls = {}
    /\ Succeeded => \A l \in Range(found) : l.dist \in {None, Len(l.children)}
    /\ gate # "mine"

(* Every operation of the service, with the content policy of content.rs.  *)
ServiceIsSafe == NothingMarked /\ SearchIsExact /\ ArgumentsCount
=============================================================================
