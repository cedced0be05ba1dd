---------------------------- MODULE FeedCollect ----------------------------
(***************************************************************************)
(* One build of a custom feed: the sources of the plan are read in turn    *)
(* within a budget of posts and of bytes, what matches is collected once,  *)
(* ranked, and handed out in pages.                                        *)
(*                                                                         *)
(* Posts are numbers, in the order of their names; what the query, the     *)
(* formula and the policies say of a post is given with it.  Reddit        *)
(* answers a page with any posts and any cursor.                           *)
(***************************************************************************)
EXTENDS Integers, Sequences, Selection

CONSTANTS
  Posts,           \* numbers
  Over18,          \* those that are not safe for work
  Verdict,         \* "true", "false" or "unknown" for each
  Bytes,           \* the size of each
  RankValue,       \* its value under the formula, NoValue when that fails
  Created,         \* the time of each
  Cursors,         \* the continuations Reddit gives
  TooLong,         \* one of them with more than 128 bytes
  None,            \* no continuation
  NoValue,
  Sources,         \* the number of sources of the plan
  IncludeNsfw,     \* the request's include_nsfw
  AllowNsfw,       \* the policy of the server
  MaxCandidates,   \* MAX_CANDIDATES
  MaxMatchBytes,   \* MAX_MATCH_BYTES
  PageLimit,       \* posts a page of Reddit holds
  Limit            \* posts a page of the feed shows

ASSUME FeedCollectAssumption ==
  /\ Posts \subseteq Nat /\ Over18 \subseteq Posts
  /\ Verdict \in [Posts -> {"true", "false", "unknown"}]
  /\ Bytes \in [Posts -> Nat] /\ Created \in [Posts -> Int]
  /\ RankValue \in [Posts -> Int \cup {NoValue}]
  /\ {Sources, MaxCandidates, MaxMatchBytes, PageLimit, Limit} \subseteq Nat \ {0}
  /\ IncludeNsfw => AllowNsfw

VARIABLES
  phase,      \* "collecting", "collected", "paging", "last" or "failed"
  source,     \* the source that is read
  after,      \* its continuation
  used,       \* the continuations it gave
  taken,      \* source_inspected, which is the source_rank of the last post
  inspected, unknown, bytes, candidates,   \* the Collection
  bounded, exhausted,
  number,     \* the page the reader asks for
  shown,      \* history: the items of the pages the reader was given
  seen,       \* history: the posts inspected, where and at which rank
  ending      \* history: how the reading of each source ended

collection == <<inspected, unknown, bytes, candidates, bounded, exhausted>>
reading == <<source, after, used, taken>>
vars == <<phase, reading, collection, number, shown, seen, ending>>

Init ==
  /\ phase = "collecting"
  /\ source = 1 /\ after = None /\ used = {} /\ taken = 0
  /\ inspected = 0 /\ unknown = 0 /\ bytes = 0 /\ candidates = << >>
  /\ bounded = FALSE /\ exhausted = TRUE
  /\ number = 1 /\ shown = << >>
  /\ seen = {}
  /\ ending = [s \in 1 .. Sources |-> "open"]
-----------------------------------------------------------------------------
(***************************************************************************)
(* collect                                                                 *)
(***************************************************************************)
Least(a, b) == IF a < b THEN a ELSE b

Monus(a, b) == IF a > b THEN a - b ELSE 0   \* saturating_sub

Quota == (MaxCandidates + Sources - 1) \div Sources
Remaining ==
  LET window == Least(Quota, MaxCandidates - inspected)
  IN Monus(window, taken)

Counts(p) == (IncludeNsfw \/ p \notin Over18) /\ Verdict[p] = "true"

(* One post of a page; full says that the byte budget is used up.          *)
\* Mutant: the rank of a post is the one of its first source.
FirstRankStays(c, i, rank) == c
Better(c, i, rank) ==
  IF rank < c[i].rank THEN [c EXCEPT ![i].source = source, ![i].rank = rank] ELSE c

Overflows(b, p) == b + Bytes[p] > MaxMatchBytes

Inspect(c, p) ==
  LET rank == c.taken + 1
      next == [c EXCEPT !.taken = rank, !.seen = @ \cup {[post |-> p, source |-> source, rank |-> rank]}]
      places == {i \in DOMAIN c.candidates : c.candidates[i].post = p}
  IN CASE c.full -> c
       [] ~c.full /\ ~IncludeNsfw /\ p \in Over18 -> next
       [] ~c.full /\ (IncludeNsfw \/ p \notin Over18) /\ Verdict[p] # "true" ->
            [next EXCEPT !.unknown = @ + (IF Verdict[p] = "unknown" THEN 1 ELSE 0)]
       [] ~c.full /\ Counts(p) /\ places # {} ->
            [next EXCEPT !.candidates = Better(@, CHOOSE i \in places : TRUE, rank)]
       [] ~c.full /\ Counts(p) /\ places = {} ->
            IF Overflows(c.bytes, p) THEN [next EXCEPT !.full = TRUE]
              ELSE [next EXCEPT !.bytes = @ + Bytes[p],
                                !.candidates = Append(@, [post |-> p, source |-> source, rank |-> rank])]

Inspected(posts) ==
  LET passed[n \in 0 .. Len(posts)] ==
        IF n = 0 THEN [candidates |-> candidates, taken |-> taken, unknown |-> unknown,
                       bytes |-> bytes, full |-> FALSE, seen |-> seen]
        ELSE Inspect(passed[n - 1], posts[n])
  IN passed[Len(posts)]

(* The policy removes posts before the page is counted.                    *)
Allowed(raw) == Picked(raw, {i \in DOMAIN raw : AllowNsfw \/ raw[i] \notin Over18})

(* How a source ended: what its last page held beyond the window is cut    *)
(* off, and a page that the policy emptied is its last one.                *)
LastPage(raw, cursor) ==
  IF Len(Allowed(raw)) > Remaining THEN "cut"
    ELSE IF cursor = None \/ raw = << >> THEN "end" ELSE "filtered"

Ends(how) == ending' = [ending EXCEPT ![source] = how]
NextSource ==
  /\ source' = source + 1 /\ after' = None /\ used' = {} /\ taken' = 0
  /\ phase' = IF source = Sources THEN "collected" ELSE "collecting"

\* Mutant: the sources that were left count as exhausted.
BoundedOnly == bounded' = TRUE /\ UNCHANGED exhausted
LeavesMore == bounded' = TRUE /\ exhausted' = FALSE

WindowEnds ==
  /\ phase = "collecting" /\ Remaining = 0
  /\ LeavesMore
  /\ NextSource
  /\ Ends("window")
  /\ UNCHANGED <<inspected, unknown, bytes, candidates, number, shown, seen>>

SourceFails ==
  /\ phase = "collecting" /\ Remaining > 0
  /\ phase' = "failed"
  /\ UNCHANGED <<reading, collection, number, shown, seen, ending>>

(* A page of the source, after which it goes on, ends or fails; a page     *)
(* that overflows the byte budget ends the collection.                     *)
Fresh(cursor) == cursor # TooLong /\ cursor \notin used

Page(raw, cursor) ==
  LET posts == Allowed(raw)
      result == Inspected(SubSeq(posts, 1, Least(Len(posts), Remaining)))
  IN /\ phase = "collecting" /\ Remaining > 0
     /\ Len(posts) <= PageLimit
     /\ inspected' = inspected + (result.taken - taken)
     /\ unknown' = result.unknown /\ bytes' = result.bytes
     /\ candidates' = result.candidates /\ seen' = result.seen
     /\ UNCHANGED <<number, shown>>
     /\ \/ /\ result.full
           /\ LeavesMore
           /\ source' = Sources + 1 /\ after' = None /\ used' = {} /\ taken' = 0
           /\ phase' = "collected"
           /\ Ends("bytes")
        \/ /\ ~result.full /\ (cursor = None \/ posts = << >>)
           /\ NextSource
           /\ Ends(LastPage(raw, cursor))
           /\ UNCHANGED <<bounded, exhausted>>
        \/ /\ ~result.full /\ cursor # None /\ posts # << >>
           /\ taken' = result.taken
           /\ IF Fresh(cursor)
                THEN after' = cursor /\ used' = used \cup {cursor} /\ UNCHANGED phase
                ELSE phase' = "failed" /\ UNCHANGED <<after, used>>
           /\ UNCHANGED <<source, bounded, exhausted, ending>>

TooManyPosts(raw) ==
  /\ phase = "collecting" /\ Remaining > 0
  /\ Len(Allowed(raw)) > PageLimit
  /\ phase' = "failed"
  /\ UNCHANGED <<reading, collection, number, shown, seen, ending>>
-----------------------------------------------------------------------------
(***************************************************************************)
(* build_feed and slice_page                                               *)
(***************************************************************************)
Before(a, b) ==
  \/ RankValue[a.post] > RankValue[b.post]
  \/ /\ RankValue[a.post] = RankValue[b.post]
     /\ \/ Created[a.post] > Created[b.post]
        \/ Created[a.post] = Created[b.post] /\ a.post < b.post

Ranked ==
  LET places == DOMAIN candidates
  IN [n \in places |->
       candidates[Nth(places, n, LAMBDA j, i : Before(candidates[j], candidates[i]))]]

Rank ==
  /\ phase = "collected"
  /\ IF \E i \in DOMAIN candidates : RankValue[candidates[i].post] = NoValue
       THEN phase' = "failed" /\ UNCHANGED candidates
       ELSE phase' = "paging" /\ candidates' = Ranked
  /\ UNCHANGED <<reading, inspected, unknown, bytes, bounded, exhausted, number, shown, seen, ending>>

\* Mutant: pages are counted from zero.
StartFromZero(n) == n * Limit
Start(n) == (n - 1) * Limit

(* The reader takes the page and, while it names a next one, asks for it.  *)
TurnPage ==
  LET total == Len(candidates)
      start == Start(number)
  IN /\ phase = "paging" /\ start < MaxCandidates
     /\ shown' = shown \o SubSeq(candidates, start + 1, Least(start + Limit, total))
     /\ IF start + Limit < total
          THEN number' = number + 1 /\ UNCHANGED phase
          ELSE phase' = "last" /\ UNCHANGED number
     /\ UNCHANGED <<reading, collection, seen, ending>>
-----------------------------------------------------------------------------
Pages == UNION {[1 .. n -> Posts] : n \in 0 .. PageLimit + 1}

Stopped == phase \in {"last", "failed"} /\ UNCHANGED vars

Next ==
  \/ WindowEnds \/ SourceFails \/ Rank \/ TurnPage \/ Stopped
  \/ \E raw \in Pages :
       \/ TooManyPosts(raw)
       \/ \E cursor \in Cursors \cup {None} : Page(raw, cursor)

Spec == Init /\ [][Next]_vars
-----------------------------------------------------------------------------
(***************************************************************************)
(* Properties.                                                             *)
(***************************************************************************)
(* The first sight of a post at its best rank.                             *)
BestRank(p) ==
  CHOOSE s \in seen : s.post = p /\ \A t \in seen : t.post = p =>
    t.rank > s.rank \/ (t.rank = s.rank /\ t.source >= s.source)

(* No post, whatever the sources repeat, is a candidate twice; each one    *)
(* that counts is there with its best rank and the first source that gave  *)
(* it, unless the byte budget ended the collection.                        *)
CandidatesAreBest ==
  LET matched == {p \in Posts : Counts(p) /\ \E s \in seen : s.post = p}
      found == {candidates[i] : i \in DOMAIN candidates}
      cut == \E s \in 1 .. Sources : ending[s] = "bytes"
  IN /\ found \subseteq {BestRank(p) : p \in matched}
     /\ Cardinality(found) = Len(candidates)
     /\ cut \/ Cardinality(found) = Cardinality(matched)

(* Pages one after the other show every candidate once, in a total order   *)
(* that no order of the sources changes.                                   *)
PagesShowTheRanking ==
  phase = "last" =>
    /\ shown = candidates
    /\ \A i, j \in DOMAIN shown : i < j =>
         LET a == shown[i].post  b == shown[j].post
         IN /\ RankValue[a] >= RankValue[b]
            /\ RankValue[a] = RankValue[b] => Created[a] >= Created[b]
            /\ RankValue[a] = RankValue[b] /\ Created[a] = Created[b] => a < b

(* A source that the window or the byte budget stopped, or that the build  *)
(* never came to, takes all_sources_exhausted away, and with it the notice *)
(* of posts outside the window is given (mod.rs:509); a build whose        *)
(* sources all ran out of pages, of whatever length, gives none.           *)
StopsAreNoticed ==
  phase \in {"collected", "paging", "last"} =>
    (exhausted <=> \A s \in 1 .. Sources : ending[s] \in {"end", "filtered", "cut"})

(* all_sources_exhausted means that no source had more posts: each one was *)
(* read to its end, and nothing of its last page was left out.             *)
ExhaustedMeansRead ==
  phase \in {"collected", "paging", "last"} /\ exhausted =>
    \A s \in 1 .. Sources : ending[s] = "end"
=============================================================================
