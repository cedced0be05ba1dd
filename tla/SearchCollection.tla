-------------------------- MODULE SearchCollection --------------------------
(***************************************************************************)
(* What one search session collects and publishes: source pages are        *)
(* fetched within budgets, their items evaluated, with the posts of        *)
(* comments fetched where a predicate asks for them, and pages cut from    *)
(* what is ready.  SearchSessions is about who may advance a session; this *)
(* module is about the order and the completeness of its pages.            *)
(*                                                                         *)
(* Items are numbers, in the order of their fullnames.                     *)
(***************************************************************************)
EXTENDS Integers, SequencesExt, FiniteSets, Selection

CONSTANTS
  Items, Time, Score, Bytes,   \* what an item says of itself
  Verdict,          \* of an item without its parent: "true", "false" or "unknown"
  ParentOf,         \* the post a comment with an unknown verdict belongs to
  Parents,          \* those posts, numbers
  WithParent,       \* the verdict of a comment once its parent is known
  Cursors, None,    \* continuations, and no continuation
  Sorts,            \* the orders that are asked for: "new", "top", "relevance" or "name"
  Limit,            \* items of a page
  BatchLimit,       \* items of a source page
  ChunkSize,        \* parents of one call
  MaxPages, MaxSourcePages, MaxSourceCalls, MaxCandidates, MaxSessionBytes, MaxParents

Verdicts == {"true", "false", "unknown"}

(* A source page and a chunk of parents are of 100; 32 calls are two for   *)
(* each of 16 source pages.                                                *)
CollectionAssumption ==
  /\ Items \subseteq Nat /\ Parents \subseteq Nat
  /\ Time \in [Items -> Int] /\ Score \in [Items -> Int] /\ Bytes \in [Items -> Nat]
  /\ Verdict \in [Items -> Verdicts] /\ WithParent \in [Items -> Verdicts]
  /\ None \notin Int /\ None \notin Parents /\ ParentOf \in [Items -> Parents \cup {None}]
  /\ {Limit, BatchLimit, ChunkSize, MaxPages, MaxSourcePages, MaxSourceCalls} \subseteq Nat \ {0}
  /\ {MaxCandidates, MaxSessionBytes, MaxParents} \subseteq Nat
  /\ BatchLimit <= ChunkSize /\ MaxPages <= MaxSourcePages /\ 2 * MaxSourcePages <= MaxSourceCalls

VARIABLES
  sort,       \* the order of this session
  collection, \* the Collection
  step,       \* where advance is: "idle" or "fetching"
  requests,   \* the source pages of this advance
  pending,    \* what they brought, for an order that needs all of it
  pages,      \* the pages that were published
  given       \* history: the items the source gave

vars == <<sort, collection, step, requests, pending, pages, given>>

Init ==
  /\ sort \in Sorts
  /\ collection =
       [ready |-> << >>, tie |-> << >>, lastTime |-> None, cursors |-> {}, seen |-> {},
        parents |-> [p \in Parents |-> "unasked"], sourcePages |-> 0, sourceCalls |-> 0,
        candidates |-> 0, bytes |-> 0, end |-> "none", failed |-> FALSE]
  /\ step = "idle" /\ requests = 0 /\ pending = << >> /\ pages = << >> /\ given = {}

CompleteSet == sort \in {"top", "name"}
-----------------------------------------------------------------------------
(***************************************************************************)
(* The parts of a Collection.                                              *)
(***************************************************************************)
Stop(c, failed) == [c EXCEPT !.end = "stopped", !.failed = @ \/ failed]

PageBudget == IF sort = "top" THEN MaxPages ELSE MaxSourcePages
Bounded(c) ==
  IF c.end = "none" /\ (\/ c.sourcePages >= PageBudget
                        \/ c.candidates >= MaxCandidates
                        \/ c.sourceCalls >= MaxSourceCalls)
    THEN Stop(c, FALSE) ELSE c

(* flush_tie: items of one time are published by name.                     *)
FlushTie(c) == [c EXCEPT !.ready = @ \o Arranged(c.tie, <), !.tie = << >>]
Closed(c) == IF c.end # "none" THEN FlushTie(c) ELSE c

(* The items of a source page that count, until a budget is used up.       *)
\* Mutant: an item that does not fit is skipped.
SkipsWhatDoesNotFit(b) == b
EndsBatch(b) == [b EXCEPT !.full = TRUE]

IsNew(b, item) == item \notin b.seen

Retain(b, item) ==
  IF b.bytes > MaxSessionBytes THEN EndsBatch(b)
  ELSE [b EXCEPT !.seen = @ \cup {item}, !.batch = IF IsNew(b, item) THEN Append(@, item) ELSE @]

Count(b, item) ==
  CASE b.full -> b
    [] ~b.full /\ b.candidates = MaxCandidates -> EndsBatch(b)
    [] ~b.full /\ b.candidates < MaxCandidates ->
         Retain([b EXCEPT !.candidates = @ + 1, !.bytes = @ + Bytes[item]], item)

Counted(c, items) ==
  LET counted[n \in 0 .. Len(items)] ==
        IF n = 0 THEN [candidates |-> c.candidates, bytes |-> c.bytes, seen |-> c.seen,
                       batch |-> << >>, full |-> FALSE]
        ELSE Count(counted[n - 1], items[n])
  IN counted[Len(items)]

(* How the continuation of a page ends the session.                        *)
Continued(c, after) ==
  CASE c.end # "none" -> c
    [] c.end = "none" /\ (after = None \/ sort = "name") -> [c EXCEPT !.end = "exhausted"]
    [] c.end = "none" /\ after # None /\ sort # "name" ->
         IF after \in c.cursors THEN Stop(c, TRUE)
           ELSE [c EXCEPT !.cursors = @ \cup {after}]
-----------------------------------------------------------------------------
(***************************************************************************)
(* hydrate: the parents of the comments that are undecided without them.   *)
(***************************************************************************)
VerdictOf(c, item) ==
  IF Verdict[item] = "unknown" /\ ParentOf[item] # None /\ c.parents[ParentOf[item]] = "known"
    THEN WithParent[item] ELSE Verdict[item]

Asked(c, batch) ==
  {p \in Parents : /\ c.parents[p] = "unasked"
                   /\ \E i \in ToSet(batch) : Verdict[i] = "unknown" /\ ParentOf[i] = p}

(* They are asked for in their order, ChunkSize at a time.                 *)
Chunks(ids) == (Cardinality(ids) + ChunkSize - 1) \div ChunkSize
Chunk(ids, n) == {p \in ids : Cardinality({q \in ids : q < p}) \div ChunkSize = n - 1}

(* One call for parents; a comment whose parent did not come stays         *)
(* unknown, and the parent is not asked for again.  What is kept of them   *)
(* is bounded.                                                             *)
Room(c) == MaxParents - Cardinality({p \in Parents : c.parents[p] = "known"})
Overfull(c, kept) == Cardinality(kept) > Room(c)
Retained(c, kept) == {p \in kept : Cardinality({q \in kept : q < p}) < Room(c)}
Hear(c, chunk, known) ==
  [c EXCEPT !.sourceCalls = @ + 1,
            !.parents = [p \in Parents |->
              IF p \in known THEN "known" ELSE IF p \in chunk THEN "missing" ELSE @[p]]]

AskParents(c, chunk, found, fails) ==
  CASE fails -> Stop(Hear(c, chunk, {}), TRUE)
    [] ~fails /\ Overfull(c, found \cap chunk) -> Stop(Hear(c, chunk, Retained(c, found \cap chunk)), FALSE)
    [] OTHER -> Hear(c, chunk, found \cap chunk)

(* Nothing is asked after a failure; a call that may not be made, failed,  *)
(* or brought too much ends the loop.                                      *)
MayCall(c) == c.sourceCalls < MaxSourceCalls

Ask(h, chunk, found, fails) ==
  CASE h.done -> h
    [] ~h.done /\ ~MayCall(h.c) -> [c |-> Stop(h.c, FALSE), done |-> TRUE]
    [] ~h.done /\ MayCall(h.c) ->
         [c |-> AskParents(h.c, chunk, found, fails), done |-> fails \/ Overfull(h.c, found \cap chunk)]

Hydrate(c, batch, found, fails) ==
  LET ids == Asked(c, batch)
      asked[n \in 0 .. Chunks(ids)] ==
        IF n = 0 THEN [c |-> c, done |-> FALSE] ELSE Ask(asked[n - 1], Chunk(ids, n), found, fails)
  IN IF c.failed THEN c ELSE asked[Chunks(ids)].c
-----------------------------------------------------------------------------
(***************************************************************************)
(* evaluate: matches are made ready; under New a group of one time waits   *)
(* until an older item closes it.                                          *)
(***************************************************************************)
\* Mutant: every match is ready at once.
ReadyAtOnce(c, item) == [c EXCEPT !.ready = Append(@, item)]
Admit(c, item) ==
  IF sort = "new" THEN [c EXCEPT !.tie = Append(@, item)] ELSE [c EXCEPT !.ready = Append(@, item)]

CloseGroup(c, item) ==
  IF sort # "new" THEN c
  ELSE [(IF c.lastTime # None /\ Time[item] < c.lastTime THEN FlushTie(c) ELSE c) EXCEPT !.lastTime = Time[item]]

Judge(c, item) ==
  IF VerdictOf(c, item) = "true" THEN Admit(CloseGroup(c, item), item) ELSE CloseGroup(c, item)

Disordered(c, batch) ==
  batch # << >> /\ c.lastTime # None /\ Time[Head(batch)] > c.lastTime

JudgedAll(c, batch) ==
  LET judged[n \in 0 .. Len(batch)] == IF n = 0 THEN c ELSE Judge(judged[n - 1], batch[n])
  IN judged[Len(batch)]

Judged(c, batch, found, fails) ==
  IF sort = "new" /\ Disordered(c, batch) THEN FlushTie(Stop(c, TRUE))
  ELSE Closed(JudgedAll(Hydrate(c, batch, found, fails), batch))

Newer(a, b) == Time[a] > Time[b]
Evaluated(c, raw, found, fails) ==
  Judged(c, IF sort = "new" THEN Arranged(raw, Newer) ELSE raw, found, fails)
-----------------------------------------------------------------------------
(***************************************************************************)
(* advance                                                                 *)
(***************************************************************************)
Page(items, more, label) == [items |-> items, more |-> more, label |-> label]

(* A page can be asked for while the last one has a cursor.                *)
Begin ==
  /\ step = "idle"
  /\ pages # << >> => pages[Len(pages)].more
  /\ step' = "fetching" /\ requests' = 0 /\ pending' = << >>
  /\ UNCHANGED <<sort, collection, pages, given>>

Fetching ==
  /\ step = "fetching" /\ collection.end = "none"
  /\ CompleteSet \/ Len(collection.ready) < Limit
  /\ requests < MaxPages

Called(c) == [c EXCEPT !.sourcePages = @ + 1, !.sourceCalls = @ + 1]

(* A source page; an order that needs all of them only collects it.        *)
Charged(c, b) ==
  [c EXCEPT !.candidates = b.candidates, !.bytes = b.bytes, !.seen = b.seen, !.end = IF b.full THEN "stopped" ELSE @]

Take(c, batch, found, fails) ==
  IF CompleteSet THEN pending' = pending \o batch /\ collection' = c
  ELSE collection' = Evaluated(c, batch, found, fails) /\ UNCHANGED pending

FetchPage(items, after, found, fails) ==
  /\ Fetching
  /\ given' = given \cup ToSet(items)
  /\ requests' = requests + 1
  /\ LET b == Counted(collection, items)
     IN Take(Bounded(Continued(Charged(Called(collection), b), after)), b.batch, found, fails)
  /\ UNCHANGED <<sort, step, pages>>

Fail ==
  /\ collection' = [collection EXCEPT !.end = "stopped", !.ready = << >>, !.tie = << >>]
  /\ pages' = Append(pages, Page(<< >>, FALSE, "error"))
  /\ step' = "idle"
  /\ UNCHANGED <<sort, requests, pending, given>>

(* The source fails: an error when nothing was seen or when its answer is  *)
(* not legal, and otherwise the end of the discovery.                      *)
SourceFails ==
  /\ Fetching
  /\ \/ Fail
     \/ /\ collection.seen # {}
        /\ collection' = FlushTie(Stop(Called(collection), TRUE))
        /\ requests' = requests + 1
        /\ UNCHANGED <<sort, step, pending, pages, given>>

Best(a, b) ==
  IF sort # "top" THEN a < b
    ELSE \/ Score[a] > Score[b]
         \/ Score[a] = Score[b] /\ Time[a] > Time[b]
         \/ Score[a] = Score[b] /\ Time[a] = Time[b] /\ a < b

Label(c) ==
  CASE c.ready # << >> -> "buffered_results_remain"
    [] c.ready = << >> /\ c.end = "none" -> "more_results_may_exist"
    [] c.ready = << >> /\ c.end = "exhausted" -> "selected_sources_exhausted"
    [] c.ready = << >> /\ c.end = "stopped" -> "stopped_early"

Sorted(c) == [c EXCEPT !.ready = Arranged(@, Best)]
Complete(found, fails) ==
  IF CompleteSet /\ pending # << >> THEN Sorted(Evaluated(collection, pending, found, fails)) ELSE collection

GoesOn(c) == c.ready # << >> \/ c.tie # << >> \/ c.end = "none"
Publish(rest, items) ==
  collection' = rest /\ pages' = Append(pages, Page(items, GoesOn(rest), Label(rest)))
PageOf(c) ==
  LET size == IF Limit < Len(c.ready) THEN Limit ELSE Len(c.ready)
  IN Publish([c EXCEPT !.ready = SubSeq(@, size + 1, Len(@))], SubSeq(c.ready, 1, size))

BuildPage(found, fails) ==
  /\ step = "fetching" /\ ~Fetching
  /\ PageOf(Closed(Complete(found, fails)))
  /\ step' = "idle"
  /\ UNCHANGED <<sort, requests, pending, given>>

Batches == UNION {{s \in [1 .. n -> Items] : IsInjective(s)} : n \in 0 .. BatchLimit}

Next ==
  \/ Begin \/ SourceFails
  \/ \E found \in SUBSET Parents, fails \in BOOLEAN :
       \/ BuildPage(found, fails)
       \/ \E items \in Batches, after \in Cursors \cup {None} : FetchPage(items, after, found, fails)

Spec == Init /\ [][Next]_vars
-----------------------------------------------------------------------------
(***************************************************************************)
(* Properties.                                                             *)
(***************************************************************************)
Shown ==
  LET upTo[n \in 0 .. Len(pages)] == IF n = 0 THEN << >> ELSE upTo[n - 1] \o pages[n].items
  IN upTo[Len(pages)]

(* The pages of New, one after the other, never go back in time, and the   *)
(* items of one time come by name, although their group may be spread over *)
(* two source pages and the source may repeat or reorder itself.           *)
NewIsChronological ==
  sort = "new" =>
    LET all == Shown \o collection.ready
    IN \A i, j \in DOMAIN all : i < j =>
         Time[all[i]] > Time[all[j]] \/ (Time[all[i]] = Time[all[j]] /\ all[i] < all[j])

(* The pages of Top are cut from one collection: no later page holds what  *)
(* should have come before, because nothing is fetched after the first.    *)
TopIsOneCollection ==
  sort = "top" =>
    LET all == Shown \o collection.ready
    IN \A i, j \in DOMAIN all : i < j => Best(all[i], all[j])

(* "selected_sources_exhausted" is said only when every match that the     *)
(* source gave is on a page.                                               *)
Matches(i) == VerdictOf(collection, i) = "true"
ExhaustedIsComplete ==
  \A n \in DOMAIN pages : pages[n].label = "selected_sources_exhausted" =>
    {i \in given : Matches(i)} = ToSet(Shown)

(* Pages show matches, none twice; a page holds no more of them than were  *)
(* asked for, and no fewer when it says that it left some in the buffer.   *)
Fits(page) ==
  /\ Len(page.items) <= Limit
  /\ page.label = "buffered_results_remain" => Len(page.items) = Limit

PagesShowMatches ==
  /\ IsInjective(Shown)
  /\ \A i \in ToSet(Shown) : Matches(i)
  /\ \A n \in DOMAIN pages : Fits(pages[n])

(* The limits of the session hold together, the calls for parents among    *)
(* them: as long as a source page needs one call for parents at the most,  *)
(* the limit is not passed.                                                *)
WithinLimits ==
  /\ collection.sourceCalls <= MaxSourceCalls
  /\ collection.candidates <= MaxCandidates
  /\ collection.sourcePages <= MaxSourcePages

(* The pages of a session are what its source gave within its budgets      *)
(* (session.rs, advance).                                                  *)
PagesAreExact == ExhaustedIsComplete /\ PagesShowMatches /\ WithinLimits
=============================================================================
