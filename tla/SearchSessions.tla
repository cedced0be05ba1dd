--------------------------- MODULE SearchSessions ---------------------------
(***************************************************************************)
(* Search sessions: a first request discovers a page of matches and, when  *)
(* there may be more, registers a session; a cursor names a session and    *)
(* the index of a page.  Requests of one session serialize on its lock, a  *)
(* gate bounds the requests that call the source, sessions expire and are  *)
(* evicted, and a request may be dropped or run out of time at any await.  *)
(*                                                                         *)
(* The source is reduced to the matches each of its pages brings.  What is *)
(* abstracted: parsing, planning and evaluating a query, the tie buffer of *)
(* the New order, and the parent metadata of comments.                     *)
(***************************************************************************)
EXTENDS Naturals, Sequences, FiniteSets, SequencesExt, Selection

CONSTANTS
  Clients,         \* concurrent callers
  Sessions,        \* bound: session identifiers
  Items,           \* what the source can return
  Limit,           \* page size asked for
  MaxPages,        \* MAX_PAGES: source pages per response, and for Top in all
  MaxSourcePages,  \* MAX_SOURCE_PAGES: source pages per session
  MaxEntries,      \* capacity of the table of sessions
  GateSize,        \* permits of the gate
  None             \* no session, no owner

ASSUME SearchAssumption ==
  /\ IsFiniteSet(Clients) /\ IsFiniteSet(Items)
  /\ None \notin Clients \cup Sessions
  /\ {Limit, MaxPages, MaxSourcePages, MaxEntries, GateSize} \subseteq Nat \ {0}
  /\ MaxPages <= MaxSourcePages

VARIABLES
  entries,   \* the registered sessions, oldest first
  session,   \* the collection of each session
  lock,      \* who holds the lock of each session
  expired,   \* the sessions older than TTL
  call,      \* the call each client makes
  dropped    \* history: the sessions whose call was dropped while it advanced

vars == <<entries, session, lock, expired, call, dropped>>

(***************************************************************************)
(* A page as callers see it: its items and whether it has a cursor to the  *)
(* next one; or an error in its place.                                     *)
(***************************************************************************)
Page(items, more) == [items |-> items, more |-> more, failed |-> FALSE]
Failure == [items |-> << >>, more |-> FALSE, failed |-> TRUE]

NewCollection(complete) ==
  [complete |-> complete,       \* complete_set: Top, or exact names
   pages |-> << >>, ready |-> << >>, seen |-> {}, fetched |-> 0,
   ended |-> FALSE,             \* end: exhausted or stopped
   inFlight |-> FALSE]

(* A call: the page it wants (first for a request without a cursor), the   *)
(* source pages of this response, and whether it holds a permit.           *)
Idle == [at |-> "idle", of |-> None, index |-> 0, first |-> FALSE,
         requests |-> 0, permit |-> FALSE]

(* A session nobody refers to no longer exists: its name can be used for a *)
(* new one, whose cursors are different.                                   *)
Free(s) == s \notin Range(entries) /\ \A c \in Clients : call[c].of # s

Init ==
  /\ entries = << >>
  /\ session = [s \in Sessions |-> NewCollection(FALSE)]
  /\ lock = [s \in Sessions |-> None]
  /\ expired = {}
  /\ dropped = {}
  /\ call = [c \in Clients |-> Idle]

(* The call returns, with a page or with an error.                         *)
Answer(c) == call' = [call EXCEPT ![c] = Idle]
-----------------------------------------------------------------------------
(* A request without a cursor starts a session of its own.                 *)
BeginSearch(c, s, complete) ==
  /\ call[c].at = "idle"
  /\ Free(s)
  /\ session' = [session EXCEPT ![s] = NewCollection(complete)]
  /\ expired' = expired \ {s}
  /\ dropped' = dropped \ {s}
  /\ call' = [call EXCEPT ![c] = [Idle EXCEPT !.at = "locking", !.of = s,
                                              !.first = TRUE]]
  /\ UNCHANGED <<entries, lock>>

(* A cursor is looked up among the sessions that have not expired.  Any    *)
(* other, and a malformed one, is answered with an error at once.          *)
BeginPage(c, s, index) ==
  /\ call[c].at = "idle"
  /\ s \in Range(entries) \ expired
  /\ call' = [call EXCEPT ![c] = [Idle EXCEPT !.at = "locking", !.of = s,
                                              !.index = index]]
  /\ UNCHANGED <<entries, session, lock, expired, dropped>>

(***************************************************************************)
(* What a call does once it has the lock, up to its first await.           *)
(***************************************************************************)
Cached(s, index) == index < Len(session[s].pages)

(* The index follows the last page, which announced that it has a next.    *)
\* Mutant: a later page may be asked for too.
ContinuesAhead(s, index) ==
  LET pages == session[s].pages IN
    /\ index >= Len(pages)
    /\ pages # << >> => Last(pages).more
Continues(s, index) ==
  LET pages == session[s].pages IN
    /\ index = Len(pages)
    /\ pages # << >> => Last(pages).more

NeedsSource(s) == ~session[s].ended /\ Len(session[s].ready) < Limit

PermitHolders == {c \in Clients : call[c].permit}

(* push of the result: an error ends the session and drops its buffers.    *)
\* Mutant: the buffers are dropped after every page.
AlwaysClear(collection, result) ==
  [collection EXCEPT !.inFlight = FALSE, !.pages = Append(@, result),
                     !.ended = @ \/ result.failed, !.ready = << >>]
Publish(collection, result) ==
  IF ~result.failed
    THEN [collection EXCEPT !.inFlight = FALSE, !.pages = Append(@, result)]
    ELSE [collection EXCEPT !.inFlight = FALSE, !.pages = Append(@, result),
                            !.ended = TRUE, !.ready = << >>]

(* in_flight: a call was dropped while it advanced the session.            *)
\* Mutant: the next call advances the session again.
NeverInterrupted(s) == FALSE
Interrupted(s) == session[s].inFlight

EnterSession(c) ==
  LET s == call[c].of
      index == call[c].index
  IN /\ call[c].at = "locking"
     /\ lock[s] = None
     /\ \/ /\ s \in expired \/ Cached(s, index) \/ ~Continues(s, index)
           /\ Answer(c)
           /\ UNCHANGED <<session, lock>>
        \/ /\ s \notin expired /\ Continues(s, index) /\ Interrupted(s)
           /\ session' = [session EXCEPT ![s] = Publish(@, Failure)]
           /\ Answer(c)
           /\ UNCHANGED lock
        \/ /\ s \notin expired /\ Continues(s, index) /\ ~Interrupted(s)
           /\ IF NeedsSource(s) /\ Cardinality(PermitHolders) >= GateSize
                THEN Answer(c) /\ UNCHANGED <<session, lock>>
                ELSE /\ session' = [session EXCEPT ![s].inFlight = TRUE]
                     /\ lock' = [lock EXCEPT ![s] = c]
                     /\ call' = [call EXCEPT ![c].at = "advancing",
                                             ![c].permit = NeedsSource(s)]
     /\ UNCHANGED <<entries, expired, dropped>>
-----------------------------------------------------------------------------
(***************************************************************************)
(* advance: source pages are fetched until the session ends, the page is   *)
(* full, or the response has used its share.                               *)
(***************************************************************************)
Fetching(c) ==
  LET s == call[c].of IN
    /\ call[c].at = "advancing"
    /\ ~session[s].ended
    /\ session[s].complete \/ Len(session[s].ready) < Limit
    /\ call[c].requests < MaxPages

(* advance awaits the source, and between the items of what it brought.    *)
AtAwait(c) == call[c].at = "advancing" /\ (Fetching(c) \/ call[c].requests > 0)

(* bounded: the discovery budget ends a session that nothing else ended.   *)
\* Mutant: Top is bounded like any other search.
SamePageBudget(complete) == MaxSourcePages
PageBudget(complete) == IF complete THEN MaxPages ELSE MaxSourcePages

Bounded(collection) ==
  [collection EXCEPT !.ended = @ \/ collection.fetched >= PageBudget(collection.complete)]

(* The matches of a source page that the session has not seen yet.         *)
\* Mutant: the source is trusted not to repeat itself.
Everything(collection, batch) == batch
Fresh(collection, batch) == batch \ collection.seen

(* The collection after a source page, which may be its last.              *)
Fetched(collection, batch, last) ==
  Bounded([collection EXCEPT !.fetched = @ + 1,
                             !.seen = @ \cup batch,
                             !.ready = @ \o SetToSeq(Fresh(collection, batch)),
                             !.ended = last])

(* The source answers with a batch, and with a continuation or without.    *)
FetchPage(c, batch, last) ==
  /\ Fetching(c)
  /\ session' = [session EXCEPT ![call[c].of] = Fetched(@, batch, last)]
  /\ call' = [call EXCEPT ![c].requests = @ + 1]
  /\ UNCHANGED <<entries, lock, expired, dropped>>

(* A first page that has a cursor is registered before it is answered.      *)
\* Mutant: whoever gets a page with a cursor registers the session.
RegistersAnyPage(c, page) == page.more
Registers(c, page) == call[c].first /\ page.more

(* The page is published, and the lock and the permit are released.        *)
Leave(c, collection, page) ==
  LET s == call[c].of IN
    /\ session' = [session EXCEPT ![s] = Publish(collection, page)]
    /\ lock' = [lock EXCEPT ![s] = None]
    /\ IF Registers(c, page)
         THEN call' = [call EXCEPT ![c] = [Idle EXCEPT !.at = "registering", !.of = s]]
         ELSE Answer(c)
    /\ UNCHANGED <<entries, expired, dropped>>

(* The source fails: the page is what the session had found so far, or an  *)
(* error when it had seen nothing or when the response is not legal.       *)
FetchFails(c) ==
  LET s == call[c].of IN
    /\ Fetching(c)
    /\ \/ Leave(c, session[s], Failure)
       \/ /\ session[s].fetched > 0
          /\ session' = [session EXCEPT ![s].fetched = @ + 1, ![s].ended = TRUE]
          /\ call' = [call EXCEPT ![c].requests = @ + 1]
          /\ UNCHANGED <<entries, lock, expired, dropped>>

(* The cursor of a page: something is ready, or the session goes on.       *)
More(collection, rest) == rest # << >> \/ ~collection.ended

(* The page is built from the first items that are ready.                  *)
BuildPage(c) ==
  LET collection == session[call[c].of]
      ready == collection.ready
      size == IF Limit < Len(ready) THEN Limit ELSE Len(ready)
      rest == SubSeq(ready, size + 1, Len(ready))
  IN /\ call[c].at = "advancing"
     /\ ~Fetching(c)
     /\ Leave(c, [collection EXCEPT !.ready = rest],
              Page(SubSeq(ready, 1, size), More(collection, rest)))

(* The first page has a cursor: its session is registered, in the place of *)
(* the expired ones or of the oldest.                                      *)
Evict(live) == IF Len(live) >= MaxEntries THEN Tail(live) ELSE live

Register(c) ==
  LET live == Picked(entries, {i \in DOMAIN entries : entries[i] \notin expired})
  IN /\ call[c].at = "registering"
     /\ entries' = Append(Evict(live), call[c].of)
     /\ Answer(c)
     /\ UNCHANGED <<session, lock, expired, dropped>>
-----------------------------------------------------------------------------
(* The deadline passes: a call still waiting for the lock gives up, one    *)
(* that advances ends its session.                                         *)
Deadline(c) ==
  \/ /\ call[c].at = "locking"
     /\ Answer(c)
     /\ UNCHANGED <<entries, session, lock, expired, dropped>>
  \/ /\ AtAwait(c)
     /\ Leave(c, session[call[c].of], Failure)

(* The caller goes away: the future is dropped at an await.  The guard of  *)
(* the lock and the permit are released; what was in flight is not undone. *)
\* Mutant: the lock is not a guard, nobody releases it.
LockKept(c) == lock
LockReleased(c) == [s \in Sessions |-> IF lock[s] = c THEN None ELSE lock[s]]

Drop(c) ==
  /\ call[c].at \in {"locking", "registering"} \/ AtAwait(c)
  /\ Answer(c)
  /\ lock' = LockReleased(c)
  /\ dropped' = dropped \cup {s \in Sessions : lock[s] = c}
  /\ UNCHANGED <<entries, session, expired>>

Expire(s) ==
  /\ ~Free(s)
  /\ s \notin expired
  /\ expired' = expired \cup {s}
  /\ UNCHANGED <<entries, session, lock, call, dropped>>

Step(c) ==
  \/ EnterSession(c)
  \/ \E batch \in SUBSET Items, last \in BOOLEAN : FetchPage(c, batch, last)
  \/ FetchFails(c)
  \/ BuildPage(c)
  \/ Register(c)
  \/ Deadline(c)

Next ==
  \/ \E c \in Clients :
       \/ \E s \in Sessions, complete \in BOOLEAN : BeginSearch(c, s, complete)
       \/ \E s \in Sessions, index \in 0 .. MaxSourcePages : BeginPage(c, s, index)
       \/ Step(c)
       \/ Drop(c)
  \/ \E s \in Sessions : Expire(s)

Spec == Init /\ [][Next]_vars

(***************************************************************************)
(* Fairness.  The lock is handed to its waiters in order, the source's     *)
(* calls end, and the runtime resumes whoever can go on.  No caller is     *)
(* obliged to call, and the deadline is not counted on.                    *)
(***************************************************************************)
Fairness ==
  \A c \in Clients :
    /\ SF_vars(EnterSession(c))
    /\ WF_vars(FetchFails(c) \/ \E batch \in SUBSET Items, last \in BOOLEAN :
                                FetchPage(c, batch, last))
    /\ WF_vars(BuildPage(c))
    /\ WF_vars(Register(c))
-----------------------------------------------------------------------------
(***************************************************************************)
(* Safety.                                                                 *)
(***************************************************************************)
Published(s) == UNION {Range(page.items) : page \in Range(session[s].pages)}

(* No more calls use the source at a time than the gate has permits: a     *)
(* session that skipped the gate never turns out to need the source.       *)
CallsWithinGate == Cardinality({c \in Clients : Fetching(c)}) <= GateSize

(* No item is published twice by a session, in one page or in two, and none*)
(* that is published waits for another page.                               *)
Once(k) ==
  /\ IsInjective(k.ready)
  /\ \A i \in DOMAIN k.pages :
       /\ IsInjective(k.pages[i].items)
       /\ Range(k.pages[i].items) \cap Range(k.ready) = {}
       /\ \A j \in DOMAIN k.pages :
            i # j => Range(k.pages[i].items) \cap Range(k.pages[j].items) = {}
NoItemTwice == \A s \in Sessions : Once(session[s])

(* As long as no page of a session failed, everything it found is on one   *)
(* of its pages or will be on the next.                                    *)
NothingLost ==
  \A s \in Sessions :
    (\A page \in Range(session[s].pages) : ~page.failed)
      => session[s].seen = Published(s) \cup Range(session[s].ready)

(* Only a session whose first page was just published and has a cursor     *)
(* enters the table, which holds nothing twice: a session that was evicted *)
(* does not come back with a call that still advances it, in the place of  *)
(* one that can be continued.                                              *)
EvictedStayEvicted ==
  [][/\ IsInjective(entries')
     /\ \A s \in Range(entries') \ Range(entries) :
          Len(session[s].pages) = 1 /\ session[s].pages[1].more]_vars

(* A call that advances a session produces the page it was asked for: no   *)
(* other call adds or skips a page in the meantime, although the index is  *)
(* checked before the awaits and the page is pushed after them.            *)
AdvancesItsPage ==
  \A c \in Clients : call[c].at = "advancing" =>
    call[c].index = Len(session[call[c].of].pages)

(* A dropped call may have consumed its source in part; it is never        *)
(* restarted: nobody calls the source for that session again, and what was *)
(* found but not yet published stays unpublished.                          *)
DroppedNeverRestarts ==
  [][\A s \in dropped : ~Free(s) =>
       /\ session'[s].fetched = session[s].fetched
       /\ \A page \in Range(session'[s].pages) \ Range(session[s].pages) :
            page.items = << >>]_vars

(***************************************************************************)
(* Liveness.                                                               *)
(***************************************************************************)

(* Every call ends, even behind one that was dropped with the lock held.   *)
CallsEnd == \A c \in Clients : call[c].at # "idle" ~> call[c].at = "idle"
=============================================================================
