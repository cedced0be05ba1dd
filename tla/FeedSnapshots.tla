--------------------------- MODULE FeedSnapshots ---------------------------
(***************************************************************************)
(* Snapshots of custom feeds.  The first page of a feed is built once and  *)
(* stored in the cache under a random cursor; the feed's head names the    *)
(* latest snapshot for a short while, so that other first pages reuse it.  *)
(* Later pages are cut from the snapshot their cursor names.  Requests for *)
(* the first page of a feed serialize on its flight, builds on a gate, and *)
(* each may be dropped by its deadline or by its caller at any await.      *)
(*                                                                         *)
(* A snapshot is known by its cursor and the feed it was built for.  The   *)
(* cache is reduced to what its callers can rely on: a read or a write may *)
(* fail, and any entry may expire or be evicted at any time.               *)
(***************************************************************************)
EXTENDS Naturals, FiniteSets

CONSTANTS
  Clients,       \* concurrent callers
  Feeds,         \* feed definitions, by their binding
  Stripe,        \* the lock of each feed among the fixed stripes of Flights
  Cursors,       \* bound: identifiers that can be told apart
  Alphanumeric,  \* those made of letters and digits only
  GateSize,      \* permits of feed_gate
  None

ASSUME FeedAssumption ==
  /\ IsFiniteSet(Clients)
  /\ Stripe \in [Feeds -> Nat]
  /\ Alphanumeric \subseteq Cursors
  /\ GateSize \in Nat \ {0}
  /\ None \notin Clients \cup Feeds \cup Cursors

VARIABLES
  snapshot,  \* for each cursor, the feed whose snapshot the cache holds
  head,      \* for each feed, the cursor its head entry holds
  flight,    \* for each stripe, the request that holds it
  call,      \* the request each client makes
  stored,    \* history: cursors under which a snapshot was stored
  issued     \* history: cursors given to a caller, with their feed

vars == <<snapshot, head, flight, call, stored, issued>>

Stripes == {Stripe[f] : f \in Feeds}

(* failed: a read of the head or of its snapshot failed.  shown: the feed  *)
(* whose posts the answer holds.                                           *)
Idle == [at |-> "idle", feed |-> None, cursor |-> None, failed |-> FALSE,
         shown |-> None]

Waiting == {"locking", "reading", "checking", "queued", "building", "storing",
            "heading"}

Init ==
  /\ snapshot = [k \in Cursors |-> None]
  /\ head = [f \in Feeds |-> None]
  /\ flight = [s \in Stripes |-> None]
  /\ call = [c \in Clients |-> Idle]
  /\ stored = {}
  /\ issued = [k \in Cursors |-> None]

(* Moves on to another await.                                              *)
GoOn(c, at) == call' = [call EXCEPT ![c].at = at]

(* The guards of the flight and of the gate are dropped with the call.     *)
FlightReleased(c) == [s \in Stripes |-> IF flight[s] = c THEN None ELSE flight[s]]

(* The answer: the page of a feed, with a cursor or without, or an error.  *)
Answer(c, cursor, shown) ==
  /\ call' = [call EXCEPT ![c] = [@ EXCEPT !.at = "answered", !.cursor = cursor,
                                           !.failed = FALSE, !.shown = shown]]
  /\ flight' = FlightReleased(c)
  /\ issued' = [k \in Cursors |-> IF k = cursor THEN shown ELSE issued[k]]
-----------------------------------------------------------------------------
(***************************************************************************)
(* A page with a cursor: an identifier of the wrong shape is refused, any  *)
(* other is looked up together with the binding of the request.            *)
(***************************************************************************)
\* Mutant: snapshots are found by their cursor alone.
AnyoneFinds(f, k) == snapshot[k] # None
Finds(f, k) == snapshot[k] = f

ReadPage(c, f, k) ==
  /\ call[c].at = "idle"
  /\ LET asked == [Idle EXCEPT !.at = "answered", !.feed = f, !.cursor = k] IN
       \/ /\ k \notin Alphanumeric
          /\ call' = [call EXCEPT ![c] = [asked EXCEPT !.at = "rejected"]]
       \/ /\ k \in Alphanumeric
          /\ call' = [call EXCEPT ![c] = asked]   \* expired, or the read failed
       \/ /\ k \in Alphanumeric
          /\ Finds(f, k)
          /\ call' = [call EXCEPT ![c] = [asked EXCEPT !.shown = snapshot[k]]]
  /\ UNCHANGED <<snapshot, head, flight, stored, issued>>
-----------------------------------------------------------------------------
(***************************************************************************)
(* The first page.                                                         *)
(***************************************************************************)
BeginFirstPage(c, f) ==
  /\ call[c].at = "idle"
  /\ call' = [call EXCEPT ![c] = [Idle EXCEPT !.at = "locking", !.feed = f]]
  /\ UNCHANGED <<snapshot, head, flight, stored, issued>>

TakeFlight(c) ==
  /\ call[c].at = "locking"
  /\ flight[Stripe[call[c].feed]] = None
  /\ flight' = [flight EXCEPT ![Stripe[call[c].feed]] = c]
  /\ GoOn(c, "reading")
  /\ UNCHANGED <<snapshot, head, stored, issued>>

(* A miss, or a read that failed: the feed has to be built.                *)
\* Mutant: the flight is let go once the cache has been consulted.
ReleasedOnMiss(c) == FlightReleased(c)
FlightOnMiss(c) == flight

Miss(c, failed) ==
  /\ call' = [call EXCEPT ![c] = [@ EXCEPT !.at = "queued", !.cursor = None,
                                           !.failed = failed]]
  /\ flight' = FlightOnMiss(c)
  /\ UNCHANGED issued

ReadHead(c) ==
  LET cursor == head[call[c].feed] IN
    /\ call[c].at = "reading"
    /\ \/ Miss(c, TRUE)
       \/ cursor = None /\ Miss(c, FALSE)
       \/ /\ cursor # None
          /\ call' = [call EXCEPT ![c].at = "checking", ![c].cursor = cursor]
          /\ UNCHANGED <<flight, issued>>
    /\ UNCHANGED <<snapshot, head, stored>>

ReadHeadSnapshot(c) ==
  LET r == call[c] IN
    /\ r.at = "checking"
    /\ \/ Miss(c, TRUE)
       \/ ~Finds(r.feed, r.cursor) /\ Miss(c, FALSE)
       \/ Finds(r.feed, r.cursor) /\ Answer(c, r.cursor, snapshot[r.cursor])
    /\ UNCHANGED <<snapshot, head, stored>>

Builders == {c \in Clients : call[c].at \in {"building", "storing", "heading"}}

EnterGate(c) ==
  /\ call[c].at = "queued"
  /\ Cardinality(Builders) < GateSize
  /\ GoOn(c, "building")
  /\ UNCHANGED <<snapshot, head, flight, stored, issued>>

BuildFails(c) ==
  /\ call[c].at = "building"
  /\ Answer(c, None, None)
  /\ UNCHANGED <<snapshot, head, stored>>

(* A random identifier nothing refers to; a name is reused in the model    *)
(* once the cache and every request have forgotten it.                     *)
Unused(k) ==
  /\ snapshot[k] = None
  /\ \A f \in Feeds : head[f] # k
  /\ \A c \in Clients : call[c].cursor # k

NanoId == {k \in Cursors : Unused(k)}

BuildSucceeds(c) ==
  /\ call[c].at = "building"
  /\ \E k \in NanoId :
       /\ call' = [call EXCEPT ![c].at = "storing", ![c].cursor = k]
       /\ stored' = stored \ {k}
       /\ issued' = [issued EXCEPT ![k] = None]
  /\ UNCHANGED <<snapshot, head, flight>>

Put(c) ==
  /\ snapshot' = [snapshot EXCEPT ![call[c].cursor] = call[c].feed]
  /\ stored' = stored \cup {call[c].cursor}

PutHead(c) == head' = [head EXCEPT ![call[c].feed] = call[c].cursor]

(* The page keeps its cursor only if its snapshot was stored.              *)
CursorOfUnstored(c) == None

StoreSnapshot(c) ==
  /\ call[c].at = "storing"
  /\ \/ /\ Put(c)
        /\ GoOn(c, "heading")
        /\ UNCHANGED <<flight, issued>>
     \/ /\ Answer(c, CursorOfUnstored(c), call[c].feed)
        /\ UNCHANGED <<snapshot, stored>>
  /\ UNCHANGED head

StoreHead(c) ==
  /\ call[c].at = "heading"
  /\ PutHead(c) \/ UNCHANGED head
  /\ Answer(c, call[c].cursor, call[c].feed)
  /\ UNCHANGED <<snapshot, stored>>
-----------------------------------------------------------------------------
(* The deadline passes, or the caller goes away.  A write that was already *)
(* queued is carried out before any later read.                            *)
Drop(c) ==
  /\ call[c].at \in Waiting
  /\ call' = [call EXCEPT ![c] = Idle]
  /\ flight' = FlightReleased(c)
  /\ \/ UNCHANGED <<snapshot, head, stored>>
     \/ call[c].at = "storing" /\ Put(c) /\ UNCHANGED head
     \/ call[c].at = "heading" /\ PutHead(c) /\ UNCHANGED <<snapshot, stored>>
  /\ UNCHANGED issued

Return(c) ==
  /\ call[c].at \in {"answered", "rejected"}
  /\ call' = [call EXCEPT ![c] = Idle]
  /\ UNCHANGED <<snapshot, head, flight, stored, issued>>

(* Entries expire or are evicted, in any order.                            *)
LoseSnapshot(k) ==
  /\ snapshot[k] # None
  /\ snapshot' = [snapshot EXCEPT ![k] = None]
  /\ UNCHANGED <<head, flight, call, stored, issued>>

LoseHead(f) ==
  /\ head[f] # None
  /\ head' = [head EXCEPT ![f] = None]
  /\ UNCHANGED <<snapshot, flight, call, stored, issued>>

FirstPage(c) ==
  \/ TakeFlight(c)
  \/ ReadHead(c)
  \/ ReadHeadSnapshot(c)
  \/ EnterGate(c)
  \/ BuildFails(c)
  \/ BuildSucceeds(c)
  \/ StoreSnapshot(c)
  \/ StoreHead(c)

Next ==
  \/ \E c \in Clients :
       \/ \E f \in Feeds, k \in Cursors : ReadPage(c, f, k)
       \/ \E f \in Feeds : BeginFirstPage(c, f)
       \/ FirstPage(c)
       \/ Drop(c)
       \/ Return(c)
  \/ \E k \in Cursors : LoseSnapshot(k)
  \/ \E f \in Feeds : LoseHead(f)

Spec == Init /\ [][Next]_vars

(***************************************************************************)
(* Fairness.  Locks and permits are granted in order; the storage thread   *)
(* answers; a build ends, since every call upstream has a timeout.  The    *)
(* deadline is not counted on, and nobody is obliged to call.              *)
(***************************************************************************)
Fairness ==
  \A c \in Clients :
    /\ SF_vars(TakeFlight(c))
    /\ SF_vars(EnterGate(c))
    /\ WF_vars(ReadHead(c) \/ ReadHeadSnapshot(c))
    /\ WF_vars(BuildFails(c) \/ BuildSucceeds(c))
    /\ WF_vars(StoreSnapshot(c) \/ StoreHead(c))
-----------------------------------------------------------------------------
(***************************************************************************)
(* Properties.                                                             *)
(***************************************************************************)

(* A cursor given to a caller names a snapshot that was stored (a failed   *)
(* write disables pagination instead of promising it), and a request sees  *)
(* the posts of its own definition only, whoever's cursor it presents.     *)
(* (The binding also holds the server's content policy.)                   *)
CursorShowsItsFeed ==
  /\ \A k \in Cursors : issued[k] # None => k \in stored
  /\ \A c \in Clients : call[c].shown \in {None, call[c].feed}

(* A feed is built only if its snapshot was gone or unreadable: requests   *)
(* that waited for the flight use what its holder stored, and no head      *)
(* appears behind the back of the one that builds.                         *)
NoNeedlessBuild ==
  \A c \in Clients :
    call[c].at \in {"queued", "building", "storing"} /\ ~call[c].failed
      => LET k == head[call[c].feed] IN k # None => ~Finds(call[c].feed, k)

(* Waiting for the gate while holding the flight blocks nobody for ever.   *)
FirstPagesEnd ==
  \A c \in Clients : call[c].at \in Waiting ~> call[c].at \notin Waiting

(* "Opaque snapshot identifier returned by the first page.  Expires after  *)
(* 15 minutes or eviction": a cursor that was given to a caller is never   *)
(* refused for its shape.                                                  *)
IssuedCursorsAreAccepted ==
  \A c \in Clients : call[c].at = "rejected" => issued[call[c].cursor] = None
=============================================================================
