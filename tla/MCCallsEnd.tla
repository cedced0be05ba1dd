----------------------------- MODULE MCCallsEnd -----------------------------
(***************************************************************************)
(* Liveness of the calls of four components, each on a small instance of   *)
(* its own.  They share nothing, so a behaviour is one of a single part    *)
(* while the others stay as they start, without a step to take.            *)
(***************************************************************************)
EXTENDS Naturals

CONSTANTS c1, c2, s1, d1, d2, i1, i2, f1, f2, k1, None

VARIABLES
  part,
  entries, session, lock, expired, searchCall, dropped,
  table, jobs, reply, linkCall, linkNow, promised,
  snapshot, head, feedFlight, feedCall, stored, issued,
  rows, size, limit, queue, flight, call, now, fetched, floor

searchVars == <<entries, session, lock, expired, searchCall, dropped>>
linkVars == <<table, jobs, reply, linkCall, linkNow, promised>>
feedVars == <<snapshot, head, feedFlight, feedCall, stored, issued>>
cacheVars == <<rows, size, limit, queue, flight, call, now, fetched, floor>>
vars == <<part, searchVars, linkVars, feedVars, cacheVars>>

(* Two callers of one session, with a table and a gate of one.             *)
Search == INSTANCE SearchSessions WITH
  Clients <- {c1, c2}, Sessions <- {s1}, Items <- {i1}, Limit <- 1, MaxPages <- 1,
  MaxSourcePages <- 2, MaxEntries <- 1, GateSize <- 1, call <- searchCall

(* Two callers and a queue of one job.                                     *)
Links == INSTANCE Shortlinks WITH
  Clients <- {c1, c2}, Definitions <- {d1, d2}, Ids <- {i1, i2}, Alphanumeric <- {i1},
  NoId <- None, MaxDefinitions <- 2, CreationsPerMinute <- 1, Window <- 2, QueueCapacity <- 1,
  MaxTime <- 1, queue <- jobs, answer <- reply, call <- linkCall, now <- linkNow

(* Two callers of two feeds that share a stripe.                           *)
Feeds == INSTANCE FeedSnapshots WITH
  Clients <- {c1, c2}, Feeds <- {f1, f2}, Stripe <- [f \in {f1, f2} |-> 0],
  Cursors <- {k1}, Alphanumeric <- {k1}, GateSize <- 1, flight <- feedFlight, call <- feedCall

(* Two callers of one key, whose fetches may hang.                         *)
Cached == INSTANCE Cache WITH
  Callers <- {c1, c2}, Keys <- {1}, FlightOf <- [k \in {1} |-> 1], Limits <- {2},
  MaxEntry <- 1, Ttl <- [k \in {1} |-> 1], ExpiredBatch <- 1, EvictBatch <- 1,
  QueueCapacity <- 1, MaxTime <- 1, MaxFetches <- 1

Init ==
  /\ part \in {"search", "links", "feeds", "cache"}
  /\ Search!Init /\ Links!Init /\ Feeds!Init /\ Cached!Init

Next ==
  \/ part = "search" /\ Search!Next /\ UNCHANGED <<part, linkVars, feedVars, cacheVars>>
  \/ part = "links" /\ Links!Next /\ UNCHANGED <<part, searchVars, feedVars, cacheVars>>
  \/ part = "feeds" /\ Feeds!Next /\ UNCHANGED <<part, searchVars, linkVars, cacheVars>>
  \/ part = "cache" /\ Cached!Next /\ UNCHANGED <<part, searchVars, linkVars, feedVars>>

FairSpec ==
  /\ Init /\ [][Next]_vars
  /\ Search!Fairness /\ Links!Fairness /\ Feeds!Fairness /\ Cached!Fairness

(* Every call ends: behind a dropped one that held the lock of a session,  *)
(* in a full queue or with its reply lost, behind the flight and the gate  *)
(* of a feed, and behind a fetch that never ends.                          *)
CallsEnd == Search!CallsEnd /\ Links!CallsEnd /\ Feeds!FirstPagesEnd /\ Cached!CallsEnd
=============================================================================
