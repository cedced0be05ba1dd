------------------------------- MODULE Cache -------------------------------
(***************************************************************************)
(* The cache of upstream answers.  A call takes the flight of its key,     *)
(* reads the row, fetches when there is none that is live, writes the row  *)
(* and returns.  One thread owns the database and runs the jobs of a       *)
(* bounded queue; a call may be dropped at any of its awaits, and the      *)
(* process may stop and start again with another limit.                    *)
(*                                                                         *)
(* An answer is the number of the fetch of its key.  Sizes are in units of *)
(* the smallest charge and times in seconds.                               *)
(***************************************************************************)
EXTENDS SequencesExt

CONSTANTS
  Callers, Keys,   \* keys are numbers: they order the rows of one second
  FlightOf,        \* the stripe of a key
  None,            \* no caller
  Limits,          \* the values of max_bytes, one for each start
  MaxEntry,        \* MAX_ENTRY_BYTES
  Ttl,             \* the lifetime given with a key
  ExpiredBatch,    \* expired rows one statement deletes
  EvictBatch,      \* rows one step of the eviction deletes
  QueueCapacity,   \* jobs the queue holds
  MaxTime, MaxFetches   \* bounds of the clock and of the fetches of a key

ASSUME CacheAssumption ==
  /\ Keys \subseteq Nat /\ IsFiniteSet(Keys)
  /\ Limits \subseteq Nat /\ MaxEntry \in Nat
  /\ Ttl \in [Keys -> Nat]
  /\ {ExpiredBatch, EvictBatch, QueueCapacity} \subseteq Nat \ {0}
  /\ None \notin Callers

VARIABLES
  rows,     \* the table entries: a function of the keys that have a row
  size,     \* the row of cache_size, kept by the triggers
  limit,    \* max_bytes of this start
  queue,    \* the jobs of the database thread
  flight,   \* the holder of each stripe and those that wait for it, in order
  call,     \* the call each caller makes
  now,      \* the clock
  fetched,  \* history: the number of the newest answer to each key
  floor     \* history: the oldest answer a call may be given, see Return

vars == <<rows, size, limit, queue, flight, call, now, fetched, floor>>

Flights == {FlightOf[k] : k \in Keys}
Charges == 1 .. MaxEntry + 1

(* got is the answer the call holds; unread and unwritten say that its     *)
(* read or its write was refused.                                          *)
NoCall == [at |-> "idle", key |-> 0, got |-> 0, unread |-> FALSE, unwritten |-> FALSE]

Job(kind, c, k, n, charge) ==
  [kind |-> kind, caller |-> c, key |-> k, value |-> n, charge |-> charge]

Init ==
  /\ rows = [k \in {} |-> 0]
  /\ size = 0
  /\ limit \in Limits
  /\ queue = << >>
  /\ flight = [f \in Flights |-> << >>]
  /\ call = [c \in Callers |-> NoCall]
  /\ now = 0
  /\ fetched = [k \in Keys |-> 0]
  /\ floor = [k \in Keys |-> 0]
-----------------------------------------------------------------------------
(***************************************************************************)
(* The calls.                                                              *)
(***************************************************************************)
Stripe(c) == FlightOf[call[c].key]
\* Mutant: the flight does not exclude anyone.
Anyone(c) == TRUE
Holds(c) == Head(flight[Stripe(c)]) = c

Release(c) ==
  flight' = [flight EXCEPT ![Stripe(c)] = RemoveFirst(@, c)]

HasRoom == Len(queue) < QueueCapacity

Call(c, k) ==
  /\ call[c].at \in {"idle", "done", "failed"}
  /\ call' = [call EXCEPT ![c] = [NoCall EXCEPT !.at = "waiting", !.key = k]]
  /\ flight' = [flight EXCEPT ![FlightOf[k]] = Append(@, c)]
  /\ UNCHANGED <<rows, size, limit, queue, now, fetched, floor>>

(* The flight is taken and the read queued; a full queue reads as a miss.  *)
Look(c) ==
  /\ call[c].at = "waiting" /\ Holds(c)
  /\ \/ /\ HasRoom
        /\ queue' = Append(queue, Job("get", c, call[c].key, 0, 0))
        /\ call' = [call EXCEPT ![c].at = "reading"]
     \/ /\ ~HasRoom
        /\ call' = [call EXCEPT ![c].at = "fetching", ![c].unread = TRUE]
        /\ UNCHANGED queue
  /\ UNCHANGED <<rows, size, limit, flight, now, fetched, floor>>

(* put refuses a payload that is too large before it queues anything.      *)
Storable(charge) == charge <= MaxEntry /\ charge <= limit

(* The fetch ends with a value, and its write is queued or given up.       *)
Fetched(c, charge) ==
  LET k == call[c].key
      n == fetched[k] + 1
      stored == HasRoom /\ Storable(charge)
  IN /\ call[c].at = "fetching"
     /\ n <= MaxFetches
     /\ fetched' = [fetched EXCEPT ![k] = n]
     /\ call' = [call EXCEPT ![c].got = n, ![c].unwritten = ~stored,
                             ![c].at = IF stored THEN "writing" ELSE "answering"]
     /\ queue' = IF stored THEN Append(queue, Job("put", c, k, n, charge)) ELSE queue
     /\ UNCHANGED <<rows, size, limit, flight, now, floor>>

FetchFails(c) ==
  /\ call[c].at = "fetching"
  /\ call' = [call EXCEPT ![c].at = "failed"]
  /\ Release(c)
  /\ UNCHANGED <<rows, size, limit, queue, now, fetched, floor>>

(* The answer is returned and the flight released.  An answer whose read   *)
(* and write were both refused left no trace: the row of an older one may  *)
(* still be live.                                                          *)
Return(c) ==
  /\ call[c].at = "answering"
  /\ call' = [call EXCEPT ![c].at = "done"]
  /\ floor' = IF call[c].unread /\ call[c].unwritten THEN floor
                ELSE [floor EXCEPT ![call[c].key] = call[c].got]
  /\ Release(c)
  /\ UNCHANGED <<rows, size, limit, queue, now, fetched>>

(* The deadline of the client passes, or its request is dropped: the       *)
(* flight is released and the job that is queued runs for nobody.          *)
Droppable == {"waiting", "reading", "fetching", "writing", "answering"}

Drop(c) ==
  /\ call[c].at \in Droppable
  /\ call' = [call EXCEPT ![c] = NoCall]
  /\ queue' = [i \in DOMAIN queue |->
                 IF queue[i].caller = c THEN [queue[i] EXCEPT !.caller = None] ELSE queue[i]]
  /\ Release(c)
  /\ UNCHANGED <<rows, size, limit, now, fetched, floor>>
-----------------------------------------------------------------------------
(***************************************************************************)
(* The database thread: every job is a transaction.                        *)
(***************************************************************************)
Run(kind) ==
  /\ queue # << >> /\ Head(queue).kind = kind
  /\ queue' = Tail(queue)
  /\ UNCHANGED <<limit, flight, now, fetched, floor>>

Asking == call[Head(queue).caller]
Reply(answered) ==
  call' = IF Head(queue).caller = None THEN call
            ELSE [call EXCEPT ![Head(queue).caller] = answered]

Bytes(K) == SumFunctionOnSet([k \in DOMAIN rows |-> rows[k].bytes], K)
Expired == {k \in DOMAIN rows : rows[k].expires <= now}
Live(k) == k \in DOMAIN rows \ Expired

Older(j, k) ==
  rows[j].created < rows[k].created \/ (rows[j].created = rows[k].created /\ j < k)

(* LIMIT n of a set in no order, and of a set by age.                      *)
Some(n, K) == kSubset(IF n < Cardinality(K) THEN n ELSE Cardinality(K), K)
Oldest(n, K) == {k \in K : Cardinality({j \in K : Older(j, k)}) < n}

GetJob ==
  /\ Run("get")
  /\ LET k == Head(queue).key
     IN Reply(IF Live(k) THEN [Asking EXCEPT !.at = "answering", !.got = rows[k].value]
                         ELSE [Asking EXCEPT !.at = "fetching"])
  /\ UNCHANGED <<rows, size>>

(* The batches of oldest rows that must go until the charge fits.          *)
\* Mutant: the batch that makes the room is spared.
EvictedButOne(K, charge) ==
  LET fits(n) == size - Bytes(DOMAIN rows \ K) - Bytes(Oldest(n * EvictBatch, K)) + charge <= limit + 1
      n == CHOOSE n \in 0 .. Cardinality(K) : fits(n) /\ \A i \in 0 .. n - 1 : ~fits(i)
  IN Oldest(n * EvictBatch, K)
Evicted(K, charge) ==
  LET fits(n) == size - Bytes(DOMAIN rows \ K) - Bytes(Oldest(n * EvictBatch, K)) + charge <= limit
      n == CHOOSE n \in 0 .. Cardinality(K) : fits(n) /\ \A i \in 0 .. n - 1 : ~fits(i)
  IN Oldest(n * EvictBatch, K)

\* Mutant: the trigger on a deletion is missing.
OnlyGrows(gone, charge) == size + charge
Accounted(gone, charge) == size - Bytes(gone) + charge

PutJob ==
  /\ Run("put")
  /\ LET job == Head(queue)
     IN \E stale \in Some(ExpiredBatch, Expired) :
          LET K == DOMAIN rows \ (stale \cup {job.key})
              kept == K \ Evicted(K, job.charge)
          IN /\ rows' = [k \in kept \cup {job.key} |->
                           IF k # job.key THEN rows[k]
                             ELSE [value |-> job.value, created |-> now,
                                   expires |-> now + Ttl[k], bytes |-> job.charge]]
             /\ size' = Accounted(DOMAIN rows \ kept, job.charge)
  /\ Reply([Asking EXCEPT !.at = "answering"])

(* A job that fails is rolled back; the call answers what it fetched.      *)
PutFails ==
  /\ Run("put")
  /\ Reply([Asking EXCEPT !.at = "answering", !.unwritten = TRUE])
  /\ UNCHANGED <<rows, size>>

GetFails ==
  /\ Run("get")
  /\ Reply([Asking EXCEPT !.at = "fetching", !.unread = TRUE])
  /\ UNCHANGED <<rows, size>>

(* The maintenance task, which waits for each of its jobs.                 *)
Maintain ==
  /\ HasRoom
  /\ \A i \in DOMAIN queue : queue[i].kind # "sweep"
  /\ queue' = Append(queue, Job("sweep", None, 0, 0, 0))
  /\ UNCHANGED <<rows, size, limit, flight, call, now, fetched, floor>>

SweepJob ==
  /\ Run("sweep")
  /\ \E stale \in Some(ExpiredBatch, Expired) :
       /\ rows' = [k \in DOMAIN rows \ stale |-> rows[k]]
       /\ size' = Accounted(stale, 0)
  /\ UNCHANGED call
-----------------------------------------------------------------------------
Tick ==
  /\ now < MaxTime
  /\ now' = now + 1
  /\ UNCHANGED <<rows, size, limit, queue, flight, call, fetched, floor>>

(* The process stops and opens the file again, maybe with another limit:   *)
(* the committed rows and their size are all that is left.                 *)
Reopen ==
  /\ limit' \in Limits
  /\ queue' = << >>
  /\ flight' = [f \in Flights |-> << >>]
  /\ call' = [c \in Callers |-> NoCall]
  /\ UNCHANGED <<rows, size, now, fetched, floor>>

Next ==
  \/ \E c \in Callers :
       \/ \E k \in Keys : Call(c, k)
       \/ Look(c)
       \/ \E charge \in Charges : Fetched(c, charge)
       \/ FetchFails(c)
       \/ Return(c)
       \/ Drop(c)
  \/ GetJob \/ PutJob \/ PutFails \/ GetFails \/ Maintain \/ SweepJob
  \/ Tick \/ Reopen

Spec == Init /\ [][Next]_vars

(* The client puts a deadline on every call, the database thread and the   *)
(* callers keep running.                                                   *)
Fairness == \A c \in Callers : WF_vars(Drop(c))
-----------------------------------------------------------------------------
(***************************************************************************)
(* Properties.                                                             *)
(***************************************************************************)
(* The size the triggers keep is the size of the rows, through every       *)
(* replacement, eviction, sweep and restart: the eviction loop of put ends *)
(* only because of it.                                                     *)
SizeIsAccounted == size = Bytes(DOMAIN rows)

(* A write leaves the cache within the limit, even the first one after the *)
(* limit was lowered by a restart.                                         *)
WritesKeepTheLimit ==
  [][\A k \in DOMAIN rows' :
       (k \notin DOMAIN rows \/ rows'[k] # rows[k]) => Bytes(DOMAIN rows)' <= limit]_vars

(* What json promises: one fetch at a time for a key, and answers that     *)
(* never go back behind one that was stored.                               *)
Fetching(k) ==
  LET fetchers == {c \in Callers : call[c].at = "fetching" /\ call[c].key = k}
  IN IF fetchers = {} THEN None ELSE CHOOSE c \in fetchers : TRUE

Contract == INSTANCE CacheContract WITH
  fetching <- [k \in Keys |-> Fetching(k)],
  answer <- [c \in Callers |-> IF call[c].at = "done" THEN call[c].got ELSE 0]
(* The cache of storage.rs implements the contract its callers rely on.    *)
KeepsContract == Contract!Spec

(* Every call ends, however long those in front of it take: the deadline   *)
(* includes the wait for the flight.                                       *)
CallsEnd ==
  \A c \in Callers : call[c].at \notin {"idle", "done", "failed"}
                       ~> call[c].at \in {"idle", "done", "failed"}
=============================================================================
