----------------------------- MODULE CacheProofs -----------------------------
(***************************************************************************)
(* For any number of callers, keys, stripes and jobs, and for any limits:  *)
(* the size that is kept is that of the rows, a write leaves the cache     *)
(* within its limit, and the cache implements CacheContract.               *)
(***************************************************************************)
EXTENDS Cache, DataLemmas

States == {"idle", "waiting", "reading", "fetching", "writing", "answering", "done", "failed"}
CallT == [at : States, key : Keys \cup {0}, got : Nat, unread : BOOLEAN, unwritten : BOOLEAN]
JobT == [kind : {"get", "put", "sweep"}, caller : Callers \cup {None}, key : Keys \cup {0},
         value : Nat, charge : Nat]
RowT == [value : Nat, created : Nat, expires : Nat, bytes : Nat]

TypeInv ==
  /\ DOMAIN rows \subseteq Keys /\ rows \in [DOMAIN rows -> RowT]
  /\ limit \in Nat /\ now \in Nat
  /\ queue \in Seq(JobT)
  /\ call \in [Callers -> CallT]
  /\ fetched \in [Keys -> Nat] /\ floor \in [Keys -> Nat]

(* In the line of a stripe stand, once each, the calls of its keys; a call *)
(* that has passed the first await holds its flight.                       *)
Busy == {"reading", "fetching", "writing", "answering"}

LinesInv ==
  /\ flight = [f \in Flights |-> flight[f]]
  /\ \A f \in Flights : IsLine(flight[f], Callers)
  /\ \A f \in Flights : \A c \in Callers :
       c \in ToSet(flight[f]) <=> call[c].at \in Droppable /\ Stripe(c) = f
  /\ \A c \in Callers : call[c].at \in Droppable => call[c].key \in Keys
  /\ \A c \in Callers : call[c].at \in Busy => Holds(c)

(* A job belongs to a call that waits for it, and a call waits for one.    *)
Jobs == 1 .. Len(queue)
Asked(job, a) ==
  /\ a.key = job.key
  /\ \/ job.kind = "get" /\ a.at = "reading"
     \/ job.kind = "put" /\ a.at = "writing" /\ a.got = job.value

OwnersInv ==
  /\ \A i \in Jobs : queue[i].caller # None => Asked(queue[i], call[queue[i].caller])
  /\ \A i, j \in Jobs : queue[i].caller = queue[j].caller /\ queue[i].caller # None => i = j

(* What waits to be written is within the limit of this start.             *)
JobFits(job) == (job.kind # "sweep" => job.key \in Keys) /\ (job.kind = "put" => job.charge <= limit)
JobsFit == \A i \in Jobs : JobFits(queue[i])

BasicInv == TypeInv /\ LinesInv /\ OwnersInv /\ JobsFit
-----------------------------------------------------------------------------
LEMMA NumbersAreNumbers ==
  /\ IsFiniteSet(Keys) /\ Keys \subseteq Nat /\ Limits \subseteq Nat /\ MaxEntry \in Nat
  /\ Ttl \in [Keys -> Nat] /\ EvictBatch \in Nat /\ EvictBatch >= 1 /\ None \notin Callers
BY CacheAssumption

LEMMA Queued ==
  ASSUME queue \in Seq(JobT), NEW j \in JobT, queue' = Append(queue, j)
  PROVE  /\ queue' \in Seq(JobT) /\ Len(queue') = Len(queue) + 1 /\ Len(queue) \in Nat
         /\ \A i \in 1 .. Len(queue) : queue'[i] = queue[i]
         /\ queue'[Len(queue) + 1] = j
BY AppendProperties, LenProperties

LEMMA Started ==
  ASSUME queue \in Seq(JobT), queue # << >>, queue' = Tail(queue)
  PROVE  /\ queue' \in Seq(JobT) /\ Len(queue') = Len(queue) - 1 /\ Len(queue) \in Nat /\ Len(queue) >= 1
         /\ \A i \in 1 .. Len(queue') : i + 1 \in 1 .. Len(queue) /\ queue'[i] = queue[i + 1]
         /\ Head(queue) = queue[1] /\ Head(queue) \in JobT /\ 1 \in 1 .. Len(queue)
<1>1. Len(queue) \in Nat /\ Len(queue) >= 1
  BY LenProperties, EmptySeq
<1>2. /\ queue' \in Seq(JobT) /\ Len(queue') = Len(queue) - 1 /\ Head(queue) \in JobT
      /\ \A i \in 1 .. Len(queue') : queue'[i] = queue[i + 1]
  BY HeadTailProperties
<1>3. \A i \in 1 .. Len(queue') : i + 1 \in 1 .. Len(queue)
  BY <1>1, <1>2
<1>4. Head(queue) = queue[1]
  OBVIOUS
<1>. QED BY <1>1, <1>2, <1>3, <1>4

(* Dropping a caller disowns its jobs.                                     *)
LEMMA Disowned ==
  ASSUME queue \in Seq(JobT), NEW c \in Callers,
         queue' = [i \in DOMAIN queue |->
                     IF queue[i].caller = c THEN [queue[i] EXCEPT !.caller = None] ELSE queue[i]]
  PROVE  /\ queue' \in Seq(JobT) /\ Len(queue') = Len(queue)
         /\ \A i \in 1 .. Len(queue) :
              /\ queue'[i].kind = queue[i].kind /\ queue'[i].key = queue[i].key
              /\ queue'[i].value = queue[i].value /\ queue'[i].charge = queue[i].charge
              /\ queue'[i].caller = IF queue[i].caller = c THEN None ELSE queue[i].caller
<1>1. Len(queue) \in Nat /\ DOMAIN queue = 1 .. Len(queue)
  BY LenProperties
<1>2. \A i \in 1 .. Len(queue) : queue[i] \in JobT
  BY ElementOfSeq
<1>3. \A i \in 1 .. Len(queue) :
        (IF queue[i].caller = c THEN [queue[i] EXCEPT !.caller = None] ELSE queue[i]) \in JobT
  BY <1>2 DEF JobT
<1>4. queue' \in [1 .. Len(queue) -> JobT]
  BY <1>1, <1>3
<1>5. queue' \in Seq(JobT) /\ Len(queue') = Len(queue)
  BY <1>1, <1>4, SeqDef, LenProperties
<1>. QED BY <1>1, <1>2, <1>5 DEF JobT

LEMMA NobodyStands ==
  IsLine(<< >>, Callers) /\ ToSet(<< >>) = {}
<1>1. << >> \in Seq(Callers) /\ Len(<< >>) = 0 /\ DOMAIN << >> = {}
  BY EmptySeq
<1>. QED BY <1>1 DEF IsLine, ToSet

LEMMA InitBasicInv == Init => BasicInv
<1>. SUFFICES ASSUME Init PROVE BasicInv
  OBVIOUS
<1>1. rows = [k \in {} |-> 0] /\ DOMAIN rows = {}
  BY DEF Init
<1>2. rows \in [DOMAIN rows -> RowT]
  BY <1>1
<1>3. queue \in Seq(JobT) /\ Len(queue) = 0
  BY EmptySeq DEF Init
<1>5. call \in [Callers -> CallT] /\ \A c \in Callers : call[c].at = "idle"
  BY DEF Init, CallT, NoCall, States
<1>6. TypeInv
  BY <1>1, <1>2, <1>3, <1>5, NumbersAreNumbers DEF Init, TypeInv
<1>7. LinesInv
  BY <1>5, NobodyStands DEF Init, LinesInv, Droppable, Busy
<1>8. OwnersInv /\ JobsFit
  BY <1>3 DEF OwnersInv, JobsFit, Jobs
<1>. QED BY <1>6, <1>7, <1>8 DEF BasicInv
-----------------------------------------------------------------------------
(***************************************************************************)
(* The lines.                                                              *)
(***************************************************************************)
LEMMA StripesAreFlights == \A k \in Keys : FlightOf[k] \in Flights
BY DEF Flights

(* Who leaves makes room for the next; those that hold another flight or   *)
(* wait are not disturbed.                                                 *)
LEMMA Released ==
  ASSUME TypeInv, LinesInv, NEW c \in Callers, call[c].at \in Droppable, Release(c),
         NEW x, x.at \notin Droppable, call' = [call EXCEPT ![c] = x]
  PROVE  LinesInv'
<1>. DEFINE g == Stripe(c)
<1>0. call[c].key \in Keys /\ g \in Flights
  BY StripesAreFlights DEF LinesInv, Stripe
<1>1. /\ flight'[g] = RemoveFirst(flight[g], c)
      /\ \A f \in Flights : f # g => flight'[f] = flight[f]
      /\ flight' = [f \in Flights |-> flight'[f]]
  BY <1>0 DEF LinesInv, Release
<1>2. /\ IsLine(flight[g], Callers)
      /\ IsLine(RemoveFirst(flight[g], c), Callers)
      /\ ToSet(RemoveFirst(flight[g], c)) = ToSet(flight[g]) \ {c}
      /\ flight[g] # << >> /\ Head(flight[g]) # c => Head(RemoveFirst(flight[g], c)) = Head(flight[g])
  <2>1. IsLine(flight[g], Callers)
    BY <1>0 DEF LinesInv
  <2>. QED BY <2>1, LineLeft
<1>3. call'[c].at \notin Droppable /\ \A d \in Callers \ {c} : call'[d] = call[d]
  BY DEF TypeInv
<1>. HIDE DEF g
<1>4. \A f \in Flights : IsLine(flight'[f], Callers)
  BY <1>0, <1>1, <1>2 DEF LinesInv
<1>5. ASSUME NEW f \in Flights, NEW d \in Callers
      PROVE  d \in ToSet(flight'[f]) <=> call'[d].at \in Droppable /\ FlightOf[call'[d].key] = f
  <2>0. d \in ToSet(flight[f]) <=> call[d].at \in Droppable /\ FlightOf[call[d].key] = f
    BY DEF LinesInv, Stripe
  <2>1. CASE f = g
    <3>1. d \in ToSet(flight'[f]) <=> d \in ToSet(flight[f]) /\ d # c
      BY <1>1, <1>2, <2>1
    <3>. QED BY <1>3, <2>0, <3>1
  <2>2. CASE f # g
    <3>1. flight'[f] = flight[f]
      BY <1>1, <2>2
    <3>2. d = c => d \notin ToSet(flight[f])
      BY <2>0, <2>2 DEF g, Stripe
    <3>. QED BY <1>3, <2>0, <3>1, <3>2
  <2>. QED BY <2>1, <2>2
<1>6. ASSUME NEW d \in Callers, call'[d].at \in Droppable PROVE call'[d].key \in Keys
  BY <1>3, <1>6 DEF LinesInv
<1>7. ASSUME NEW d \in Callers, call'[d].at \in Busy PROVE Head(flight'[FlightOf[call'[d].key]]) = d
  <2>1. d # c /\ call'[d] = call[d] /\ Head(flight[Stripe(d)]) = d /\ call[d].at \in Droppable
    BY <1>3, <1>7 DEF LinesInv, Holds, Busy, Droppable
  <2>2. Stripe(d) \in Flights /\ d \in ToSet(flight[Stripe(d)])
    BY <2>1, StripesAreFlights DEF LinesInv, Stripe
  <2>3. Stripe(d) = g => flight[g] # << >>
    BY <2>2, NobodyStands
  <2>4. Head(flight'[Stripe(d)]) = d
    BY <1>1, <1>2, <2>1, <2>2, <2>3
  <2>. QED BY <2>1, <2>4 DEF Stripe
<1>. QED BY <1>1, <1>4, <1>5, <1>6, <1>7 DEF LinesInv, Stripe, Holds

(* A call that goes on keeps its place.                                    *)
LEMMA Stays ==
  ASSUME TypeInv, LinesInv, flight' = flight, NEW c \in Callers, NEW x,
         call' = [call EXCEPT ![c] = x],
         x.key = call[c].key, x.at \in Droppable, call[c].at \in Droppable, Holds(c)
  PROVE  LinesInv'
<1>1. call'[c] = x /\ \A d \in Callers \ {c} : call'[d] = call[d]
  BY DEF TypeInv
<1>2. \A d \in Callers : /\ call'[d].key = call[d].key
                         /\ call'[d].at \in Droppable <=> call[d].at \in Droppable
                         /\ call'[d].at \in Busy => Holds(d)
  BY <1>1 DEF LinesInv
<1>. QED BY <1>2 DEF LinesInv, Stripe, Holds

LEMMA Joined ==
  ASSUME TypeInv, LinesInv, NEW c \in Callers, NEW k \in Keys, Call(c, k)
  PROVE  LinesInv'
<1>. DEFINE g == FlightOf[k]
<1>0. g \in Flights
  BY StripesAreFlights
<1>1. /\ flight'[g] = Append(flight[g], c)
      /\ \A f \in Flights : f # g => flight'[f] = flight[f]
      /\ flight' = [f \in Flights |-> flight'[f]]
  BY <1>0 DEF LinesInv, Call
<1>2. call[c].at \notin Droppable
  BY DEF Call, Droppable
<1>3. /\ call'[c].at = "waiting" /\ call'[c].key = k
      /\ \A d \in Callers \ {c} : call'[d] = call[d]
  BY DEF TypeInv, Call, NoCall
<1>4. /\ IsLine(flight[g], Callers) /\ c \notin ToSet(flight[g])
  BY <1>0, <1>2 DEF LinesInv
<1>5. /\ IsLine(Append(flight[g], c), Callers)
      /\ ToSet(Append(flight[g], c)) = ToSet(flight[g]) \cup {c}
      /\ flight[g] # << >> => Head(Append(flight[g], c)) = Head(flight[g])
  BY <1>4, LineJoined
<1>. HIDE DEF g
<1>6. \A f \in Flights : IsLine(flight'[f], Callers)
  BY <1>0, <1>1, <1>5 DEF LinesInv
<1>7. ASSUME NEW f \in Flights, NEW d \in Callers
      PROVE  d \in ToSet(flight'[f]) <=> call'[d].at \in Droppable /\ FlightOf[call'[d].key] = f
  <2>0. d \in ToSet(flight[f]) <=> call[d].at \in Droppable /\ FlightOf[call[d].key] = f
    BY DEF LinesInv, Stripe
  <2>1. d \in ToSet(flight'[f]) <=> d \in ToSet(flight[f]) \/ (d = c /\ f = g)
    BY <1>1, <1>5
  <2>2. CASE d = c
    <3>1. call'[d].at \in Droppable /\ FlightOf[call'[d].key] = g
      BY <1>3, <2>2 DEF Droppable, g
    <3>. QED BY <1>2, <2>0, <2>1, <2>2, <3>1
  <2>3. CASE d # c
    BY <1>3, <2>0, <2>1, <2>3
  <2>. QED BY <2>2, <2>3
<1>8. ASSUME NEW d \in Callers, call'[d].at \in Droppable PROVE call'[d].key \in Keys
  BY <1>3, <1>8 DEF LinesInv
<1>9. ASSUME NEW d \in Callers, call'[d].at \in Busy PROVE Head(flight'[FlightOf[call'[d].key]]) = d
  <2>1. d # c /\ call'[d] = call[d] /\ Head(flight[Stripe(d)]) = d /\ call[d].at \in Droppable
    BY <1>3, <1>9 DEF LinesInv, Holds, Busy, Droppable
  <2>2. Stripe(d) \in Flights /\ d \in ToSet(flight[Stripe(d)])
    BY <2>1, StripesAreFlights DEF LinesInv, Stripe
  <2>3. Stripe(d) = g => flight[g] # << >>
    BY <2>2, NobodyStands
  <2>4. Head(flight'[Stripe(d)]) = d
    BY <1>1, <1>5, <2>1, <2>2, <2>3
  <2>. QED BY <2>1, <2>4 DEF Stripe
<1>. QED BY <1>1, <1>6, <1>7, <1>8, <1>9 DEF LinesInv, Stripe, Holds
-----------------------------------------------------------------------------
(***************************************************************************)
(* The jobs and their owners.                                              *)
(***************************************************************************)
LEMMA JobsAreJobs == TypeInv => \A i \in Jobs : queue[i] \in JobT
BY ElementOfSeq DEF TypeInv, Jobs

(* A call that waits for no job may change: no job is disturbed.           *)
LEMMA OthersAsked ==
  ASSUME TypeInv, OwnersInv, JobsFit, NEW c \in Callers, queue' = queue, limit' = limit,
         call[c].at \notin {"reading", "writing"},
         \A d \in Callers \ {c} : call'[d] = call[d]
  PROVE  OwnersInv' /\ JobsFit'
<1>1. Jobs' = Jobs
  BY DEF Jobs
<1>2. ASSUME NEW i \in Jobs, queue[i].caller # None PROVE Asked(queue[i], call'[queue[i].caller])
  <2>1. Asked(queue[i], call[queue[i].caller])
    BY <1>2 DEF OwnersInv
  <2>2. queue[i].caller # c /\ queue[i].caller \in Callers
    BY <1>2, <2>1, JobsAreJobs DEF Asked, JobT
  <2>. QED BY <2>1, <2>2
<1>3. OwnersInv'
  <2>1. \A i \in Jobs' : queue'[i].caller # None => Asked(queue[i], call'[queue[i].caller])
    BY <1>1, <1>2
  <2>. QED BY <1>1, <2>1 DEF OwnersInv
<1>. QED BY <1>1, <1>3 DEF JobsFit, JobFits

(* A call that waits for no job queues one.                                *)
LEMMA JobQueued ==
  ASSUME TypeInv, OwnersInv, JobsFit, NEW j \in JobT, queue' = Append(queue, j), limit' = limit,
         JobFits(j),
         j.caller # None => /\ call[j.caller].at \notin {"reading", "writing"}
                            /\ Asked(j, call'[j.caller]),
         \A d \in Callers \ {j.caller} : call'[d] = call[d]
  PROVE  OwnersInv' /\ JobsFit' /\ queue' \in Seq(JobT)
<1>0. queue \in Seq(JobT)
  BY DEF TypeInv
<1>1. /\ queue' \in Seq(JobT) /\ Len(queue') = Len(queue) + 1 /\ Len(queue) \in Nat
      /\ \A i \in Jobs : queue'[i] = queue[i]
      /\ queue'[Len(queue) + 1] = j
  BY <1>0, Queued DEF Jobs
<1>2. /\ \A i \in Jobs' : i \in Jobs \/ i = Len(queue) + 1
      /\ \A i \in Jobs : i # Len(queue) + 1
  BY <1>1 DEF Jobs
<1>3. ASSUME NEW i \in Jobs, queue[i].caller # None
      PROVE  Asked(queue[i], call'[queue[i].caller]) /\ queue[i].caller # j.caller
  <2>1. Asked(queue[i], call[queue[i].caller])
    BY <1>3 DEF OwnersInv
  <2>2. queue[i].caller # j.caller /\ queue[i].caller \in Callers
    BY <1>3, <2>1, JobsAreJobs DEF Asked, JobT
  <2>. QED BY <2>1, <2>2
<1>4. \A i \in Jobs' : queue'[i].caller # None => Asked(queue'[i], call'[queue'[i].caller])
  <2>. SUFFICES ASSUME NEW i \in Jobs', queue'[i].caller # None PROVE Asked(queue'[i], call'[queue'[i].caller])
    OBVIOUS
  <2>1. CASE i \in Jobs
    BY <1>1, <1>3, <2>1
  <2>2. CASE i = Len(queue) + 1
    BY <1>1, <2>2
  <2>. QED BY <1>2, <2>1, <2>2
<1>5. \A i, l \in Jobs' : queue'[i].caller = queue'[l].caller /\ queue'[i].caller # None => i = l
  <2>. SUFFICES ASSUME NEW i \in Jobs', NEW l \in Jobs', queue'[i].caller = queue'[l].caller, queue'[i].caller # None
                PROVE  i = l
    OBVIOUS
  <2>1. CASE i \in Jobs /\ l \in Jobs
    BY <1>1, <2>1 DEF OwnersInv
  <2>2. CASE i \in Jobs /\ l = Len(queue) + 1
    BY <1>1, <1>3, <2>2
  <2>3. CASE i = Len(queue) + 1 /\ l \in Jobs
    BY <1>1, <1>3, <2>3
  <2>. QED BY <1>2, <2>1, <2>2, <2>3
<1>6. OwnersInv'
  BY <1>4, <1>5 DEF OwnersInv, Asked
<1>7. JobsFit'
  <2>1. \A i \in Jobs' : JobFits(queue'[i])
    BY <1>1, <1>2 DEF JobsFit
  <2>. QED BY <2>1 DEF JobsFit, JobFits
<1>. QED BY <1>1, <1>6, <1>7

(* The first job is done and its call goes on.                             *)
LEMMA JobDone ==
  ASSUME TypeInv, OwnersInv, JobsFit, LinesInv, queue # << >>, queue' = Tail(queue), limit' = limit, flight' = flight,
         NEW x, Reply(x),
         Head(queue).caller # None => x.at \in {"fetching", "answering"} /\ x.key = Asking.key /\ x \in CallT
  PROVE  OwnersInv' /\ JobsFit' /\ LinesInv' /\ queue' \in Seq(JobT) /\ call' \in [Callers -> CallT]
<1>0. queue \in Seq(JobT)
  BY DEF TypeInv
<1>1. /\ queue' \in Seq(JobT) /\ Len(queue') = Len(queue) - 1 /\ Len(queue) \in Nat /\ Len(queue) >= 1
      /\ \A i \in Jobs' : i + 1 \in Jobs /\ queue'[i] = queue[i + 1] /\ i \in Nat /\ i # 0
      /\ Head(queue) = queue[1] /\ Head(queue) \in JobT /\ 1 \in Jobs
  BY <1>0, Started DEF Jobs
<1>. DEFINE c == Head(queue).caller
<1>2. c \in Callers \cup {None}
  BY <1>1 DEF JobT
<1>3. \A d \in Callers \ {c} : call'[d] = call[d]
  BY DEF Reply, TypeInv
<1>4. c # None => call'[c] = x /\ Asked(Head(queue), call[c])
  BY <1>1, <1>2 DEF Reply, TypeInv, OwnersInv
<1>5. call' \in [Callers -> CallT]
  BY <1>2 DEF Reply, TypeInv
<1>6. ASSUME NEW i \in Jobs', queue'[i].caller # None PROVE Asked(queue'[i], call'[queue'[i].caller])
  <2>1. Asked(queue[i + 1], call[queue[i + 1].caller])
    BY <1>1, <1>6 DEF OwnersInv
  <2>2. queue[i + 1].caller # c /\ queue[i + 1].caller \in Callers
    <3>1. i + 1 # 1 /\ i + 1 \in Jobs /\ 1 \in Jobs
      BY <1>1
    <3>. QED BY <1>1, <1>6, <3>1, JobsAreJobs DEF OwnersInv, JobT
  <2>. QED BY <1>1, <1>3, <2>1, <2>2
<1>7. \A i, l \in Jobs' : queue'[i].caller = queue'[l].caller /\ queue'[i].caller # None => i = l
  <2>. SUFFICES ASSUME NEW i \in Jobs', NEW l \in Jobs', queue'[i].caller = queue'[l].caller, queue'[i].caller # None
                PROVE  i = l
    OBVIOUS
  <2>1. i + 1 = l + 1
    BY <1>1 DEF OwnersInv
  <2>. QED BY <1>1, <2>1
<1>8. OwnersInv'
  BY <1>6, <1>7 DEF OwnersInv, Asked
<1>9. JobsFit'
  BY <1>1 DEF JobsFit, JobFits
<1>10. LinesInv'
  <2>1. CASE c = None
    <3>1. call' = call
      BY <2>1 DEF Reply
    <3>. QED BY <3>1 DEF LinesInv, Stripe, Holds
  <2>2. CASE c # None
    <3>1. call[c].at \in Droppable /\ c \in Callers /\ Holds(c)
      BY <1>2, <1>4, <2>2 DEF Asked, Droppable, LinesInv, Busy
    <3>2. call' = [call EXCEPT ![c] = x] /\ x.key = call[c].key /\ x.at \in Droppable
      BY <2>2 DEF Reply, Droppable, Asking
    <3>. HIDE DEF c
    <3>. QED BY <3>1, <3>2, Stays
  <2>. QED BY <2>1, <2>2
<1>. QED BY <1>1, <1>5, <1>8, <1>9, <1>10
-----------------------------------------------------------------------------
(***************************************************************************)
(* Every step keeps the basic invariant.                                   *)
(***************************************************************************)
LEMMA CallBasic ==
  ASSUME BasicInv, NEW c \in Callers, NEW k \in Keys, Call(c, k)
  PROVE  BasicInv'
<1>1. /\ call' \in [Callers -> CallT] /\ \A d \in Callers \ {c} : call'[d] = call[d]
      /\ call[c].at \notin {"reading", "writing"}
  BY NumbersAreNumbers DEF BasicInv, TypeInv, Call, CallT, NoCall, States
<1>2. TypeInv'
  BY <1>1 DEF BasicInv, TypeInv, Call
<1>3. LinesInv'
  BY Joined DEF BasicInv
<1>4. OwnersInv' /\ JobsFit'
  <2>1. queue' = queue /\ limit' = limit
    BY DEF Call
  <2>. QED BY <1>1, <2>1, OthersAsked DEF BasicInv
<1>. QED BY <1>2, <1>3, <1>4 DEF BasicInv

LEMMA LookBasic ==
  ASSUME BasicInv, NEW c \in Callers, Look(c)
  PROVE  BasicInv'
<1>0. /\ call[c].at = "waiting" /\ Holds(c) /\ call[c] \in CallT /\ call[c].key \in Keys
      /\ flight' = flight /\ limit' = limit /\ None \notin Callers
  BY NumbersAreNumbers DEF BasicInv, TypeInv, LinesInv, Droppable, Look
<1>1. CASE /\ queue' = Append(queue, Job("get", c, call[c].key, 0, 0))
           /\ call' = [call EXCEPT ![c].at = "reading"]
  <2>. DEFINE j == Job("get", c, call[c].key, 0, 0)
              x == [call[c] EXCEPT !.at = "reading"]
  <2>1. /\ j \in JobT /\ j.caller = c /\ j.kind = "get" /\ j.key = call[c].key
    BY <1>0 DEF Job, JobT
  <2>2. call' = [call EXCEPT ![c] = x] /\ x \in CallT /\ x.at = "reading" /\ x.key = call[c].key
    BY <1>0, <1>1 DEF CallT, States
  <2>3. queue' = Append(queue, j)
    BY <1>1
  <2>. HIDE DEF j, x
  <2>4. call'[c] = x /\ (\A d \in Callers \ {c} : call'[d] = call[d]) /\ call' \in [Callers -> CallT]
    BY <2>2 DEF BasicInv, TypeInv
  <2>5. JobFits(j) /\ Asked(j, call'[j.caller])
    BY <1>0, <2>1, <2>2, <2>4 DEF JobFits, Asked
  <2>6. OwnersInv' /\ JobsFit' /\ queue' \in Seq(JobT)
    BY <1>0, <2>1, <2>3, <2>4, <2>5, JobQueued DEF BasicInv
  <2>7. LinesInv'
    <3>1. x.at \in Droppable /\ call[c].at \in Droppable
      BY <1>0, <2>2 DEF Droppable
    <3>. QED BY <1>0, <2>2, <3>1, Stays DEF BasicInv
  <2>8. TypeInv'
    BY <2>4, <2>6 DEF BasicInv, TypeInv, Look
  <2>. QED BY <2>6, <2>7, <2>8 DEF BasicInv
<1>2. CASE /\ queue' = queue
           /\ call' = [call EXCEPT ![c].at = "fetching", ![c].unread = TRUE]
  <2>. DEFINE x == [call[c] EXCEPT !.at = "fetching", !.unread = TRUE]
  <2>2. call' = [call EXCEPT ![c] = x] /\ x \in CallT /\ x.at = "fetching" /\ x.key = call[c].key
    BY <1>0, <1>2 DEF CallT, States, BasicInv, TypeInv
  <2>. HIDE DEF x
  <2>4. (\A d \in Callers \ {c} : call'[d] = call[d]) /\ call' \in [Callers -> CallT]
    BY <2>2 DEF BasicInv, TypeInv
  <2>6. OwnersInv' /\ JobsFit'
    BY <1>0, <1>2, <2>4, OthersAsked DEF BasicInv
  <2>7. LinesInv'
    <3>1. x.at \in Droppable /\ call[c].at \in Droppable
      BY <1>0, <2>2 DEF Droppable
    <3>. QED BY <1>0, <2>2, <3>1, Stays DEF BasicInv
  <2>8. TypeInv'
    BY <1>2, <2>4 DEF BasicInv, TypeInv, Look
  <2>. QED BY <2>6, <2>7, <2>8 DEF BasicInv
<1>. QED BY <1>1, <1>2 DEF Look

LEMMA FetchedBasic ==
  ASSUME BasicInv, NEW c \in Callers, NEW charge \in Charges, Fetched(c, charge)
  PROVE  BasicInv'
<1>. DEFINE k == call[c].key
            n == fetched[k] + 1
            stored == HasRoom /\ Storable(charge)
            x == [call[c] EXCEPT !.got = n, !.unwritten = ~stored,
                                 !.at = IF stored THEN "writing" ELSE "answering"]
            j == Job("put", c, k, n, charge)
<1>0. /\ call[c].at = "fetching" /\ Holds(c) /\ call[c] \in CallT /\ k \in Keys
      /\ flight' = flight /\ limit' = limit /\ None \notin Callers
      /\ n \in Nat /\ charge \in Nat
  BY NumbersAreNumbers DEF BasicInv, TypeInv, LinesInv, Droppable, Busy, Fetched, Charges
<1>1. /\ call' = [call EXCEPT ![c] = x] /\ x \in CallT /\ x.key = k /\ x.got = n
      /\ x.at = IF stored THEN "writing" ELSE "answering"
  <2>. HIDE DEF n, stored
  <2>1. stored \in BOOLEAN
    BY DEF stored, HasRoom, Storable
  <2>. QED BY <1>0, <2>1 DEF CallT, States, BasicInv, TypeInv, Fetched, n, stored
<1>2. /\ j \in JobT /\ j.caller = c /\ j.kind = "put" /\ j.key = k /\ j.value = n /\ j.charge = charge
  BY <1>0 DEF Job, JobT
<1>3. /\ fetched' = [fetched EXCEPT ![k] = n]
      /\ stored => queue' = Append(queue, j)
      /\ ~stored => queue' = queue
      /\ stored => charge <= limit
  BY DEF Fetched, Storable
<1>. HIDE DEF j, x, stored
<1>4. call'[c] = x /\ (\A d \in Callers \ {c} : call'[d] = call[d]) /\ call' \in [Callers -> CallT]
  BY <1>1 DEF BasicInv, TypeInv
<1>5. OwnersInv' /\ JobsFit' /\ queue' \in Seq(JobT)
  <2>1. CASE stored
    <3>1. JobFits(j) /\ Asked(j, call'[j.caller])
      BY <1>0, <1>1, <1>2, <1>3, <1>4, <2>1 DEF JobFits, Asked
    <3>. QED BY <1>0, <1>2, <1>3, <1>4, <2>1, <3>1, JobQueued DEF BasicInv
  <2>2. CASE ~stored
    <3>1. OwnersInv' /\ JobsFit'
      BY <1>0, <1>3, <1>4, <2>2, OthersAsked DEF BasicInv
    <3>. QED BY <1>3, <2>2, <3>1 DEF BasicInv, TypeInv
  <2>. QED BY <2>1, <2>2
<1>6. LinesInv'
  <2>1. x.at \in Droppable /\ call[c].at \in Droppable
    BY <1>0, <1>1 DEF Droppable
  <2>. QED BY <1>0, <1>1, <2>1, Stays DEF BasicInv
<1>7. TypeInv'
  BY <1>0, <1>3, <1>4, <1>5 DEF BasicInv, TypeInv, Fetched
<1>. QED BY <1>5, <1>6, <1>7 DEF BasicInv

LEMMA LeaveBasic ==
  ASSUME BasicInv, NEW c \in Callers, FetchFails(c) \/ Return(c)
  PROVE  BasicInv'
<1>0. /\ call[c].at \in {"fetching", "answering"} /\ call[c] \in CallT /\ call[c].key \in Keys
      /\ queue' = queue /\ limit' = limit /\ Release(c)
  BY DEF BasicInv, TypeInv, LinesInv, Droppable, FetchFails, Return
<1>1. PICK x \in CallT : x.at \in {"failed", "done"} /\ call' = [call EXCEPT ![c] = x]
  <2>. DEFINE a == [call[c] EXCEPT !.at = "failed"]
              b == [call[c] EXCEPT !.at = "done"]
  <2>1. a \in CallT /\ b \in CallT /\ a.at = "failed" /\ b.at = "done"
    BY <1>0 DEF CallT, States
  <2>2. call' = [call EXCEPT ![c] = a] \/ call' = [call EXCEPT ![c] = b]
    BY DEF FetchFails, Return
  <2>. QED BY <2>1, <2>2
<1>2. (\A d \in Callers \ {c} : call'[d] = call[d]) /\ call' \in [Callers -> CallT]
  BY <1>1 DEF BasicInv, TypeInv
<1>3. OwnersInv' /\ JobsFit'
  BY <1>0, <1>2, OthersAsked DEF BasicInv
<1>4. LinesInv'
  <2>1. x.at \notin Droppable /\ call[c].at \in Droppable
    BY <1>0, <1>1 DEF Droppable
  <2>. QED BY <1>0, <1>1, <2>1, Released DEF BasicInv
<1>5. floor' \in [Keys -> Nat]
  BY <1>0 DEF BasicInv, TypeInv, CallT, FetchFails, Return
<1>6. TypeInv'
  BY <1>2, <1>5 DEF BasicInv, TypeInv, FetchFails, Return
<1>. QED BY <1>3, <1>4, <1>6 DEF BasicInv

LEMMA DropBasic ==
  ASSUME BasicInv, NEW c \in Callers, Drop(c)
  PROVE  BasicInv'
<1>0. /\ call[c].at \in Droppable /\ Release(c) /\ call' = [call EXCEPT ![c] = NoCall]
      /\ limit' = limit /\ queue \in Seq(JobT) /\ c # None
  BY NumbersAreNumbers DEF BasicInv, TypeInv, Drop
<1>1. NoCall \in CallT /\ NoCall.at \notin Droppable
  BY DEF NoCall, CallT, States, Droppable
<1>2. (\A d \in Callers \ {c} : call'[d] = call[d]) /\ call' \in [Callers -> CallT]
  BY <1>0, <1>1 DEF BasicInv, TypeInv
<1>3. /\ queue' \in Seq(JobT) /\ Len(queue') = Len(queue)
      /\ \A i \in Jobs :
              /\ queue'[i].kind = queue[i].kind /\ queue'[i].key = queue[i].key
              /\ queue'[i].value = queue[i].value /\ queue'[i].charge = queue[i].charge
              /\ queue'[i].caller = IF queue[i].caller = c THEN None ELSE queue[i].caller
  BY <1>0, Disowned DEF Drop, Jobs
<1>4. Jobs' = Jobs
  BY <1>3 DEF Jobs
<1>5. OwnersInv'
  <2>1. ASSUME NEW i \in Jobs, queue'[i].caller # None PROVE Asked(queue'[i], call'[queue'[i].caller])
    <3>1. queue'[i].caller = queue[i].caller /\ queue[i].caller # c /\ queue[i].caller \in Callers
      BY <1>3, <2>1, JobsAreJobs DEF BasicInv, JobT
    <3>2. Asked(queue[i], call[queue[i].caller])
      BY <2>1, <3>1 DEF BasicInv, OwnersInv
    <3>. QED BY <1>2, <1>3, <3>1, <3>2 DEF Asked
  <2>2. \A i, j \in Jobs : queue'[i].caller = queue'[j].caller /\ queue'[i].caller # None => i = j
    BY <1>3 DEF BasicInv, OwnersInv
  <2>. QED BY <1>4, <2>1, <2>2 DEF OwnersInv, Asked
<1>6. JobsFit'
  BY <1>0, <1>3, <1>4 DEF BasicInv, JobsFit, JobFits
<1>7. LinesInv'
  BY <1>0, <1>1, Released DEF BasicInv
<1>8. TypeInv'
  BY <1>2, <1>3 DEF BasicInv, TypeInv, Drop
<1>. QED BY <1>5, <1>6, <1>7, <1>8 DEF BasicInv

(* The jobs.                                                               *)
LEMMA FirstJob ==
  ASSUME BasicInv, NEW kind, Run(kind)
  PROVE  /\ Head(queue) = queue[1] /\ 1 \in Jobs /\ queue[1] \in JobT /\ queue[1].kind = kind
         /\ queue # << >> /\ queue' = Tail(queue) /\ limit' = limit /\ flight' = flight
         /\ fetched' = fetched /\ floor' = floor /\ now' = now
         /\ kind # "sweep" => queue[1].key \in Keys
         /\ kind = "put" => queue[1].charge <= limit
         /\ queue[1].caller # None => /\ queue[1].caller \in Callers /\ Asking = call[queue[1].caller]
                                      /\ Asking \in CallT /\ Asked(queue[1], Asking)
<1>0. queue \in Seq(JobT)
  BY DEF BasicInv, TypeInv
<1>1. /\ Head(queue) = queue[1] /\ 1 \in Jobs /\ queue[1] \in JobT /\ queue[1].kind = kind
      /\ queue # << >> /\ queue' = Tail(queue) /\ limit' = limit /\ flight' = flight
      /\ fetched' = fetched /\ floor' = floor /\ now' = now
  BY <1>0, Started DEF Run, Jobs
<1>2. JobFits(queue[1])
  BY <1>1 DEF BasicInv, JobsFit
<1>3. ASSUME queue[1].caller # None
      PROVE  /\ queue[1].caller \in Callers /\ Asking = call[queue[1].caller]
             /\ Asking \in CallT /\ Asked(queue[1], Asking)
  <2>1. queue[1].caller \in Callers /\ Asking = call[queue[1].caller]
    BY <1>1, <1>3 DEF Asking, JobT
  <2>. QED BY <1>1, <1>3, <2>1 DEF BasicInv, OwnersInv, TypeInv
<1>. QED BY <1>1, <1>2, <1>3 DEF JobFits

LEMMA GetBasic ==
  ASSUME BasicInv, GetJob
  PROVE  BasicInv'
<1>. DEFINE k == queue[1].key
            x == IF Live(k) THEN [Asking EXCEPT !.at = "answering", !.got = rows[k].value]
                            ELSE [Asking EXCEPT !.at = "fetching"]
<1>0. Run("get")
  BY DEF GetJob
<1>1. Reply(x)
  BY <1>0, FirstJob DEF GetJob
<1>2. queue[1].caller # None => x.at \in {"fetching", "answering"} /\ x.key = Asking.key /\ x \in CallT
  <2>. SUFFICES ASSUME queue[1].caller # None
                PROVE  x.at \in {"fetching", "answering"} /\ x.key = Asking.key /\ x \in CallT
    OBVIOUS
  <2>1. Asking \in CallT
    BY <1>0, FirstJob
  <2>2. Live(k) => rows[k].value \in Nat
    BY DEF Live, BasicInv, TypeInv, RowT
  <2>. QED BY <2>1, <2>2 DEF CallT, States
<1>. HIDE DEF x
<1>3. OwnersInv' /\ JobsFit' /\ LinesInv' /\ queue' \in Seq(JobT) /\ call' \in [Callers -> CallT]
  BY <1>0, <1>1, <1>2, FirstJob, JobDone DEF BasicInv
<1>4. TypeInv'
  BY <1>3 DEF BasicInv, TypeInv, GetJob, Run
<1>. QED BY <1>3, <1>4 DEF BasicInv

LEMMA FailsBasic ==
  ASSUME BasicInv, GetFails \/ PutFails
  PROVE  BasicInv'
<1>0. PICK kind \in {"get", "put"} : Run(kind)
  BY DEF GetFails, PutFails
<1>1. PICK x : /\ Reply(x)
               /\ Asking \in CallT => x.at \in {"fetching", "answering"} /\ x.key = Asking.key /\ x \in CallT
  <2>. DEFINE a == [Asking EXCEPT !.at = "fetching", !.unread = TRUE]
              b == [Asking EXCEPT !.at = "answering", !.unwritten = TRUE]
  <2>1. Reply(a) \/ Reply(b)
    BY DEF GetFails, PutFails
  <2>2. Asking \in CallT => /\ a \in CallT /\ a.at = "fetching" /\ a.key = Asking.key
                            /\ b \in CallT /\ b.at = "answering" /\ b.key = Asking.key
    BY DEF CallT, States
  <2>. QED BY <2>1, <2>2
<1>3. OwnersInv' /\ JobsFit' /\ LinesInv' /\ queue' \in Seq(JobT) /\ call' \in [Callers -> CallT]
  BY <1>0, <1>1, FirstJob, JobDone DEF BasicInv
<1>4. TypeInv'
  BY <1>3 DEF BasicInv, TypeInv, GetFails, PutFails, Run
<1>. QED BY <1>3, <1>4 DEF BasicInv

(* What a write does to the table: kept is what is neither swept, replaced *)
(* nor evicted.                                                            *)
Spared(stale) == DOMAIN rows \ (stale \cup {Head(queue).key})
KeptRows(stale) == Spared(stale) \ Evicted(Spared(stale), Head(queue).charge)
NewRow(job) == [value |-> job.value, created |-> now, expires |-> now + Ttl[job.key], bytes |-> job.charge]

LEMMA Stored ==
  ASSUME PutJob
  PROVE  \E stale : /\ stale \subseteq Expired
                    /\ rows' = [k \in KeptRows(stale) \cup {Head(queue).key} |->
                                  IF k # Head(queue).key THEN rows[k] ELSE NewRow(Head(queue))]
                    /\ size' = Accounted(DOMAIN rows \ KeptRows(stale), Head(queue).charge)
<1>1. PICK stale \in Some(ExpiredBatch, Expired) :
        /\ rows' = [k \in KeptRows(stale) \cup {Head(queue).key} |->
                      IF k # Head(queue).key THEN rows[k]
                        ELSE [value |-> Head(queue).value, created |-> now,
                              expires |-> now + Ttl[k], bytes |-> Head(queue).charge]]
        /\ size' = Accounted(DOMAIN rows \ KeptRows(stale), Head(queue).charge)
  BY Zenon DEF PutJob, KeptRows, Spared
<1>2. stale \subseteq Expired
  BY DEF Some, kSubset
<1>3. rows' = [k \in KeptRows(stale) \cup {Head(queue).key} |->
                IF k # Head(queue).key THEN rows[k] ELSE NewRow(Head(queue))]
  BY <1>1 DEF NewRow
<1>. QED BY <1>1, <1>2, <1>3

LEMMA PutBasic ==
  ASSUME BasicInv, PutJob
  PROVE  BasicInv'
<1>. DEFINE x == [Asking EXCEPT !.at = "answering"]
<1>0. Run("put") /\ Reply(x)
  BY DEF PutJob
<1>1. Asking \in CallT => x.at \in {"fetching", "answering"} /\ x.key = Asking.key /\ x \in CallT
  BY DEF CallT, States
<1>. HIDE DEF x
<1>3. OwnersInv' /\ JobsFit' /\ LinesInv' /\ queue' \in Seq(JobT) /\ call' \in [Callers -> CallT]
  BY <1>0, <1>1, FirstJob, JobDone DEF BasicInv
<1>4. DOMAIN rows' \subseteq Keys /\ rows' \in [DOMAIN rows' -> RowT]
  <2>1. PICK stale : rows' = [k \in KeptRows(stale) \cup {Head(queue).key} |->
                                IF k # Head(queue).key THEN rows[k] ELSE NewRow(Head(queue))]
    BY Stored
  <2>2. Head(queue).key \in Keys /\ Head(queue) \in JobT
    BY <1>0, FirstJob
  <2>3. NewRow(Head(queue)) \in RowT
    BY <2>2, NumbersAreNumbers DEF RowT, JobT, BasicInv, TypeInv, NewRow
  <2>4. \A k \in KeptRows(stale) : rows[k] \in RowT /\ k \in Keys
    BY DEF BasicInv, TypeInv, KeptRows, Spared
  <2>5. DOMAIN rows' = KeptRows(stale) \cup {Head(queue).key}
    BY <2>1
  <2>. QED BY <2>1, <2>2, <2>3, <2>4, <2>5
<1>5. TypeInv'
  BY <1>0, <1>3, <1>4 DEF BasicInv, TypeInv, Run
<1>. QED BY <1>3, <1>5 DEF BasicInv

LEMMA SweepBasic ==
  ASSUME BasicInv, SweepJob
  PROVE  BasicInv'
<1>0. Run("sweep") /\ call' = call
  BY DEF SweepJob
<1>1. queue[1].caller = None
  BY <1>0, FirstJob DEF Asked
<1>2. Reply(NoCall)
  BY <1>0, <1>1, FirstJob DEF Reply
<1>3. OwnersInv' /\ JobsFit' /\ LinesInv' /\ queue' \in Seq(JobT) /\ call' \in [Callers -> CallT]
  BY <1>0, <1>1, <1>2, FirstJob, JobDone DEF BasicInv
<1>4. DOMAIN rows' \subseteq Keys /\ rows' \in [DOMAIN rows' -> RowT]
  BY DEF SweepJob, BasicInv, TypeInv
<1>5. TypeInv'
  BY <1>0, <1>3, <1>4 DEF BasicInv, TypeInv, Run
<1>. QED BY <1>3, <1>5 DEF BasicInv

LEMMA MaintainBasic ==
  ASSUME BasicInv, Maintain
  PROVE  BasicInv'
<1>. DEFINE j == Job("sweep", None, 0, 0, 0)
<1>1. j \in JobT /\ j.caller = None /\ JobFits(j)
  BY DEF Job, JobT, JobFits
<1>2. queue' = Append(queue, j) /\ limit' = limit /\ call' = call /\ flight' = flight
  BY DEF Maintain
<1>. HIDE DEF j
<1>3. OwnersInv' /\ JobsFit' /\ queue' \in Seq(JobT)
  BY <1>1, <1>2, JobQueued DEF BasicInv
<1>4. LinesInv'
  BY <1>2 DEF BasicInv, LinesInv, Stripe, Holds
<1>5. TypeInv'
  BY <1>3 DEF BasicInv, TypeInv, Maintain
<1>. QED BY <1>3, <1>4, <1>5 DEF BasicInv

LEMMA ReopenBasic ==
  ASSUME BasicInv, Reopen
  PROVE  BasicInv'
<1>1. call' \in [Callers -> CallT] /\ \A c \in Callers : call'[c].at = "idle"
  BY DEF Reopen, CallT, NoCall, States
<1>2. queue' \in Seq(JobT) /\ Len(queue') = 0
  BY EmptySeq DEF Reopen
<1>3. TypeInv'
  BY <1>1, <1>2, NumbersAreNumbers DEF Reopen, BasicInv, TypeInv
<1>4. LinesInv'
  BY <1>1, NobodyStands DEF Reopen, LinesInv, Droppable, Busy
<1>5. OwnersInv' /\ JobsFit'
  BY <1>2 DEF OwnersInv, JobsFit, Jobs
<1>. QED BY <1>3, <1>4, <1>5 DEF BasicInv

LEMMA IdleBasic ==
  ASSUME BasicInv, Tick \/ UNCHANGED vars
  PROVE  BasicInv'
<1>1. now' \in Nat
  BY DEF Tick, vars, BasicInv, TypeInv
<1>2. /\ rows' = rows /\ size' = size /\ limit' = limit /\ queue' = queue /\ flight' = flight
      /\ call' = call /\ fetched' = fetched /\ floor' = floor
  BY DEF Tick, vars
<1>3. TypeInv' /\ LinesInv'
  BY <1>1, <1>2 DEF BasicInv, TypeInv, LinesInv, Stripe, Holds
<1>4. OwnersInv' /\ JobsFit'
  BY <1>2 DEF BasicInv, OwnersInv, JobsFit, JobFits, Jobs, Asked
<1>. QED BY <1>3, <1>4 DEF BasicInv

LEMMA NextBasicInv == BasicInv /\ [Next]_vars => BasicInv'
<1>. SUFFICES ASSUME BasicInv, [Next]_vars PROVE BasicInv'
  OBVIOUS
<1>1. ASSUME NEW c \in Callers, NEW k \in Keys, Call(c, k) PROVE BasicInv'
  BY <1>1, CallBasic
<1>2. ASSUME NEW c \in Callers, Look(c) PROVE BasicInv'
  BY <1>2, LookBasic
<1>3. ASSUME NEW c \in Callers, NEW charge \in Charges, Fetched(c, charge) PROVE BasicInv'
  BY <1>3, FetchedBasic
<1>4. ASSUME NEW c \in Callers, FetchFails(c) \/ Return(c) PROVE BasicInv'
  BY <1>4, LeaveBasic
<1>5. ASSUME NEW c \in Callers, Drop(c) PROVE BasicInv'
  BY <1>5, DropBasic
<1>. QED BY <1>1, <1>2, <1>3, <1>4, <1>5, GetBasic, PutBasic, FailsBasic, MaintainBasic, SweepBasic,
            IdleBasic, ReopenBasic DEF Next

(* Calls, jobs, rows, flights and the size keep their types for any        *)
(* callers, keys, capacity of the queue and limits (storage.rs, Cache and  *)
(* Database).                                                              *)
THEOREM Typed == Spec => []BasicInv
<1>. QED BY InitBasicInv, NextBasicInv, PTL DEF Spec
-----------------------------------------------------------------------------
(***************************************************************************)
(* The size of the rows.                                                   *)
(***************************************************************************)
LEMMA BytesApart ==
  ASSUME TypeInv, NEW A \in SUBSET DOMAIN rows, NEW B \in SUBSET DOMAIN rows, A \cap B = {}
  PROVE  /\ Bytes(A) \in Nat /\ Bytes(B) \in Nat
         /\ Bytes(A \cup B) = Bytes(A) + Bytes(B)
         /\ IsFiniteSet(A) /\ IsFiniteSet(B)
<1>. DEFINE w == [k \in DOMAIN rows |-> rows[k].bytes]
<1>1. IsFiniteSet(A) /\ IsFiniteSet(B)
  <2>1. A \subseteq Keys /\ B \subseteq Keys
    BY DEF TypeInv
  <2>. QED BY <2>1, NumbersAreNumbers, FS_Subset
<1>2. \A k \in DOMAIN rows : w[k] \in Nat
  BY DEF TypeInv, RowT
<1>. HIDE DEF w
<1>3. \A k \in A \cup B : w[k] \in Nat
  BY <1>2
<1>4. SumFunctionOnSet(w, A \cup B) = SumFunctionOnSet(w, A) + SumFunctionOnSet(w, B)
  BY <1>1, <1>3, SumOfBoth
<1>5. SumFunctionOnSet(w, A) \in Nat /\ SumFunctionOnSet(w, B) \in Nat
  <2>1. (\A k \in A : w[k] \in Nat) /\ \A k \in B : w[k] \in Nat
    BY <1>2
  <2>. QED BY <1>1, <2>1, SumIsNatural
<1>6. \A K : Bytes(K) = SumFunctionOnSet(w, K)
  BY Zenon DEF Bytes, w
<1>7. /\ Bytes(A \cup B) = SumFunctionOnSet(w, A \cup B)
      /\ Bytes(A) = SumFunctionOnSet(w, A) /\ Bytes(B) = SumFunctionOnSet(w, B)
  BY <1>6, Zenon
<1>. QED BY <1>1, <1>4, <1>5, <1>7

LEMMA BytesSplit ==
  ASSUME TypeInv, NEW K \in SUBSET DOMAIN rows, NEW A \in SUBSET K
  PROVE  Bytes(A) \in Nat /\ Bytes(K \ A) \in Nat /\ Bytes(K) = Bytes(A) + Bytes(K \ A)
<1>1. A \cup (K \ A) = K
  OBVIOUS
<1>2. Bytes(A \cup (K \ A)) = Bytes(K)
  BY <1>1, Zenon
<1>3. A \cap (K \ A) = {} /\ A \in SUBSET DOMAIN rows /\ K \ A \in SUBSET DOMAIN rows
  OBVIOUS
<1>4. Bytes(A) \in Nat /\ Bytes(K \ A) \in Nat /\ Bytes(A \cup (K \ A)) = Bytes(A) + Bytes(K \ A)
  BY <1>3, BytesApart
<1>. QED BY <1>2, <1>4

(* The table after a write: what was kept and the new row.                 *)
LEMMA BytesStored ==
  ASSUME BasicInv, PutJob
  PROVE  \E stale : /\ KeptRows(stale) \subseteq DOMAIN rows
                    /\ Bytes(DOMAIN rows)' = Bytes(KeptRows(stale)) + Head(queue).charge
                    /\ size' = size - Bytes(DOMAIN rows \ KeptRows(stale)) + Head(queue).charge
                    /\ Head(queue).charge \in Nat /\ Head(queue).charge <= limit
<1>1. PICK stale : /\ rows' = [k \in KeptRows(stale) \cup {Head(queue).key} |->
                                 IF k # Head(queue).key THEN rows[k] ELSE NewRow(Head(queue))]
                   /\ size' = Accounted(DOMAIN rows \ KeptRows(stale), Head(queue).charge)
  BY Stored
<1>. DEFINE kept == KeptRows(stale)
            key == Head(queue).key
            w == [k \in DOMAIN rows |-> rows[k].bytes]
            v == [k \in DOMAIN rows' |-> rows'[k].bytes]
<1>2. kept \subseteq DOMAIN rows /\ key \notin kept
  BY DEF KeptRows, Spared
<1>3. key \in Keys /\ Head(queue).charge \in Nat /\ Head(queue).charge <= limit
  <2>1. Run("put")
    BY DEF PutJob
  <2>2. Head(queue) \in JobT /\ key \in Keys /\ Head(queue).charge <= limit
    BY <2>1, FirstJob
  <2>. QED BY <2>2 DEF JobT
<1>4. DOMAIN rows' = kept \cup {key}
  BY <1>1
<1>5. v[key] = Head(queue).charge
  BY <1>1, <1>4 DEF NewRow
<1>6. \A k \in kept : v[k] = w[k] /\ v[k] \in Nat
  BY <1>1, <1>2, <1>4 DEF BasicInv, TypeInv, RowT
<1>7. IsFiniteSet(kept) /\ IsFiniteSet({key})
  <2>1. kept \subseteq Keys
    BY <1>2 DEF BasicInv, TypeInv
  <2>. QED BY <2>1, NumbersAreNumbers, FS_Subset, FS_Singleton
<1>8. IsFiniteSet(kept \cup {key})
  BY <1>7, FS_Union
<1>9. (kept \cup {key}) \ {key} = kept
  BY <1>2
<1>10. Bytes(DOMAIN rows)' = SumFunctionOnSet(v, DOMAIN rows') /\ Bytes(kept) = SumFunctionOnSet(w, kept)
  BY Zenon DEF Bytes
<1>11. SumFunctionOnSet(v, DOMAIN rows') = SumFunctionOnSet(v, kept \cup {key})
  BY <1>4, Zenon
<1>. HIDE DEF v, w, kept, key
<1>12. SumFunctionOnSet(v, kept \cup {key}) = v[key] + SumFunctionOnSet(v, (kept \cup {key}) \ {key})
  <2>1. \A k \in kept \cup {key} : v[k] \in Nat
    BY <1>3, <1>5, <1>6
  <2>2. key \in kept \cup {key}
    OBVIOUS
  <2>. QED BY <1>8, <2>1, <2>2, SumWithout
<1>13. SumFunctionOnSet(v, (kept \cup {key}) \ {key}) = SumFunctionOnSet(v, kept)
  BY <1>9, Zenon
<1>14. SumFunctionOnSet(v, kept) = SumFunctionOnSet(w, kept) /\ SumFunctionOnSet(v, kept) \in Nat
  BY <1>6, <1>7, SumsAgree, SumIsNatural
<1>15. Bytes(DOMAIN rows)' = Bytes(kept) + Head(queue).charge
  BY <1>3, <1>5, <1>10, <1>11, <1>12, <1>13, <1>14
<1>16. size' = size - Bytes(DOMAIN rows \ kept) + Head(queue).charge
  BY <1>1, Zenon DEF Accounted, kept
<1>. QED BY <1>2, <1>3, <1>15, <1>16 DEF kept

LEMMA SameRows == rows' = rows => Bytes(DOMAIN rows)' = Bytes(DOMAIN rows)
BY Zenon DEF Bytes

LEMMA NextSize == BasicInv /\ SizeIsAccounted /\ [Next]_vars => SizeIsAccounted'
<1>. SUFFICES ASSUME BasicInv, SizeIsAccounted, [Next]_vars PROVE size' = Bytes(DOMAIN rows)'
  BY DEF SizeIsAccounted
<1>1. CASE PutJob
  <2>1. PICK stale : /\ KeptRows(stale) \subseteq DOMAIN rows
                     /\ Bytes(DOMAIN rows)' = Bytes(KeptRows(stale)) + Head(queue).charge
                     /\ size' = size - Bytes(DOMAIN rows \ KeptRows(stale)) + Head(queue).charge
                     /\ Head(queue).charge \in Nat
    BY <1>1, BytesStored
  <2>2. /\ Bytes(KeptRows(stale)) \in Nat /\ Bytes(DOMAIN rows \ KeptRows(stale)) \in Nat
        /\ Bytes(DOMAIN rows) = Bytes(KeptRows(stale)) + Bytes(DOMAIN rows \ KeptRows(stale))
    BY <2>1, BytesSplit DEF BasicInv
  <2>. QED BY <2>1, <2>2 DEF SizeIsAccounted
<1>2. CASE SweepJob
  <2>1. PICK stale \in Some(ExpiredBatch, Expired) :
          /\ rows' = [k \in DOMAIN rows \ stale |-> rows[k]]
          /\ size' = Accounted(stale, 0)
    BY <1>2 DEF SweepJob
  <2>2. stale \subseteq DOMAIN rows
    BY DEF Some, kSubset, Expired
  <2>. DEFINE L == DOMAIN rows \ stale
              w == [k \in DOMAIN rows |-> rows[k].bytes]
              v == [k \in DOMAIN rows' |-> rows'[k].bytes]
  <2>3. DOMAIN rows' = L /\ \A k \in L : v[k] = w[k]
    BY <2>1
  <2>4. Bytes(DOMAIN rows)' = SumFunctionOnSet(v, DOMAIN rows') /\ Bytes(L) = SumFunctionOnSet(w, L)
    BY Zenon DEF Bytes
  <2>5. SumFunctionOnSet(v, DOMAIN rows') = SumFunctionOnSet(v, L)
    BY <2>3, Zenon
  <2>6. IsFiniteSet(L)
    <3>1. L \subseteq Keys
      BY DEF BasicInv, TypeInv
    <3>. QED BY <3>1, NumbersAreNumbers, FS_Subset
  <2>7. Bytes(stale) \in Nat /\ Bytes(L) \in Nat /\ Bytes(DOMAIN rows) = Bytes(stale) + Bytes(L)
    BY <2>2, BytesSplit DEF BasicInv
  <2>. HIDE DEF L, w, v
  <2>8. Bytes(DOMAIN rows)' = Bytes(L)
    BY <2>3, <2>4, <2>5, <2>6, SumsAgree
  <2>9. size' = size - Bytes(stale)
    <3>1. size' = size - Bytes(stale) + 0
      BY <2>1, Zenon DEF Accounted
    <3>. QED BY <2>7, <3>1 DEF SizeIsAccounted
  <2>. QED BY <2>7, <2>8, <2>9 DEF SizeIsAccounted
<1>3. CASE ~PutJob /\ ~SweepJob
  <2>1. rows' = rows /\ size' = size
    BY <1>3 DEF Next, vars, Call, Look, Fetched, FetchFails, Return, Drop, GetJob, PutFails, GetFails,
                Maintain, Tick, Reopen
  <2>. QED BY <2>1, SameRows DEF SizeIsAccounted
<1>. QED BY <1>1, <1>2, <1>3

(* The size the database keeps is the sum of the bytes of its rows after   *)
(* every write, eviction, sweep and restart, in whatever order the jobs    *)
(* run (storage.rs, the triggers of Database::open).                       *)
THEOREM SizeTheorem == Spec => []SizeIsAccounted
<1>1. Init => SizeIsAccounted
  <2>. SUFFICES ASSUME Init PROVE size = Bytes(DOMAIN rows)
    BY DEF SizeIsAccounted
  <2>1. DOMAIN rows = {} /\ size = 0
    BY DEF Init
  <2>2. Bytes({}) = 0
    BY SumOfNone, Zenon DEF Bytes
  <2>3. Bytes(DOMAIN rows) = Bytes({})
    BY <2>1, Zenon
  <2>. QED BY <2>1, <2>2, <2>3
<1>. QED BY <1>1, NextSize, Typed, PTL DEF Spec
-----------------------------------------------------------------------------
(***************************************************************************)
(* The eviction ends, and a write leaves the cache within its limit.       *)
(***************************************************************************)
(* As many batches as there are rows take them all.                        *)
LEMMA AllAreOldest ==
  ASSUME TypeInv, NEW K \in SUBSET DOMAIN rows
  PROVE  IsFiniteSet(K) /\ Cardinality(K) \in Nat /\ Oldest(Cardinality(K) * EvictBatch, K) = K
<1>1. IsFiniteSet(K) /\ Cardinality(K) \in Nat
  <2>1. K \subseteq Keys
    BY DEF TypeInv
  <2>. QED BY <2>1, NumbersAreNumbers, FS_Subset, FS_CardinalityType
<1>2. ASSUME NEW k \in K PROVE Cardinality({j \in K : Older(j, k)}) < Cardinality(K) * EvictBatch
  <2>. DEFINE O == {j \in K : Older(j, k)}
  <2>1. k \notin O
    <3>1. k \in Nat /\ rows[k].created \in Nat
      BY NumbersAreNumbers DEF TypeInv, RowT
    <3>. QED BY <3>1 DEF Older
  <2>2. O \subseteq K \ {k}
    BY <2>1
  <2>. HIDE DEF O
  <2>3. IsFiniteSet(K \ {k}) /\ Cardinality(K \ {k}) = Cardinality(K) - 1
    BY <1>1, FS_RemoveElement
  <2>4. Cardinality(O) <= Cardinality(K \ {k}) /\ Cardinality(O) \in Nat
    BY <2>2, <2>3, FS_Subset, FS_CardinalityType
  <2>5. Cardinality(K) <= Cardinality(K) * EvictBatch
    <3>1. \A n \in Nat, m \in Nat : m >= 1 => n <= n * m
      BY Z3
    <3>. QED BY <1>1, <3>1, NumbersAreNumbers
  <2>6. Cardinality(O) < Cardinality(K)
    BY <1>1, <2>3, <2>4
  <2>7. Cardinality(K) * EvictBatch \in Nat
    BY <1>1, NumbersAreNumbers
  <2>8. Cardinality(O) < Cardinality(K) * EvictBatch
    BY <1>1, <2>4, <2>5, <2>6, <2>7
  <2>. QED BY <2>8 DEF O
<1>3. Oldest(Cardinality(K) * EvictBatch, K) = K
  BY <1>2 DEF Oldest
<1>. QED BY <1>1, <1>3

LEMMA EvictionMakesRoom ==
  ASSUME TypeInv, SizeIsAccounted, NEW K \in SUBSET DOMAIN rows, NEW charge \in Nat, charge <= limit
  PROVE  Bytes(K \ Evicted(K, charge)) + charge <= limit
<1>. DEFINE fits(n) == size - Bytes(DOMAIN rows \ K) - Bytes(Oldest(n * EvictBatch, K)) + charge <= limit
            N == Cardinality(K)
            F == {n \in 0 .. N : fits(n)}
<1>1. IsFiniteSet(K) /\ N \in Nat /\ Oldest(N * EvictBatch, K) = K /\ limit \in Nat
  BY AllAreOldest DEF TypeInv
<1>2. Bytes(K) \in Nat /\ Bytes(DOMAIN rows \ K) \in Nat /\ size = Bytes(K) + Bytes(DOMAIN rows \ K)
  BY BytesSplit DEF SizeIsAccounted
<1>3. fits(N)
  <2>1. Bytes(Oldest(N * EvictBatch, K)) = Bytes(K)
    BY <1>1, Zenon
  <2>. QED BY <1>1, <1>2, <2>1
<1>. HIDE DEF fits, N
<1>4. F \in SUBSET Nat /\ N \in F
  BY <1>1, <1>3
<1>5. PICK m \in F : \A k \in F : m <= k
  <2>. HIDE DEF F
  <2>. QED BY <1>4, LeastNatural
<1>6. m \in 0 .. N /\ fits(m) /\ \A i \in 0 .. m - 1 : ~fits(i)
  <2>1. m \in Nat /\ m \in 0 .. N /\ fits(m)
    BY <1>1, <1>5
  <2>2. ASSUME NEW i \in 0 .. m - 1, fits(i) PROVE FALSE
    BY <1>1, <1>5, <2>1, <2>2
  <2>. QED BY <2>1, <2>2
<1>. DEFINE n == CHOOSE n \in 0 .. N : fits(n) /\ \A i \in 0 .. n - 1 : ~fits(i)
<1>7. fits(n)
  BY <1>6, Zenon
<1>8. Evicted(K, charge) = Oldest(n * EvictBatch, K)
  BY Zenon DEF Evicted, fits, N
<1>9. size - Bytes(DOMAIN rows \ K) - Bytes(Evicted(K, charge)) + charge <= limit
  BY <1>7, <1>8, Zenon DEF fits
<1>10. Evicted(K, charge) \subseteq K
  BY <1>8 DEF Oldest
<1>11. /\ Bytes(Evicted(K, charge)) \in Nat /\ Bytes(K \ Evicted(K, charge)) \in Nat
       /\ Bytes(K) = Bytes(Evicted(K, charge)) + Bytes(K \ Evicted(K, charge))
  <2>1. Evicted(K, charge) \in SUBSET K
    BY <1>10
  <2>. QED BY <2>1, BytesSplit
<1>. QED BY <1>1, <1>2, <1>9, <1>11

LEMMA WriteFits ==
  ASSUME BasicInv, SizeIsAccounted, PutJob
  PROVE  Bytes(DOMAIN rows)' <= limit
<1>1. PICK stale : /\ Bytes(DOMAIN rows)' = Bytes(KeptRows(stale)) + Head(queue).charge
                   /\ Head(queue).charge \in Nat /\ Head(queue).charge <= limit
  BY BytesStored
<1>2. Spared(stale) \in SUBSET DOMAIN rows
  BY DEF Spared
<1>. DEFINE K == Spared(stale)
            charge == Head(queue).charge
<1>3. Bytes(K \ Evicted(K, charge)) + charge <= limit
  <2>. HIDE DEF K, charge
  <2>1. K \in SUBSET DOMAIN rows /\ charge \in Nat /\ charge <= limit
    BY <1>1, <1>2 DEF K, charge
  <2>. QED BY <2>1, EvictionMakesRoom DEF BasicInv
<1>. QED BY <1>1, <1>3, Zenon DEF KeptRows

(* A write leaves no more bytes than the limit, also the first one after a *)
(* restart lowered it, for any keys and sizes (storage.rs, Cache::put).    *)
THEOREM LimitTheorem == Spec => WritesKeepTheLimit
<1>. DEFINE Kept == \A k \in DOMAIN rows' :
                      (k \notin DOMAIN rows \/ rows'[k] # rows[k]) => Bytes(DOMAIN rows)' <= limit
<1>1. BasicInv /\ SizeIsAccounted /\ [Next]_vars => [Kept]_vars
  <2>. SUFFICES ASSUME BasicInv, SizeIsAccounted, Next,
                       NEW k \in DOMAIN rows', k \notin DOMAIN rows \/ rows'[k] # rows[k]
                PROVE  Bytes(DOMAIN rows)' <= limit
    BY Zenon
  <2>1. CASE PutJob
    BY <2>1, WriteFits
  <2>2. CASE SweepJob
    BY <2>2 DEF SweepJob
  <2>3. CASE ~PutJob /\ ~SweepJob
    <3>1. rows' = rows
      BY <2>3 DEF Next, Call, Look, Fetched, FetchFails, Return, Drop, GetJob, PutFails, GetFails,
                  Maintain, Tick, Reopen
    <3>. QED BY <3>1
  <2>. QED BY <2>1, <2>2, <2>3
<1>. QED BY <1>1, Typed, SizeTheorem, PTL DEF Spec, WritesKeepTheLimit
-----------------------------------------------------------------------------
(***************************************************************************)
(* The answers: what is stored, waits to be stored or was answered.        *)
(***************************************************************************)
Puts(k) == {queue[i] : i \in {i \in Jobs : queue[i].kind = "put" /\ queue[i].key = k}}

(* Of a key the writes are queued in the order of its fetches, and a read  *)
(* that is still awaited is behind all of them.                            *)
OrderInv ==
  \A i, j \in Jobs : i < j /\ queue[i].key = queue[j].key /\ queue[j].kind = "put" =>
    /\ queue[i].kind = "put" => queue[i].value < queue[j].value
    /\ queue[i].kind = "get" => queue[i].caller = None

(* An answer was fetched, and none goes behind what was answered.          *)
Answers(k) == 1 .. fetched[k]
PutsInv == \A k \in Keys : \A p \in Puts(k) : p.value \in Answers(k) /\ floor[k] <= p.value
RowsInv == \A k \in DOMAIN rows :
  rows[k].value \in Answers(k) /\ (Live(k) => floor[k] <= rows[k].value)
FloorInv == \A k \in Keys : floor[k] <= fetched[k]

(* Who fetches has seen that there is nothing to read; what it fetched is  *)
(* the newest until it has answered.                                       *)
NothingToRead(k) == ~Live(k) /\ Puts(k) = {}

CallOk(c) ==
  LET a == call[c]
      k == call[c].key
  IN /\ a.at \in {"waiting", "reading"} => ~a.unread
     /\ a.at = "fetching" /\ ~a.unread => NothingToRead(k)
     /\ a.at = "writing" =>
          /\ a.got \in Answers(k) /\ a.got = fetched[k]
          /\ ~a.unread => ~Live(k) /\ \A p \in Puts(k) : p.caller = c
     /\ a.at = "answering" =>
          /\ a.got \in Answers(k) /\ floor[k] <= a.got
          /\ a.unread /\ a.unwritten => a.got = fetched[k]
          /\ ~(a.unread /\ a.unwritten) => /\ Live(k) => a.got <= rows[k].value
                                          /\ \A p \in Puts(k) : a.got <= p.value
     /\ a.at = "done" => a.got >= 1

ValuesInv == OrderInv /\ PutsInv /\ RowsInv /\ FloorInv /\ \A c \in Callers : CallOk(c)
-----------------------------------------------------------------------------
(* A key has one holder.                                                   *)
LEMMA Exclusive ==
  ASSUME BasicInv, NEW c \in Callers, NEW d \in Callers, call[c].at \in Busy, call[d].at \in Busy,
         call[c].key = call[d].key
  PROVE  c = d
BY DEF BasicInv, LinesInv, Holds, Stripe

(* The queue through a step.                                               *)
LEMMA SameQueue ==
  ASSUME queue' = queue
  PROVE  (OrderInv => OrderInv') /\ \A k : Puts(k)' = Puts(k)
BY DEF OrderInv, Puts, Jobs

LEMMA LongerQueue ==
  ASSUME BasicInv, OrderInv, NEW j \in JobT, queue' = Append(queue, j),
         j.kind = "put" => /\ \A p \in Puts(j.key) : p.value < j.value
                           /\ \A i \in Jobs : queue[i].kind = "get" /\ queue[i].key = j.key => queue[i].caller = None
  PROVE  /\ OrderInv'
         /\ \A k : Puts(k)' = IF j.kind = "put" /\ j.key = k THEN Puts(k) \cup {j} ELSE Puts(k)
<1>1. /\ Len(queue') = Len(queue) + 1 /\ Len(queue) \in Nat
      /\ \A i \in Jobs : queue'[i] = queue[i]
      /\ queue'[Len(queue) + 1] = j
  BY Queued DEF BasicInv, TypeInv, Jobs
<1>2. /\ \A i \in Jobs' : i \in Jobs \/ i = Len(queue) + 1
      /\ Jobs \subseteq Jobs' /\ Len(queue) + 1 \in Jobs'
      /\ \A i \in Jobs : i < Len(queue) + 1
  BY <1>1 DEF Jobs
<1>3. OrderInv'
  <2>. SUFFICES ASSUME NEW i \in Jobs', NEW l \in Jobs', i < l, queue'[i].key = queue'[l].key, queue'[l].kind = "put"
                PROVE  /\ queue'[i].kind = "put" => queue'[i].value < queue'[l].value
                       /\ queue'[i].kind = "get" => queue'[i].caller = None
    BY DEF OrderInv
  <2>1. i \in Jobs
    BY <1>1, <1>2 DEF Jobs
  <2>2. CASE l \in Jobs
    BY <1>1, <2>1, <2>2 DEF OrderInv
  <2>3. CASE l = Len(queue) + 1
    BY <1>1, <2>1, <2>3 DEF Puts
  <2>. QED BY <1>2, <2>2, <2>3
<1>4. ASSUME NEW k PROVE Puts(k)' = IF j.kind = "put" /\ j.key = k THEN Puts(k) \cup {j} ELSE Puts(k)
  <2>1. ASSUME NEW p \in Puts(k)' PROVE p \in Puts(k) \/ (p = j /\ j.kind = "put" /\ j.key = k)
    BY <1>1, <1>2 DEF Puts
  <2>2. ASSUME NEW p \in Puts(k) PROVE p \in Puts(k)'
    BY <1>1, <1>2 DEF Puts
  <2>3. j.kind = "put" /\ j.key = k => j \in Puts(k)'
    BY <1>1, <1>2 DEF Puts
  <2>. QED BY <2>1, <2>2, <2>3
<1>. QED BY <1>3, <1>4

LEMMA ShorterQueue ==
  ASSUME BasicInv, OrderInv, queue # << >>, queue' = Tail(queue)
  PROVE  /\ OrderInv'
         /\ \A k : Puts(k)' \subseteq Puts(k)
         /\ \A k : k = Head(queue).key => \A p \in Puts(k)' :
              /\ Head(queue).kind = "put" => Head(queue).value < p.value
              /\ Head(queue).kind = "get" => Head(queue).caller = None
         /\ Head(queue).kind = "put" => Head(queue) \in Puts(Head(queue).key)
         /\ \A k : \A p \in Puts(k)' : p.caller = Head(queue).caller => p.caller = None
<1>1. /\ queue \in Seq(JobT) /\ Len(queue') = Len(queue) - 1 /\ Len(queue) \in Nat /\ Len(queue) >= 1
      /\ \A i \in Jobs' : i + 1 \in Jobs /\ queue'[i] = queue[i + 1] /\ i \in Nat /\ i >= 1
      /\ Head(queue) = queue[1] /\ 1 \in Jobs
  BY Started DEF BasicInv, TypeInv, Jobs
<1>2. OrderInv'
  <2>. SUFFICES ASSUME NEW i \in Jobs', NEW l \in Jobs', i < l, queue'[i].key = queue'[l].key, queue'[l].kind = "put"
                PROVE  /\ queue'[i].kind = "put" => queue'[i].value < queue'[l].value
                       /\ queue'[i].kind = "get" => queue'[i].caller = None
    BY DEF OrderInv
  <2>1. i + 1 \in Jobs /\ l + 1 \in Jobs /\ i + 1 < l + 1
    BY <1>1
  <2>. QED BY <1>1, <2>1 DEF OrderInv
<1>3. ASSUME NEW k, NEW p \in Puts(k)'
      PROVE  \E i \in Jobs : i > 1 /\ p = queue[i] /\ queue[i].kind = "put" /\ queue[i].key = k
  <2>1. PICK i \in Jobs' : p = queue'[i] /\ queue'[i].kind = "put" /\ queue'[i].key = k
    BY DEF Puts
  <2>2. i + 1 \in Jobs /\ i + 1 > 1
    BY <1>1
  <2>. QED BY <1>1, <2>1, <2>2
<1>4. ASSUME NEW k, NEW p \in Puts(k)' PROVE p \in Puts(k)
  <2>1. PICK i \in Jobs : p = queue[i] /\ queue[i].kind = "put" /\ queue[i].key = k
    BY <1>3, <1>4
  <2>. QED BY <2>1 DEF Puts
<1>5. ASSUME NEW k, k = Head(queue).key, NEW p \in Puts(k)'
      PROVE  /\ Head(queue).kind = "put" => Head(queue).value < p.value
             /\ Head(queue).kind = "get" => Head(queue).caller = None
  <2>1. PICK i \in Jobs : i > 1 /\ p = queue[i] /\ queue[i].kind = "put" /\ queue[i].key = k
    BY <1>3, <1>5
  <2>. QED BY <1>1, <1>5, <2>1 DEF OrderInv
<1>6. ASSUME NEW k, NEW p \in Puts(k)', p.caller = Head(queue).caller PROVE p.caller = None
  <2>1. PICK i \in Jobs : i > 1 /\ p = queue[i]
    BY <1>3, <1>6
  <2>2. i # 1
    BY <2>1
  <2>. QED BY <1>1, <1>6, <2>1, <2>2 DEF BasicInv, OwnersInv
<1>7. Head(queue).kind = "put" => Head(queue) \in Puts(Head(queue).key)
  BY <1>1 DEF Puts
<1>. QED BY <1>2, <1>4, <1>5, <1>6, <1>7

LEMMA DisownedQueue ==
  ASSUME BasicInv, OrderInv, NEW c \in Callers, Drop(c)
  PROVE  /\ OrderInv'
         /\ \A k : \A p \in Puts(k)' : \E q \in Puts(k) :
              p.value = q.value /\ (q.caller # c => p.caller = q.caller)
<1>1. /\ Len(queue') = Len(queue)
      /\ \A i \in Jobs :
              /\ queue'[i].kind = queue[i].kind /\ queue'[i].key = queue[i].key
              /\ queue'[i].value = queue[i].value
              /\ queue'[i].caller = IF queue[i].caller = c THEN None ELSE queue[i].caller
  <2>1. queue \in Seq(JobT)
    BY DEF BasicInv, TypeInv
  <2>. QED BY <2>1, Disowned DEF Drop, Jobs
<1>2. Jobs' = Jobs
  BY <1>1 DEF Jobs
<1>3. OrderInv'
  BY <1>1, <1>2 DEF OrderInv
<1>4. ASSUME NEW k, NEW p \in Puts(k)'
      PROVE  \E q \in Puts(k) : p.value = q.value /\ (q.caller # c => p.caller = q.caller)
  <2>1. PICK i \in Jobs : p = queue'[i] /\ queue'[i].kind = "put" /\ queue'[i].key = k
    BY <1>2 DEF Puts
  <2>2. queue[i] \in Puts(k)
    BY <1>1, <2>1 DEF Puts
  <2>. QED BY <1>1, <2>1, <2>2
<1>. QED BY <1>3, <1>4

(* A call keeps what it knows while its key is left alone.                 *)
Untouched(c, k) ==
  /\ fetched'[k] = fetched[k] /\ floor'[k] = floor[k]
  /\ Live(k)' => Live(k) /\ rows'[k] = rows[k]
  /\ \A p \in Puts(k)' : \E q \in Puts(k) : p.value = q.value /\ (q.caller = c => p.caller = c)

LEMMA CallUntouched ==
  ASSUME NEW c, CallOk(c), call'[c] = call[c], NEW k, k = call[c].key,
         call[c].at \in Busy => Untouched(c, k)
  PROVE  CallOk(c)'
<1>1. CASE call[c].at \notin Busy
  BY <1>1 DEF CallOk, Busy
<1>2. CASE call[c].at \in Busy
  <2>. DEFINE a == call[c]
  <2>1. Untouched(c, k) /\ a' = a /\ a.key = k
    BY <1>2
  <2>2. a.at \in {"waiting", "reading"} => ~a.unread
    BY <2>1 DEF CallOk
  <2>3. NothingToRead(k) => NothingToRead(k)'
    BY <2>1 DEF NothingToRead, Untouched
  <2>4. a.at = "fetching" /\ ~a.unread => NothingToRead(k)'
    BY <2>1, <2>3 DEF CallOk
  <2>5. Answers(k)' = Answers(k)
    BY <2>1 DEF Answers, Untouched
  <2>6. a.at = "writing" =>
          /\ a.got \in Answers(k)' /\ a.got = fetched'[k]
          /\ ~a.unread => ~Live(k)' /\ \A p \in Puts(k)' : p.caller = c
    BY <2>1, <2>5 DEF CallOk, Untouched
  <2>7. a.at = "answering" =>
          /\ a.got \in Answers(k)' /\ floor'[k] <= a.got
          /\ a.unread /\ a.unwritten => a.got = fetched'[k]
          /\ ~(a.unread /\ a.unwritten) => /\ Live(k)' => a.got <= rows'[k].value
                                          /\ \A p \in Puts(k)' : a.got <= p.value
    BY <2>1, <2>5 DEF CallOk, Untouched
  <2>8. a.at = "done" => a.got >= 1
    BY <2>1 DEF CallOk
  <2>. QED BY <2>1, <2>2, <2>4, <2>6, <2>7, <2>8 DEF CallOk
<1>. QED BY <1>1, <1>2
-----------------------------------------------------------------------------
(* A call that knows nothing yet, or nothing any more.                     *)
LEMMA NothingKnown ==
  ASSUME NEW c,
         \/ call'[c].at \in {"idle", "failed"}
         \/ call'[c].at \in {"waiting", "reading"} /\ ~call'[c].unread
         \/ call'[c].at = "fetching" /\ call'[c].unread
  PROVE  CallOk(c)'
BY DEF CallOk

LEMMA LiveRow ==
  ASSUME TypeInv, NEW k, now' \in Nat, now <= now', DOMAIN rows' \subseteq DOMAIN rows,
         \A j \in DOMAIN rows' : rows'[j] = rows[j]
  PROVE  Live(k)' => Live(k) /\ rows'[k] = rows[k]
BY DEF Live, Expired, TypeInv, RowT

(* A step that stores nothing and moves at most one call.                  *)
LEMMA Quiet ==
  ASSUME BasicInv, ValuesInv, OrderInv', fetched' = fetched, floor' = floor,
         now' \in Nat, now <= now', DOMAIN rows' \subseteq DOMAIN rows,
         \A j \in DOMAIN rows' : rows'[j] = rows[j],
         NEW c, \A d \in Callers \ {c} : call'[d] = call[d],
         \A k : \A p \in Puts(k)' : \E q \in Puts(k) :
           p.value = q.value /\ (q.caller # c => p.caller = q.caller),
         c \in Callers => CallOk(c)'
  PROVE  ValuesInv'
<1>1. \A k : Live(k)' => Live(k) /\ rows'[k] = rows[k]
  BY LiveRow DEF BasicInv
<1>2. PutsInv' /\ FloorInv'
  BY DEF ValuesInv, PutsInv, FloorInv, Answers
<1>3. RowsInv'
  BY <1>1 DEF ValuesInv, RowsInv, Answers
<1>4. ASSUME NEW d \in Callers PROVE CallOk(d)'
  <2>1. CASE d = c
    BY <2>1
  <2>2. CASE d # c
    <3>. DEFINE k == call[d].key
    <3>1. call'[d] = call[d] /\ CallOk(d)
      BY <2>2 DEF ValuesInv
    <3>2. \A j : Untouched(d, j)
      BY <1>1, <2>2 DEF Untouched
    <3>. QED BY <3>1, <3>2, CallUntouched
  <2>. QED BY <2>1, <2>2
<1>. QED BY <1>2, <1>3, <1>4 DEF ValuesInv

LEMMA CallValues ==
  ASSUME BasicInv, ValuesInv, NEW c \in Callers, NEW k \in Keys, Call(c, k)
  PROVE  ValuesInv'
<1>1. /\ queue' = queue /\ fetched' = fetched /\ floor' = floor /\ rows' = rows /\ now' = now /\ now \in Nat
      /\ call'[c].at = "waiting" /\ ~call'[c].unread /\ \A d \in Callers \ {c} : call'[d] = call[d]
  BY DEF Call, BasicInv, TypeInv, NoCall
<1>2. OrderInv' /\ \A j : Puts(j)' = Puts(j)
  BY <1>1, SameQueue DEF ValuesInv
<1>. QED BY <1>1, <1>2, NothingKnown, Quiet

LEMMA LookValues ==
  ASSUME BasicInv, ValuesInv, NEW c \in Callers, Look(c)
  PROVE  ValuesInv'
<1>1. /\ fetched' = fetched /\ floor' = floor /\ rows' = rows /\ now' = now /\ now \in Nat
      /\ \A d \in Callers \ {c} : call'[d] = call[d]
  BY DEF Look, BasicInv, TypeInv
<1>2. CallOk(c)'
  <2>1. ~call[c].unread /\ call[c] \in CallT
    BY DEF Look, ValuesInv, CallOk, BasicInv, TypeInv
  <2>2. \/ call'[c].at = "reading" /\ ~call'[c].unread
        \/ call'[c].at = "fetching" /\ call'[c].unread
    BY <2>1 DEF Look, BasicInv, TypeInv, CallT
  <2>. QED BY <2>2, NothingKnown
<1>3. OrderInv' /\ \A j : Puts(j)' = Puts(j)
  <2>1. CASE queue' = queue
    BY <2>1, SameQueue DEF ValuesInv
  <2>2. CASE queue' = Append(queue, Job("get", c, call[c].key, 0, 0))
    <3>. DEFINE j == Job("get", c, call[c].key, 0, 0)
    <3>1. j \in JobT /\ j.kind = "get"
      BY DEF Job, JobT, BasicInv, TypeInv, CallT
    <3>. HIDE DEF j
    <3>2. queue' = Append(queue, j)
      BY <2>2 DEF j
    <3>. QED BY <3>1, <3>2, LongerQueue DEF ValuesInv
  <2>. QED BY <2>1, <2>2 DEF Look
<1>. QED BY <1>1, <1>2, <1>3, Quiet

LEMMA FailValues ==
  ASSUME BasicInv, ValuesInv, NEW c \in Callers, FetchFails(c)
  PROVE  ValuesInv'
<1>1. /\ queue' = queue /\ fetched' = fetched /\ floor' = floor /\ rows' = rows /\ now' = now /\ now \in Nat
      /\ call'[c].at = "failed" /\ \A d \in Callers \ {c} : call'[d] = call[d]
  BY DEF FetchFails, BasicInv, TypeInv, CallT
<1>2. OrderInv' /\ \A j : Puts(j)' = Puts(j)
  BY <1>1, SameQueue DEF ValuesInv
<1>. QED BY <1>1, <1>2, NothingKnown, Quiet

LEMMA DropValues ==
  ASSUME BasicInv, ValuesInv, NEW c \in Callers, Drop(c)
  PROVE  ValuesInv'
<1>1. /\ fetched' = fetched /\ floor' = floor /\ rows' = rows /\ now' = now /\ now \in Nat
      /\ call'[c].at = "idle" /\ \A d \in Callers \ {c} : call'[d] = call[d]
  BY DEF Drop, BasicInv, TypeInv, NoCall
<1>2. OrderInv' /\ \A k : \A p \in Puts(k)' : \E q \in Puts(k) :
        p.value = q.value /\ (q.caller # c => p.caller = q.caller)
  BY DisownedQueue DEF ValuesInv
<1>. QED BY <1>1, <1>2, NothingKnown, Quiet

LEMMA IdleValues ==
  ASSUME BasicInv, ValuesInv, Maintain \/ Tick \/ UNCHANGED vars
  PROVE  ValuesInv'
<1>1. /\ fetched' = fetched /\ floor' = floor /\ rows' = rows /\ call' = call
      /\ now' \in Nat /\ now <= now'
  BY DEF Maintain, Tick, vars, BasicInv, TypeInv
<1>2. OrderInv' /\ \A j : Puts(j)' = Puts(j)
  <2>1. CASE queue' = queue
    BY <2>1, SameQueue DEF ValuesInv
  <2>2. CASE Maintain
    <3>. DEFINE j == Job("sweep", None, 0, 0, 0)
    <3>1. j \in JobT /\ j.kind = "sweep"
      BY DEF Job, JobT
    <3>. HIDE DEF j
    <3>2. queue' = Append(queue, j)
      BY <2>2 DEF j, Maintain
    <3>. QED BY <3>1, <3>2, LongerQueue DEF ValuesInv
  <2>. QED BY <2>1, <2>2 DEF Tick, vars
<1>3. None \notin Callers
  BY NumbersAreNumbers
<1>. QED BY <1>1, <1>2, <1>3, Quiet

LEMMA ReopenValues ==
  ASSUME BasicInv, ValuesInv, Reopen
  PROVE  ValuesInv'
<1>1. /\ fetched' = fetched /\ floor' = floor /\ rows' = rows /\ now' = now
      /\ \A c \in Callers : call'[c].at = "idle"
      /\ queue' = << >>
  BY DEF Reopen, NoCall
<1>2. Jobs' = {}
  BY <1>1 DEF Jobs
<1>3. OrderInv' /\ PutsInv'
  BY <1>2 DEF OrderInv, PutsInv, Puts
<1>4. RowsInv' /\ FloorInv'
  BY <1>1 DEF ValuesInv, RowsInv, FloorInv, Answers, Live, Expired
<1>5. \A c \in Callers : CallOk(c)'
  BY <1>1, NothingKnown
<1>. QED BY <1>3, <1>4, <1>5 DEF ValuesInv

(* What the end of a fetch changes.                                        *)
LEMMA FetchedMoves ==
  ASSUME BasicInv, NEW c \in Callers, NEW charge \in Charges, Fetched(c, charge), NEW key, key = call[c].key
  PROVE  /\ call[c].at = "fetching" /\ key \in Keys /\ call[c] \in CallT
         /\ fetched' = [fetched EXCEPT ![key] = fetched[key] + 1] /\ floor' = floor /\ rows' = rows /\ now' = now
         /\ \A d \in Callers \ {c} : call'[d] = call[d]
         /\ call'[c].key = key /\ call'[c].got = fetched[key] + 1 /\ call'[c].unread = call[c].unread
         /\ \/ call'[c].at = "writing" /\ queue' = Append(queue, Job("put", c, key, fetched[key] + 1, charge))
            \/ call'[c].at = "answering" /\ call'[c].unwritten /\ queue' = queue
<1>. DEFINE n == fetched[key] + 1
            j == Job("put", c, key, n, charge)
<1>0. call[c].at = "fetching" /\ key \in Keys /\ call[c] \in CallT
  BY DEF BasicInv, TypeInv, LinesInv, Droppable, Fetched
<1>. DEFINE stored == HasRoom /\ Storable(charge)
            x == [call[c] EXCEPT !.got = n, !.unwritten = ~stored,
                                 !.at = IF stored THEN "writing" ELSE "answering"]
<1>1. /\ fetched' = [fetched EXCEPT ![key] = n] /\ floor' = floor /\ rows' = rows /\ now' = now
      /\ call' = [call EXCEPT ![c] = x]
      /\ queue' = IF stored THEN Append(queue, j) ELSE queue
  <2>. HIDE DEF stored, n, j
  <2>. QED BY DEF Fetched, stored, n, j, BasicInv, TypeInv, CallT
<1>2. /\ x.key = key /\ x.got = n /\ x.unread = call[c].unread
      /\ x.unwritten = ~stored /\ x.at = IF stored THEN "writing" ELSE "answering"
  <2>. HIDE DEF stored, n
  <2>. QED BY <1>0 DEF CallT
<1>. HIDE DEF x, stored, n, j
<1>3. call'[c] = x /\ \A d \in Callers \ {c} : call'[d] = call[d]
  BY <1>1 DEF BasicInv, TypeInv
<1>. QED BY <1>0, <1>1, <1>2, <1>3 DEF j, n

LEMMA FetchedValues ==
  ASSUME BasicInv, ValuesInv, NEW c \in Callers, NEW charge \in Charges, Fetched(c, charge)
  PROVE  ValuesInv'
<1>. DEFINE key == call[c].key
            n == fetched[key] + 1
            j == Job("put", c, key, n, charge)
<1>0. call[c].at = "fetching" /\ key \in Keys /\ call[c] \in CallT /\ n \in Nat /\ charge \in Nat
  BY NumbersAreNumbers DEF BasicInv, TypeInv, LinesInv, Droppable, Fetched, Charges
<1>1. /\ fetched' = [fetched EXCEPT ![key] = n] /\ floor' = floor /\ rows' = rows /\ now' = now
      /\ \A d \in Callers \ {c} : call'[d] = call[d]
      /\ call'[c].key = key /\ call'[c].got = n /\ call'[c].unread = call[c].unread
      /\ \/ call'[c].at = "writing" /\ queue' = Append(queue, j)
         \/ call'[c].at = "answering" /\ call'[c].unwritten /\ queue' = queue
  BY FetchedMoves
<1>2. /\ \A k \in Keys : fetched[k] \in Nat /\ fetched'[k] \in Nat /\ fetched[k] <= fetched'[k] /\ floor[k] \in Nat
      /\ fetched'[key] = n
      /\ \A k \in Keys \ {key} : fetched'[k] = fetched[k]
  BY <1>0, <1>1 DEF BasicInv, TypeInv
<1>3. j \in JobT /\ j.kind = "put" /\ j.key = key /\ j.value = n /\ j.caller = c
  BY <1>0 DEF Job, JobT
<1>4. \A i \in Jobs : queue[i].kind = "get" /\ queue[i].key = key => queue[i].caller = None
  <2>. SUFFICES ASSUME NEW i \in Jobs, queue[i].kind = "get", queue[i].key = key, queue[i].caller # None
                PROVE  FALSE
    OBVIOUS
  <2>. DEFINE d == queue[i].caller
  <2>1. d \in Callers /\ Asked(queue[i], call[d])
    BY JobsAreJobs DEF BasicInv, OwnersInv, JobT
  <2>2. call[d].at = "reading" /\ call[d].key = key
    BY <2>1 DEF Asked
  <2>. HIDE DEF d
  <2>. QED BY <1>0, <2>1, <2>2, Exclusive DEF Busy
<1>5. \A p \in Puts(key) : p.value < n
  BY <1>0, <1>2 DEF ValuesInv, PutsInv, Answers
<1>6. /\ OrderInv'
      /\ \/ call'[c].at = "writing" /\ \A k : Puts(k)' = IF k = key THEN Puts(k) \cup {j} ELSE Puts(k)
         \/ call'[c].at = "answering" /\ call'[c].unwritten /\ \A k : Puts(k)' = Puts(k)
  <2>. HIDE DEF j, n, key
  <2>1. CASE call'[c].at = "writing" /\ queue' = Append(queue, j)
    BY <1>3, <1>4, <1>5, <2>1, LongerQueue DEF ValuesInv
  <2>2. CASE call'[c].at = "answering" /\ call'[c].unwritten /\ queue' = queue
    BY <2>2, SameQueue DEF ValuesInv
  <2>. QED BY <1>1, <2>1, <2>2
<1>. HIDE DEF j, key
<1>7. \A k : Live(k)' = Live(k)
  BY <1>1 DEF Live, Expired
<1>8. floor[key] <= n /\ n >= 1
  BY <1>0, <1>2 DEF ValuesInv, FloorInv
<1>. HIDE DEF n
<1>9. PutsInv'
  <2>. SUFFICES ASSUME NEW k \in Keys, NEW p \in Puts(k)'
                PROVE  p.value \in Answers(k)' /\ floor'[k] <= p.value
    BY DEF PutsInv
  <2>1. CASE p \in Puts(k)
    BY <1>1, <1>2, <2>1 DEF ValuesInv, PutsInv, Answers
  <2>2. CASE p = j /\ k = key
    BY <1>0, <1>1, <1>2, <1>3, <1>8, <2>2 DEF Answers
  <2>. QED BY <1>6, <2>1, <2>2
<1>10. RowsInv'
  <2>1. \A k \in DOMAIN rows : k \in Keys
    BY DEF BasicInv, TypeInv
  <2>. QED BY <1>1, <1>2, <1>7, <2>1 DEF ValuesInv, RowsInv, Answers
<1>11. FloorInv'
  BY <1>1, <1>2 DEF ValuesInv, FloorInv
<1>12. CallOk(c)'
  <2>. SUFFICES ASSUME NEW k \in Keys, k = key PROVE CallOk(c)'
    BY <1>0
  <2>1. CallOk(c) /\ (~call[c].unread => NothingToRead(k))
    BY <1>0 DEF ValuesInv, CallOk, key
  <2>2. n \in Answers(k)' /\ n = fetched'[k]
    BY <1>0, <1>2, <1>8 DEF Answers
  <2>3. ~call[c].unread => ~Live(k)' /\ \A p \in Puts(k)' : p = j
    BY <1>6, <1>7, <2>1 DEF NothingToRead
  <2>4. call'[c].at = "answering" /\ ~call[c].unread => Puts(k)' = {}
    BY <1>6, <2>1 DEF NothingToRead
  <2>5. call'[c].key = k /\ floor'[k] <= n
    BY <1>1, <1>8
  <2>. QED BY <1>0, <1>1, <1>3, <2>2, <2>3, <2>4, <2>5 DEF CallOk
<1>13. ASSUME NEW d \in Callers, d # c PROVE CallOk(d)'
  <2>1. CallOk(d) /\ call'[d] = call[d]
    BY <1>1, <1>13 DEF ValuesInv
  <2>2. ASSUME NEW k, k = call[d].key, call[d].at \in Busy PROVE Untouched(d, k)
    <3>1. k # key /\ k \in Keys
      BY <1>0, <1>13, <2>2, Exclusive DEF BasicInv, LinesInv, Busy, Droppable, key
    <3>2. Puts(k)' = Puts(k)
      BY <1>6, <3>1
    <3>. QED BY <1>1, <1>2, <1>7, <3>1, <3>2 DEF Untouched
  <2>. QED BY <2>1, <2>2, CallUntouched
<1>. QED BY <1>6, <1>9, <1>10, <1>11, <1>12, <1>13 DEF ValuesInv

LEMMA ReturnValues ==
  ASSUME BasicInv, ValuesInv, NEW c \in Callers, Return(c)
  PROVE  ValuesInv'
<1>. DEFINE key == call[c].key
            got == call[c].got
<1>0. /\ call[c].at = "answering" /\ key \in Keys /\ call[c] \in CallT
      /\ fetched' = fetched /\ rows' = rows /\ now' = now /\ queue' = queue
      /\ call'[c].at = "done" /\ call'[c].got = got
      /\ \A d \in Callers \ {c} : call'[d] = call[d]
      /\ \/ floor' = floor
         \/ floor' = [floor EXCEPT ![key] = got] /\ ~(call[c].unread /\ call[c].unwritten)
  BY DEF BasicInv, TypeInv, LinesInv, Droppable, Return, CallT
<1>1. /\ got \in Answers(key) /\ floor[key] <= got
      /\ ~(call[c].unread /\ call[c].unwritten) => /\ Live(key) => got <= rows[key].value
                                                  /\ \A p \in Puts(key) : got <= p.value
  BY <1>0 DEF ValuesInv, CallOk
<1>. HIDE DEF key, got
<1>2. OrderInv' /\ \A k : Puts(k)' = Puts(k)
  BY <1>0, SameQueue DEF ValuesInv
<1>3. \A k : Live(k)' = Live(k) /\ Answers(k)' = Answers(k)
  BY <1>0 DEF Live, Expired, Answers
<1>4. \A k \in Keys : floor'[k] = floor[k] \/ (k = key /\ floor'[k] = got /\ ~(call[c].unread /\ call[c].unwritten))
  BY <1>0 DEF BasicInv, TypeInv
<1>5. PutsInv'
  BY <1>1, <1>2, <1>3, <1>4 DEF ValuesInv, PutsInv
<1>6. RowsInv'
  <2>1. \A k \in DOMAIN rows : k \in Keys
    BY DEF BasicInv, TypeInv
  <2>. QED BY <1>0, <1>1, <1>3, <1>4, <2>1 DEF ValuesInv, RowsInv
<1>7. FloorInv'
  BY <1>0, <1>1, <1>4 DEF ValuesInv, FloorInv, Answers, BasicInv, TypeInv
<1>8. CallOk(c)'
  <2>1. got >= 1
    BY <1>1 DEF Answers
  <2>. QED BY <1>0, <2>1 DEF CallOk
<1>9. ASSUME NEW d \in Callers, d # c PROVE CallOk(d)'
  <2>1. CallOk(d) /\ call'[d] = call[d]
    BY <1>0, <1>9 DEF ValuesInv
  <2>2. ASSUME NEW k, k = call[d].key, call[d].at \in Busy PROVE Untouched(d, k)
    <3>1. k # key /\ k \in Keys
      BY <1>0, <1>9, <2>2, Exclusive DEF BasicInv, LinesInv, Busy, Droppable, key
    <3>. QED BY <1>0, <1>2, <1>3, <1>4, <3>1 DEF Untouched
  <2>. QED BY <2>1, <2>2, CallUntouched
<1>. QED BY <1>2, <1>5, <1>6, <1>7, <1>8, <1>9 DEF ValuesInv

(* What a job says to the call that waits for it.                          *)
LEMMA Replied ==
  ASSUME BasicInv, NEW kind, Run(kind), NEW x, Reply(x), NEW c, c = Head(queue).caller
  PROVE  /\ \A d \in Callers \ {c} : call'[d] = call[d]
         /\ c \in Callers => /\ call'[c] = x /\ call[c] = Asking /\ call[c] \in CallT
                             /\ call[c].key = Head(queue).key
                             /\ kind = "get" => call[c].at = "reading"
                             /\ kind = "put" => call[c].at = "writing" /\ call[c].got = Head(queue).value
<1>1. Head(queue) = queue[1] /\ queue[1].kind = kind
  BY FirstJob
<1>2. \A d \in Callers \ {c} : call'[d] = call[d]
  BY DEF Reply, BasicInv, TypeInv
<1>3. ASSUME c \in Callers
      PROVE  call'[c] = x /\ call[c] = Asking /\ call[c] \in CallT /\ Asked(Head(queue), call[c])
  <2>1. c # None
    BY <1>3, NumbersAreNumbers
  <2>2. Asking = call[c] /\ Asking \in CallT /\ Asked(Head(queue), Asking)
    BY <1>1, <2>1, FirstJob
  <2>3. call'[c] = x
    BY <1>3, <2>1 DEF Reply, BasicInv, TypeInv
  <2>. QED BY <2>2, <2>3
<1>. QED BY <1>1, <1>2, <1>3 DEF Asked

(* The queue and the rest of a job that stores nothing.                    *)
LEMMA JobRun ==
  ASSUME BasicInv, ValuesInv, NEW kind, Run(kind)
  PROVE  /\ OrderInv' /\ \A k : Puts(k)' \subseteq Puts(k)
         /\ fetched' = fetched /\ floor' = floor /\ now' = now /\ now \in Nat
         /\ Head(queue) \in JobT /\ Head(queue).kind = kind
         /\ kind # "sweep" => Head(queue).key \in Keys
BY FirstJob, ShorterQueue DEF ValuesInv, BasicInv, TypeInv

LEMMA GetValues ==
  ASSUME BasicInv, ValuesInv, GetJob
  PROVE  ValuesInv'
<1>0. Run("get") /\ rows' = rows
  BY DEF GetJob
<1>1. /\ OrderInv' /\ \A k : Puts(k)' \subseteq Puts(k)
      /\ fetched' = fetched /\ floor' = floor /\ now' = now /\ now \in Nat
  BY <1>0, JobRun
<1>. SUFFICES ASSUME NEW c, c = Head(queue).caller, NEW k, k = Head(queue).key PROVE ValuesInv'
  OBVIOUS
<1>. DEFINE x == IF Live(k) THEN [Asking EXCEPT !.at = "answering", !.got = rows[k].value]
                            ELSE [Asking EXCEPT !.at = "fetching"]
<1>2. Reply(x)
  BY DEF GetJob
<1>3. /\ \A d \in Callers \ {c} : call'[d] = call[d]
      /\ c \in Callers => call'[c] = x /\ call[c] = Asking /\ call[c] \in CallT /\ call[c].key = k /\ call[c].at = "reading"
  <2>. HIDE DEF x
  <2>. QED BY <1>0, <1>2, Replied
<1>4. ASSUME c \in Callers PROVE CallOk(c)'
  <2>1. ~call[c].unread
    BY <1>3, <1>4 DEF ValuesInv, CallOk
  <2>2. Puts(k)' = {}
    <3>1. c # None
      BY <1>4, NumbersAreNumbers
    <3>. QED BY <1>0, <3>1, FirstJob, ShorterQueue DEF ValuesInv
  <2>3. Live(k)' = Live(k) /\ Answers(k)' = Answers(k)
    BY <1>0, <1>1 DEF Live, Expired, Answers
  <2>4. CASE Live(k)
    <3>0. x = [call[c] EXCEPT !.at = "answering", !.got = rows[k].value]
      BY <1>3, <1>4, <2>4
    <3>1. /\ call'[c].at = "answering" /\ call'[c].key = k /\ call'[c].got = rows[k].value /\ ~call'[c].unread
      <4>. HIDE DEF x
      <4>. QED BY <1>3, <1>4, <2>1, <3>0 DEF CallT
    <3>2. rows[k].value \in Answers(k) /\ floor[k] <= rows[k].value /\ rows[k].value \in Nat
      BY <2>4 DEF ValuesInv, RowsInv, Live, BasicInv, TypeInv, RowT
    <3>. QED BY <1>0, <1>1, <2>2, <2>3, <3>1, <3>2 DEF CallOk
  <2>5. CASE ~Live(k)
    <3>1. call'[c].at = "fetching" /\ call'[c].key = k
      BY <1>3, <1>4, <2>5 DEF CallT
    <3>2. NothingToRead(k)'
      BY <2>2, <2>3, <2>5 DEF NothingToRead
    <3>. QED BY <3>1, <3>2 DEF CallOk
  <2>. QED BY <2>4, <2>5
<1>5. \A j : \A p \in Puts(j)' : \E q \in Puts(j) : p.value = q.value /\ (q.caller # c => p.caller = q.caller)
  BY <1>1
<1>. QED BY <1>0, <1>1, <1>3, <1>4, <1>5, Quiet

LEMMA GetFailsValues ==
  ASSUME BasicInv, ValuesInv, GetFails
  PROVE  ValuesInv'
<1>. DEFINE x == [Asking EXCEPT !.at = "fetching", !.unread = TRUE]
<1>0. Run("get") /\ rows' = rows /\ Reply(x)
  BY DEF GetFails
<1>. SUFFICES ASSUME NEW c, c = Head(queue).caller PROVE ValuesInv'
  OBVIOUS
<1>1. /\ OrderInv' /\ \A k : Puts(k)' \subseteq Puts(k)
      /\ fetched' = fetched /\ floor' = floor /\ now' = now /\ now \in Nat
  BY <1>0, JobRun
<1>2. /\ \A d \in Callers \ {c} : call'[d] = call[d]
      /\ c \in Callers => call'[c] = x /\ Asking \in CallT
  <2>. HIDE DEF x
  <2>. QED BY <1>0, Replied
<1>3. c \in Callers => CallOk(c)'
  BY <1>2, NothingKnown DEF CallT
<1>4. \A k : \A p \in Puts(k)' : \E q \in Puts(k) : p.value = q.value /\ (q.caller # c => p.caller = q.caller)
  BY <1>1
<1>. QED BY <1>0, <1>1, <1>2, <1>3, <1>4, Quiet

LEMMA PutFailsValues ==
  ASSUME BasicInv, ValuesInv, PutFails
  PROVE  ValuesInv'
<1>. DEFINE x == [Asking EXCEPT !.at = "answering", !.unwritten = TRUE]
<1>0. Run("put") /\ rows' = rows /\ Reply(x)
  BY DEF PutFails
<1>. SUFFICES ASSUME NEW c, c = Head(queue).caller, NEW k, k = Head(queue).key PROVE ValuesInv'
  OBVIOUS
<1>1. /\ OrderInv' /\ \A j : Puts(j)' \subseteq Puts(j)
      /\ fetched' = fetched /\ floor' = floor /\ now' = now /\ now \in Nat /\ k \in Keys
  BY <1>0, JobRun
<1>2. /\ \A d \in Callers \ {c} : call'[d] = call[d]
      /\ c \in Callers => /\ call'[c] = x /\ call[c] = Asking /\ Asking \in CallT /\ call[c].key = k
                          /\ call[c].at = "writing" /\ call[c].got = Head(queue).value
  <2>. HIDE DEF x
  <2>. QED BY <1>0, Replied
<1>3. ASSUME c \in Callers PROVE CallOk(c)'
  <2>1. /\ call'[c].at = "answering" /\ call'[c].key = k /\ call'[c].got = call[c].got
        /\ call'[c].unread = call[c].unread /\ call'[c].unwritten
    BY <1>2, <1>3 DEF CallT
  <2>2. /\ call[c].got \in Answers(k) /\ call[c].got = fetched[k]
        /\ ~call[c].unread => ~Live(k) /\ \A p \in Puts(k) : p.caller = c
    BY <1>2, <1>3 DEF ValuesInv, CallOk
  <2>3. ~call[c].unread => Puts(k)' = {}
    <3>1. c # None
      BY <1>3, NumbersAreNumbers
    <3>2. \A p \in Puts(k)' : p.caller = c => p.caller = None
      BY <1>0, FirstJob, ShorterQueue DEF ValuesInv
    <3>. QED BY <1>1, <2>2, <3>1, <3>2
  <2>4. Live(k)' = Live(k) /\ Answers(k)' = Answers(k)
    BY <1>0, <1>1 DEF Live, Expired, Answers
  <2>5. floor'[k] <= call[c].got
    BY <1>1, <2>2 DEF ValuesInv, FloorInv
  <2>. QED BY <1>1, <2>1, <2>2, <2>3, <2>4, <2>5 DEF CallOk
<1>4. \A j : \A p \in Puts(j)' : \E q \in Puts(j) : p.value = q.value /\ (q.caller # c => p.caller = q.caller)
  BY <1>1
<1>. QED BY <1>0, <1>1, <1>2, <1>3, <1>4, Quiet

LEMMA SweepValues ==
  ASSUME BasicInv, ValuesInv, SweepJob
  PROVE  ValuesInv'
<1>0. Run("sweep") /\ call' = call
  BY DEF SweepJob
<1>1. /\ OrderInv' /\ \A k : Puts(k)' \subseteq Puts(k)
      /\ fetched' = fetched /\ floor' = floor /\ now' = now /\ now \in Nat
  BY <1>0, JobRun
<1>2. DOMAIN rows' \subseteq DOMAIN rows /\ \A j \in DOMAIN rows' : rows'[j] = rows[j]
  BY DEF SweepJob
<1>3. \A k : \A p \in Puts(k)' : \E q \in Puts(k) : p.value = q.value /\ (q.caller # None => p.caller = q.caller)
  BY <1>1
<1>. QED BY <1>0, <1>1, <1>2, <1>3, NumbersAreNumbers, Quiet

LEMMA PutValues ==
  ASSUME BasicInv, ValuesInv, PutJob
  PROVE  ValuesInv'
<1>. DEFINE x == [Asking EXCEPT !.at = "answering"]
<1>0. Run("put") /\ Reply(x)
  BY DEF PutJob
<1>. SUFFICES ASSUME NEW c, c = Head(queue).caller, NEW key, key = Head(queue).key,
                     NEW v, v = Head(queue).value
              PROVE  ValuesInv'
  OBVIOUS
<1>1. /\ OrderInv' /\ \A k : Puts(k)' \subseteq Puts(k)
      /\ fetched' = fetched /\ floor' = floor /\ now' = now /\ now \in Nat /\ key \in Keys
      /\ Head(queue) \in Puts(key) /\ \A p \in Puts(key)' : v < p.value
  BY <1>0, JobRun, FirstJob, ShorterQueue DEF ValuesInv
<1>2. /\ \A d \in Callers \ {c} : call'[d] = call[d]
      /\ c \in Callers => /\ call'[c] = x /\ call[c] = Asking /\ Asking \in CallT /\ call[c].key = key
                          /\ call[c].at = "writing" /\ call[c].got = v
  <2>. HIDE DEF x
  <2>. QED BY <1>0, Replied
<1>3. /\ DOMAIN rows' \subseteq DOMAIN rows \cup {key} /\ key \in DOMAIN rows'
      /\ \A k \in DOMAIN rows' \ {key} : rows'[k] = rows[k] /\ k \in DOMAIN rows
      /\ rows'[key].value = v
  <2>1. PICK stale : rows' = [k \in KeptRows(stale) \cup {Head(queue).key} |->
                                IF k # Head(queue).key THEN rows[k] ELSE NewRow(Head(queue))]
    BY Stored
  <2>2. KeptRows(stale) \subseteq DOMAIN rows
    BY DEF KeptRows, Spared
  <2>3. NewRow(Head(queue)).value = v
    BY DEF NewRow
  <2>. QED BY <2>1, <2>2, <2>3
<1>4. v \in Answers(key) /\ floor[key] <= v /\ v \in Nat
  BY <1>1, <1>0, JobRun DEF ValuesInv, PutsInv, JobT
<1>5. \A k : k # key => (Live(k)' => Live(k) /\ rows'[k] = rows[k])
  BY <1>1, <1>3 DEF Live, Expired
<1>6. \A k : Answers(k)' = Answers(k)
  BY <1>1 DEF Answers
<1>7. PutsInv' /\ FloorInv'
  BY <1>1, <1>6 DEF ValuesInv, PutsInv, FloorInv
<1>8. RowsInv'
  <2>. SUFFICES ASSUME NEW k \in DOMAIN rows'
                PROVE  rows'[k].value \in Answers(k)' /\ (Live(k)' => floor'[k] <= rows'[k].value)
    BY DEF RowsInv
  <2>1. CASE k = key
    BY <1>1, <1>3, <1>4, <1>6, <2>1
  <2>2. CASE k # key
    BY <1>1, <1>3, <1>5, <1>6, <2>2 DEF ValuesInv, RowsInv
  <2>. QED BY <2>1, <2>2
<1>9. ASSUME c \in Callers PROVE CallOk(c)'
  <2>1. call'[c].at = "answering" /\ call'[c].key = key /\ call'[c].got = v /\ v = fetched[key]
    BY <1>2, <1>9 DEF CallT, ValuesInv, CallOk
  <2>2. \A p \in Puts(key)' : v <= p.value
    <3>1. \A p \in Puts(key)' : p.value \in Nat
      BY <1>1 DEF ValuesInv, PutsInv, Answers
    <3>. QED BY <1>1, <1>4, <3>1
  <2>. QED BY <1>1, <1>3, <1>4, <1>6, <2>1, <2>2 DEF CallOk
<1>10. ASSUME NEW d \in Callers, d # c PROVE CallOk(d)'
  <2>1. CallOk(d) /\ call'[d] = call[d]
    BY <1>2, <1>10 DEF ValuesInv
  <2>2. CASE call[d].key # key \/ call[d].at \notin Busy
    <3>1. ASSUME NEW k, k = call[d].key, call[d].at \in Busy PROVE Untouched(d, k)
      BY <1>1, <1>5, <2>2, <3>1 DEF Untouched
    <3>. QED BY <2>1, <3>1, CallUntouched
  <2>3. CASE call[d].key = key /\ call[d].at \in Busy
    <3>. DEFINE a == call[d]
    <3>1. a.at \notin {"fetching", "writing"} \/ a.unread
      BY <1>1, <1>10, <2>1, <2>3 DEF CallOk, NothingToRead
    <3>2. ~(a.unread /\ a.unwritten) /\ a.at = "answering" => a.got <= v
      BY <1>1, <2>1, <2>3 DEF CallOk
    <3>3. a.at = "answering" =>
            /\ a.got \in Answers(key)' /\ floor'[key] <= a.got
            /\ a.unread /\ a.unwritten => a.got = fetched'[key]
            /\ ~(a.unread /\ a.unwritten) => /\ Live(key)' => a.got <= rows'[key].value
                                            /\ \A p \in Puts(key)' : a.got <= p.value
      BY <1>1, <1>3, <1>6, <2>1, <2>3, <3>2 DEF CallOk
    <3>4. a.at \in {"waiting", "reading"} => ~a.unread
      BY <2>1 DEF CallOk
    <3>5. a.at = "writing" => a.got \in Answers(key)' /\ a.got = fetched'[key]
      BY <1>1, <1>6, <2>1, <2>3 DEF CallOk
    <3>6. a.at # "done"
      BY <2>3 DEF Busy
    <3>7. call'[d] = a /\ a.key = key
      BY <2>1, <2>3
    <3>. HIDE DEF a
    <3>. QED BY <3>1, <3>3, <3>4, <3>5, <3>6, <3>7 DEF CallOk
  <2>. QED BY <2>2, <2>3
<1>. QED BY <1>1, <1>7, <1>8, <1>9, <1>10 DEF ValuesInv

LEMMA NextValues == BasicInv /\ ValuesInv /\ [Next]_vars => ValuesInv'
<1>. SUFFICES ASSUME BasicInv, ValuesInv, [Next]_vars PROVE ValuesInv'
  OBVIOUS
<1>1. ASSUME NEW c \in Callers, NEW k \in Keys, Call(c, k) PROVE ValuesInv'
  BY <1>1, CallValues
<1>2. ASSUME NEW c \in Callers, NEW charge \in Charges, Fetched(c, charge) PROVE ValuesInv'
  BY <1>2, FetchedValues
<1>3. ASSUME NEW c \in Callers, Look(c) \/ FetchFails(c) \/ Return(c) \/ Drop(c) PROVE ValuesInv'
  BY <1>3, LookValues, FailValues, ReturnValues, DropValues
<1>. QED BY <1>1, <1>2, <1>3, GetValues, PutValues, PutFailsValues, GetFailsValues, SweepValues,
            IdleValues, ReopenValues DEF Next

LEMMA InitValues == Init => ValuesInv
<1>. SUFFICES ASSUME Init PROVE ValuesInv
  OBVIOUS
<1>1. Jobs = {} /\ DOMAIN rows = {}
  BY DEF Init, Jobs
<1>2. OrderInv /\ PutsInv /\ RowsInv /\ FloorInv
  BY <1>1 DEF Init, OrderInv, PutsInv, Puts, RowsInv, FloorInv
<1>3. \A c \in Callers : CallOk(c)
  BY DEF Init, NoCall, CallOk
<1>. QED BY <1>2, <1>3 DEF ValuesInv

(* What rows, jobs and calls hold was fetched for their key, and none is   *)
(* older than what the caller could have found when it asked (storage.rs,  *)
(* Cache::json).                                                           *)
THEOREM Valued == Spec => []ValuesInv
BY InitValues, NextValues, Typed, PTL DEF Spec
-----------------------------------------------------------------------------
(***************************************************************************)
(* The cache implements its contract.                                      *)
(***************************************************************************)
FetchMap == [k \in Keys |-> Fetching(k)]
AnswerMap == [c \in Callers |-> IF call[c].at = "done" THEN call[c].got ELSE 0]

Fetches(c, k) == call[c].at = "fetching" /\ call[c].key = k

(* The fetch of a key is that of its one fetcher.                          *)
FetchesKnown ==
  \A k \in Keys : /\ \A c \in Callers : Fetches(c, k) => FetchMap[k] = c
                  /\ (\A c \in Callers : ~Fetches(c, k)) => FetchMap[k] = None

LEMMA FetchersKnown == BasicInv => FetchesKnown
<1>. SUFFICES ASSUME BasicInv, NEW k \in Keys
              PROVE  /\ \A c \in Callers : Fetches(c, k) => FetchMap[k] = c
                     /\ (\A c \in Callers : ~Fetches(c, k)) => FetchMap[k] = None
  BY DEF FetchesKnown
<1>. DEFINE F == {c \in Callers : call[c].at = "fetching" /\ call[c].key = k}
<1>1. FetchMap[k] = IF F = {} THEN None ELSE CHOOSE c \in F : TRUE
  BY DEF FetchMap, Fetching
<1>2. ASSUME NEW c \in Callers, Fetches(c, k) PROVE FetchMap[k] = c
  <2>1. c \in F /\ \A d \in F : d = c
    BY <1>2, Exclusive DEF Fetches, Busy
  <2>. HIDE DEF F
  <2>2. F # {} /\ (CHOOSE d \in F : TRUE) \in F
    BY <2>1
  <2>. QED BY <1>1, <2>1, <2>2
<1>3. (\A c \in Callers : ~Fetches(c, k)) => F = {}
  BY DEF Fetches
<1>. QED BY <1>1, <1>2, <1>3

(* What a step that moves one call does to the fetches and the answers.    *)
LEMMA MapsMove ==
  ASSUME BasicInv, BasicInv', NEW c \in Callers, \A d \in Callers \ {c} : call'[d] = call[d],
         NEW k \in Keys
  PROVE  /\ AnswerMap' = [AnswerMap EXCEPT ![c] = IF call'[c].at = "done" THEN call'[c].got ELSE 0]
         /\ call[c].at # "fetching" /\ call'[c].at # "fetching" => FetchMap' = FetchMap
         /\ call[c].at # "fetching" /\ Fetches(c, k)' =>
              FetchMap[k] = None /\ FetchMap' = [FetchMap EXCEPT ![k] = c]
         /\ Fetches(c, k) /\ call'[c].at # "fetching" =>
              FetchMap[k] # None /\ FetchMap' = [FetchMap EXCEPT ![k] = None]
<1>1. FetchesKnown /\ FetchesKnown'
  <2>1. BasicInv' => FetchesKnown'
    BY FetchersKnown, PTL
  <2>. QED BY <2>1, FetchersKnown
<1>2. \A d \in Callers \ {c} : \A j : Fetches(d, j)' <=> Fetches(d, j)
  BY DEF Fetches
<1>3. /\ FetchMap = [j \in Keys |-> FetchMap[j]] /\ FetchMap' = [j \in Keys |-> FetchMap'[j]]
  BY DEF FetchMap
<1>4. AnswerMap' = [AnswerMap EXCEPT ![c] = IF call'[c].at = "done" THEN call'[c].got ELSE 0]
  BY DEF AnswerMap
<1>5. ASSUME NEW j \in Keys, Fetches(c, j)' <=> Fetches(c, j) PROVE FetchMap'[j] = FetchMap[j]
  <2>1. CASE \E d \in Callers : Fetches(d, j)
    <3>1. PICK d \in Callers : Fetches(d, j)
      BY <2>1
    <3>2. Fetches(d, j)'
      BY <1>2, <1>5, <3>1
    <3>. QED BY <1>1, <3>1, <3>2 DEF FetchesKnown
  <2>2. CASE \A d \in Callers : ~Fetches(d, j)
    <3>1. \A d \in Callers : ~Fetches(d, j)'
      BY <1>2, <1>5, <2>2
    <3>. QED BY <1>1, <2>2, <3>1 DEF FetchesKnown
  <2>. QED BY <2>1, <2>2
<1>6. ASSUME call[c].at # "fetching", call'[c].at # "fetching" PROVE FetchMap' = FetchMap
  <2>1. \A j \in Keys : FetchMap'[j] = FetchMap[j]
    BY <1>5, <1>6 DEF Fetches
  <2>. QED BY <1>3, <2>1
<1>7. ASSUME call[c].at # "fetching", Fetches(c, k)'
      PROVE  FetchMap[k] = None /\ FetchMap' = [FetchMap EXCEPT ![k] = c]
  <2>1. \A j \in Keys \ {k} : FetchMap'[j] = FetchMap[j]
    BY <1>5, <1>7 DEF Fetches
  <2>2. FetchMap'[k] = c
    BY <1>1, <1>7 DEF FetchesKnown
  <2>3. \A d \in Callers : ~Fetches(d, k)
    <3>1. \A d \in Callers : Fetches(d, k)' => FetchMap'[k] = d
      BY <1>1 DEF FetchesKnown
    <3>. QED BY <1>2, <1>7, <2>2, <3>1 DEF Fetches
  <2>4. FetchMap[k] = None
    BY <1>1, <2>3 DEF FetchesKnown
  <2>. QED BY <1>3, <2>1, <2>2, <2>4
<1>8. ASSUME Fetches(c, k), call'[c].at # "fetching"
      PROVE  FetchMap[k] # None /\ FetchMap' = [FetchMap EXCEPT ![k] = None]
  <2>1. \A j \in Keys \ {k} : FetchMap'[j] = FetchMap[j]
    BY <1>5, <1>8 DEF Fetches
  <2>2. FetchMap[k] = c /\ c # None
    BY <1>1, <1>8, NumbersAreNumbers DEF FetchesKnown
  <2>3. \A d \in Callers : ~Fetches(d, k)'
    <3>1. \A d \in Callers : Fetches(d, k) => FetchMap[k] = d
      BY <1>1 DEF FetchesKnown
    <3>2. ~Fetches(c, k)'
      BY <1>8 DEF Fetches
    <3>. QED BY <1>2, <2>2, <3>1, <3>2
  <2>4. FetchMap'[k] = None
    BY <1>1, <2>3 DEF FetchesKnown
  <2>. QED BY <1>3, <2>1, <2>2, <2>4
<1>. QED BY <1>4, <1>6, <1>7, <1>8

(* A step that leaves the calls alone, or moves one that neither starts a  *)
(* fetch nor ends one nor answers, is not seen.                            *)
LEMMA NotSeen ==
  ASSUME fetched' = fetched, floor' = floor, FetchMap' = FetchMap, AnswerMap' = AnswerMap
  PROVE  UNCHANGED Contract!vars
BY Zenon DEF Contract!vars, FetchMap, AnswerMap

LEMMA BeginsFetch ==
  ASSUME NEW k \in Keys, NEW c \in Callers, FetchMap[k] = None,
         FetchMap' = [FetchMap EXCEPT ![k] = c],
         fetched' = fetched, floor' = floor, AnswerMap' = AnswerMap
  PROVE  Contract!Next
<1>1. Contract!BeginFetch(k, c)
  BY Zenon DEF Contract!BeginFetch, FetchMap, AnswerMap
<1>. QED BY <1>1 DEF Contract!Next

LEMMA EndsFetch ==
  ASSUME NEW k \in Keys, FetchMap[k] # None,
         FetchMap' = [FetchMap EXCEPT ![k] = None],
         fetched' \in {fetched, [fetched EXCEPT ![k] = fetched[k] + 1]}, floor' = floor, AnswerMap' = AnswerMap
  PROVE  Contract!Next
<1>1. Contract!EndFetch(k)
  BY Zenon DEF Contract!EndFetch, FetchMap, AnswerMap
<1>. QED BY <1>1 DEF Contract!Next

LEMMA Forgets ==
  ASSUME NEW c \in Callers, AnswerMap' = [AnswerMap EXCEPT ![c] = 0],
         fetched' = fetched, floor' = floor, FetchMap' = FetchMap
  PROVE  Contract!Next
<1>1. Contract!Forget(c)
  BY Zenon DEF Contract!Forget, FetchMap, AnswerMap
<1>. QED BY <1>1 DEF Contract!Next

LEMMA AnswersCall ==
  ASSUME NEW k \in Keys, NEW c \in Callers, NEW n \in 1 .. fetched[k], floor[k] \in Nat, floor[k] <= n,
         fetched[k] \in Nat,
         AnswerMap' = [AnswerMap EXCEPT ![c] = n],
         floor' = [floor EXCEPT ![k] = n] \/ (n = fetched[k] /\ floor' = floor),
         fetched' = fetched, FetchMap' = FetchMap
  PROVE  Contract!Next
<1>1. n \in floor[k] .. fetched[k]
  OBVIOUS
<1>2. Contract!Answer(c, k, n)
  BY <1>1, Zenon DEF Contract!Answer, FetchMap, AnswerMap
<1>. QED BY <1>2 DEF Contract!Next

LEMMA Stops ==
  ASSUME fetched' = fetched, floor' = floor, \A c \in Callers : call'[c].at = "idle"
  PROVE  Contract!Next
<1>1. /\ \A k \in Keys : {c \in Callers : call'[c].at = "fetching" /\ call'[c].key = k} = {}
      /\ \A c \in Callers : call'[c].at # "done"
  OBVIOUS
<1>2. FetchMap' = [k \in Keys |-> None] /\ AnswerMap' = [c \in Callers |-> 0]
  BY <1>1 DEF FetchMap, Fetching, AnswerMap
<1>3. Contract!Stop
  BY <1>2, Zenon DEF Contract!Stop, FetchMap, AnswerMap
<1>. QED BY <1>3 DEF Contract!Next

LEMMA NoMove == call' = call => FetchMap' = FetchMap /\ AnswerMap' = AnswerMap
BY DEF FetchMap, AnswerMap, Fetching

(* Who is not done stays without an answer.                                *)
LEMMA StillNoAnswer ==
  ASSUME BasicInv, BasicInv', NEW c \in Callers, \A d \in Callers \ {c} : call'[d] = call[d],
         call[c].at # "done", call'[c].at # "done"
  PROVE  AnswerMap' = AnswerMap
BY DEF AnswerMap

(* The job of a call that waited: it begins its fetch or has its answer.   *)
LEMMA ReplyImplements ==
  ASSUME BasicInv, BasicInv', NEW kind \in {"get", "put"}, Run(kind), NEW x, Reply(x),
         Asking \in CallT => x.key = Asking.key /\ x.at \in {"fetching", "answering"}
  PROVE  Contract!Next \/ UNCHANGED Contract!vars
<1>0. fetched' = fetched /\ floor' = floor
  BY DEF Run
<1>1. CASE Head(queue).caller = None
  <2>1. call' = call
    BY <1>1 DEF Reply
  <2>. QED BY <1>0, <2>1, NoMove, NotSeen
<1>2. CASE Head(queue).caller # None
  <2>0. Head(queue).caller \in Callers /\ Head(queue).key \in Keys
    BY <1>2, FirstJob
  <2>. SUFFICES ASSUME NEW c \in Callers, c = Head(queue).caller, NEW k \in Keys, k = Head(queue).key
                PROVE  Contract!Next \/ UNCHANGED Contract!vars
    BY <2>0
  <2>1. /\ \A d \in Callers \ {c} : call'[d] = call[d]
        /\ call'[c] = x /\ call[c] = Asking /\ call[c] \in CallT /\ call[c].key = k
        /\ call[c].at \in {"reading", "writing"}
    BY Replied
  <2>2. call'[c].key = k /\ call'[c].at \in {"fetching", "answering"}
    BY <2>1
  <2>3. AnswerMap' = AnswerMap
    BY <2>1, <2>2, StillNoAnswer
  <2>4. CASE call'[c].at = "fetching"
    <3>1. Fetches(c, k)'
      BY <2>2, <2>4 DEF Fetches
    <3>2. FetchMap[k] = None /\ FetchMap' = [FetchMap EXCEPT ![k] = c]
      BY <2>1, <3>1, MapsMove
    <3>. QED BY <1>0, <2>3, <3>2, BeginsFetch
  <2>5. CASE call'[c].at = "answering"
    <3>1. FetchMap' = FetchMap
      BY <2>1, <2>5, MapsMove
    <3>. QED BY <1>0, <2>3, <3>1, NotSeen
  <2>. QED BY <2>2, <2>4, <2>5
<1>. QED BY <1>1, <1>2

(* The steps of one call.                                                  *)
LEMMA CallerImplements ==
  ASSUME BasicInv, BasicInv', ValuesInv, NEW c \in Callers,
         \/ \E k \in Keys : Call(c, k)
         \/ Look(c)
         \/ \E charge \in Charges : Fetched(c, charge)
         \/ FetchFails(c)
         \/ Return(c)
         \/ Drop(c)
  PROVE  Contract!Next \/ UNCHANGED Contract!vars
<1>0. call[c] \in CallT
  BY DEF BasicInv, TypeInv
<1>1. CASE \E k \in Keys : Call(c, k)
  <2>1. PICK k \in Keys : Call(c, k)
    BY <1>1
  <2>2. /\ fetched' = fetched /\ floor' = floor /\ \A d \in Callers \ {c} : call'[d] = call[d]
        /\ call[c].at # "fetching" /\ call'[c].at = "waiting"
    BY <2>1 DEF Call, BasicInv, TypeInv, NoCall
  <2>3. FetchMap' = FetchMap /\ AnswerMap' = [AnswerMap EXCEPT ![c] = 0]
    BY <2>2, MapsMove
  <2>. QED BY <2>2, <2>3, Forgets
<1>2. CASE Look(c)
  <2>0. call[c].key \in Keys
    BY <1>2 DEF Look, BasicInv, LinesInv, Droppable
  <2>. SUFFICES ASSUME NEW k \in Keys, k = call[c].key PROVE Contract!Next \/ UNCHANGED Contract!vars
    BY <2>0
  <2>1. /\ fetched' = fetched /\ floor' = floor /\ \A d \in Callers \ {c} : call'[d] = call[d]
        /\ call[c].at = "waiting" /\ call'[c].at \in {"reading", "fetching"} /\ call'[c].key = k
    BY <1>0, <1>2 DEF Look, BasicInv, TypeInv, CallT
  <2>2. AnswerMap' = AnswerMap
    BY <2>1, StillNoAnswer
  <2>3. CASE call'[c].at = "fetching"
    <3>1. Fetches(c, k)'
      BY <2>1, <2>3 DEF Fetches
    <3>2. FetchMap[k] = None /\ FetchMap' = [FetchMap EXCEPT ![k] = c]
      BY <2>1, <3>1, MapsMove
    <3>. QED BY <2>1, <2>2, <3>2, BeginsFetch
  <2>4. CASE call'[c].at = "reading"
    <3>1. FetchMap' = FetchMap
      BY <2>1, <2>4, MapsMove
    <3>. QED BY <2>1, <2>2, <3>1, NotSeen
  <2>. QED BY <2>1, <2>3, <2>4
<1>3. CASE (\E charge \in Charges : Fetched(c, charge)) \/ FetchFails(c) \/ (Drop(c) /\ call[c].at = "fetching")
  <2>0. call[c].key \in Keys
    BY <1>3 DEF Fetched, FetchFails, Drop, BasicInv, LinesInv, Droppable
  <2>. SUFFICES ASSUME NEW k \in Keys, k = call[c].key PROVE Contract!Next \/ UNCHANGED Contract!vars
    BY <2>0
  <2>1. /\ fetched' \in {fetched, [fetched EXCEPT ![k] = fetched[k] + 1]}
        /\ floor' = floor /\ \A d \in Callers \ {c} : call'[d] = call[d]
        /\ call[c].at = "fetching" /\ call'[c].at \in {"writing", "answering", "failed", "idle"}
    <3>1. CASE \E charge \in Charges : Fetched(c, charge)
      BY <3>1, FetchedMoves
    <3>2. CASE FetchFails(c)
      BY <1>0, <3>2 DEF FetchFails, BasicInv, TypeInv, CallT
    <3>3. CASE Drop(c) /\ call[c].at = "fetching"
      BY <3>3 DEF Drop, BasicInv, TypeInv, NoCall
    <3>. QED BY <1>3, <3>1, <3>2, <3>3
  <2>2. AnswerMap' = AnswerMap
    BY <2>1, StillNoAnswer
  <2>3. FetchMap[k] # None /\ FetchMap' = [FetchMap EXCEPT ![k] = None]
    <3>1. Fetches(c, k) /\ call'[c].at # "fetching"
      BY <2>1 DEF Fetches
    <3>. QED BY <2>1, <3>1, MapsMove
  <2>. QED BY <2>1, <2>2, <2>3, EndsFetch
<1>4. CASE Drop(c) /\ call[c].at # "fetching"
  <2>1. /\ fetched' = fetched /\ floor' = floor /\ \A d \in Callers \ {c} : call'[d] = call[d]
        /\ call[c].at # "done" /\ call'[c].at = "idle" /\ call[c].key \in Keys
    BY <1>4 DEF Drop, BasicInv, TypeInv, LinesInv, Droppable, NoCall
  <2>2. AnswerMap' = AnswerMap /\ FetchMap' = FetchMap
    BY <1>4, <2>1, StillNoAnswer, MapsMove
  <2>. QED BY <2>1, <2>2, NotSeen
<1>5. CASE Return(c)
  <2>0. call[c].key \in Keys
    BY <1>5 DEF Return, BasicInv, LinesInv, Droppable
  <2>. SUFFICES ASSUME NEW k \in Keys, k = call[c].key, NEW n, n = call[c].got
                PROVE  Contract!Next \/ UNCHANGED Contract!vars
    BY <2>0
  <2>1. /\ fetched' = fetched /\ \A d \in Callers \ {c} : call'[d] = call[d]
        /\ call[c].at = "answering" /\ call'[c].at = "done" /\ call'[c].got = n
        /\ \/ floor' = [floor EXCEPT ![k] = n]
           \/ floor' = floor /\ call[c].unread /\ call[c].unwritten
    BY <1>0, <1>5 DEF Return, BasicInv, TypeInv, CallT
  <2>2. n \in 1 .. fetched[k] /\ floor[k] <= n /\ (call[c].unread /\ call[c].unwritten => n = fetched[k])
    BY <2>1 DEF ValuesInv, CallOk, Answers
  <2>3. AnswerMap' = [AnswerMap EXCEPT ![c] = n] /\ FetchMap' = FetchMap
    BY <2>1, MapsMove
  <2>4. floor[k] \in Nat /\ fetched[k] \in Nat
    BY DEF BasicInv, TypeInv
  <2>. QED BY <2>1, <2>2, <2>3, <2>4, AnswersCall
<1>. QED BY <1>1, <1>2, <1>3, <1>4, <1>5

LEMMA NextImplements ==
  BasicInv /\ BasicInv' /\ ValuesInv /\ [Next]_vars => [Contract!Next]_Contract!vars
<1>. SUFFICES ASSUME BasicInv, BasicInv', ValuesInv, [Next]_vars
              PROVE  Contract!Next \/ UNCHANGED Contract!vars
  BY Zenon
<1>1. CASE GetJob
  <2>. DEFINE k == Head(queue).key
              a == [Asking EXCEPT !.at = "answering", !.got = rows[k].value]
              b == [Asking EXCEPT !.at = "fetching"]
              x == IF Live(k) THEN a ELSE b
  <2>1. Run("get") /\ Reply(x)
    BY <1>1 DEF GetJob
  <2>2. Asking \in CallT => /\ a.key = Asking.key /\ a.at = "answering"
                            /\ b.key = Asking.key /\ b.at = "fetching"
    BY DEF CallT
  <2>. HIDE DEF a, b
  <2>3. Asking \in CallT => x.key = Asking.key /\ x.at \in {"fetching", "answering"}
    BY <2>2
  <2>. HIDE DEF x
  <2>. QED BY <2>1, <2>3, ReplyImplements
<1>2. CASE PutJob \/ PutFails \/ GetFails
  <2>. DEFINE a == [Asking EXCEPT !.at = "answering"]
              b == [Asking EXCEPT !.at = "answering", !.unwritten = TRUE]
              x == [Asking EXCEPT !.at = "fetching", !.unread = TRUE]
  <2>1. Asking \in CallT => /\ a.key = Asking.key /\ a.at = "answering"
                            /\ b.key = Asking.key /\ b.at = "answering"
                            /\ x.key = Asking.key /\ x.at = "fetching"
    BY DEF CallT
  <2>2. \/ Run("put") /\ (Reply(a) \/ Reply(b))
        \/ Run("get") /\ Reply(x)
    BY <1>2 DEF PutJob, PutFails, GetFails
  <2>. HIDE DEF a, b, x
  <2>. QED BY <2>1, <2>2, ReplyImplements
<1>3. CASE Maintain \/ SweepJob \/ Tick \/ UNCHANGED vars
  <2>1. fetched' = fetched /\ floor' = floor /\ call' = call
    BY <1>3 DEF Maintain, SweepJob, Run, Tick, vars
  <2>. QED BY <2>1, NoMove, NotSeen
<1>4. CASE Reopen
  <2>1. fetched' = fetched /\ floor' = floor /\ \A c \in Callers : call'[c].at = "idle"
    BY <1>4 DEF Reopen, NoCall
  <2>. QED BY <2>1, Stops
<1>5. CASE \E c \in Callers : \/ \E k \in Keys : Call(c, k)
                              \/ Look(c)
                              \/ \E charge \in Charges : Fetched(c, charge)
                              \/ FetchFails(c)
                              \/ Return(c)
                              \/ Drop(c)
  BY <1>5, CallerImplements
<1>6. \/ GetJob
      \/ PutJob \/ PutFails \/ GetFails
      \/ Maintain \/ SweepJob \/ Tick \/ UNCHANGED vars
      \/ Reopen
      \/ \E c \in Callers : \/ \E k \in Keys : Call(c, k)
                            \/ Look(c)
                            \/ \E charge \in Charges : Fetched(c, charge)
                            \/ FetchFails(c)
                            \/ Return(c)
                            \/ Drop(c)
  BY Zenon DEF Next
<1>. QED BY <1>1, <1>2, <1>3, <1>4, <1>5, <1>6

LEMMA InitImplements == Init => Contract!Init
<1>. SUFFICES ASSUME Init PROVE Contract!Init
  OBVIOUS
<1>1. \A c \in Callers : call[c].at = "idle"
  BY DEF Init, NoCall
<1>2. /\ \A k \in Keys : {c \in Callers : call[c].at = "fetching" /\ call[c].key = k} = {}
      /\ \A c \in Callers : call[c].at # "done"
  BY <1>1
<1>3. FetchMap = [k \in Keys |-> None] /\ AnswerMap = [c \in Callers |-> 0]
  BY <1>2 DEF FetchMap, Fetching, AnswerMap
<1>4. fetched = [k \in Keys |-> 0] /\ floor = [k \in Keys |-> 0]
  BY DEF Init
<1>. QED BY <1>3, <1>4, Zenon DEF Contract!Init, FetchMap, AnswerMap

(* The cache implements its contract: every step of the table, its queue   *)
(* and its flights is a fetch, an answer or a call of the abstract cache,  *)
(* or changes nothing of it (storage.rs, Cache::json).                     *)
THEOREM ContractTheorem == Spec => KeepsContract
BY InitImplements, NextImplements, Typed, Valued, PTL DEF Spec, KeepsContract, Contract!Spec
=============================================================================
