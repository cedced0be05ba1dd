----------------------------- MODULE Shortlinks -----------------------------
(***************************************************************************)
(* Shortlinks of custom feeds: a durable table of definitions, each under  *)
(* a random identifier.  One thread owns the database and runs the jobs of *)
(* a bounded queue; a job is a transaction, and its answer is sent after   *)
(* it.  A caller may go away while its job is queued or its answer is not  *)
(* sent, and the process may crash between any two steps.                  *)
(*                                                                         *)
(* A definition stands for its canonical text and for the fingerprint of   *)
(* it.  The clock counts the seconds of the rate limit in units of Window. *)
(***************************************************************************)
EXTENDS Naturals, Sequences, FiniteSets

CONSTANTS
  Clients,             \* concurrent callers
  Definitions,         \* canonical feed definitions
  Ids,                 \* identifiers the generator can produce
  Alphanumeric,        \* those that get accepts
  NoId,                \* no identifier, no definition, no caller
  MaxDefinitions,      \* max_definitions
  CreationsPerMinute,  \* creations_per_minute
  Window,              \* the rate limit's minute
  QueueCapacity,       \* jobs the queue holds
  MaxTime              \* bound of the clock

ASSUME ShortlinkAssumption ==
  /\ IsFiniteSet(Definitions) /\ IsFiniteSet(Ids)
  /\ Alphanumeric \subseteq Ids
  /\ NoId \notin Clients \cup Definitions \cup Ids
  /\ MaxTime \in Nat
  /\ {MaxDefinitions, CreationsPerMinute, Window, QueueCapacity}
       \subseteq Nat \ {0}

VARIABLES
  table,    \* the committed rows of definitions
  queue,    \* the jobs of the database thread
  answer,   \* what the job it ran last came to, until that is sent
  call,     \* the call each client makes
  now,      \* the clock
  promised  \* history: the links that callers were told of

vars == <<table, queue, answer, call, now, promised>>

Row == [id : Ids, definition : Definitions, created : Nat]

Save(c, d) == [kind |-> "save", client |-> c, definition |-> d, id |-> NoId]
Get(c, id) == [kind |-> "get", client |-> c, definition |-> NoId, id |-> id]

Job == {Save(c, d) : c \in Clients \cup {NoId}, d \in Definitions}
         \cup {Get(c, id) : c \in Clients \cup {NoId}, id \in Ids}

Answers ==
  [client : Clients \cup {NoId}, at : {"answered"}, id : Ids, definition : Definitions \cup {NoId}]
    \cup [client : Clients \cup {NoId}, at : {"refused"}, id : {NoId}, definition : {NoId}]

(* What a call was answered: an identifier, a definition, or nothing.      *)
Idle == [at |-> "idle", id |-> NoId, definition |-> NoId]

TypeOK ==
  /\ table \subseteq Row
  /\ queue \in Seq(Job) /\ Len(queue) <= QueueCapacity
  /\ answer = << >> \/ \E a \in Answers : answer = <<a>>
  /\ call \in [Clients -> [at : {"idle", "waiting", "answered", "refused"},
                           id : Ids \cup {NoId},
                           definition : Definitions \cup {NoId}]]
  /\ now \in 0 .. MaxTime
  /\ promised \subseteq Ids \X Definitions

Init ==
  /\ table = {}
  /\ queue = << >>
  /\ answer = << >>
  /\ call = [c \in Clients |-> Idle]
  /\ now = 0
  /\ promised = {}
-----------------------------------------------------------------------------
(* call: the job is queued, or the queue is full and the call fails.       *)
HasRoom == Len(queue) < QueueCapacity

Submit(c, job) ==
  /\ call[c].at = "idle"
  /\ IF HasRoom
       THEN /\ queue' = Append(queue, job)
            /\ call' = [call EXCEPT ![c].at = "waiting", ![c].id = job.id,
                                    ![c].definition = job.definition]
       ELSE /\ call' = [call EXCEPT ![c].at = "refused"]
            /\ UNCHANGED queue
  /\ UNCHANGED <<table, answer, now, promised>>

BeginSave(c, d) == Submit(c, Save(c, d))

(* An identifier of the wrong shape is not found, and not looked up.       *)
BeginGet(c, id) ==
  \/ /\ id \in Alphanumeric
     /\ Submit(c, Get(c, id))
  \/ /\ call[c].at = "idle"
     /\ id \notin Alphanumeric
     /\ call' = [call EXCEPT ![c].at = "answered", ![c].id = id]
     /\ UNCHANGED <<table, queue, answer, now, promised>>
-----------------------------------------------------------------------------
(***************************************************************************)
(* The database thread.                                                    *)
(***************************************************************************)
Run(kind) ==
  /\ answer = << >> /\ queue # << >>
  /\ Head(queue).kind = kind
  /\ queue' = Tail(queue)
  /\ UNCHANGED <<call, now, promised>>

(* What the job comes to.                                                  *)
Reply(at, id, definition) ==
  answer' = <<[client |-> Head(queue).client, at |-> at, id |-> id, definition |-> definition]>>

RowsOf(d) == {row \in table : row.definition = d}
RowsAt(id) == {row \in table : row.id = id}

(* The two limits, of all definitions and of those of the last minute.     *)
Full == Cardinality(table) >= MaxDefinitions

\* Mutant: rows of this very second are not counted.
RecentBefore == {row \in table : row.created + Window > now /\ row.created < now}
Recent == {row \in table : row.created + Window > now}
TooFast == Cardinality(Recent) >= CreationsPerMinute

(* The definition is known: its first identifier is answered again.        *)
Known(d) == RowsOf(d) # {}

SaveKnown ==
  LET d == Head(queue).definition IN
    /\ Run("save")
    /\ Known(d)
    /\ \E row \in RowsOf(d) : Reply("answered", row.id, d)
    /\ UNCHANGED table

(* The constraints of the table: PRIMARY KEY and UNIQUE.                   *)
\* Mutant: only the fingerprint is unique.
UniqueFingerprint(id, d) == RowsOf(d) = {}
Unique(id, d) == RowsAt(id) = {} /\ RowsOf(d) = {}

\* Mutant: the transaction is not committed.
NotCommitted(id, d) == UNCHANGED table
Commit(id, d) == table' = table \cup {[id |-> id, definition |-> d, created |-> now]}

(* One of the tries draws an identifier that is not in use.                *)
SaveNew ==
  LET d == Head(queue).definition IN
    /\ Run("save")
    /\ ~Known(d)
    /\ ~Full
    /\ ~TooFast
    /\ \E id \in Ids : Unique(id, d) /\ Commit(id, d) /\ Reply("answered", id, d)

(* A limit is reached, every try drew an identifier in use, or the         *)
(* database fails: the transaction is rolled back.                         *)
Refuse == Reply("refused", NoId, NoId)

JobFails ==
  /\ \E kind \in {"save", "get"} : Run(kind)
  /\ Refuse
  /\ UNCHANGED table

RunGet ==
  LET id == Head(queue).id IN
    /\ Run("get")
    /\ \/ \E row \in RowsAt(id) : Reply("answered", id, row.definition)
       \/ RowsAt(id) = {} /\ Reply("answered", id, NoId)
    /\ UNCHANGED table

(* The answer reaches the caller, unless it went away.                     *)
Send ==
  LET a == answer[1] IN
    /\ answer # << >>
    /\ answer' = << >>
    /\ call' = [c \in Clients |-> IF c = a.client
                  THEN [at |-> a.at, id |-> a.id, definition |-> a.definition] ELSE call[c]]
    /\ promised' = IF a.client # NoId /\ a.definition # NoId
                     THEN promised \cup {<<a.id, a.definition>>} ELSE promised
    /\ UNCHANGED <<table, queue, now>>
-----------------------------------------------------------------------------
(* The caller goes away; its job is run all the same, and its answer lost. *)
LeftBy(c, jobs) ==
  [i \in DOMAIN jobs |-> IF jobs[i].client = c THEN [jobs[i] EXCEPT !.client = NoId] ELSE jobs[i]]

Drop(c) ==
  /\ call[c].at = "waiting"
  /\ call' = [call EXCEPT ![c] = Idle]
  /\ queue' = LeftBy(c, queue)
  /\ answer' = LeftBy(c, answer)
  /\ UNCHANGED <<table, now, promised>>

Return(c) ==
  /\ call[c].at \in {"answered", "refused"}
  /\ call' = [call EXCEPT ![c] = Idle]
  /\ UNCHANGED <<table, queue, answer, now, promised>>

(* The process stops and starts again: what was committed is left.         *)
Crash ==
  /\ queue # << >> \/ answer # << >> \/ \E c \in Clients : call[c].at # "idle"
  /\ queue' = << >> /\ answer' = << >>
  /\ call' = [c \in Clients |-> Idle]
  /\ UNCHANGED <<table, now, promised>>

(* Bound: MaxTime.  The clock is assumed not to be set back.               *)
Tick ==
  /\ now < MaxTime
  /\ now' = now + 1
  /\ UNCHANGED <<table, queue, answer, call, promised>>

Database == SaveKnown \/ SaveNew \/ JobFails \/ RunGet \/ Send

Next ==
  \/ \E c \in Clients :
       \/ \E d \in Definitions : BeginSave(c, d)
       \/ \E id \in Ids : BeginGet(c, id)
       \/ Drop(c)
       \/ Return(c)
  \/ Database
  \/ Crash
  \/ Tick

Spec == Init /\ [][Next]_vars

(* The database thread takes every job that is queued, and finishes it.    *)
Fairness == WF_vars(Database)
-----------------------------------------------------------------------------
(***************************************************************************)
(* Properties.                                                             *)
(***************************************************************************)

(* An identifier leads to one definition, and a definition has one         *)
(* identifier, however many callers save it at the same time.              *)
OneLinkPerDefinition ==
  \A r, q \in table : r.id = q.id \/ r.definition = q.definition => r = q

(* A caller that is answered agrees with what callers were told before:    *)
(* the identifier leads to its definition, the definition has its          *)
(* identifier.                                                             *)
Agrees(c, link) ==
  call'[c].at = "answered" /\ call'[c] # call[c] =>
    (call'[c].id = link[1] <=> call'[c].definition = link[2])

(* Once a caller was told of a link, whoever looks it up later is answered *)
(* its definition, and whoever saves the definition again is answered the  *)
(* same identifier, although the process crashes between a commit and its  *)
(* answer and callers go away.  It is said only of the identifiers whose   *)
(* shape get accepts: save gives out others too, which lead nowhere.       *)
LinksAreDurable ==
  [][\A c \in Clients, link \in promised : link[1] \in Alphanumeric => Agrees(c, link)]_vars

(* max_definitions bounds the table.                                       *)
CapacityRespected == Cardinality(table) <= MaxDefinitions

(* No minute, aligned or not, sees more creations than the limit.          *)
RateRespected ==
  \A start \in 0 .. MaxTime :
    Cardinality({row \in table : row.created \in start .. start + Window - 1})
      <= CreationsPerMinute

(* Both limits hold although callers check and insert concurrently.        *)
LimitsRespected == CapacityRespected /\ RateRespected

(* Nobody waits for ever on a full queue, a slow disk or a lost reply.     *)
CallsEnd == \A c \in Clients : call[c].at = "waiting" ~> call[c].at # "waiting"
=============================================================================
