-------------------------- MODULE ShortlinksProofs --------------------------
(***************************************************************************)
(* What holds of the shortlinks for any number of callers, definitions,    *)
(* identifiers and limits.                                                 *)
(***************************************************************************)
EXTENDS Shortlinks, FiniteSetTheorems, TLAPS

CallState == [at : {"idle", "waiting", "answered", "refused"},
              id : Ids \cup {NoId}, definition : Definitions \cup {NoId}]

(* Every job is a save or a get.                                           *)
LEMMA JobFields ==
  ASSUME NEW job \in Job
  PROVE  /\ job.kind \in {"save", "get"}
         /\ job.client \in Clients \cup {NoId}
         /\ job.definition \in Definitions \cup {NoId}
         /\ job.id \in Ids \cup {NoId}
         /\ job.kind = "save" => job.definition \in Definitions
         /\ job.kind = "get" => job.id \in Ids
         /\ [job EXCEPT !.client = NoId] \in Job
<1>1. CASE \E c \in Clients \cup {NoId}, d \in Definitions : job = Save(c, d)
  BY <1>1 DEF Job, Save
<1>2. CASE \E c \in Clients \cup {NoId}, id \in Ids : job = Get(c, id)
  BY <1>2 DEF Job, Get
<1>3. \/ \E c \in Clients \cup {NoId}, d \in Definitions : job = Save(c, d)
      \/ \E c \in Clients \cup {NoId}, id \in Ids : job = Get(c, id)
  BY DEF Job
<1> QED BY <1>1, <1>2, <1>3, Zenon

(* The head of the queue is a job, and what is left is a shorter queue.    *)
LEMMA NextJob ==
  ASSUME queue \in Seq(Job), Len(queue) <= QueueCapacity, queue # << >>
  PROVE  /\ Head(queue) \in Job
         /\ Tail(queue) \in Seq(Job)
         /\ Len(Tail(queue)) <= QueueCapacity
<1>1. Len(queue) \in Nat /\ QueueCapacity \in Nat
  BY ShortlinkAssumption
<1> QED BY <1>1

(* A reply of the right type is an answer.                                 *)
LEMMA ReplyTyped ==
  ASSUME queue \in Seq(Job), queue # << >>,
         NEW at, NEW id, NEW d, Reply(at, id, d),
         \/ at = "answered" /\ id \in Ids /\ d \in Definitions \cup {NoId}
         \/ at = "refused" /\ id = NoId /\ d = NoId
  PROVE  \E a \in Answers : answer' = <<a>>
<1> DEFINE a == [client |-> Head(queue).client, at |-> at, id |-> id, definition |-> d]
<1>1. Head(queue).client \in Clients \cup {NoId}
  <2>1. Head(queue) \in Job
    OBVIOUS
  <2> QED BY <2>1, JobFields
<1>2. a \in Answers
  BY <1>1 DEF Answers
<1> QED BY <1>2 DEF Reply

(* Who leaves is taken out of the jobs and of the answer.                  *)
LEMMA LeavesTyped ==
  ASSUME TypeOK, NEW c \in Clients, Drop(c)
  PROVE  /\ queue' \in Seq(Job) /\ Len(queue') <= QueueCapacity
         /\ answer' = << >> \/ \E a \in Answers : answer' = <<a>>
<1>1. \A i \in DOMAIN queue : queue[i] \in Job /\ queue'[i] \in Job
  BY JobFields DEF Drop, LeftBy, TypeOK
<1>2. queue' \in Seq(Job) /\ Len(queue') = Len(queue)
  <2> DEFINE job(i) == IF queue[i].client = c THEN [queue[i] EXCEPT !.client = NoId] ELSE queue[i]
  <2>1. Len(queue) \in Nat /\ DOMAIN queue = 1 .. Len(queue)
    BY DEF TypeOK
  <2>2. queue' = [i \in 1 .. Len(queue) |-> job(i)]
    BY <2>1 DEF Drop, LeftBy
  <2>3. \A i \in 1 .. Len(queue) : job(i) \in Job
    BY <1>1, <2>1, <2>2
  <2> HIDE DEF job
  <2> QED BY <2>1, <2>2, <2>3
<1>3. CASE answer = << >>
  <2>1. answer' = << >>
    BY <1>3 DEF Drop, LeftBy
  <2> QED BY <1>2, <2>1 DEF TypeOK
<1>4. CASE answer # << >>
  <2>1. PICK a \in Answers : answer = <<a>>
    BY <1>4 DEF TypeOK
  <2>2. answer' = <<IF a.client = c THEN [a EXCEPT !.client = NoId] ELSE a>>
    BY <2>1 DEF Drop, LeftBy
  <2>3. [a EXCEPT !.client = NoId] \in Answers
    BY DEF Answers
  <2>4. (IF a.client = c THEN [a EXCEPT !.client = NoId] ELSE a) \in Answers
    BY <2>3
  <2> QED BY <1>2, <2>2, <2>4 DEF TypeOK
<1> QED BY <1>3, <1>4

(* Submitting a job keeps the queue and the calls typed.                   *)
LEMMA SubmitTyped ==
  ASSUME TypeOK, NEW c \in Clients, NEW job \in Job, Submit(c, job)
  PROVE  /\ queue' \in Seq(Job) /\ Len(queue') <= QueueCapacity
         /\ call' \in [Clients -> CallState]
<1>1. call \in [Clients -> CallState] /\ call[c] \in CallState
  BY DEF TypeOK, CallState
<1>2. QueueCapacity \in Nat /\ Len(queue) \in Nat
  BY ShortlinkAssumption DEF TypeOK
<1>3. CASE HasRoom
  <2>1. /\ queue' = Append(queue, job)
        /\ call' = [call EXCEPT ![c].at = "waiting", ![c].id = job.id,
                                ![c].definition = job.definition]
    BY <1>3 DEF Submit
  <2>2. Len(queue') = Len(queue) + 1 /\ queue' \in Seq(Job)
    BY <2>1 DEF TypeOK
  <2>3. Len(queue') <= QueueCapacity
    BY <1>2, <1>3, <2>2 DEF HasRoom
  <2>4. call' \in [Clients -> CallState]
    BY <1>1, <2>1, JobFields DEF CallState
  <2> QED BY <2>2, <2>3, <2>4
<1>4. CASE ~HasRoom
  BY <1>1, <1>4 DEF Submit, TypeOK, CallState
<1> QED BY <1>3, <1>4

(* The rows of a table keep their type when a save commits one more.       *)
LEMMA CommitTyped ==
  ASSUME TypeOK, NEW id \in Ids, NEW d \in Definitions, Commit(id, d)
  PROVE  table' \subseteq Row
BY DEF Commit, TypeOK, Row

(***************************************************************************)
(* Type correctness.                                                       *)
(***************************************************************************)
LEMMA TypeStep == TypeOK /\ [Next]_vars => TypeOK'
<1> SUFFICES ASSUME TypeOK, [Next]_vars PROVE TypeOK'
  OBVIOUS
<1> USE DEF CallState
<1>0. call \in [Clients -> CallState]
  BY DEF TypeOK
<1>1. ASSUME NEW c \in Clients, NEW d \in Definitions, BeginSave(c, d)
      PROVE  TypeOK'
  <2>1. Save(c, d) \in Job
    BY DEF Job
  <2> QED BY <1>1, <2>1, SubmitTyped DEF BeginSave, Submit, TypeOK
<1>2. ASSUME NEW c \in Clients, NEW id \in Ids, BeginGet(c, id)
      PROVE  TypeOK'
  <2>1. Get(c, id) \in Job
    BY DEF Job
  <2>2. CASE Submit(c, Get(c, id))
    BY <2>1, <2>2, SubmitTyped DEF Submit, TypeOK
  <2>3. CASE /\ call' = [call EXCEPT ![c].at = "answered", ![c].id = id]
             /\ UNCHANGED <<table, queue, answer, now, promised>>
    <3>1. call' \in [Clients -> CallState]
      BY <1>0, <2>3
    <3> QED BY <2>3, <3>1 DEF TypeOK
  <2> QED BY <1>2, <2>2, <2>3 DEF BeginGet
<1>3. ASSUME NEW c \in Clients, Drop(c) \/ Return(c)
      PROVE  TypeOK'
  <2>1. call' \in [Clients -> CallState]
    BY <1>0, <1>3 DEF Drop, Return, Idle
  <2>2. CASE Drop(c)
    BY <2>1, <2>2, LeavesTyped DEF Drop, TypeOK
  <2>3. CASE Return(c)
    BY <2>1, <2>3 DEF Return, TypeOK
  <2> QED BY <1>3, <2>2, <2>3
<1>4. ASSUME NEW kind, Run(kind)
      PROVE  /\ Head(queue) \in Job /\ Tail(queue) \in Seq(Job)
             /\ Len(Tail(queue)) <= QueueCapacity
             /\ kind = "save" => Head(queue).definition \in Definitions
             /\ kind = "get" => Head(queue).id \in Ids
             /\ queue \in Seq(Job) /\ queue # << >>
  <2>1. queue \in Seq(Job) /\ queue # << >> /\ Len(queue) <= QueueCapacity
    BY <1>4 DEF Run, TypeOK
  <2>2. /\ Head(queue) \in Job /\ Tail(queue) \in Seq(Job)
        /\ Len(Tail(queue)) <= QueueCapacity
    BY <2>1, NextJob
  <2> QED BY <1>4, <2>1, <2>2, JobFields DEF Run
<1>5. CASE SaveKnown
  <2> DEFINE d == Head(queue).definition
  <2>1. Run("save")
    BY <1>5 DEF SaveKnown
  <2>2. PICK row \in RowsOf(d) : Reply("answered", row.id, d)
    BY <1>5, Zenon DEF SaveKnown
  <2>3. row.id \in Ids
    BY <2>2 DEF RowsOf, TypeOK, Row
  <2>4. \E a \in Answers : answer' = <<a>>
    BY <1>4, <2>1, <2>2, <2>3, ReplyTyped
  <2> QED BY <1>4, <1>5, <2>1, <2>4 DEF SaveKnown, Run, TypeOK
<1>6. CASE SaveNew
  <2> DEFINE d == Head(queue).definition
  <2>1. Run("save")
    BY <1>6 DEF SaveNew
  <2>2. PICK id \in Ids : Commit(id, d) /\ Reply("answered", id, d)
    BY <1>6, Zenon DEF SaveNew
  <2>3. table' \subseteq Row
    BY <1>4, <2>1, <2>2, CommitTyped
  <2>4. \E a \in Answers : answer' = <<a>>
    BY <1>4, <2>1, <2>2, ReplyTyped
  <2> QED BY <1>4, <2>1, <2>3, <2>4 DEF Run, TypeOK
<1>7. CASE JobFails
  <2>1. PICK kind \in {"save", "get"} : Run(kind)
    BY <1>7 DEF JobFails
  <2>2. \E a \in Answers : answer' = <<a>>
    BY <1>4, <1>7, <2>1, ReplyTyped DEF JobFails, Refuse
  <2> QED BY <1>4, <1>7, <2>1, <2>2 DEF JobFails, Run, TypeOK
<1>71. CASE RunGet
  <2> DEFINE id == Head(queue).id
  <2>1. Run("get")
    BY <1>71 DEF RunGet
  <2>2. \E a \in Answers : answer' = <<a>>
    <3>1. CASE \E row \in RowsAt(id) : Reply("answered", id, row.definition)
      <4>1. PICK row \in RowsAt(id) : Reply("answered", id, row.definition)
        BY <3>1
      <4>2. row.definition \in Definitions
        BY <4>1 DEF RowsAt, TypeOK, Row
      <4> QED BY <1>4, <2>1, <4>1, <4>2, ReplyTyped
    <3>2. CASE Reply("answered", id, NoId)
      BY <1>4, <2>1, <3>2, ReplyTyped
    <3> QED BY <1>71, <3>1, <3>2, Zenon DEF RunGet
  <2> QED BY <1>4, <1>71, <2>1, <2>2 DEF RunGet, Run, TypeOK
<1>72. CASE Send
  <2> DEFINE a == answer[1]
  <2>1. a \in Answers
    BY <1>72 DEF Send, TypeOK
  <2>2. call' \in [Clients -> CallState]
    BY <1>0, <1>72, <2>1 DEF Send, Answers
  <2> QED BY <1>72, <2>1, <2>2 DEF Send, Answers, TypeOK
<1>8. CASE Crash
  BY <1>8, ShortlinkAssumption DEF Crash, TypeOK, Idle
<1>9. CASE Tick
  BY <1>9, ShortlinkAssumption DEF Tick, TypeOK
<1>10. CASE UNCHANGED vars
  BY <1>10 DEF vars, TypeOK
<1> QED BY <1>1, <1>2, <1>3, <1>5, <1>6, <1>7, <1>71, <1>72, <1>8, <1>9, <1>10
        DEF Next, Database

(* Calls, jobs and rows keep their types, and the queue its bound: a job   *)
(* is refused, never queued, once the channel is full.                     *)
THEOREM TypeCorrect == Spec => []TypeOK
<1>1. Init => TypeOK
  <2> SUFFICES ASSUME Init PROVE TypeOK
    OBVIOUS
  <2>1. Len(queue) = 0 /\ queue \in Seq(Job)
    BY DEF Init
  <2> QED BY <2>1, ShortlinkAssumption DEF Init, TypeOK, Idle
<1> QED BY <1>1, TypeStep, PTL DEF Spec

(***************************************************************************)
(* The table.  It changes in one way only: a row is added that no          *)
(* constraint and no limit forbids.                                        *)
(***************************************************************************)
AddsRow(id, d) ==
  /\ table' = table \cup {[id |-> id, definition |-> d, created |-> now]}
  /\ Unique(id, d)
  /\ ~Full
  /\ ~TooFast

LEMMA TableStep ==
  ASSUME TypeOK, [Next]_vars
  PROVE  \/ UNCHANGED table
         \/ \E id \in Ids, d \in Definitions : AddsRow(id, d)
<1>1. CASE SaveNew
  <2>1. Head(queue).definition \in Definitions
    BY <1>1, NextJob, JobFields DEF SaveNew, Run, TypeOK
  <2>2. PICK id \in Ids : /\ Unique(id, Head(queue).definition)
                          /\ Commit(id, Head(queue).definition)
    BY <1>1, Zenon DEF SaveNew
  <2>3. ~Full /\ ~TooFast
    BY <1>1 DEF SaveNew
  <2> QED BY <2>1, <2>2, <2>3, Zenon DEF AddsRow, Commit
<1>2. CASE ~SaveNew
  BY <1>2 DEF Next, BeginSave, BeginGet, Submit, Drop, Return, Database,
              SaveKnown, JobFails, RunGet, Send, Crash, Tick, vars
<1> QED BY <1>1, <1>2

(* An identifier leads to one definition and a definition has one          *)
(* identifier, for any number of callers that save at the same time.       *)
THEOREM LinksAreUnique == Spec => []OneLinkPerDefinition
<1>1. Init => OneLinkPerDefinition
  BY DEF Init, OneLinkPerDefinition
<1>2. TypeOK /\ OneLinkPerDefinition /\ [Next]_vars => OneLinkPerDefinition'
  <2> SUFFICES ASSUME TypeOK, OneLinkPerDefinition, [Next]_vars
               PROVE  OneLinkPerDefinition'
    OBVIOUS
  <2>1. CASE UNCHANGED table
    BY <2>1 DEF OneLinkPerDefinition
  <2>2. ASSUME NEW id \in Ids, NEW d \in Definitions, AddsRow(id, d)
        PROVE  OneLinkPerDefinition'
    <3> DEFINE new == [id |-> id, definition |-> d, created |-> now]
    <3>1. table' = table \cup {new}
      BY <2>2 DEF AddsRow
    <3>2. \A row \in table : row.id # new.id /\ row.definition # new.definition
      BY <2>2 DEF AddsRow, Unique, RowsAt, RowsOf
    <3> QED BY <3>1, <3>2 DEF OneLinkPerDefinition
  <2> QED BY <2>1, <2>2, TableStep
<1> QED BY <1>1, <1>2, TypeCorrect, PTL DEF Spec

(***************************************************************************)
(* Durability.  What callers were told is in the table, and an answer that *)
(* waits to be sent agrees with the table, which stays as it is until the  *)
(* answer is sent.                                                         *)
(***************************************************************************)
Holds(link) == \E row \in table : row.id = link[1] /\ row.definition = link[2]

Tells(a) ==
  a.at = "answered" =>
    IF a.definition = NoId THEN RowsAt(a.id) = {} ELSE Holds(<<a.id, a.definition>>)

DurableInv ==
  /\ \A link \in promised : Holds(link)
  /\ answer # << >> => Tells(answer[1])

(* Only the database thread leaves an answer, after the change it tells of.*)
LEMMA AnswerStep ==
  ASSUME TypeOK, DurableInv, Database, ~Send
  PROVE  UNCHANGED promised /\ answer' # << >> /\ Tells(answer[1])'
<1>1. UNCHANGED promised
  BY DEF Database, SaveKnown, SaveNew, JobFails, RunGet, Run
<1>2. CASE SaveKnown
  <2> DEFINE d == Head(queue).definition
  <2>1. PICK row \in RowsOf(d) : Reply("answered", row.id, d)
    BY <1>2, Zenon DEF SaveKnown
  <2>2. /\ row \in table /\ row.definition = d /\ d # NoId
        /\ UNCHANGED table
    <3>1. row \in table /\ row.definition = d
      BY <2>1 DEF RowsOf
    <3>2. d \in Definitions
      BY <3>1 DEF TypeOK, Row
    <3> QED BY <1>2, <3>1, <3>2, ShortlinkAssumption DEF SaveKnown
  <2>3. answer' = <<[client |-> Head(queue).client, at |-> "answered", id |-> row.id, definition |-> d]>>
    BY <2>1 DEF Reply
  <2> QED BY <1>1, <2>2, <2>3 DEF Tells, Holds
<1>3. CASE SaveNew
  <2> DEFINE d == Head(queue).definition
  <2>1. d \in Definitions
    BY <1>3, NextJob, JobFields DEF SaveNew, Run, TypeOK
  <2>2. PICK id \in Ids : Commit(id, d) /\ Reply("answered", id, d)
    BY <1>3, Zenon DEF SaveNew
  <2>3. [id |-> id, definition |-> d, created |-> now] \in table' /\ d # NoId
    BY <2>1, <2>2, ShortlinkAssumption DEF Commit
  <2>4. answer' = <<[client |-> Head(queue).client, at |-> "answered", id |-> id, definition |-> d]>>
    BY <2>2 DEF Reply
  <2>5. \E row \in table' : row.id = id /\ row.definition = d
    BY <2>3
  <2> QED BY <1>1, <2>3, <2>4, <2>5 DEF Tells, Holds
<1>4. CASE JobFails
  BY <1>1, <1>4 DEF JobFails, Refuse, Reply, Tells
<1>5. CASE RunGet
  <2> DEFINE i == Head(queue).id
  <2>1. UNCHANGED table
    BY <1>5 DEF RunGet
  <2>2. CASE \E row \in RowsAt(i) : Reply("answered", i, row.definition)
    <3>1. PICK row \in RowsAt(i) : Reply("answered", i, row.definition)
      BY <2>2
    <3>2. row \in table /\ row.id = i /\ row.definition # NoId
      BY <3>1, ShortlinkAssumption DEF RowsAt, TypeOK, Row
    <3>3. answer' = <<[client |-> Head(queue).client, at |-> "answered", id |-> i, definition |-> row.definition]>>
      BY <3>1 DEF Reply
    <3> QED BY <1>1, <2>1, <3>2, <3>3 DEF Tells, Holds
  <2>3. CASE RowsAt(i) = {} /\ Reply("answered", i, NoId)
    BY <1>1, <2>1, <2>3 DEF Reply, Tells, RowsAt
  <2> QED BY <1>5, <2>2, <2>3, Zenon DEF RunGet
<1> QED BY <1>2, <1>3, <1>4, <1>5 DEF Database

LEMMA DurableStep == TypeOK /\ DurableInv /\ [Next]_vars => DurableInv'
<1> SUFFICES ASSUME TypeOK, DurableInv, [Next]_vars PROVE DurableInv'
  OBVIOUS
<1>1. table \subseteq table'
  BY TableStep DEF AddsRow
<1>2. \A link : Holds(link) => Holds(link)'
  BY <1>1 DEF Holds
<1>3. CASE Database /\ ~Send
  BY <1>2, <1>3, AnswerStep DEF DurableInv
<1>4. CASE Send
  <2>1. answer' = << >>
    BY <1>4 DEF Send
  <2>2. promised' \subseteq promised \cup
          (IF answer[1].definition # NoId THEN {<<answer[1].id, answer[1].definition>>} ELSE {})
    BY <1>4 DEF Send
  <2>3. answer[1].definition # NoId => Holds(<<answer[1].id, answer[1].definition>>)
    <3>1. answer[1] \in Answers /\ Tells(answer[1])
      BY <1>4 DEF Send, TypeOK, DurableInv
    <3> QED BY <3>1 DEF Answers, Tells
  <2> QED BY <1>2, <2>1, <2>2, <2>3 DEF DurableInv
<1>5. CASE \E c \in Clients : Drop(c)
  <2>1. PICK c \in Clients : Drop(c)
    BY <1>5
  <2>2. UNCHANGED <<table, promised>>
    BY <2>1 DEF Drop
  <2>3. answer' # << >> => Tells(answer'[1])
    <3>1. SUFFICES ASSUME answer' # << >> PROVE Tells(answer'[1])
      OBVIOUS
    <3>2. answer # << >>
      BY <2>1, <3>1 DEF Drop, LeftBy, TypeOK
    <3>3. PICK a \in Answers : answer = <<a>>
      BY <3>2 DEF TypeOK
    <3>4. answer' = <<IF a.client = c THEN [a EXCEPT !.client = NoId] ELSE a>>
      BY <2>1, <3>3 DEF Drop, LeftBy
    <3>5. /\ answer'[1].at = a.at /\ answer'[1].id = a.id
          /\ answer'[1].definition = a.definition
      BY <3>4 DEF Answers
    <3> QED BY <3>2, <3>3, <3>5 DEF DurableInv, Tells
  <2> QED BY <2>2, <2>3 DEF DurableInv, Tells, Holds, RowsAt
<1>6. CASE \/ Crash \/ Tick \/ UNCHANGED vars
           \/ \E c \in Clients : \/ Return(c)
                                 \/ \E d \in Definitions : BeginSave(c, d)
                                 \/ \E id \in Ids : BeginGet(c, id)
  <2>1. UNCHANGED <<table, promised>> /\ (answer' = answer \/ answer' = << >>)
    BY <1>6 DEF Crash, Tick, vars, Return, BeginSave, BeginGet, Submit
  <2> QED BY <2>1 DEF DurableInv, Tells, Holds, RowsAt
<1> QED BY <1>3, <1>4, <1>5, <1>6, Zenon DEF Next

LEMMA Durable == Spec => []DurableInv
<1>1. Init => DurableInv
  BY DEF Init, DurableInv
<1> QED BY <1>1, DurableStep, TypeCorrect, PTL DEF Spec

(* What is answered comes from the database thread, or is an identifier    *)
(* of the wrong shape.                                                     *)
LEMMA AnswersComeFrom ==
  ASSUME TypeOK, [Next]_vars, NEW c \in Clients,
         call'[c].at = "answered", call'[c] # call[c]
  PROVE  \/ Send /\ c = answer[1].client
         \/ call'[c].id \in Ids \ Alphanumeric /\ call'[c].definition = call[c].definition
              /\ call[c].at = "idle"
<1> USE DEF CallState
<1>0. call \in [Clients -> CallState]
  BY DEF TypeOK
<1>1. CASE Send
  BY <1>1 DEF Send
<1>2. ASSUME NEW b \in Clients, NEW id \in Ids, BeginGet(b, id)
      PROVE  call'[c].id \in Ids \ Alphanumeric /\ call'[c].definition = call[c].definition
              /\ call[c].at = "idle"
  <2>1. CASE Submit(b, Get(b, id))
    BY <1>0, <2>1 DEF Submit
  <2>2. CASE /\ call[b].at = "idle" /\ id \notin Alphanumeric
             /\ call' = [call EXCEPT ![b].at = "answered", ![b].id = id]
    BY <1>0, <2>2
  <2> QED BY <1>2, <2>1, <2>2 DEF BeginGet
<1>3. ASSUME NEW b \in Clients, NEW d \in Definitions, BeginSave(b, d) PROVE FALSE
  BY <1>0, <1>3 DEF BeginSave, Submit
<1>4. ASSUME NEW b \in Clients, Drop(b) \/ Return(b) PROVE FALSE
  BY <1>0, <1>4 DEF Drop, Return, Idle
<1>5. CASE Crash
  BY <1>0, <1>5 DEF Crash, Idle
<1>6. CASE Tick \/ UNCHANGED vars \/ (Database /\ ~Send)
  BY <1>6 DEF Tick, vars, Database, SaveKnown, SaveNew, JobFails, RunGet, Run
<1> QED BY <1>1, <1>2, <1>3, <1>4, <1>5, <1>6, Zenon DEF Next, Database

(* Who is idle has no definition.                                          *)
IdleInv == \A c \in Clients : call[c].at = "idle" => call[c] = Idle

LEMMA IdleHolds == Spec => []IdleInv
<1>1. Init => IdleInv
  BY DEF Init, IdleInv
<1>2. TypeOK /\ IdleInv /\ [Next]_vars => IdleInv'
  <2> SUFFICES ASSUME TypeOK, IdleInv, [Next]_vars, NEW c \in Clients, call'[c].at = "idle"
               PROVE  call'[c] = Idle
    BY DEF IdleInv
  <2> USE DEF CallState
  <2>0. call \in [Clients -> CallState] /\ (call[c].at = "idle" => call[c] = Idle)
    BY DEF TypeOK, IdleInv
  <2>1. CASE Send
    <3>1. answer[1].at # "idle"
      BY <2>1 DEF Send, TypeOK, Answers
    <3> QED BY <2>0, <2>1, <3>1 DEF Send
  <2>2. ASSUME NEW b \in Clients, NEW id \in Ids, BeginGet(b, id) PROVE call'[c] = Idle
    BY <2>0, <2>2 DEF BeginGet, Submit
  <2>3. ASSUME NEW b \in Clients, NEW d \in Definitions, BeginSave(b, d) PROVE call'[c] = Idle
    BY <2>0, <2>3 DEF BeginSave, Submit
  <2>4. ASSUME NEW b \in Clients, Drop(b) \/ Return(b) PROVE call'[c] = Idle
    BY <2>0, <2>4 DEF Drop, Return
  <2>5. CASE Crash
    BY <2>5 DEF Crash
  <2>6. CASE Tick \/ UNCHANGED vars \/ (Database /\ ~Send)
    BY <2>0, <2>6 DEF Tick, vars, Database, SaveKnown, SaveNew, JobFails, RunGet, Run
  <2> QED BY <2>1, <2>2, <2>3, <2>4, <2>5, <2>6, Zenon DEF Next, Database
<1> QED BY <1>1, <1>2, TypeCorrect, PTL DEF Spec

(* A caller that was told of a link can rely on it: whatever crashes and   *)
(* whoever goes away, a later look-up of the identifier answers the        *)
(* definition and a later save of the definition answers the identifier.   *)
THEOREM LinksEndure == Spec => LinksAreDurable
<1>1. TypeOK /\ OneLinkPerDefinition /\ DurableInv /\ IdleInv /\ [Next]_vars =>
        [\A c \in Clients, link \in promised : link[1] \in Alphanumeric => Agrees(c, link)]_vars
  <2> SUFFICES ASSUME TypeOK, OneLinkPerDefinition, DurableInv, IdleInv, [Next]_vars,
                      NEW c \in Clients, NEW link \in promised, link[1] \in Alphanumeric,
                      call'[c].at = "answered", call'[c] # call[c]
               PROVE  call'[c].id = link[1] <=> call'[c].definition = link[2]
    BY DEF Agrees
  <2>1. PICK row \in table : row.id = link[1] /\ row.definition = link[2]
    BY DEF DurableInv, Holds
  <2>2. link[2] # NoId
    BY ShortlinkAssumption DEF TypeOK
  <2>3. CASE Send /\ c = answer[1].client
    <3> DEFINE a == answer[1]
    <3>1. /\ a \in Answers /\ Tells(a)
          /\ call'[c].at = a.at /\ call'[c].id = a.id /\ call'[c].definition = a.definition
      BY <2>3 DEF Send, TypeOK, DurableInv
    <3>2. CASE a.definition = NoId
      <4>1. a.id # link[1]
        BY <2>1, <3>1, <3>2 DEF Tells, RowsAt
      <4> QED BY <2>2, <3>1, <3>2, <4>1
    <3>3. CASE a.definition # NoId
      <4>1. PICK other \in table : other.id = a.id /\ other.definition = a.definition
        BY <3>1, <3>3 DEF Tells, Holds
      <4> QED BY <2>1, <3>1, <4>1 DEF OneLinkPerDefinition
    <3> QED BY <3>2, <3>3
  <2>4. CASE /\ call'[c].id \in Ids \ Alphanumeric /\ call'[c].definition = call[c].definition
             /\ call[c].at = "idle"
    <3>1. call'[c].definition = NoId
      BY <2>4 DEF IdleInv, Idle
    <3> QED BY <2>2, <2>4, <3>1
  <2> QED BY <2>3, <2>4, AnswersComeFrom
<1> QED BY <1>1, TypeCorrect, LinksAreUnique, Durable, IdleHolds, PTL DEF Spec, LinksAreDurable

(***************************************************************************)
(* The two limits.  The table is finite: rows are added one at a time.     *)
(***************************************************************************)
LimitsInv ==
  /\ IsFiniteSet(table)
  /\ CapacityRespected
  /\ RateRespected

(* A set grows by at most one when an element is added.                    *)
LEMMA OneMore ==
  ASSUME NEW S, IsFiniteSet(S), NEW x
  PROVE  Cardinality(S \cup {x}) <= Cardinality(S) + 1
<1>1. Cardinality(S) \in Nat
  BY FS_CardinalityType
<1>2. CASE x \in S
  <2>1. S \cup {x} = S
    BY <1>2
  <2> QED BY <1>1, <2>1
<1>3. CASE x \notin S
  <2>1. Cardinality(S \cup {x}) = Cardinality(S) + 1
    BY <1>3, FS_AddElement
  <2> QED BY <1>1, <2>1
<1> QED BY <1>2, <1>3

(* The rows created within one window.                                     *)
Within(rows, start) == {row \in rows : row.created \in start .. start + Window - 1}

LEMMA WindowGrows ==
  ASSUME TypeOK, LimitsInv, NEW id \in Ids, NEW d \in Definitions,
         AddsRow(id, d), NEW start \in 0 .. MaxTime
  PROVE  Cardinality(Within(table', start)) <= CreationsPerMinute
<1> DEFINE new == [id |-> id, definition |-> d, created |-> now]
<1>1. /\ CreationsPerMinute \in Nat /\ Window \in Nat \ {0} /\ now \in Nat
      /\ start \in Nat
  BY ShortlinkAssumption DEF TypeOK
<1>2. table' = table \cup {new}
  BY DEF AddsRow
<1>3. IsFiniteSet(Within(table, start)) /\ IsFiniteSet(Recent)
  BY FS_Subset DEF Within, Recent, LimitsInv
<1>4. /\ Cardinality(Within(table, start)) \in Nat
      /\ Cardinality(Recent) \in Nat
  BY <1>3, FS_CardinalityType
<1>5. CASE new \notin Within({new}, start)
  <2>1. new.created \notin start .. start + Window - 1
    BY <1>5 DEF Within
  <2>2. Within(table', start) = Within(table, start)
    BY <1>2, <2>1 DEF Within
  <2> QED BY <2>2 DEF LimitsInv, RateRespected, Within
<1>6. CASE new \in Within({new}, start)
  <2>1. start <= now /\ now <= start + Window - 1
    BY <1>1, <1>6 DEF Within
  <2>2. Within(table, start) \subseteq Recent
    <3> SUFFICES ASSUME NEW row \in table, row.created \in start .. start + Window - 1
                 PROVE  row.created + Window > now
      BY DEF Within, Recent
    <3> QED BY <1>1, <2>1
  <2>3. Cardinality(Within(table, start)) <= Cardinality(Recent)
    BY <1>3, <2>2, FS_Subset
  <2>4. Cardinality(Recent) < CreationsPerMinute
    BY <1>1, <1>4 DEF AddsRow, TooFast
  <2>5. Within(table', start) = Within(table, start) \cup {new}
    BY <1>2, <1>6 DEF Within
  <2>6. Cardinality(Within(table', start)) <= Cardinality(Within(table, start)) + 1
    BY <1>3, <2>5, OneMore
  <2>7. Cardinality(Within(table', start)) \in Nat
    BY <1>3, <2>5, FS_AddElement, FS_CardinalityType
  <2> QED BY <1>1, <1>4, <2>3, <2>4, <2>6, <2>7
<1> QED BY <1>5, <1>6

LEMMA LimitsStep == TypeOK /\ LimitsInv /\ [Next]_vars => LimitsInv'
<1> SUFFICES ASSUME TypeOK, LimitsInv, [Next]_vars PROVE LimitsInv'
  OBVIOUS
<1>1. CASE UNCHANGED table
  BY <1>1 DEF LimitsInv, CapacityRespected, RateRespected
<1>2. ASSUME NEW id \in Ids, NEW d \in Definitions, AddsRow(id, d)
      PROVE  LimitsInv'
  <2> DEFINE new == [id |-> id, definition |-> d, created |-> now]
  <2>1. table' = table \cup {new}
    BY <1>2 DEF AddsRow
  <2>2. IsFiniteSet(table) /\ Cardinality(table) \in Nat
    BY FS_CardinalityType DEF LimitsInv
  <2>3. IsFiniteSet(table')
    BY <2>1, <2>2, FS_AddElement
  <2>4. CapacityRespected'
    <3>1. Cardinality(table') <= Cardinality(table) + 1
      BY <2>1, <2>2, OneMore
    <3>2. Cardinality(table) < MaxDefinitions /\ MaxDefinitions \in Nat
      BY <1>2, <2>2, ShortlinkAssumption DEF AddsRow, Full
    <3>3. Cardinality(table') \in Nat
      BY <2>3, FS_CardinalityType
    <3> QED BY <2>2, <3>1, <3>2, <3>3 DEF CapacityRespected
  <2>5. RateRespected'
    BY <1>2, WindowGrows DEF RateRespected, Within
  <2> QED BY <2>3, <2>4, <2>5 DEF LimitsInv
<1> QED BY <1>1, <1>2, TableStep

LEMMA Limits == Spec => []LimitsInv
<1>1. Init => LimitsInv
  <2> SUFFICES ASSUME Init PROVE LimitsInv
    OBVIOUS
  <2>1. table = {} /\ IsFiniteSet({}) /\ Cardinality({}) = 0
    BY FS_EmptySet DEF Init
  <2>2. \A start \in 0 .. MaxTime :
          {row \in table : row.created \in start .. start + Window - 1} = {}
    BY <2>1
  <2>3. CapacityRespected
    BY <2>1, ShortlinkAssumption DEF CapacityRespected
  <2>4. RateRespected
    BY <2>1, <2>2, ShortlinkAssumption DEF RateRespected
  <2> QED BY <2>1, <2>3, <2>4 DEF LimitsInv
<1> QED BY <1>1, LimitsStep, TypeCorrect, PTL DEF Spec

(* The table never holds more definitions than max_definitions.            *)
THEOREM CapacityHolds == Spec => []CapacityRespected
BY Limits, PTL DEF LimitsInv

(* No window of the length of the rate limit, aligned or not, ever sees    *)
(* more creations than the limit, while the clock is not set back.         *)
THEOREM RateHolds == Spec => []RateRespected
BY Limits, PTL DEF LimitsInv

(* Both limits hold together, for any number of concurrent callers.        *)
THEOREM LimitsHold == Spec => []LimitsRespected
BY CapacityHolds, RateHolds, PTL DEF LimitsRespected
=============================================================================
