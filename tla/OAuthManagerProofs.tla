------------------------- MODULE OAuthManagerProofs -------------------------
(***************************************************************************)
(* Proofs about OAuthManager, for every number of clients, generations,    *)
(* redirects, every channel capacity and every pair of budgets.            *)
(*                                                                         *)
(* Each safety invariant is made inductive by the type invariant, by every *)
(* sender having a command to send (TypeInv) and by no client knowing of a *)
(* generation that is not installed (FreshInv).                            *)
(***************************************************************************)
EXTENDS OAuthManager, FiniteSetTheorems, SequenceTheorems, TLAPS

(* A client in a sending state holds the command it sends.                 *)
SendersHaveCommands ==
  \A c \in Clients : Sending(c) => request[c].outgoing \in Command

TypeInv == TypeOK /\ SendersHaveCommands

(* Generations that clients know of have been installed.                   *)
GenerationsAreInstalled ==
  \A c \in Clients :
    /\ request[c].generation <= active
    /\ request[c].asked <= active
-----------------------------------------------------------------------------
(***************************************************************************)
(* Types.                                                                  *)
(***************************************************************************)
LEMMA IdleType == Idle \in RequestState /\ Idle.at = "idle"
  BY LimitsAssumption DEF Idle, RequestState, Generations

LEMMA AcquireType == \A c \in Clients \cup {NoClient} : Acquire(c) \in Command
  BY DEF Acquire, Command

(* What the actions put into the channel and take out of it.               *)
LEMMA ReceiveType ==
  ASSUME TypeOK, NEW kind, Receive(kind)
  PROVE  /\ commands' \in Seq(Command)
         /\ Head(commands) \in Command
         /\ Head(commands).kind = kind
         /\ status = "running"
  BY HeadTailProperties DEF TypeOK, Receive

LEMMA OrphanType ==
  ASSUME TypeOK, NEW c \in Clients
  PROVE  [i \in DOMAIN commands |->
            IF commands[i] = Acquire(c) THEN Acquire(NoClient)
                                        ELSE commands[i]] \in Seq(Command)
<1> DEFINE orphaned == [i \in 1 .. Len(commands) |->
             IF commands[i] = Acquire(c) THEN Acquire(NoClient) ELSE commands[i]]
<1>1. /\ Len(commands) \in Nat
      /\ DOMAIN commands = 1 .. Len(commands)
      /\ commands \in [1 .. Len(commands) -> Command]
  BY LenProperties DEF TypeOK
<1>2. orphaned \in [1 .. Len(commands) -> Command]
  BY <1>1, AcquireType
<1>3. orphaned \in Seq(Command)
  BY <1>1, <1>2, SeqDef
<1>4. QED
  BY <1>1, <1>3

(* The local states that the requests move to.                             *)
LEMMA BeginAcquireType ==
  ASSUME TypeInv, NEW c \in Clients, NEW redirects \in 0 .. MaxRedirects,
         BeginAcquire(c, redirects)
  PROVE  /\ request' \in [Clients -> RequestState]
         /\ SendersHaveCommands'
  BY IdleType, AcquireType
  DEF TypeInv, TypeOK, SendersHaveCommands, Sending, BeginAcquire, RequestState,
      Idle, Generations

LEMMA SentType ==
  ASSUME NEW r \in RequestState
  PROVE  /\ Sent(r) \in RequestState
         /\ Sent(r).at \in {"waiting", "reading", "idle"}
         /\ Sent(r).at = "reading" => r.at = "observing"
         /\ Sent(r).at # "idle" => /\ Sent(r).generation = r.generation
                                   /\ Sent(r).asked = r.asked
         /\ Sent(r).at = "idle" => Sent(r) = Idle
         /\ NotSent(r) = Idle \/ (r.at = "observing" /\ NotSent(r) = Sent(r))
  BY IdleType DEF Sent, NotSent, RequestState, Idle, Nothing

LEMMA UpstreamStep ==
  ASSUME NEW c, Respond(c)
  PROVE  upstream' = IF request[c].generation = active /\ upstream > 0
                       THEN upstream - 1 ELSE upstream
  BY Zenon DEF Respond

(* Every step of a request keeps the types.                                *)
LEMMA RequestKeepsTypes ==
  ASSUME TypeInv, NEW c \in Clients, RequestStep(c)
  PROVE  TypeInv'
<1> USE DEF TypeInv
<1>r. request[c] \in RequestState
  BY DEF TypeOK
<1>1. CASE BeginRequest(c)
  BY <1>1, BeginAcquireType, LimitsAssumption
  DEF BeginRequest, TypeOK, managerVars, historyVars
<1>2. CASE SendCommand(c)
  <2>1. /\ request[c].outgoing \in Command
        /\ Append(commands, request[c].outgoing) \in Seq(Command)
    BY <1>2, AppendProperties DEF SendCommand, SendersHaveCommands, TypeOK
  <2>2. QED
    BY <1>2, <1>r, <2>1, SentType
    DEF SendCommand, TypeOK, managerVars, historyVars, SendersHaveCommands, Sending
<1>3. CASE SendFails(c)
  BY <1>3, <1>r, SentType, IdleType
  DEF SendFails, TypeOK, managerVars, historyVars, SendersHaveCommands, Sending
<1>4. CASE Respond(c)
  <2>1. upstream' \in 0 .. UpstreamLimit
    BY <1>4, UpstreamStep, UpstreamAssumption DEF TypeOK
  <2>2. CASE request' = [request EXCEPT ![c] = [request[c] EXCEPT !.at = "reading"]]
    <3>1. /\ request' \in [Clients -> RequestState]
          /\ SendersHaveCommands'
      BY <1>r, <2>2 DEF TypeOK, RequestState, SendersHaveCommands, Sending
    <3>2. QED
      BY <1>4, <2>1, <3>1 DEF Respond, TypeOK, managerVars, historyVars
  <2>3. ASSUME NEW left \in 0 .. UpstreamLimit, NEW timed \in BOOLEAN,
               request' = [request EXCEPT ![c] =
                 [request[c] EXCEPT
                    !.at = "observing",
                    !.outgoing = Observe(request[c].generation, left, timed)]]
        PROVE  TypeInv'
    <3>1. Observe(request[c].generation, left, timed) \in Command
      BY <1>r DEF Observe, Command, RequestState
    <3>2. /\ request' \in [Clients -> RequestState]
          /\ SendersHaveCommands'
      BY <1>r, <2>3, <3>1 DEF TypeOK, RequestState, SendersHaveCommands, Sending
    <3>3. QED
      BY <1>4, <2>1, <3>2 DEF Respond, TypeOK, managerVars, historyVars
  <2>4. PICK left \in 0 .. UpstreamLimit :
          \/ \E timed \in BOOLEAN :
               request' = [request EXCEPT ![c] =
                 [request[c] EXCEPT
                    !.at = "observing",
                    !.outgoing = Observe(request[c].generation, left, timed)]]
          \/ request' = [request EXCEPT ![c] = [request[c] EXCEPT !.at = "reading"]]
    <3>1. 0 \in 0 .. UpstreamLimit
      BY UpstreamAssumption
    <3>2. CASE request[c].generation = active
      BY <1>4, <2>1, <3>2, Zenon DEF Respond
    <3>3. CASE request[c].generation # active
      BY <1>4, <3>1, <3>3, Zenon DEF Respond
    <3>4. QED
      BY <3>2, <3>3
  <2>5. QED
    BY <2>2, <2>3, <2>4
<1>5. CASE FollowRedirect(c)
  <2>1. request[c].hops + 1 \in 0 .. MaxRedirects
    BY <1>5, <1>r, LimitsAssumption DEF FollowRedirect, RequestState
  <2>2. QED
    BY <1>5, <2>1, BeginAcquireType
    DEF FollowRedirect, TypeOK, managerVars, historyVars
<1>6. CASE RejectCredentials(c)
  <2>1. Invalidate(request[c].generation) \in Command
    BY <1>r DEF Invalidate, Command, RequestState
  <2>2. /\ request' \in [Clients -> RequestState]
        /\ SendersHaveCommands'
    BY <1>6, <2>1, IdleType
    DEF RejectCredentials, TypeOK, RequestState, SendersHaveCommands, Sending, Idle
  <2>3. QED
    BY <1>6, <2>2 DEF RejectCredentials, TypeOK, managerVars, historyVars
<1>7. CASE EndRequest(c)
  BY <1>7, OrphanType, IdleType
  DEF EndRequest, TypeOK, managerVars, historyVars, SendersHaveCommands, Sending
<1>8. QED
  BY <1>1, <1>2, <1>3, <1>4, <1>5, <1>6, <1>7 DEF RequestStep

LEMMA OwnerKeepsTypes ==
  ASSUME TypeInv, Owner
  PROVE  TypeInv'
<1>1. Shutdown \in Command
  BY DEF Command
<1>2. commands' \in Seq(Command)
  BY <1>1, AppendProperties
  DEF Owner, BeginShutdown, SendShutdown, DropHandles, TypeInv, TypeOK
<1>3. QED
  BY <1>2
  DEF Owner, BeginShutdown, SendShutdown, DropHandles, TypeInv, TypeOK,
      managerVars, historyVars, SendersHaveCommands, Sending

(* The answer of an acquire leaves every request in a legal state, and one *)
(* that was sending a command still does.                                  *)
LEMMA ReplyTypes ==
  ASSUME TypeInv, Reply(Refuse) \/ Reply(Grant)
  PROVE  /\ request' \in [Clients -> RequestState]
         /\ SendersHaveCommands'
<1>1. \A r \in RequestState : /\ Refuse(r) \in RequestState
                              /\ Refuse(r).at = "idle"
                              /\ Grant(r) \in RequestState
                              /\ Grant(r).at = "leased"
  BY IdleType DEF Refuse, Grant, RequestState, TypeInv, TypeOK
<1>2. QED
  BY <1>1 DEF Reply, TypeInv, TypeOK, SendersHaveCommands, Sending

LEMMA HandleAcquireKeepsTypes ==
  ASSUME TypeInv, HandleAcquire
  PROVE  TypeInv'
<1>1. /\ commands' \in Seq(Command)
      /\ status = "running"
  BY ReceiveType DEF HandleAcquire, TypeInv
<1>2. /\ request' \in [Clients -> RequestState]
      /\ SendersHaveCommands'
  BY ReplyTypes DEF HandleAcquire
<1>3. Budget \in 0 .. UpstreamLimit
  BY LimitsAssumption, UpstreamAssumption DEF Budget, TypeInv, TypeOK
<1>4. /\ remaining' \in 0 .. UpstreamLimit
      /\ refreshes' \in 0 .. 1
      /\ renewed' \in BOOLEAN
      /\ poisoned' \in BOOLEAN
      /\ resetAt' \in {"none", "pending", "elapsed"}
  BY <1>3, LimitsAssumption, UpstreamAssumption
  DEF HandleAcquire, Unusable, StartRefresh, ResetElapsedRateLimit, TypeInv,
      TypeOK
<1>5. QED
  BY <1>1, <1>2, <1>4 DEF HandleAcquire, TypeInv, TypeOK

LEMMA HandleReportKeepsTypes ==
  ASSUME TypeInv, HandleObserve \/ HandleInvalidate
  PROVE  TypeInv'
<1> USE DEF TypeInv
<1>1. CASE HandleObserve
  <2>1. /\ commands' \in Seq(Command)
        /\ Head(commands).remaining \in 0 .. UpstreamLimit
    BY <1>1, ReceiveType DEF HandleObserve, Command, Shutdown
  <2>2. /\ remaining' \in 0 .. UpstreamLimit
        /\ renewed' \in BOOLEAN
        /\ poisoned' \in BOOLEAN
        /\ resetAt' \in {"none", "pending", "elapsed"}
    BY <1>1, <2>1 DEF HandleObserve, Lower, TypeOK
  <2>3. QED
    BY <1>1, <2>1, <2>2
    DEF HandleObserve, TypeOK, SendersHaveCommands, Sending
<1>2. CASE HandleInvalidate
  <2>1. commands' \in Seq(Command)
    BY <1>2, ReceiveType DEF HandleInvalidate
  <2>2. /\ remaining' \in 0 .. UpstreamLimit
        /\ refreshes' \in 0 .. 1
    BY <1>2, UpstreamAssumption DEF HandleInvalidate, StartRefresh, TypeOK
  <2>3. poisoned' \in BOOLEAN
    BY <1>2 DEF HandleInvalidate, TypeOK
  <2>4. QED
    BY <1>2, <2>1, <2>2, <2>3
    DEF HandleInvalidate, TypeOK, SendersHaveCommands, Sending
<1>3. QED
  BY <1>1, <1>2

LEMMA ManagerKeepsTypes ==
  ASSUME TypeInv, Manager
  PROVE  TypeInv'
<1> USE DEF TypeInv
<1>1. CASE HandleShutdown
  BY <1>1, ReceiveType
  DEF HandleShutdown, TypeOK, historyVars, SendersHaveCommands, Sending
<1>2. CASE HandleChannelEnd
  BY <1>2 DEF HandleChannelEnd, TypeOK, historyVars, SendersHaveCommands, Sending
<1>3. CASE Stop
  BY <1>3, IdleType, EmptySeq
  DEF Stop, TypeOK, historyVars, SendersHaveCommands, Sending
<1>4. CASE RefreshSucceeds
  <2>1. /\ active' \in Generations
        /\ remaining' \in 0 .. UpstreamLimit
        /\ refreshes' \in 0 .. 1
        /\ upstream' \in 0 .. UpstreamLimit
    BY <1>4, LimitsAssumption, UpstreamAssumption
    DEF RefreshSucceeds, TypeOK, Generations
  <2>2. QED
    BY <1>4, <2>1 DEF RefreshSucceeds, TypeOK, SendersHaveCommands, Sending
<1>5. CASE RefreshFails
  BY <1>5 DEF RefreshFails, TypeOK, historyVars, SendersHaveCommands, Sending
<1>6. CASE TimedRefresh
  BY <1>6
  DEF TimedRefresh, StartRefresh, TypeOK, historyVars, SendersHaveCommands, Sending
<1>7. QED
  BY <1>1, <1>2, <1>3, <1>4, <1>5, <1>6, HandleAcquireKeepsTypes,
     HandleReportKeepsTypes
  DEF Manager, HandleCommand

LEMMA ClockKeepsTypes ==
  ASSUME TypeInv, Clock
  PROVE  TypeInv'
<1> USE DEF TypeInv, TypeOK, historyVars, SendersHaveCommands, Sending
<1>1. CASE RefreshDue
  BY <1>1 DEF RefreshDue
<1>2. CASE Expire
  BY <1>2 DEF Expire
<1>3. CASE WindowElapses
  BY <1>3 DEF WindowElapses
<1>4. CASE UpstreamResets
  BY <1>4, UpstreamAssumption DEF UpstreamResets, managerVars
<1>5. QED
  BY <1>1, <1>2, <1>3, <1>4 DEF Clock

LEMMA InitTypes == Init => TypeInv
<1> SUFFICES ASSUME Init PROVE TypeInv
  OBVIOUS
<1>1. /\ active \in Generations
      /\ remaining \in 0 .. UpstreamLimit
      /\ refreshes \in 0 .. 1
      /\ upstream \in 0 .. UpstreamLimit
  BY LimitsAssumption, UpstreamAssumption DEF Init, Generations
<1>2. /\ request \in [Clients -> RequestState]
      /\ SendersHaveCommands
  BY IdleType DEF Init, SendersHaveCommands, Sending
<1>3. commands \in Seq(Command)
  BY EmptySeq DEF Init
<1>4. QED
  BY <1>1, <1>2, <1>3 DEF Init, TypeInv, TypeOK

LEMMA NextKeepsTypes == TypeInv /\ [Next]_vars => TypeInv'
<1> SUFFICES ASSUME TypeInv, [Next]_vars PROVE TypeInv'
  OBVIOUS
<1>1. CASE UNCHANGED vars
  BY <1>1 DEF vars, TypeInv, TypeOK, SendersHaveCommands, Sending
<1>2. CASE Next
  BY <1>1, <1>2, RequestKeepsTypes, OwnerKeepsTypes, ManagerKeepsTypes,
     ClockKeepsTypes
  DEF Next, Finished
<1>3. QED
  BY <1>1, <1>2

(* Every reachable state is well typed, whatever the constants: at most    *)
(* one refresh task runs, and no budget leaves its bounds.                 *)
THEOREM TypeCorrect == Spec => []TypeOK
<1>1. TypeInv => TypeOK
  BY DEF TypeInv
<1>2. QED
  BY <1>1, InitTypes, NextKeepsTypes, PTL DEF Spec
-----------------------------------------------------------------------------
(***************************************************************************)
(* How a step moves a request.                                             *)
(***************************************************************************)

(* Moves that grant nothing: the request forgets its lease or keeps it.    *)
Keeps(r, n) ==
  /\ n.at # "leased"
  /\ n.generation \in {0, r.generation}
  /\ n.asked \in {0, r.asked, active}
  /\ n.at \in HoldsLease => /\ r.at \in HoldsLease
                            /\ n.generation = r.generation
                            /\ n.asked = r.asked

(* The move that grants: only HandleAcquire makes it.                      *)
Grants(c) ==
  /\ HandleAcquire
  /\ c = Head(commands).client
  /\ ~Unusable
  /\ remaining' = Budget - 1
  /\ request'[c] = Grant(request[c])

(* A response ends the time a request is in flight, and keeps its lease.    *)
LEMMA RespondLeaves ==
  ASSUME TypeInv, NEW c \in Clients, Respond(c)
  PROVE  /\ request[c].at = "leased"
         /\ request'[c].at \in {"observing", "reading"}
         /\ request'[c].generation = request[c].generation
         /\ request'[c].asked = request[c].asked
         /\ \A d \in Clients \ {c} : request'[d] = request[d]
<1>r. request[c] \in RequestState /\ request \in [Clients -> RequestState]
  BY DEF TypeInv, TypeOK
<1>1. PICK o : request' = [request EXCEPT ![c] =
                 [request[c] EXCEPT !.at = "observing", !.outgoing = o]]
             \/ request' = [request EXCEPT ![c] = [request[c] EXCEPT !.at = "reading"]]
  BY Zenon DEF Respond
<1>2. request[c].at = "leased"
  BY Zenon DEF Respond
<1>3. /\ request'[c].at \in {"observing", "reading"}
      /\ request'[c].generation = request[c].generation
      /\ request'[c].asked = request[c].asked
  <2>1. CASE request' = [request EXCEPT ![c] =
                [request[c] EXCEPT !.at = "observing", !.outgoing = o]]
    BY <1>r, <2>1 DEF RequestState
  <2>2. CASE request' = [request EXCEPT ![c] =
                [request[c] EXCEPT !.at = "reading"]]
    BY <1>r, <2>2 DEF RequestState
  <2>3. QED
    BY <1>1, <2>1, <2>2
<1>4. \A d \in Clients \ {c} : request'[d] = request[d]
  BY <1>r, <1>1
<1>5. QED
  BY <1>2, <1>3, <1>4

LEMMA RequestStepMoves ==
  ASSUME TypeInv, NEW c \in Clients, RequestStep(c), NEW d \in Clients
  PROVE  request'[d] = request[d] \/ (d = c /\ Keeps(request[d], request'[d]))
<1>r. request[c] \in RequestState /\ request \in [Clients -> RequestState]
  BY DEF TypeInv, TypeOK
<1>1. CASE BeginRequest(c) \/ FollowRedirect(c)
  BY <1>r, <1>1
  DEF BeginRequest, FollowRedirect, BeginAcquire, Idle, Keeps, HoldsLease
<1>2. CASE SendCommand(c) \/ SendFails(c)
  <2>1. request' = [request EXCEPT ![c] = Sent(request[c])]
          \/ request' = [request EXCEPT ![c] = NotSent(request[c])]
    BY <1>2 DEF SendCommand, SendFails
  <2>2. Keeps(request[c], Sent(request[c]))
    BY <1>r, SentType DEF Keeps, HoldsLease, Idle
  <2>3. Keeps(request[c], Idle)
    BY DEF Keeps, HoldsLease, Idle
  <2>4. Keeps(request[c], NotSent(request[c]))
    BY <1>r, <2>2, <2>3, SentType
  <2>5. QED
    BY <1>r, <2>1, <2>2, <2>4
<1>3. CASE Respond(c)
  <2>1. QED
    BY <1>3, RespondLeaves DEF Keeps, HoldsLease
<1>4. CASE RejectCredentials(c) \/ EndRequest(c)
  <2>1. \/ request' = [request EXCEPT ![c] = Idle]
        \/ \E o : request' = [request EXCEPT ![c] =
                    [Idle EXCEPT !.at = "invalidating", !.outgoing = o]]
    BY <1>4, Zenon DEF RejectCredentials, EndRequest
  <2>2. /\ request'[c].at \notin HoldsLease
        /\ request'[c].generation = 0
        /\ request'[c].asked = 0
    <3>1. CASE request' = [request EXCEPT ![c] = Idle]
      BY <1>r, <3>1 DEF Idle, HoldsLease
    <3>2. ASSUME NEW o,
                 request' = [request EXCEPT ![c] =
                   [Idle EXCEPT !.at = "invalidating", !.outgoing = o]]
          PROVE  /\ request'[c].at \notin HoldsLease
                 /\ request'[c].generation = 0
                 /\ request'[c].asked = 0
      <4> DEFINE n == [Idle EXCEPT !.at = "invalidating", !.outgoing = o]
      <4>1. n.at = "invalidating" /\ n.generation = 0 /\ n.asked = 0
        BY DEF Idle
      <4>2. request'[c] = n
        BY <1>r, <3>2
      <4>3. QED
        BY <4>1, <4>2 DEF HoldsLease
    <3>3. QED
      BY <2>1, <3>1, <3>2
  <2>3. d # c => request'[d] = request[d]
    BY <1>r, <2>1
  <2>4. QED
    BY <2>2, <2>3 DEF Keeps, HoldsLease
<1>5. QED
  BY <1>1, <1>2, <1>3, <1>4 DEF RequestStep

LEMMA HandleAcquireMoves ==
  ASSUME TypeInv, HandleAcquire, NEW d \in Clients
  PROVE  \/ request'[d] = request[d]
         \/ Keeps(request[d], request'[d])
         \/ Grants(d)
<1>1. CASE d # Head(commands).client
  BY <1>1 DEF HandleAcquire, Reply
<1>2. CASE d = Head(commands).client /\ Reply(Refuse)
  BY <1>2 DEF Reply, Refuse, Idle, Keeps, HoldsLease
<1>3. CASE d = Head(commands).client /\ ~Reply(Refuse)
  BY <1>3 DEF HandleAcquire, Reply, Grants
<1>4. QED
  BY <1>1, <1>2, <1>3

(* A step moves a request in one of three ways.                            *)
LEMMA RequestMoves ==
  ASSUME TypeInv, [Next]_vars, NEW d \in Clients
  PROVE  \/ request'[d] = request[d]
         \/ Keeps(request[d], request'[d])
         \/ Grants(d)
<1>1. CASE \E c \in Clients : RequestStep(c)
  BY <1>1, RequestStepMoves
<1>2. CASE HandleAcquire
  BY <1>2, HandleAcquireMoves
<1>3. CASE Stop
  BY <1>3 DEF Stop, Idle, Keeps, HoldsLease
<1>4. CASE UNCHANGED request
  BY <1>4
<1>5. QED
  BY <1>1, <1>2, <1>3, <1>4
  DEF Next, vars, Owner, BeginShutdown, SendShutdown, DropHandles, Manager,
      HandleCommand, HandleObserve, HandleInvalidate, HandleShutdown,
      HandleChannelEnd, RefreshSucceeds, RefreshFails, TimedRefresh, Clock,
      RefreshDue, Expire, WindowElapses, UpstreamResets, Finished

(* Generations are installed one after the other, and only by a refresh.   *)
LEMMA ActiveMoves ==
  ASSUME TypeInv, [Next]_vars
  PROVE  active' = active \/ RefreshSucceeds
  BY DEF Next, vars, managerVars, RequestStep, BeginRequest, SendCommand, SendFails,
      Respond, FollowRedirect, RejectCredentials, EndRequest,
      Owner, BeginShutdown, SendShutdown, DropHandles, Manager, Stop,
      HandleCommand, HandleAcquire, HandleObserve, HandleInvalidate,
      HandleShutdown, HandleChannelEnd, RefreshFails, TimedRefresh, Clock,
      RefreshDue, Expire, WindowElapses, UpstreamResets, Finished
-----------------------------------------------------------------------------
(***************************************************************************)
(* Freshness of leases.                                                    *)
(***************************************************************************)
FreshInv == TypeInv /\ GenerationsAreInstalled /\ LeaseIsFresh

LEMMA NextKeepsFresh == FreshInv /\ [Next]_vars => FreshInv'
<1> SUFFICES ASSUME FreshInv, [Next]_vars PROVE FreshInv'
  OBVIOUS
<1>1. TypeInv /\ TypeInv'
  BY NextKeepsTypes DEF FreshInv
<1>2. active \in Nat /\ active' \in Nat /\ active <= active'
  <2>1. active \in Nat /\ active' \in Nat
    BY <1>1, LimitsAssumption DEF TypeInv, TypeOK, Generations
  <2>2. active' = active \/ active' = active + 1
    BY <1>1, ActiveMoves DEF RefreshSucceeds
  <2>3. QED
    BY <2>1, <2>2
<1>3. ASSUME NEW c \in Clients
      PROVE  /\ request'[c].generation <= active'
             /\ request'[c].asked <= active'
             /\ request'[c].at \in HoldsLease =>
                  request'[c].generation \in request'[c].asked .. active'
  <2>1. /\ request[c].generation \in Nat /\ request[c].generation <= active
        /\ request[c].asked \in Nat /\ request[c].asked <= active
        /\ request[c].at \in HoldsLease =>
             request[c].generation \in request[c].asked .. active
    BY <1>1, LimitsAssumption
    DEF FreshInv, GenerationsAreInstalled, LeaseIsFresh, TypeInv, TypeOK,
        RequestState, Generations
  <2>2. CASE request'[c] = request[c]
    BY <1>2, <2>1, <2>2
  <2>3. CASE Keeps(request[c], request'[c])
    BY <1>2, <2>1, <2>3 DEF Keeps
  <2>4. CASE Grants(c)
    <3>1. request[c] \in RequestState
      BY <1>1 DEF TypeInv, TypeOK
    <3>2. request'[c].generation = active /\ request'[c].asked = request[c].asked
      BY <2>4, <3>1 DEF Grants, Grant, RequestState
    <3>3. QED
      BY <1>2, <2>1, <3>2
  <2>5. QED
    BY <1>1, <2>2, <2>3, <2>4, RequestMoves
<1>4. QED
  BY <1>1, <1>3 DEF FreshInv, GenerationsAreInstalled, LeaseIsFresh

(* No caller is ever handed credentials older than those that were active  *)
(* when it asked, however long its command was queued.                     *)
THEOREM LeasesAreFresh == Spec => []LeaseIsFresh
<1>1. Init => FreshInv
  <2> SUFFICES ASSUME Init PROVE FreshInv
    OBVIOUS
  <2>1. TypeInv
    BY InitTypes
  <2>2. GenerationsAreInstalled /\ LeaseIsFresh
    BY DEF Init, Idle, GenerationsAreInstalled, LeaseIsFresh, HoldsLease
  <2>3. QED
    BY <2>1, <2>2 DEF FreshInv
<1>2. FreshInv => LeaseIsFresh
  BY DEF FreshInv
<1>3. QED
  BY <1>1, <1>2, NextKeepsFresh, PTL DEF Spec
-----------------------------------------------------------------------------
(***************************************************************************)
(* The budget.                                                             *)
(***************************************************************************)

(* Four handlers touch the budget or its history; nothing else does.       *)
LEMMA BudgetMoves ==
  ASSUME TypeInv, [Next]_vars
  PROVE  \/ HandleAcquire \/ HandleObserve \/ HandleInvalidate \/ RefreshSucceeds
         \/ UNCHANGED <<active, remaining, renewed, poisoned>>
  BY DEF Next, vars, managerVars, historyVars, RequestStep, BeginRequest,
      SendCommand, SendFails, Respond, FollowRedirect, RejectCredentials,
      EndRequest, Owner, BeginShutdown, SendShutdown, DropHandles, Manager, Stop,
      HandleCommand, HandleShutdown, HandleChannelEnd, RefreshFails,
      TimedRefresh, Clock, RefreshDue, Expire, WindowElapses, UpstreamResets,
      Finished

(* Outside a new window, handling an acquire or a report never raises it.  *)
LEMMA BudgetFalls ==
  ASSUME TypeInv, HandleAcquire \/ HandleObserve \/ HandleInvalidate
  PROVE  /\ WindowElapsed \/ remaining' <= remaining
         /\ ~renewed' => ~renewed /\ remaining' <= remaining
         /\ poisoned' => \/ remaining' = 0
                         \/ poisoned /\ remaining' <= remaining
<1>1. remaining \in Nat /\ remaining' \in Nat
  BY NextKeepsTypes, UpstreamAssumption
  DEF Next, Manager, HandleCommand, TypeInv, TypeOK
<1>2. CASE HandleAcquire
  <2>1. /\ remaining' = Budget \/ remaining' = Budget - 1
        /\ renewed' = (renewed \/ WindowElapsed)
        /\ poisoned' = (poisoned /\ ~WindowElapsed)
    BY <1>2 DEF HandleAcquire, ResetElapsedRateLimit
  <2>2. ~WindowElapsed => remaining' <= remaining
    BY <1>1, <2>1 DEF Budget
  <2>3. QED
    BY <2>1, <2>2
<1>3. CASE HandleObserve
  <2>1. CASE Retired(Head(commands))
    BY <1>1, <1>3, <2>1 DEF HandleObserve
  <2>2. CASE ~Retired(Head(commands))
    <3>1. /\ renewed' = (renewed \/ WindowElapsed)
          /\ poisoned' = (poisoned /\ ~WindowElapsed)
          /\ WindowElapsed \/ remaining' = Lower(Head(commands).remaining)
      BY <1>3, <2>2 DEF HandleObserve
    <3>2. Head(commands).remaining \in Nat
      BY <1>3, ReceiveType, UpstreamAssumption
      DEF HandleObserve, TypeInv, Command, Shutdown
    <3>3. WindowElapsed \/ remaining' <= remaining
      BY <1>1, <3>1, <3>2 DEF Lower
    <3>4. QED
      BY <3>1, <3>3
  <2>3. QED
    BY <2>1, <2>2
<1>4. CASE HandleInvalidate
  <2>1. renewed' = renewed
    BY <1>4 DEF HandleInvalidate
  <2>2. remaining' = 0 \/ (remaining' = remaining /\ poisoned' = poisoned)
    BY <1>4 DEF HandleInvalidate
  <2>3. remaining' <= remaining
    BY <1>1, <2>2
  <2>4. QED
    BY <2>1, <2>2, <2>3
<1>5. QED
  BY <1>2, <1>3, <1>4

PoisonInv == TypeInv /\ PoisonedHasNoBudget

LEMMA NextKeepsPoison == PoisonInv /\ [Next]_vars => PoisonInv'
<1> SUFFICES ASSUME PoisonInv, [Next]_vars PROVE PoisonInv'
  OBVIOUS
<1>1. TypeInv /\ TypeInv' /\ PoisonedHasNoBudget
  BY NextKeepsTypes DEF PoisonInv
<1>2. remaining \in Nat /\ remaining' \in Nat
  BY <1>1, UpstreamAssumption DEF TypeInv, TypeOK
<1>3. CASE HandleAcquire \/ HandleObserve \/ HandleInvalidate
  BY <1>1, <1>2, <1>3, BudgetFalls DEF PoisonInv, PoisonedHasNoBudget
<1>4. CASE RefreshSucceeds
  BY <1>1, <1>4 DEF RefreshSucceeds, PoisonInv, PoisonedHasNoBudget
<1>5. CASE UNCHANGED <<active, remaining, renewed, poisoned>>
  BY <1>1, <1>5 DEF PoisonInv, PoisonedHasNoBudget
<1>6. QED
  BY <1>1, <1>3, <1>4, <1>5, BudgetMoves

LEMMA PoisonInvariant == Spec => []PoisonInv
<1>1. Init => PoisonInv
  BY InitTypes DEF Init, PoisonInv, PoisonedHasNoBudget
<1>2. QED
  BY <1>1, NextKeepsPoison, PTL DEF Spec

(* Credentials reported as invalid keep a budget of nothing until they are *)
(* replaced or their window ends: no later report revives them.            *)
THEOREM PoisonedStayUnused == Spec => []PoisonedHasNoBudget
<1>1. PoisonInv => PoisonedHasNoBudget
  BY DEF PoisonInv
<1>2. QED
  BY <1>1, PoisonInvariant, PTL

(* Only a running manager grants leases, and only on credentials that have *)
(* not expired, with budget left or a window that has just ended, and not  *)
(* reported as invalid since the window began.                             *)
THEOREM GrantsUseGoodCredentials == Spec => GrantsAreUsable
<1>1. ASSUME PoisonInv, [Next]_vars, NEW c \in Clients,
             request[c].at # "leased", request'[c].at = "leased"
      PROVE  /\ status = "running" /\ ~expired
             /\ remaining > 0 \/ resetAt = "elapsed"
             /\ ~poisoned'
  <2>1. TypeInv
    BY <1>1 DEF PoisonInv
  <2>2. Grants(c)
    BY <1>1, <2>1, RequestMoves DEF Keeps
  <2>3. status = "running" /\ ~expired
    BY <2>2 DEF Grants, HandleAcquire, Unusable, Receive
  <2>4. poisoned' => poisoned /\ ~WindowElapsed
    BY <2>2 DEF Grants, HandleAcquire, ResetElapsedRateLimit
  <2>5. poisoned /\ ~WindowElapsed => Budget = 0
    BY <1>1 DEF PoisonInv, PoisonedHasNoBudget, Budget
  <2>6. Budget # 0
    BY <2>2 DEF Grants, HandleAcquire, Unusable
  <2>7. remaining > 0 \/ resetAt = "elapsed"
    BY <2>1, <2>6, UpstreamAssumption DEF Budget, WindowElapsed, TypeInv, TypeOK
  <2>8. QED
    BY <2>3, <2>4, <2>5, <2>6, <2>7
<1>2. PoisonInv /\ [Next]_vars =>
        [\A c \in Clients :
           request[c].at # "leased" /\ request'[c].at = "leased" =>
             /\ status = "running"
             /\ ~expired
             /\ remaining > 0 \/ resetAt = "elapsed"
             /\ ~poisoned']_vars
  BY <1>1
<1>3. QED
  BY <1>2, PoisonInvariant, PTL DEF Spec, GrantsAreUsable

(* Budget comes back with new credentials or a new window and in no other  *)
(* way, in whatever order the reports of concurrent requests arrive.       *)
THEOREM BudgetNeedsRenewal == Spec => BudgetOnlyRenewed
<1>1. TypeInv /\ [Next]_vars =>
        [remaining' > remaining => active' > active \/ resetAt = "elapsed"]_vars
  <2> SUFFICES ASSUME TypeInv, [Next]_vars, remaining' > remaining
               PROVE  active' > active \/ resetAt = "elapsed"
    OBVIOUS
  <2>1. remaining \in Nat /\ remaining' \in Nat /\ active \in Nat
    BY NextKeepsTypes, UpstreamAssumption, LimitsAssumption
    DEF TypeInv, TypeOK, Generations
  <2>2. CASE HandleAcquire \/ HandleObserve \/ HandleInvalidate
    BY <2>1, <2>2, BudgetFalls DEF WindowElapsed
  <2>3. CASE RefreshSucceeds
    BY <2>1, <2>3 DEF RefreshSucceeds
  <2>4. CASE UNCHANGED <<active, remaining, renewed, poisoned>>
    BY <2>1, <2>4
  <2>5. QED
    BY <2>2, <2>3, <2>4, BudgetMoves
<1>2. QED
  BY <1>1, InitTypes, NextKeepsTypes, PTL DEF Spec, BudgetOnlyRenewed
-----------------------------------------------------------------------------
(***************************************************************************)
(* The quota of the service.                                               *)
(***************************************************************************)
LEMMA InFlightIsFinite ==
  /\ IsFiniteSet(InFlight)
  /\ Cardinality(InFlight) \in Nat
  BY FS_Subset, FS_CardinalityType, ClientsAssumption DEF InFlight

(* While the active generation stays, only a grant adds to its requests.   *)
LEMMA InFlightMoves ==
  ASSUME TypeInv, [Next]_vars, active' = active, NEW d \in InFlight'
  PROVE  d \in InFlight \/ Grants(d)
  BY RequestMoves DEF InFlight, Keeps

LEMMA UpstreamMoves ==
  ASSUME TypeInv, [Next]_vars
  PROVE  \/ upstream' = upstream
         \/ RefreshSucceeds
         \/ UpstreamResets
         \/ \E c \in Clients : Respond(c)
  BY DEF Next, vars, RequestStep, BeginRequest, SendCommand, SendFails,
      FollowRedirect, RejectCredentials, EndRequest, Owner, BeginShutdown,
      SendShutdown, DropHandles, Manager, Stop, HandleCommand, HandleAcquire,
      HandleObserve, HandleInvalidate, HandleShutdown, HandleChannelEnd,
      RefreshFails, TimedRefresh, Clock, RefreshDue, Expire, WindowElapses,
      Finished

QuotaInv == FreshInv /\ WithinUpstreamQuota

(* Requests in flight never grow without a grant, so their number does not *)
(* either.                                                                 *)
LEMMA InFlightShrinks ==
  ASSUME TypeInv, [Next]_vars, active' = active, \A d \in Clients : ~Grants(d)
  PROVE  /\ InFlight' \subseteq InFlight
         /\ Cardinality(InFlight') \in Nat
         /\ Cardinality(InFlight') <= Cardinality(InFlight)
<1>1. InFlight' \subseteq InFlight
  BY InFlightMoves DEF InFlight
<1>2. QED
  BY <1>1, InFlightIsFinite, FS_Subset, FS_CardinalityType

LEMMA AcquireKeepsQuota ==
  ASSUME QuotaInv, HandleAcquire, ~renewed'
  PROVE  remaining' + Cardinality(InFlight') <= upstream'
<1>1. TypeInv /\ WithinUpstreamQuota
  BY DEF QuotaInv, FreshInv
<1>2. /\ remaining \in Nat /\ remaining' \in Nat
      /\ upstream \in Nat /\ upstream' = upstream /\ active' = active
  BY <1>1, HandleAcquireKeepsTypes, UpstreamAssumption
  DEF TypeInv, TypeOK, HandleAcquire
<1>3. remaining + Cardinality(InFlight) <= upstream /\ Budget = remaining
  BY <1>1 DEF HandleAcquire, ResetElapsedRateLimit, WithinUpstreamQuota, Budget
<1>4. [Next]_vars
  BY DEF Next, Manager, HandleCommand
<1>5. CASE \A d \in Clients : ~Grants(d)
  <2>1. remaining' <= remaining
    BY <1>2, <1>3 DEF HandleAcquire
  <2>2. QED
    BY <1>1, <1>2, <1>3, <1>4, <1>5, <2>1, InFlightShrinks, InFlightIsFinite
<1>6. ASSUME NEW c \in Clients, Grants(c)
      PROVE  remaining' + Cardinality(InFlight') <= upstream'
  <2>1. remaining' = remaining - 1
    BY <1>3, <1>6 DEF Grants
  <2>2. \A d \in InFlight' : d \in InFlight \/ d = c
    BY <1>1, <1>2, <1>4, <1>6, InFlightMoves DEF Grants
  <2>3. /\ IsFiniteSet(InFlight \cup {c})
        /\ Cardinality(InFlight \cup {c}) \in Nat
        /\ Cardinality(InFlight \cup {c}) <= Cardinality(InFlight) + 1
    BY InFlightIsFinite, FS_AddElement, FS_CardinalityType
  <2>4. /\ Cardinality(InFlight') \in Nat
        /\ Cardinality(InFlight') <= Cardinality(InFlight \cup {c})
    BY <2>2, <2>3, FS_Subset, FS_CardinalityType
  <2>5. QED
    BY <1>2, <1>3, <2>1, <2>3, <2>4, InFlightIsFinite
<1>7. QED
  BY <1>5, <1>6

LEMMA RespondKeepsQuota ==
  ASSUME QuotaInv, NEW c \in Clients, Respond(c), ~renewed'
  PROVE  remaining' + Cardinality(InFlight') <= upstream'
<1>1. TypeInv /\ WithinUpstreamQuota /\ [Next]_vars
  BY DEF QuotaInv, FreshInv, Next, RequestStep
<1>2. /\ remaining' = remaining /\ active' = active /\ renewed' = renewed
      /\ request[c].at = "leased"
  BY Zenon DEF Respond, managerVars, historyVars
<1>3. remaining \in Nat /\ upstream \in Nat
  BY <1>1, UpstreamAssumption DEF TypeInv, TypeOK
<1>4. remaining + Cardinality(InFlight) <= upstream
  BY <1>1, <1>2 DEF WithinUpstreamQuota
<1>5. InFlight' \subseteq InFlight \ {c}
  BY <1>1, <1>2, RespondLeaves DEF InFlight
<1>6. /\ Cardinality(InFlight') \in Nat
      /\ Cardinality(InFlight') <= Cardinality(InFlight \ {c})
  BY <1>5, InFlightIsFinite, FS_RemoveElement, FS_Subset, FS_CardinalityType
<1>7. Cardinality(InFlight \ {c}) =
        IF c \in InFlight THEN Cardinality(InFlight) - 1 ELSE Cardinality(InFlight)
  BY InFlightIsFinite, FS_RemoveElement
<1>8. CASE c \in InFlight
  <2>1. Cardinality(InFlight) # 0
    BY <1>8, InFlightIsFinite, FS_EmptySet
  <2>2. request[c].generation = active
    BY <1>8 DEF InFlight
  <2>3. upstream' = upstream - 1
    BY <1>3, <1>4, <2>1, <2>2, InFlightIsFinite, UpstreamStep
  <2>4. QED
    BY <1>2, <1>3, <1>4, <1>6, <1>7, <1>8, <2>3, InFlightIsFinite
<1>9. CASE c \notin InFlight
  <2>1. upstream' = upstream
    BY <1>2, <1>9, UpstreamStep DEF InFlight
  <2>2. QED
    BY <1>2, <1>3, <1>4, <1>6, <1>7, <1>9, <2>1, InFlightIsFinite
<1>10. QED
  BY <1>8, <1>9

LEMMA NextKeepsQuota == QuotaInv /\ [Next]_vars => QuotaInv'
<1> SUFFICES ASSUME QuotaInv, [Next]_vars, ~renewed'
             PROVE  remaining' + Cardinality(InFlight') <= upstream'
  BY NextKeepsFresh DEF QuotaInv, WithinUpstreamQuota
<1>1. TypeInv /\ TypeInv'
  BY NextKeepsTypes DEF QuotaInv, FreshInv
<1>2. /\ remaining \in Nat /\ remaining' \in Nat
      /\ upstream \in Nat /\ upstream' \in Nat
  BY <1>1, UpstreamAssumption DEF TypeInv, TypeOK
<1>3. CASE HandleAcquire
  BY <1>3, AcquireKeepsQuota
<1>4. CASE \E c \in Clients : Respond(c)
  BY <1>4, RespondKeepsQuota
<1>5. CASE RefreshSucceeds
  <2>1. /\ remaining' = InitialRateLimit /\ upstream' = UpstreamLimit
        /\ request' = request /\ active' = active + 1
    BY <1>5 DEF RefreshSucceeds
  <2>2. active \in Nat /\ \A c \in Clients : request[c].generation \in Nat
    BY <1>1, LimitsAssumption DEF TypeInv, TypeOK, Generations, RequestState
  <2>3. \A c \in Clients : request[c].generation # active'
    BY <2>1, <2>2 DEF QuotaInv, FreshInv, GenerationsAreInstalled
  <2>4. InFlight' = {}
    BY <2>1, <2>3 DEF InFlight
  <2>5. Cardinality(InFlight') = 0
    BY <2>4, FS_EmptySet
  <2>6. QED
    BY <2>1, <2>5, LimitsAssumption, UpstreamAssumption
<1>6. CASE /\ ~HandleAcquire
           /\ ~RefreshSucceeds
           /\ ~ \E c \in Clients : Respond(c)
  <2>1. active' = active /\ \A d \in Clients : ~Grants(d)
    BY <1>1, <1>6, ActiveMoves DEF Grants
  <2>2. ~renewed /\ remaining' <= remaining
    BY <1>1, <1>2, <1>6, BudgetMoves, BudgetFalls
  <2>3. upstream <= upstream'
    <3>1. upstream' = upstream \/ UpstreamResets
      BY <1>1, <1>6, UpstreamMoves
    <3>2. UpstreamResets => upstream < UpstreamLimit /\ upstream' = UpstreamLimit
      BY DEF UpstreamResets
    <3>3. QED
      BY <1>2, <3>1, <3>2, UpstreamAssumption
  <2>4. remaining + Cardinality(InFlight) <= upstream
    BY <2>2 DEF QuotaInv, WithinUpstreamQuota
  <2>5. QED
    BY <1>1, <1>2, <2>1, <2>2, <2>3, <2>4, InFlightShrinks, InFlightIsFinite
<1>7. QED
  BY <1>3, <1>4, <1>5, <1>6

(* Until the window of the active credentials is reset, the manager never  *)
(* has more leases out and left to grant than the service will accept.     *)
THEOREM QuotaIsRespected == Spec => []WithinUpstreamQuota
<1>1. Init => QuotaInv
  <2> SUFFICES ASSUME Init PROVE QuotaInv
    OBVIOUS
  <2>1. FreshInv
    BY InitTypes DEF Init, Idle, FreshInv, GenerationsAreInstalled, LeaseIsFresh,
                     HoldsLease
  <2>2. InFlight = {}
    BY DEF Init, Idle, InFlight
  <2>3. remaining + Cardinality(InFlight) <= upstream
    BY <2>2, FS_EmptySet, LimitsAssumption, UpstreamAssumption DEF Init
  <2>4. QED
    BY <2>1, <2>3 DEF QuotaInv, WithinUpstreamQuota
<1>2. QuotaInv => WithinUpstreamQuota
  BY DEF QuotaInv
<1>3. QED
  BY <1>1, <1>2, NextKeepsQuota, PTL DEF Spec
-----------------------------------------------------------------------------
(***************************************************************************)
(* The end of the manager.                                                 *)
(***************************************************************************)

(* Once stopped, the manager does nothing, and no command reaches it.      *)
LEMMA StoppedStaysQuiet ==
  ASSUME TypeInv, NobodyWaitsOnStopped, [Next]_vars, status = "stopped"
  PROVE  NobodyWaitsOnStopped'
<1> USE DEF NobodyWaitsOnStopped
<1>1. CASE \E c \in Clients : RequestStep(c)
  <2>1. PICK c \in Clients : RequestStep(c)
    BY <1>1
  <2>2. request \in [Clients -> RequestState]
    BY DEF TypeInv, TypeOK
  <2>3. /\ refreshes' = refreshes /\ owner' = owner
        /\ commands' = commands \/ EndRequest(c)
    BY <2>1
    DEF RequestStep, BeginRequest, SendCommand, ChannelOpen, SendFails, Respond,
        FollowRedirect, RejectCredentials, EndRequest, managerVars
  <2>4. EndRequest(c) => commands' = << >>
    <3>1. DOMAIN commands = {}
      OBVIOUS
    <3>2. QED
      BY <3>1 DEF EndRequest
  <2>5. request'[c].at # "waiting"
    <3>1. CASE BeginRequest(c) \/ FollowRedirect(c)
      BY <2>2, <3>1 DEF BeginRequest, FollowRedirect, BeginAcquire, Idle
    <3>2. CASE SendFails(c)
      <4>1. request'[c] = NotSent(request[c])
        BY <2>2, <3>2 DEF SendFails
      <4>2. NotSent(request[c]) = Idle \/ NotSent(request[c]).at = "reading"
        <5>1. request[c] \in RequestState
          BY <2>2
        <5>2. request[c].at = "observing" => Sent(request[c]).at = "reading"
          BY <5>1 DEF Sent, RequestState
        <5>3. QED
          BY <5>2 DEF NotSent
      <4>3. QED
        BY <4>1, <4>2 DEF Idle
    <3>3. CASE Respond(c)
      BY <3>3, RespondLeaves
    <3>4. CASE RejectCredentials(c)
      BY <2>2, <3>4 DEF RejectCredentials, Idle
    <3>5. CASE EndRequest(c)
      BY <2>2, <3>5 DEF EndRequest, Idle
    <3>6. QED
      BY <2>1, <3>1, <3>2, <3>3, <3>4, <3>5 DEF RequestStep, SendCommand, ChannelOpen
  <2>6. \A d \in Clients \ {c} : request'[d] = request[d]
    BY <2>1, RequestStepMoves
  <2>7. QED
    BY <2>3, <2>4, <2>5, <2>6
<1>2. CASE Owner
  BY <1>2
  DEF Owner, BeginShutdown, SendShutdown, ChannelOpen, DropHandles, managerVars
<1>3. CASE Clock
  BY <1>3 DEF Clock, RefreshDue, Expire, WindowElapses, UpstreamResets, managerVars
<1>4. CASE UNCHANGED vars
  BY <1>4 DEF vars
<1>5. ~Manager
  BY DEF Manager, HandleCommand, HandleAcquire, HandleObserve, HandleInvalidate,
         HandleShutdown, HandleChannelEnd, Stop, RefreshSucceeds, RefreshFails,
         TimedRefresh, Receive
<1>6. QED
  BY <1>1, <1>2, <1>3, <1>4, <1>5 DEF Next, Finished

(* The status of the manager changes when it is told to end, and at Stop.  *)
LEMMA StatusMoves ==
  ASSUME [Next]_vars, status # "stopped", status' = "stopped"
  PROVE  Stop
  BY DEF Next, vars, managerVars, RequestStep, BeginRequest, SendCommand,
      SendFails, Respond, FollowRedirect, RejectCredentials, EndRequest, Owner,
      BeginShutdown, SendShutdown, DropHandles, Manager, HandleCommand,
      HandleAcquire, HandleObserve, HandleInvalidate, HandleShutdown,
      HandleChannelEnd, RefreshSucceeds, RefreshFails, TimedRefresh, Clock,
      RefreshDue, Expire, WindowElapses, UpstreamResets, Finished

(* Whoever calls while the manager ends, or after it, is not left waiting, *)
(* and no refresh task or queued command outlives the manager.             *)
THEOREM NobodyIsLeftWaiting == Spec => []NobodyWaitsOnStopped
<1>1. Init => NobodyWaitsOnStopped
  BY DEF Init, NobodyWaitsOnStopped
<1>2. NobodyWaitsOnStopped /\ TypeInv /\ [Next]_vars => NobodyWaitsOnStopped'
  <2> SUFFICES ASSUME NobodyWaitsOnStopped, TypeInv, [Next]_vars
               PROVE  NobodyWaitsOnStopped'
    OBVIOUS
  <2>1. CASE status' # "stopped"
    BY <2>1 DEF NobodyWaitsOnStopped
  <2>2. CASE status = "stopped"
    BY <2>2, StoppedStaysQuiet
  <2>3. CASE Stop
    BY <2>3 DEF Stop, NobodyWaitsOnStopped, Idle
  <2>4. QED
    BY <2>1, <2>2, <2>3, StatusMoves
<1>3. QED
  BY <1>1, <1>2, InitTypes, NextKeepsTypes, PTL DEF Spec
-----------------------------------------------------------------------------
(***************************************************************************)
(* Late reports.                                                           *)
(***************************************************************************)

(* Only the manager shortens the queue, and only of what it handles.       *)
LEMMA QueueShrinks ==
  ASSUME TypeInv, [Next]_vars, status' = "running", commands # << >>,
         Len(commands') < Len(commands)
  PROVE  HandleAcquire \/ HandleObserve \/ HandleInvalidate
<1>1. /\ commands \in Seq(Command) /\ Len(commands) \in Nat
      /\ request \in [Clients -> RequestState]
  BY LenProperties DEF TypeInv, TypeOK
<1>2. commands' # commands
  BY <1>1
<1>3. ASSUME NEW c \in Clients, SendCommand(c) PROVE FALSE
  <2>1. request[c].outgoing \in Command
    BY <1>3 DEF SendCommand, TypeInv, SendersHaveCommands
  <2>2. Len(Append(commands, request[c].outgoing)) = Len(commands) + 1
    BY <1>1, <2>1, AppendProperties
  <2>. QED BY <1>1, <1>3, <2>2 DEF SendCommand
<1>4. ASSUME NEW c \in Clients, EndRequest(c) PROVE FALSE
  <2>. DEFINE orphaned == [i \in DOMAIN commands |->
                IF commands[i] = Acquire(c) THEN Acquire(NoClient) ELSE commands[i]]
  <2>1. orphaned \in Seq(Command)
    BY OrphanType DEF TypeInv
  <2>2. DOMAIN orphaned = DOMAIN commands
    OBVIOUS
  <2>. HIDE DEF orphaned
  <2>3. Len(orphaned) = Len(commands)
    BY <1>1, <2>1, <2>2, LenProperties
  <2>4. commands' = orphaned
    BY <1>4 DEF EndRequest, orphaned
  <2>. QED BY <1>1, <2>3, <2>4
<1>5. ASSUME SendShutdown PROVE FALSE
  <2>1. Len(Append(commands, Shutdown)) = Len(commands) + 1
    BY <1>1, AppendProperties DEF Command
  <2>. QED BY <1>1, <1>2, <1>5, <2>1 DEF SendShutdown
<1>. QED
  BY <1>2, <1>3, <1>4, <1>5
  DEF Next, vars, RequestStep, BeginRequest, SendFails, Respond, FollowRedirect,
      RejectCredentials, Owner, BeginShutdown, DropHandles, Manager, Stop,
      HandleCommand, HandleShutdown, HandleChannelEnd, RefreshSucceeds,
      RefreshFails, TimedRefresh, Clock, RefreshDue, Expire, WindowElapses,
      UpstreamResets, Finished

(* A report on retired credentials, however late, leaves the budget, the   *)
(* deadline and the refresh of the active ones alone (manager.rs,          *)
(* observe_rate_limit and invalidate).                                     *)
THEOREM RetiredReportsDoNothing == Spec => LateReportsAreHarmless
<1>1. TypeInv /\ [Next]_vars =>
        [/\ status' = "running"
         /\ commands # << >>
         /\ commands' = Tail(commands)
         /\ Head(commands).kind \in {"observe", "invalidate"}
         /\ Head(commands).generation < active
         => UNCHANGED <<remaining, resetAt, refreshes, poisoned>>]_vars
  <2>. SUFFICES ASSUME TypeInv, [Next]_vars, status' = "running", commands # << >>,
                       commands' = Tail(commands),
                       Head(commands).kind \in {"observe", "invalidate"},
                       Head(commands).generation < active
                PROVE  UNCHANGED <<remaining, resetAt, refreshes, poisoned>>
    OBVIOUS
  <2>1. Len(commands') < Len(commands)
    <3>1. commands \in Seq(Command)
      BY DEF TypeInv, TypeOK
    <3>. QED BY <3>1, HeadTailProperties, LenProperties
  <2>2. HandleObserve \/ HandleInvalidate
    <3>1. Head(commands).kind # "acquire"
      OBVIOUS
    <3>. QED BY <2>1, <3>1, QueueShrinks DEF HandleAcquire, Receive
  <2>3. Retired(Head(commands))
    <3>1. active \in Nat
      BY LimitsAssumption DEF TypeInv, TypeOK, Generations
    <3>2. Head(commands) \in Command
      BY HeadTailProperties DEF TypeInv, TypeOK
    <3>3. Head(commands).generation # active
      BY <3>1
    <3>. QED BY <3>3 DEF Retired
  <2>. QED BY <2>2, <2>3 DEF HandleObserve, HandleInvalidate
<1>. QED BY <1>1, InitTypes, NextKeepsTypes, PTL DEF Spec, LateReportsAreHarmless
=============================================================================
