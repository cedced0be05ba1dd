---------------------------- MODULE OAuthManager ----------------------------
(***************************************************************************)
(* The OAuth credential manager of the Reddit client: one actor            *)
(* (run_manager) that owns the active credentials and their rate-limit     *)
(* budget, a bounded command channel (OAuthHandle), the refresh task it    *)
(* spawns, and the requests that lease credentials from it                 *)
(* (RedditClient::request, fetch_json and html).                           *)
(*                                                                         *)
(* Time is abstract: a deadline is a small state that a clock action moves *)
(* forward.  Credentials are known by the number of their generation.      *)
(* The remote service is reduced to the number of requests it will still   *)
(* accept from the active generation in the current window.                *)
(***************************************************************************)
EXTENDS Naturals, Sequences, FiniteSets

CONSTANTS
  Clients,           \* tasks that send requests to Reddit
  NoClient,          \* the caller of an acquire whose future was dropped
  InitialRateLimit,  \* INITIAL_RATE_LIMIT: budget assumed for new credentials
  RefreshThreshold,  \* REFRESH_THRESHOLD: budget that triggers a refresh
  QueueCapacity,     \* capacity of the command channel
  MaxRedirects,      \* MAX_REDDIT_REDIRECTS: redirects followed per request
  UpstreamLimit,     \* requests the service accepts per credentials and window
  MaxGeneration      \* bound: credentials installed after the first ones

ASSUME ClientsAssumption ==
  /\ NoClient \notin Clients
  /\ IsFiniteSet(Clients)

ASSUME LimitsAssumption ==
  /\ InitialRateLimit \in Nat
  /\ RefreshThreshold \in Nat
  /\ QueueCapacity \in Nat \ {0}
  /\ MaxRedirects \in Nat
  /\ MaxGeneration \in Nat

(* The client counts on new credentials being worth INITIAL_RATE_LIMIT     *)
(* requests before it has seen any rate-limit header.                      *)
ASSUME UpstreamAssumption ==
  /\ UpstreamLimit \in Nat
  /\ InitialRateLimit <= UpstreamLimit

VARIABLES
  \* State of the manager
  active,       \* number of the active generation
  remaining,    \* requests it may still lease before the window resets
  resetAt,      \* deadline of the window: "none", "pending" or "elapsed"
  expired,      \* whether the active credentials are past expires_at
  timer,        \* next_refresh_at: "scheduled", "retry" or "due"
  refreshes,    \* number of running refresh tasks
  status,       \* "running", "stopping" or "stopped"
  \* The command channel
  commands,     \* commands queued for the manager
  handles,      \* whether any OAuthHandle is left
  owner,        \* the task that shuts the client down
  \* Requests
  request,      \* the request each client makes, with its local state
  \* The remote service
  upstream,     \* requests it still accepts from the active generation
  \* History, read by properties only
  renewed,      \* the active generation's window was reset
  poisoned      \* the active generation was invalidated in this window

managerVars == <<active, remaining, resetAt, expired, timer, refreshes, status>>
historyVars == <<renewed, poisoned>>
vars == <<active, remaining, resetAt, expired, timer, refreshes, status,
          commands, handles, owner, request, upstream, renewed, poisoned>>

(***************************************************************************)
(* Commands.  An acquire whose caller was dropped has no client: its reply *)
(* goes nowhere, but the manager handles it all the same.                  *)
(***************************************************************************)
Generations == 0 .. MaxGeneration

Acquire(c) == [kind |-> "acquire", client |-> c]
Observe(g, left, timed) ==
  [kind |-> "observe", generation |-> g, remaining |-> left, timed |-> timed]
Invalidate(g) == [kind |-> "invalidate", generation |-> g]
Shutdown == [kind |-> "shutdown"]
Nothing == [kind |-> "nothing"]

Command ==
  [kind : {"acquire"}, client : Clients \cup {NoClient}]
    \cup [kind : {"observe"}, generation : Generations,
          remaining : 0 .. UpstreamLimit, timed : BOOLEAN]
    \cup [kind : {"invalidate"}, generation : Generations]
    \cup {Shutdown}

(***************************************************************************)
(* The local state of a request: where it is, the command it is sending,   *)
(* the generation of its lease and the redirects it followed; and, read by *)
(* properties only, the generation active when it called acquire.          *)
(***************************************************************************)
RequestState ==
  [at : {"idle", "acquiring", "waiting", "leased", "observing", "reading",
         "invalidating"},
   outgoing : Command \cup {Nothing},
   generation : Generations,
   hops : 0 .. MaxRedirects,
   asked : Generations]

Idle == [at |-> "idle", outgoing |-> Nothing, generation |-> 0, hops |-> 0,
         asked |-> 0]

HoldsLease == {"leased", "observing", "reading"}

TypeOK ==
  /\ active \in Generations
  /\ remaining \in 0 .. UpstreamLimit
  /\ resetAt \in {"none", "pending", "elapsed"}
  /\ expired \in BOOLEAN
  /\ timer \in {"scheduled", "retry", "due"}
  /\ refreshes \in 0 .. 1
  /\ status \in {"running", "stopping", "stopped"}
  /\ commands \in Seq(Command)
  /\ handles \in BOOLEAN
  /\ owner \in {"serving", "sending", "waiting", "returned"}
  /\ request \in [Clients -> RequestState]
  /\ upstream \in 0 .. UpstreamLimit
  /\ renewed \in BOOLEAN
  /\ poisoned \in BOOLEAN

Init ==
  /\ active = 0
  /\ remaining = InitialRateLimit
  /\ resetAt = "none"
  /\ expired = FALSE
  /\ timer = "scheduled"
  /\ refreshes = 0
  /\ status = "running"
  /\ commands = << >>
  /\ handles = TRUE
  /\ owner = "serving"
  /\ request = [c \in Clients |-> Idle]
  /\ upstream = UpstreamLimit
  /\ renewed = FALSE
  /\ poisoned = FALSE
-----------------------------------------------------------------------------
(***************************************************************************)
(* Requests.                                                               *)
(***************************************************************************)

(* One pass of the redirect loop begins: the client calls acquire.         *)
BeginAcquire(c, redirects) ==
  request' = [request EXCEPT ![c] =
    [Idle EXCEPT !.at = "acquiring", !.outgoing = Acquire(c),
                 !.hops = redirects, !.asked = active]]

BeginRequest(c) ==
  /\ handles
  /\ request[c].at = "idle"
  /\ BeginAcquire(c, 0)
  /\ UNCHANGED <<managerVars, commands, handles, owner, upstream, historyVars>>

(* What a request becomes when its command was accepted, or refused.       *)
Sent(r) ==
  CASE r.at = "acquiring" -> [r EXCEPT !.at = "waiting", !.outgoing = Nothing]
    [] r.at = "observing" -> [r EXCEPT !.at = "reading", !.outgoing = Nothing]
    [] OTHER -> Idle

NotSent(r) == IF r.at = "observing" THEN Sent(r) ELSE Idle

(* A command can be queued as long as the receiver is alive.               *)
\* Mutant: the end of the receiver goes unnoticed.
ChannelNeverCloses == TRUE
ChannelOpen == status # "stopped"

Sending(c) == request[c].at \in {"acquiring", "observing", "invalidating"}

(* The channel has room and its receiver is alive: the command is queued.  *)
SendCommand(c) ==
  /\ Sending(c)
  /\ ChannelOpen
  /\ Len(commands) < QueueCapacity
  /\ commands' = Append(commands, request[c].outgoing)
  /\ request' = [request EXCEPT ![c] = Sent(request[c])]
  /\ UNCHANGED <<managerVars, handles, owner, upstream, historyVars>>

(* The receiver is gone: acquire fails with ManagerStopped, and the other  *)
(* two commands are dropped without an error.                              *)
SendFails(c) ==
  /\ Sending(c)
  /\ status = "stopped"
  /\ request' = [request EXCEPT ![c] = NotSent(request[c])]
  /\ UNCHANGED <<managerVars, commands, handles, owner, upstream, historyVars>>

(* The service receives the request and answers; the response headers are  *)
(* read.  It counts the request against the credentials that sent it, and  *)
(* may or may not report what is left, with or without a usable reset.     *)
(* What is left of retired credentials matters to nobody: it reports 0.    *)
Respond(c) ==
  /\ request[c].at = "leased"
  /\ LET r == request[c]
         current == r.generation = active
     IN /\ upstream' = IF current /\ upstream > 0 THEN upstream - 1
                                                  ELSE upstream
        /\ \/ \E timed \in BOOLEAN :
                request' = [request EXCEPT ![c] =
                  [r EXCEPT !.at = "observing",
                            !.outgoing = Observe(r.generation,
                                                 IF current THEN upstream' ELSE 0,
                                                 timed)]]
           \/ request' = [request EXCEPT ![c] = [r EXCEPT !.at = "reading"]]
  /\ UNCHANGED <<managerVars, commands, handles, owner, historyVars>>

(* A redirect: the lease is dropped and the loop acquires another one.     *)
FollowRedirect(c) ==
  /\ request[c].at = "reading"
  /\ request[c].hops < MaxRedirects
  /\ BeginAcquire(c, request[c].hops + 1)
  /\ UNCHANGED <<managerVars, commands, handles, owner, upstream, historyVars>>

(* An empty body, a 429, a 401 or an "Unauthorized" message: the lease is  *)
(* dropped and its generation reported as invalid.                         *)
RejectCredentials(c) ==
  /\ request[c].at = "reading"
  /\ request' = [request EXCEPT ![c] =
       [Idle EXCEPT !.at = "invalidating",
                    !.outgoing = Invalidate(request[c].generation)]]
  /\ UNCHANGED <<managerVars, commands, handles, owner, upstream, historyVars>>

(* The request ends: it succeeded, failed, or its future was dropped by a  *)
(* timeout or a disconnected caller, at any await.  A queued acquire stays *)
(* queued, with nobody to receive its reply.                               *)
EndRequest(c) ==
  /\ request[c].at # "idle"
  /\ request' = [request EXCEPT ![c] = Idle]
  /\ commands' = [i \in DOMAIN commands |->
                    IF commands[i] = Acquire(c) THEN Acquire(NoClient)
                                                ELSE commands[i]]
  /\ UNCHANGED <<managerVars, handles, owner, upstream, historyVars>>
-----------------------------------------------------------------------------
(***************************************************************************)
(* The owner of the client: main calls shutdown once the server has ended, *)
(* and the last handle goes with the process.                              *)
(***************************************************************************)
BeginShutdown ==
  /\ handles
  /\ owner = "serving"
  /\ owner' = "sending"
  /\ UNCHANGED <<managerVars, commands, handles, request, upstream,
                 historyVars>>

SendShutdown ==
  /\ owner = "sending"
  /\ \/ /\ ChannelOpen
        /\ Len(commands) < QueueCapacity
        /\ commands' = Append(commands, Shutdown)
        /\ owner' = "waiting"
     \/ /\ status = "stopped"
        /\ owner' = "returned"
        /\ UNCHANGED commands
  /\ UNCHANGED <<managerVars, handles, request, upstream, historyVars>>

(* Every clone of the client is dropped; none of them is in use.           *)
DropHandles ==
  /\ handles
  /\ owner \in {"serving", "returned"}
  /\ \A c \in Clients : request[c].at = "idle"
  /\ handles' = FALSE
  /\ UNCHANGED <<managerVars, commands, owner, request, upstream,
                 historyVars>>
-----------------------------------------------------------------------------
(***************************************************************************)
(* The manager.  Each action is a whole iteration of its select loop.      *)
(***************************************************************************)

(* start_refresh: at most one refresh task runs at a time.                 *)
\* Mutant: a refresh starts although one is running.
StartAnotherRefresh == refreshes' = refreshes + 1
StartRefresh == refreshes' = IF refreshes = 0 THEN 1 ELSE refreshes

(* The next command, when the loop takes the receive branch.               *)
Receive(kind) ==
  /\ status = "running"
  /\ commands # << >>
  /\ Head(commands).kind = kind
  /\ commands' = Tail(commands)

(* The budget an acquire sees: reset_elapsed_rate_limit has run.           *)
WindowElapsed == resetAt = "elapsed"
\* Mutant: the deadline is not compared with the clock.
EarlyBudget == IF resetAt # "none" THEN InitialRateLimit ELSE remaining
Budget == IF WindowElapsed THEN InitialRateLimit ELSE remaining

(* The reply reaches the caller that still waits for it, if any.           *)
Reply(answer(_)) ==
  request' = [c \in Clients |->
    IF c = Head(commands).client THEN answer(request[c]) ELSE request[c]]

Refuse(r) == Idle
\* Mutant: the lease is the one taken before the refresh.
GrantOld(r) == [r EXCEPT !.at = "leased", !.generation = 0]
Grant(r) == [r EXCEPT !.at = "leased", !.generation = active]

(* The two reasons to refuse a lease.                                      *)
Unusable == expired \/ Budget = 0

ResetElapsedRateLimit ==
  /\ resetAt' = IF WindowElapsed THEN "none" ELSE resetAt
  /\ renewed' = (renewed \/ WindowElapsed)
  /\ poisoned' = (poisoned /\ ~WindowElapsed)

HandleAcquire ==
  /\ Receive("acquire")
  /\ ResetElapsedRateLimit
  /\ \/ /\ Unusable
        /\ StartRefresh
        /\ remaining' = Budget
        /\ Reply(Refuse)
     \/ /\ ~Unusable
        /\ remaining' = Budget - 1
        /\ IF remaining' < RefreshThreshold THEN StartRefresh
                                            ELSE UNCHANGED refreshes
        /\ Reply(Grant)
  /\ UNCHANGED <<active, expired, timer, status, handles, owner, upstream>>

(* observe_rate_limit: a retired generation's report is ignored; the       *)
(* active one's only lowers the budget, unless its window has elapsed.     *)
\* Mutant: only generations to come count as foreign.
RetiredLater(report) == report.generation > active
Retired(report) == report.generation # active

\* Mutant: the last report wins.
LastReported(left) == left
Lower(left) == IF left < remaining THEN left ELSE remaining

HandleObserve ==
  /\ Receive("observe")
  /\ LET report == Head(commands) IN
       IF Retired(report)
         THEN UNCHANGED <<remaining, resetAt, renewed, poisoned>>
         ELSE /\ remaining' = IF WindowElapsed THEN report.remaining
                                               ELSE Lower(report.remaining)
              /\ resetAt' = IF report.timed THEN "pending" ELSE "none"
              /\ renewed' = (renewed \/ WindowElapsed)
              /\ poisoned' = (poisoned /\ ~WindowElapsed)
  /\ UNCHANGED <<active, expired, timer, refreshes, status, handles, owner,
                 request, upstream>>

HandleInvalidate ==
  /\ Receive("invalidate")
  /\ IF Retired(Head(commands))
       THEN UNCHANGED <<remaining, refreshes, poisoned>>
       ELSE /\ remaining' = 0
            /\ StartRefresh
            /\ poisoned' = TRUE
  /\ UNCHANGED <<active, resetAt, expired, timer, status, handles, owner,
                 request, upstream, renewed>>

(* Shutdown, or the end of the channel: the refresh task is aborted, and   *)
(* the manager waits for it to end while commands may still be queued.     *)
HandleShutdown ==
  /\ Receive("shutdown")
  /\ status' = "stopping"
  /\ UNCHANGED <<active, remaining, resetAt, expired, timer, refreshes,
                 handles, owner, request, upstream, historyVars>>

HandleChannelEnd ==
  /\ status = "running"
  /\ ~handles
  /\ commands = << >>
  /\ status' = "stopping"
  /\ UNCHANGED <<active, remaining, resetAt, expired, timer, refreshes,
                 commands, handles, owner, request, upstream, historyVars>>

(* The loop ends and the receiver is dropped with the queued commands; the *)
(* replies they carried are dropped too, so their callers fail.            *)
Stop ==
  /\ status = "stopping"
  /\ status' = "stopped"
  /\ refreshes' = 0
  /\ commands' = << >>
  /\ owner' = IF owner = "waiting" THEN "returned" ELSE owner
  /\ request' = [c \in Clients |->
       IF request[c].at = "waiting" THEN Idle ELSE request[c]]
  /\ UNCHANGED <<active, remaining, resetAt, expired, timer, handles, upstream,
                 historyVars>>

(* install and send_replace: the next generation becomes active, with a    *)
(* full budget.  Bound: MaxGeneration.                                     *)
RefreshSucceeds ==
  /\ status = "running"
  /\ refreshes > 0
  /\ active < MaxGeneration
  /\ refreshes' = refreshes - 1
  /\ active' = active + 1
  /\ remaining' = InitialRateLimit
  /\ resetAt' = "none"
  /\ expired' = FALSE
  /\ timer' = "scheduled"
  /\ upstream' = UpstreamLimit
  /\ renewed' = FALSE
  /\ poisoned' = FALSE
  /\ UNCHANGED <<status, commands, handles, owner, request>>

(* The refresh returned an error or its task panicked: retry later.        *)
RefreshFails ==
  /\ status = "running"
  /\ refreshes > 0
  /\ refreshes' = refreshes - 1
  /\ timer' = "retry"
  /\ UNCHANGED <<active, remaining, resetAt, expired, status, commands,
                 handles, owner, request, upstream, historyVars>>

(* sleep_until(next_refresh_at), a branch taken only while none runs.      *)
TimedRefresh ==
  /\ status = "running"
  /\ timer = "due"
  /\ refreshes = 0
  /\ StartRefresh
  /\ UNCHANGED <<active, remaining, resetAt, expired, timer, status, commands,
                 handles, owner, request, upstream, historyVars>>
-----------------------------------------------------------------------------
(***************************************************************************)
(* Clocks: the manager's deadlines and the service's window.               *)
(***************************************************************************)
\* Mutant: the retry delay is not armed.
RefreshDueOnce ==
  /\ status = "running"
  /\ timer = "scheduled"
  /\ timer' = "due"
  /\ UNCHANGED <<active, remaining, resetAt, expired, refreshes, status,
                 commands, handles, owner, request, upstream, historyVars>>
RefreshDue ==
  /\ status = "running"
  /\ timer # "due"
  /\ timer' = "due"
  /\ UNCHANGED <<active, remaining, resetAt, expired, refreshes, status,
                 commands, handles, owner, request, upstream, historyVars>>

(* next_refresh_at precedes expires_at by REFRESH_MARGIN, or is now.       *)
Expire ==
  /\ status = "running"
  /\ ~expired
  /\ timer # "scheduled"
  /\ expired' = TRUE
  /\ UNCHANGED <<active, remaining, resetAt, timer, refreshes, status,
                 commands, handles, owner, request, upstream, historyVars>>

WindowElapses ==
  /\ status = "running"
  /\ resetAt = "pending"
  /\ resetAt' = "elapsed"
  /\ UNCHANGED <<active, remaining, expired, timer, refreshes, status,
                 commands, handles, owner, request, upstream, historyVars>>

UpstreamResets ==
  /\ status = "running"
  /\ upstream < UpstreamLimit
  /\ upstream' = UpstreamLimit
  /\ UNCHANGED <<managerVars, commands, handles, owner, request,
                 historyVars>>
-----------------------------------------------------------------------------
RequestStep(c) ==
  \/ BeginRequest(c)
  \/ SendCommand(c)
  \/ SendFails(c)
  \/ Respond(c)
  \/ FollowRedirect(c)
  \/ RejectCredentials(c)
  \/ EndRequest(c)

Owner == BeginShutdown \/ SendShutdown \/ DropHandles

HandleCommand ==
  \/ HandleAcquire
  \/ HandleObserve
  \/ HandleInvalidate
  \/ HandleShutdown
  \/ HandleChannelEnd

Manager ==
  \/ HandleCommand
  \/ Stop
  \/ RefreshSucceeds
  \/ RefreshFails
  \/ TimedRefresh

Clock == RefreshDue \/ Expire \/ WindowElapses \/ UpstreamResets

(* All handles are gone and the manager has ended: nothing is left to do.  *)
Finished ==
  /\ status = "stopped"
  /\ ~handles
  /\ UNCHANGED vars

Next ==
  \/ \E c \in Clients : RequestStep(c)
  \/ Owner
  \/ Manager
  \/ Clock
  \/ Finished

Spec == Init /\ [][Next]_vars

(***************************************************************************)
(* Fairness.  The runtime polls every ready branch of the select loop,     *)
(* serves the senders of a full channel in order, and lets clocks run.  A  *)
(* refresh ends, since each of its exchanges and sleeps is bounded.        *)
(* Nothing obliges a client to send, or the service to answer.             *)
(***************************************************************************)
Fairness ==
  /\ WF_vars(HandleCommand)
  /\ WF_vars(Stop)
  /\ WF_vars(RefreshSucceeds \/ RefreshFails)
  /\ WF_vars(TimedRefresh)
  /\ WF_vars(RefreshDue)
  /\ SF_vars(SendShutdown)
  /\ \A c \in Clients : SF_vars(SendCommand(c)) /\ WF_vars(SendFails(c))

FairSpec == Spec /\ Fairness
-----------------------------------------------------------------------------
(***************************************************************************)
(* Safety.                                                                 *)
(***************************************************************************)

(* Requests that were granted but have not reached the service.            *)
InFlight ==
  {c \in Clients : request[c].at = "leased" /\ request[c].generation = active}

(* Until a window of the active credentials is reset, what the manager may *)
(* still grant and what it has granted never exceed what the service will  *)
(* accept, whatever the order in which reports arrive, and however many    *)
(* acquires are abandoned (observe_rate_limit, the decrement in Acquire).  *)
WithinUpstreamQuota ==
  ~renewed => remaining + Cardinality(InFlight) <= upstream

(* A caller is never handed credentials older than those that were active  *)
(* when it called acquire, and never ones that are not installed yet.      *)
LeaseIsFresh ==
  \A c \in Clients :
    request[c].at \in HoldsLease =>
      request[c].generation \in request[c].asked .. active

(* Credentials reported as invalid have no budget left, whatever reports   *)
(* are handled after that, until they are replaced or their window ends.   *)
PoisonedHasNoBudget == poisoned => remaining = 0

(* Nobody is left behind when the manager has ended: no caller waits for a *)
(* reply that nobody will send, no command stays queued, and no refresh    *)
(* task survives the shutdown.                                             *)
NobodyWaitsOnStopped ==
  status = "stopped" =>
    /\ commands = << >>
    /\ refreshes = 0
    /\ owner # "waiting"
    /\ \A c \in Clients : request[c].at # "waiting"

(* A lease is granted by a running manager only, on credentials that have  *)
(* not expired, with budget left or a window that has just ended, and not  *)
(* reported as invalid since the window began.  Credentials reported as    *)
(* invalid may be leased again once the window of an earlier report ends.  *)
GrantsAreUsable ==
  [][\A c \in Clients :
       request[c].at # "leased" /\ request'[c].at = "leased" =>
         /\ status = "running"
         /\ ~expired
         /\ remaining > 0 \/ resetAt = "elapsed"
         /\ ~poisoned']_vars

(* Budget comes back with new credentials or a new window, never with a    *)
(* report of requests that were overtaken by others.                       *)
BudgetOnlyRenewed ==
  [][remaining' > remaining => active' > active \/ resetAt = "elapsed"]_vars

(* A report about retired credentials, handled late, changes nothing about *)
(* the active ones: neither their budget, nor the window, nor the refresh. *)
LateReportsAreHarmless ==
  [][/\ status' = "running"
     /\ commands # << >>
     /\ commands' = Tail(commands)
     /\ Head(commands).kind \in {"observe", "invalidate"}
     /\ Head(commands).generation < active
     => UNCHANGED <<remaining, resetAt, refreshes, poisoned>>]_vars
-----------------------------------------------------------------------------
(***************************************************************************)
(* Liveness.                                                               *)
(***************************************************************************)

(* Every acquire is answered, with a lease or with an error, and when the  *)
(* manager shuts down with the command still queued; and shutdown()        *)
(* returns, however full the channel is when it is called.                 *)
CallsAreAnswered ==
  /\ \A c \in Clients :
       request[c].at \in {"acquiring", "waiting"}
         ~> request[c].at \notin {"acquiring", "waiting"}
  /\ owner = "sending" ~> owner = "returned"

(* Invalid, expired or exhausted credentials are replaced, or their window *)
(* is reset, provided that the identity service does not reject every      *)
(* refresh for ever.                                                       *)
Recovers ==
  SF_vars(RefreshSucceeds) =>
    ((expired \/ remaining = 0) /\ active < MaxGeneration
       ~> \/ ~expired /\ remaining > 0
          \/ active = MaxGeneration
          \/ status # "running")
=============================================================================
