----------------------------- MODULE Processes -----------------------------
(***************************************************************************)
(* The processes of the program that share nothing: the video resolver,    *)
(* the collection of a search session, a call of the client, an            *)
(* authentication, a call of the service, a link to the media proxy, and   *)
(* the program from its start to its exit.  Each is an instance, under a   *)
(* name of its own; what each of them promises is stated of all of them.   *)
(***************************************************************************)
EXTENDS VideoResolver

CONSTANTS
  Items, Time, Score, Bytes, ItemVerdict, ParentOf, Parents, WithParent, Cursors, Sorts,  \* a session
  Limit, BatchLimit, ChunkSize, MaxPages, MaxSourcePages, MaxSourceCalls,
  MaxCandidates, MaxSessionBytes, MaxParents,
  Kinds, CallResponses, MaxHops, MaxBytes, MaxRemaining, MaxGeneration,               \* a call
  Attempts, Timeout,                                                                  \* an authentication
  Inputs, Scopes, Listings, Cards, Comments, BatchSize,                               \* the service
  Urls, MediaDomains, NavigationDomains, ShortlinkDomains, Responses, MaxRedirects,   \* a link
  Data, Invalid,
  Configs, MaxStarts                                                                  \* a start

VARIABLES
  sort, collection, step, requests, pending, pages, given,
  kind, callAt, redirects, lease, served, response, chunk, body, generation, observed, invalidated, answer,
  backend, attempt, authAt, captured, exchanges, lastError, elapsed, credentials,
  allow, scope, wants, todo, calls, vouched, found, ids, batch, hydrated, gate, serviceResult,
  route, original, link, known, linkAt, target, hops, asked, linkResponse, linkAnswer,
  mode, config, startAt, running, routes, files, starts

Collected == INSTANCE SearchCollection WITH Verdict <- ItemVerdict
Called == INSTANCE ClientRequest WITH
  Responses <- CallResponses, MaxRedirects <- MaxHops, at <- callAt, result <- answer
Auth == INSTANCE Authentication WITH at <- authAt
Service == INSTANCE ServiceCalls WITH result <- serviceResult
Proxy == INSTANCE MediaProxy WITH
  at <- linkAt, redirects <- hops, response <- linkResponse, answer <- linkAnswer
Start == INSTANCE StartUp WITH at <- startAt

ASSUME ProcessesAssumption ==
  /\ Collected!CollectionAssumption
  /\ Called!CallAssumption
  /\ Service!ServiceAssumption
  /\ Auth!AuthenticationAssumption
  /\ Proxy!ProxyAssumption
  /\ Start!StartAssumption
-----------------------------------------------------------------------------
(* A search in the order of New never puts a newer item after an older one *)
(* (session.rs, ready), and one in the order of Top is of the whole source *)
(* (session.rs, advance).                                                  *)
SessionsKeepTheirOrder == Collected!NewIsChronological /\ Collected!TopIsOneCollection

(* Its pages hold what the budgets allow and nothing twice.                *)
PagesAreExact == Collected!PagesAreExact

(* A call of the client reports, retries and fails as its answers say.     *)
RequestsAreHonest == Called!RequestsAreHonest

(* Credentials are those of the exchange that succeeded (backend.rs).      *)
AuthenticationIsSound == Auth!AuthenticationIsSound

(* A server that hides adult content shows none, whatever the operation,   *)
(* a search of comments is complete, and no permit is kept.                *)
ServiceIsSafe == Service!ServiceIsSafe

(* The proxy asks only where it may, and its links can be followed.        *)
ProxyIsSound == Proxy!ProxyIsSound

(* The program serves with all its parts and ends in order.                *)
StartIsOrderly == Start!StartIsOrderly
=============================================================================
