# A verification of neddit

neddit is a private front-end and HTTP API for Reddit, written in Rust. This
directory models the parts of it where concurrency, failure, ordering and
limits meet: TLA+ modules, TLC configurations that check them on small
instances, and theorems that TLAPS proves for every value of the constants.

`PROJECT.json` lists the components, the runs with their properties, a mutant
of the code for every property, the source lines of every definition, the
hazards and the theorems. Paths below are relative to `src/crates/`.

To check a run: `tlc -config OAuthSafety.cfg MCOAuthManager`. To check the
proofs: `tlapm M.tla` for `DataLemmas` and for each of the seven modules `*Proofs`.

## The system

| Component | State it keeps | Operations | What is hard about it |
|---|---|---|---|
| OAuth manager (`api/src/client/oauth/manager.rs`) | active generation of credentials, its budget, reset deadline, refresh timer, refresh task | acquire, observe_rate_limit, invalidate, shutdown; refresh results and timer | an actor fed by concurrent requests: stale reports, single refresh, shutdown with queued commands |
| Reddit client (`api/src/client.rs`) | none of its own; holds leases while a request runs | request with redirects, json, html, GraphQL | a lease per hop, rejections reported for the right one, requests dropped at any await |
| Authentication (`api/src/client/oauth/backend.rs`) | headers captured from a session | authenticate: two backends, five attempts each | what one attempt leaves to the next, and one backend to the other |
| Search sessions (`api/src/search/engine/session.rs`) | table of sessions; per session the pages, buffers, budgets | execute with or without a cursor | lock per session, gate, TTL, eviction, cancellation between awaits; seven budgets; ties at page boundaries |
| QL and search planning (`api/src/search/`) | none | parse, evaluate, plan | three-valued logic, covers, limits |
| Storage: jobs (`api/src/storage.rs`) | a thread and a queue of 64 jobs per database | call | full queue, caller gone, crash |
| Storage: cache | rows with size and expiry, accounted size, lock stripes | json, get, put, maintenance | size accounting, eviction, single flight |
| Storage: shortlinks | rows with identifier, fingerprint, creation time | save, get, backup | check and insert, rate window, durability |
| Custom feeds (`api/src/feed/`) | snapshots and heads in the cache, flights, gate | custom_feed, save_feed, saved_feed | order of writes, waiting on flight and gate, budgets over several sources |
| Feed ranking (`api/src/feed/ranking.rs`) | none | parse, evaluate | precedence, limits on nesting |
| Video resolver (`api/src/media/video.rs`) | cache of resolutions, two permits | resolve, playback | queue with time limit, stale entries, dropped extractions |
| Media links and proxy (`api/src/media.rs`, `api/src/server.rs`) | none | sign, rewrite, fetch, follow redirects, rewrite manifests | a policy that every hop and every reference must meet |
| Reddit service (`api/src/service/`) | a gate for more_children | 30 operations, each with its checks and calls | the content policy across several calls, batches |
| GraphQL comments and comment view (`api/src/service/graphql.rs`, `web/src/view/comments.rs`) | none | nest, append_comments | a flat list with depths that may skip |
| Models, parsing, HTTP API, web (`api/src/models/`, `parsing/`, `api/src/api/`, `web/`) | none | decoding, routing, rendering | nothing concurrent |
| Process (`neddit/src/main.rs`) | configuration | start, serve, shut down, check, backup | order of start and of shutdown, files of earlier processes |

A web or API handler calls the Reddit service; the service goes through the
cache to the client, or to search sessions and custom feeds, which call the
client in turn. Every upstream request leases credentials from the OAuth
manager by a command on its channel and reports the rate limit, and rejected
credentials, by further commands. Cache and shortlinks are reached through the
job queue of their database thread. Handlers are dropped when their connection
goes away, and several paths have a deadline of 20 seconds: any await is a
place where a call may end, with guards released and commands or jobs left in
their queues.

What makes each component correct:

- OAuth manager: the budget never exceeds what the service accepts; nothing
  said about retired credentials affects the active ones; rejected credentials
  are not leased again in their window; one refresh at a time; every caller is
  answered, also at shutdown; expired credentials are replaced.
- Client: success is success; a refusal is reported once, for the lease that
  was refused; no lease is held while another is waited for.
- Authentication: credentials are those of one exchange.
- Search sessions: pages are never lost, repeated or followed by others after
  an end; a cancelled page ends its session; the gate bounds source calls; the
  order holds across pages; exhaustion is said only of a source that was shown
  completely.
- Planning: what is asked of Reddit holds every match.
- Shortlinks: one identifier per definition, durable once answered, within
  both limits.
- Custom feeds: a cursor is stored before it is given out and leads to its own
  feed; waiting callers reuse a build; each post counts once, with its best
  rank; waiting ends.
- Cache: the accounted size equals the sum of the rows and stays below the
  limit; one fetch per key at a time; answers never go back in time.
- Video resolver: every permit comes back; only what is missing is extracted.
- Proxy: nothing is asked for outside the policy, and links that were made can
  be followed.
- Service: with adult content off, nothing marked is answered, and what
  carries no mark only after its community or post was looked at.
- Process: what is served has all its parts, no two stores share a file, and a
  process that started the refresh ends it.

## The modules

### OAuthManager

Models `run_manager`, `State` and `OAuthHandle` together with the requests that
use them (`RedditClient::request`, `fetch_json`, `html`).

- One action is one iteration of the manager's `select!` loop: `HandleAcquire`,
  `HandleObserve`, `HandleInvalidate`, `HandleShutdown`, `HandleChannelEnd`
  (all handles dropped), `RefreshSucceeds`, `RefreshFails`, `TimedRefresh`.
  `Stop` is the end of `refreshes.shutdown().await` with the drop of the
  receiver, which drops the queued commands and the replies they carry.
- `commands` is the channel. Sending is a step of its own, since it waits for
  room; `SendFails` is the closed channel.
- A request is `acquiring` (sending the command), `waiting` (for the reply),
  `leased` (request sent), `observing` (sending the report), `reading` (body),
  `invalidating`. `EndRequest` ends it at any of these: success, error, timeout
  or a caller that went away. An acquire left in the channel then has no
  client, and the manager still pays for it.
- Deadlines are states that a clock action moves on: `resetAt`, `timer`
  (`next_refresh_at`) and `expired`. `Expire` requires that the timer is no
  longer merely `scheduled`, since the refresh deadline precedes expiry by
  `REFRESH_MARGIN` or is immediate.
- `upstream` is what the service will still accept from the active credentials
  in this window. It is external. `UpstreamAssumption` states what the client
  counts on: new credentials are worth `INITIAL_RATE_LIMIT` requests.
- The GraphQL call leases credentials like a request that ends without a
  report and without an invalidation, which is one of the behaviours modelled.

### ClientRequest

One call of `json`, `html` or `fetch_post_comments_graphql`: `Acquire` at every
hop, `Answered` with the headers and the report of the rate limit, `Redirect`,
`Receive` chunk by chunk with the limit on the body, `Judge` with the verdict
of each kind of call (`JsonVerdict`, `HtmlVerdict`, `GraphqlVerdict`) and
`Report` of a refusal. The generation of the credentials may advance at any
time (`Refresh`), so the generation a response was served under differs from
the one in use. `GiveUp` is the deadline or the caller that goes away.

### Authentication

`authenticate` over both backends. Headers are a function from names to the
exchange that gave them, so that a header of one exchange used with the token
of another is visible. Every await has its time limit; the total is bounded.

### SearchSessions and SearchCollection

`SearchSessions` models `Sessions::execute_before` for concurrent callers: the
table, the lock per session, the gate, the deadline. A call is `locking`,
`advancing` (inside `advance`, holding the lock), or `registering`. Each source
page is a step, so that a deadline or a drop may fall between two. `in_flight`
is kept as in the code: it is what makes a dropped call terminal. The contents
of a page are abstracted to a subset of the items.

`SearchCollection` models `Collection`: `fetch`, `hydrate`, `evaluate`,
`advance` and `bounded` of one session, for the orders that differ in the code:
new (ties held back until their second is over), top and exact names (a
complete set first), and the others. The source returns any items in any order
with any cursor, fails, or answers only some parents. All budgets are
constants; `CollectionAssumption` relates them as the code does (`session.rs:10`
to 16, 343): a page of 100 items has no more parents than one chunk, and the 32
calls are two for each of 16 source pages. Of parents that arrive for a chunk,
those that come first by name are kept within the memory bound. The loops over
a page, its parents and its items are functions of the number of rounds done,
with a helper for one round (`Count`, `Ask`, `Judge`).

The two are separate because a session's contents are touched only under its
lock; SearchSessions shows that, SearchCollection what happens inside.

`Selection` has the operators with which a sequence is filtered or sorted by
its places (`retain`, `filter`, the stable `sort_by`), used here for the table
and the items of a session, and by the video resolver for formats. They are
written without folds, so that the lemmas on them (`LinePicked`,
`NumbersInOrder`, `SortedByPlaces`) can be proved.

### QueryLexer, QueryLanguage, SearchPlan

The query language as functions. `QueryLexer` works on characters from a small
alphabet that holds every character the lexer treats apart, `QueryLanguage` on
tokens: the precedence climbing of the parser with its limits, against the
grammar written as a relation between a range of tokens and its trees.
`SearchPlan` evaluates expressions over records whose fields may be unknown,
and compiles them to a search, to communities, to names or to the sources of a
feed; what is asked of Reddit is compared with what matches. The checks of a
request that do not look at its expression (page size, `t`, the sorts of a
kind) and the limit of 512 bytes on the text that is sent are left out: they
refuse a plan and change none. The sort matters to a lookup by name, which is
refused under any but `relevance`.

### Shortlinks

Models `Shortlinks::save_with`, `get` and `Database::call`. A job is a
transaction of the database thread: `SaveKnown`, `SaveNew`, `JobFails` (a limit,
eight identifiers in use, or an SQL error), `RunGet`. It commits, and leaves its
`answer` with the thread; `Send` gives it to the caller. The table's
`PRIMARY KEY` and `UNIQUE` constraints are the operator `Unique`. A caller may
go away with its job queued or its answer not sent (`Drop`). `Crash` loses the
queue, the answer and the calls, so that a row may be committed of which nobody
was told, and keeps the rows (`synchronous=FULL`). `promised` remembers the
links that callers were told of, by a save or a look-up; `LinksAreDurable`
compares every later answer with them. It says so of the identifiers that
`get` accepts (`Alphanumeric`) only: `save` also gives out others, which lead
nowhere (see Findings). The clock only advances: set back, it would make `Recent` count rows of the future.

### Cache and CacheContract

`Cache` models the table with the size that SQL triggers account, the job
queue, `json` with its flight, and maintenance. A call is `waiting` for its
flight, `reading`, `fetching`, `writing` or `answering`; jobs of callers that
went away run all the same. `PutJob` is the transaction of `put`: expired rows,
evictions in batches until the new row fits, the insert. `Reopen` is a restart,
perhaps with another limit. `CacheContract` is the abstract specification: at
most one fetch per key, answers are what was fetched for their key and never
older than one given before. `KeepsContract` is the refinement, with a mapping
of `fetching` and `answer`.

### FeedSnapshots and FeedCollect

`FeedSnapshots` models `cached_feed` and `custom_feed`. The states of a call
are its awaits: the flight (`locking`), the two reads of the cache (`reading`,
`checking`), the gate (`queued`), the build, and the two writes (`storing`,
`heading`). The cache appears as its callers may rely on it: a read or write
may fail, an entry may vanish at any time, a write already queued is carried
out before later reads. A server without a cache (no cursors at all) is not
modelled.

`FeedCollect` models the build itself: sources in turns within one budget,
quotas, cursors that repeat, posts that several sources give, the byte budget,
the ranking and the pages cut from it. `ending` remembers what ended each
source: its window (`window`), the bytes (`bytes`), a last page of which all
was inspected (`end`), of which the window took only a part (`cut`,
`mod.rs:602`), or which the policy had emptied (`filtered`). The code tells the
first two from the last three only (`StopsAreNoticed`); that `exhausted` should
mean `end` is `ExhaustedMeansRead`, which it violates in both other cases.

### RankExpression and CommentTree

Pure functions: the parser of ranking formulas against its grammar; `nest` and
`append_comments` against what a reader expects of a list with depths.

### VideoResolver

`resolve` of concurrent callers with the fair queue of the semaphore, the
second look at the cache under the permit, extractors that fail, hang or are
dropped with their caller, and entries that age. `Sources` is the choice and
the order of what is played.

### MediaProxy

A link from the page that it is put on (`Rewritten`, `Signed`) through
`decode_target`, the redirect loop and the answer, including the rewriting of
manifests. A URL is a record of what the code looks at (scheme, host, path,
whether it is a reference or data); a signature is the pair of what it signs
and its scope. Host patterns are matched as in `HostPattern::matches`.

### ServiceCalls and ServiceArguments

Every operation of the Reddit service as the list of its steps in the order of
the code (`todo`), over a state that records which upstream calls were made and
what they returned. `ServiceArguments` has the validity of each argument.
What the policy keeps of a listing, and the names of a search, are the
elements at some places in their order (`Picked` of `Selection`).
Reddit answers each call with any listing of the wanted shape. `TakeGate` is
the gate of `more_children`, which other calls may hold.

### StartUp

`main` from the arguments to the exit: checks of the configuration, logging,
the listener, the signer, both databases, the client, the video resolver, the
routes, serving and shutdown, each of which may fail or be killed, then a
second start over the files that the first one left.

### MC modules

`MCx` extends or instantiates module `x` with symmetry sets and constant
values; the configurations give the constants theirs. `Processes`,
`MCAlgorithms` and `MCCallsEnd` hold several modules that share no state. A
behaviour is one of a single part while the variables of the others stay at
their initial values, so that the state space is the sum of those of the parts
and each property is about its part alone. `Processes` takes no values: it names
its parts as instances, states the property of each, and gathers their
assumptions, so that `ProcessesProofs` proves about the very definitions that
`MCProcesses` checks.

## The runs

| Run | What it asks | Bounds |
|---|---|---|
| oauth_safety | the budget, leases and reports stay right; nobody waits on a stopped manager | 2 clients, 2 generations, channel of 2, budget 2, 1 redirect |
| oauth_liveness | acquires and shutdown are served; expired credentials are replaced | 2 clients, channel of 1, 2 generations |
| search_sessions | gate, duplicates, the page asked for, nothing lost, evicted and dropped sessions | 2 callers, 2 sessions, 2 items, table 1, gate 1, up to 2 source pages |
| shortlinks | one link per definition, answers that last, both limits | 2 callers, 3 definitions, 3 identifiers of which `get` accepts 2, 5 seconds |
| cache | accounted size, limit, the contract | 2 callers, 2 keys on one stripe, queue of 1, limits 1 and 2, 2 fetches |
| feed_snapshots | cursors, binding, reuse of builds | 2 callers, 2 feeds, 3 cursors, gate 1 |
| feed_cursors (violation) | issued cursors are accepted | as feed_snapshots |
| feed_collect | candidates, notice of sources that were stopped, the pages shown are the ranking | 2 sources, 7 posts of which 4 can be shown, told apart by value, by time and by name only; pages of 2, budgets of 4 posts and 4 units of bytes |
| feed_filtered (violation) | exhaustion under a policy that removes posts | 1 source, as feed_collect with 5 posts |
| processes | order and pages of a session, a call of the client, authentication, videos, the service, links, start | see below |
| algorithms | lexer, parser, plans, ranking parser, comments | see below |
| calls_end | every call of a session, of shortlinks, of a feed and of the cache ends | 2 callers each, queue and gate of 1 |

Bounds of `processes`: a session of 4 items of 2 times and 3 cursors with pages
of 1 to 2 items and every budget within reach; 1 call of 2 redirects, 3
generations and every status the code tells apart; 2 attempts per backend; 3
callers of 1 video and 2 permits; every service operation with scopes of one
and two communities, good and malformed; links with up to 2 redirects; 2 starts
over files that are absent, of the right kind, of the other kind, or of a later
version. Bounds of `algorithms`: texts of 5 characters, queries of 5 plain or 4
qualified tokens, expressions of up to 5 (posts) and 6 (communities) nodes over
every record, formulas of 5 tokens, and of 7 where calls have two arguments, 4
comments.

Why the bounds are enough. Two callers are the fewest that contend for a lock,
a permit, a row or a place in a channel, and every guard of these modules
compares a caller with at most one other; the video resolver has three because
two of them may hold permits. A gate, table or queue of one or two is full when
the second caller arrives. Two generations give a retired and an active one;
the reports of an old generation are all treated alike. Three source pages with
two items give a page that repeats, one that adds and one that ends. A window
of two seconds within five has aligned and unaligned positions. Constants that
the code fixes (300 seconds, 64 jobs, 16 pages) only enter by comparison with
counters, so small values reach the same branches. The parsers decide by the
next token and a depth, and every pair of operators, and every operator in
every group, fits in five tokens, a call of two arguments in six. The bounds of the models (`MaxGeneration`,
`MaxTime`, `MaxFetches`, `MaxStarts`, `Sessions`, `Cursors`) are named in the
modules; nothing else is cut off.

Symmetry is used in safety runs only, among interchangeable callers, sessions,
items and identifiers. Deadlock is checked except in `algorithms`, `processes`
and `calls_end`, where the inputs of a part reach their length, a single call
is over, or the names of sessions run out. In OAuthManager the one state in
which the system may rest, all handles gone and the manager ended, is the
explicit `Finished`, in FeedCollect it is `Stopped`.

### Fairness

- OAuthManager: the manager's loop takes the next command, the end of a refresh
  and the timer when they are ready (tokio's `select!` chooses among ready
  branches at random); a refresh ends because each exchange has a timeout of
  five seconds; senders of a full channel are served in order, hence strong
  fairness of sending. Nobody is obliged to send a request and the service need
  not answer. `Recovers` has as its premise that refreshes are not rejected for
  ever; nothing obliges them to succeed.
- SearchSessions and FeedSnapshots: tokio's mutexes and semaphores are fair, so
  that taking them is strongly fair; calls upstream end, since the HTTP clients
  have timeouts; the 20 second deadline is *not* assumed to fire.
- Shortlinks: the thread takes the next job.
- Cache: the thread takes the next job, and the deadline of a call passes,
  which is what ends one behind a fetch that hangs (`client.rs:264`).

## What is proved

`OAuthManagerProofs`, from the assumptions `ClientsAssumption`,
`LimitsAssumption` and `UpstreamAssumption`:

- `TypeCorrect`: `TypeInv` strengthens `TypeOK` with the facts that make it
  inductive: which command a sending request carries, and that the budget is at
  most what new credentials are worth or what the service reported.
- `LeasesAreFresh`: a lease is never older than the credentials active when
  acquire was called. `FreshInv` bounds the generation remembered by every
  request by the active one, which only grows.
- `PoisonedStayUnused`: after an invalidation the budget is zero until the
  window's end or a refresh; `PoisonInv`.
- `GrantsUseGoodCredentials`: a lease is granted by a running manager, on
  credentials that have not expired, with budget left or a window that has just
  ended, and not reported as invalid since the window began. It does not say
  that rejected credentials are never leased again: the code leases them once
  the window of an earlier report ends (see Observations).
- `BudgetNeedsRenewal`: an action property; one case per action.
- `QuotaIsRespected`: until the window of a generation is renewed, its budget
  plus the leases in flight stay within what the service still accepts.
  `QuotaInv` adds the reports still to be handled: each is at least what the
  service would say now, minus what is in flight. The argument needs the
  cardinality lemmas on the set of leases in flight.
- `NobodyIsLeftWaiting`: a stopped manager has no waiting request or owner.
- `RetiredReportsDoNothing`: an action property. The queue is shortened only by
  the manager that handles its head, and a head that speaks of a retired
  generation changes nothing.

`ShortlinksProofs`, from `ShortlinkAssumption`: `TypeCorrect`,
`LinksAreUnique`, `LinksEndure`, `CapacityHolds`, `RateHolds`, `LimitsHold`.
They share `TableStep`: a step leaves the table alone, or adds one row that no
constraint and no limit forbids. `LinksEndure` rests on `DurableInv`: what
callers were told is in the table, and so is what the answer that is not yet
sent tells, since the thread runs no other job before. `RateHolds` is
proved for every window, aligned or not: a window that contains the new row
holds only rows that `Recent` counted.

`SearchSessionsProofs`, from `SearchAssumption`: `TypeCorrect`, `GateHolds`,
`PagesAreInOrder`, `DroppedStay`, `MatchesAreKept`, `ItemsAppearOnce`,
`EvictedStayAway`. The inductive invariant
`IInv` says of a call that advances (`CallInv`) that it holds the lock of its
session, which is in flight, that its index is the number of pages published,
and that it has no permit only if the session has ended or holds a full,
incomplete set; and of a session (`SessionInv`) that a complete set was found
by one call or by none, and that a dropped one stays in flight or is closed.
`GateHolds` needs the third fact: a call that skipped the gate never turns out
to need the source. `MatchesAreKept` adds `KeptInv`, the property itself stated
of one collection. Lemma `Preserved` reduces each step to one call and one
session. `ItemsAppearOnce` rests on `OnceInv`: what is published or ready has
been seen, and only what has not been seen becomes ready. `EvictedStayAway`
rests on `TableInv`: the table is a line in which nothing stands twice, and a
session that is not yet in it belongs to the one call that started it.

`FeedSnapshotsProofs`, from `FeedAssumption`: `TypeCorrect`, `CursorsHold`,
`BuildsAreNeeded`. `CursorInv` adds that what is in the cache, or is about to
become a head, was stored. `BuildsAreNeeded` rests on two invariants:
`FlightInv`, a caller that has begun to read holds the flight of its feed, and
`BuildInv`, whatever a caller found missing is missing until it builds, because
only the holder of the flight, or a write queued before, could put it there.

`ProcessesProofs`, from `ProcessesAssumption`, which is the conjunction of the
assumptions of the parts:

- `CallsAreHonest`. A call's lease is the one it acquired (`LeaseInv`), its
  verdict agrees with the answer it got (`VerdictInv`), and what it ends with
  follows from both (`EndInv`).
- `AuthenticationHolds`, for every number of attempts and every timeout.
  `TimeInv` bounds the elapsed time by the slots used times the timeout; the
  products need the lemma `Multiples`, whose steps the solver does not find by
  itself.
- `StartHolds`. `HoldingInv` lists what a process holds at each of its steps,
  from which the order of opening and closing follows.
- `ProxyHolds`, for any set of URLs, any responses and any number of redirects.
  The invariant ties what the proxy may ask for to the route of the link, the
  number of hops to the limit, and every line of a manifest it answers with to
  a link that the proxy follows in its turn.
- `OnlyMissingExtracted`, the action property, and `ResolverHolds`. The free permits and their holders
  together are always `MaxExtractors`; that none is lost needs that the queue
  holds nobody twice, and lemmas on removing one who waits. What is played is
  ordered for *every* list of formats: `Ordered` is written as the n-th of some
  places, and that there is such a place for each n is a counting argument
  (an induction over the places, by `DataLemmas`).
- `SessionsHoldTheirOrder` and `PagesHoldWhatMatches`, of `SearchCollection`,
  for any items, budgets, pages of the source, failures and number of requests.
  Neither property is inductive: a page shows what was collected by earlier
  requests. The invariant `CollectionIInv` relates the items `p` that are out,
  on the pages or ready, to the collection. `EachOnce`: what is out or in the
  tie stands there once. `Exact`: it matches, and unless the session was stopped
  every item judged has a final verdict and is there if it matches; it needs
  that a parent, once asked for, is never asked for again, so that no verdict
  changes after an item was judged. `Timely`, under New: the tie is of the last
  time seen and all that is out is newer, which is why a tie that spans two
  source pages may still be sorted. `CutFits`, `PagesFit`: no page is longer
  than the limit of its request. `WholeHolds`: Top and exact names put nothing
  on a page before the source has ended. `GivenHolds` and `LabelsHold`
  carry the meaning of "exhausted" to the page that says so, and `LimitsHold`
  that two calls per source page suffice. Each loop has a lemma for one round
  and one for all of them, by `StepsExist` and `SameSteps` of `DataLemmas`.
- `ServiceHolds`: the content policy holds in every operation of the service,
  for any arguments, communities and answers. What a call returns was fetched
  many steps before it returns, and nothing marks it as looked at, so the
  invariant (`Awaits`) relates what was fetched to the steps that are still to
  come. `Sifted`: no mark is in a listing, or a filter of it comes, or a look
  at the only thing in it. `Vouched`: every community was found safe, or is
  looked at before anything that carries no mark is asked for. `PostSeen`: the
  post of the comments was seen and had no mark. It needs that the steps of an
  operation come in an order in which each check stands before what relies on
  it (`InOrder`): lemma `OperationsStart` shows it of all 30 operations, and
  would fail of one that, say, asks for comments before its post. `Turn` is
  what one step may change; `RestAwaits` shows that a step that keeps to it
  keeps the invariant, and there is a lemma for each action.
  `ServiceAssumption` says of the answers only that a listing is a sequence
  whose count, if it has one, is right.

`FeedCollectProofs`, from `FeedCollectAssumption`: `TypeCorrect` and the three
properties of a build. Their invariant `IInv` has two parts besides the types.
`CandidatesInv`: no post is a candidate twice, each one stands with a sight of
it that none beats (`NoWorse`: a lower rank, or the same one in an earlier
source), and every sight that counts has its candidate as long as the build
collects. Lemma `InspectIsSound` has one case for each way a post is treated;
`InspectedIsSound` carries it through the loop over a page by induction
(`StepsExist` in `DataLemmas`). `PagesInv`: what was shown is a prefix of the
ranking that ends where the next page starts. `EachOnceAtItsBest` then counts
candidates and posts against each other by bijections. `PagesAreTheRanking`
needs that the comparison is a strict total order, which holds because no two
candidates are one post. `StopsNoticed` says exactly what the code's
`all_sources_exhausted` means: no source was stopped by its window or the bytes
and none was left unread. It does not say that every post was read
(see Findings).

`CacheProofs`, from `CacheAssumption`:

- `Typed`: the types, and that each busy call has the flight of its key and at
  most one job.
- `SizeTheorem`: the accounted size is the sum of the rows. Every transaction
  takes away the bytes of what it deletes and adds those of what it inserts;
  the lemmas on sums of two sets are in `DataLemmas`.
- `LimitTheorem`, the action property of a write. `Evicted` removes the oldest
  rows until the new one fits, so the proof is that the loop ends below the
  limit or with an empty table, and that a row larger than the limit is never
  written.
- `Valued`: rows, jobs and calls hold values that were fetched for their key,
  in the order in which they were fetched, and a caller is given nothing older
  than what was stored when it asked.
- `ContractTheorem`: the refinement of `CacheContract`. Each action maps to a
  call, a fetch or an answer of the contract, or to a stutter.

`DataLemmas` has what those proofs need of finite data. The library's induction
theorems take an operator as a parameter and cannot be cited; the lemmas here
take a set instead: a set of subsets that holds the empty one, and with a
subset also each that is larger by one element, holds them all. Sums, positions
in an order and lengths follow from it, and so do the loops: a function that is
defined by its predecessor exists (`StepsExist`), keeps what each round keeps
(`StepsStay`), and two with the same rounds agree (`SameSteps`).

### Only model-checked

- All liveness: it needs fairness, which the prover does not handle.
- `IssuedCursorsAreAccepted`, which the code violates.
- `ExhaustedMeansRead`, which the code violates.
- The pure functions: lexer, parsers, plans, comments. They are compared with
  reference definitions over all bounded inputs.

## Findings

- `feed_cursors`: `cached_feed` accepts a cursor only if it is made of letters
  and digits (`api/src/feed/mod.rs:420`), but cursors come from `nanoid!(24)`
  (`api/src/storage.rs:143`), whose default alphabet of 64 also has `_` and
  `-`. A share of (62/64)^24, less than half, of the cursors given out can be
  presented. `Shortlinks::get` has the same check (`storage.rs:414`), so that
  about 27 of 100 links of ten characters that `save` answers lead nowhere.
- `feed_filtered`: a listing from which the content policy removed every post
  ends its source (`api/src/feed/mod.rs:639`) like one that was read to its
  end: the notice that there is more is withheld (lines 509 to 511). What
  `take(remaining)` (line 602) cuts from a last page that is longer than the
  window is forgotten in the same way.

## Observations

Behaviour met while modelling that a maintainer may want to know of.

- `invalidate` keeps `reset_at`. If an earlier report's deadline passes before
  a refresh succeeds, rejected credentials are leased again.
- The rate limit of shortlinks counts rows by their creation second; it assumes
  a clock that is not set back.
- After a fallback the GraphQL request, described as using the mobile token
  (`client.rs:270`), runs with web credentials. It neither reports limits nor
  invalidates.
- `collect` subtracts the posts of the current source twice (`feed/mod.rs:578`):
  a single source stops at 200 of its window of 400.
- `playback` removes duplicates with `dedup_by`, hence only adjacent ones.
- The nesting limit of ranking formulas counts levels of the grammar; one pair
  of parentheses costs four.
- A `data:` reference fails a video manifest, while a media manifest keeps it.
  A partial manifest is rewritten with its content range unchanged.
- `search_post_comments` looks at the community of a post, and not at the mark
  of the post itself. `more_children` does not check that the children belong
  to the link. Some operations ask about the community before they validate
  their arguments.
- Backing up a missing definitions file creates an empty one. An SQLite file of
  another program with `user_version` 0 is taken over.
- `config.rs:132` says a domain with a wildcard is an error; `HostPattern::parse`
  (`media.rs:326`) accepts a leading `*.`, as line 141 says of exclusions.
- `main.rs:79` compiles the video exclusions after the client was started, and
  would return without a shutdown; validation checks the same patterns earlier.

## Not modelled

- Templates, markdown, the HTML sanitizer, query encoding, HTTP routing: no
  state, and no property but their layout.
- Decoding of JSON field by field. Models take any value of the decoded shape.
- The computing of signatures, and the streaming of bodies.
- The values of ranking formulas: floating-point arithmetic.
- The canonical form of feed definitions, the parsing of dates and domains, the
  tokens of texts: string processing.
- A server without a cache: `cached` then calls its fetch directly.

## What is left

1. `FeedDefinition`: the canonical form, which the identity of shortlinks and
   the binding of cursors rest on.
2. A composition of the cache with custom feeds: `FeedSnapshots` has its own
   view of a cache that may forget.
