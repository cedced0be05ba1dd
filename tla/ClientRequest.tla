--------------------------- MODULE ClientRequest ---------------------------
(***************************************************************************)
(* One call of RedditClient to Reddit: its hops, each with a lease of its  *)
(* own, what the hops say about the rate limit, the body, and the verdict  *)
(* on it, which may take the credentials out of use.  OAuthManager is      *)
(* about what acquiring and reporting do; here they are single steps, and  *)
(* the generation in use may change between any two of them.               *)
(***************************************************************************)
EXTENDS Integers, SequencesExt

CONSTANTS
  Kinds,          \* calls that are made: "json", "html", "graphql"
  Responses,      \* what Reddit may answer
  MaxRedirects,   \* MAX_REDDIT_REDIRECTS
  MaxBytes,       \* MAX_UPSTREAM_BYTES
  MaxRemaining,   \* the largest u16
  MaxGeneration,  \* bound: generations that come and go
  None

(* Kinds of calls, and what Reddit may answer: a status, the rate limit if *)
(* it is told, where to go, and a body in chunks with its decoded form.    *)
Decoded ==
  [suspended : BOOLEAN, error : {"none", "number", "other"}, errors : BOOLEAN,
   trees : BOOLEAN, message : STRING, reason : STRING]
Answers ==
  [status : Int, limits : {None} \cup [remaining : Int \cup {None}, reset : Int \cup {None}],
   location : {"none", "www", "other"}, length : Nat \cup {None}, chunks : Seq(Nat),
   json : {None} \cup Decoded]

CallAssumption ==
  /\ Kinds \subseteq {"json", "html", "graphql"} /\ Responses \subseteq Answers
  /\ MaxRedirects \in Nat /\ MaxBytes \in Nat /\ MaxGeneration \in Nat /\ None \notin Nat

VARIABLES
  kind,        \* the call
  at,          \* "acquire", "send", "body", "judge", "report" or "done"
  redirects,   \* hops that were redirected
  lease,       \* the generation a lease is held on, or None
  served,      \* the generation of the last lease
  response,    \* the last response
  chunk, body, \* chunks read of it, and their bytes
  generation,  \* the generation in use at the manager
  observed,    \* the reports of a rate limit: [generation, remaining, reset]
  invalidated, \* the generations reported as refused
  result

vars == <<kind, at, redirects, lease, served, response, chunk, body, generation, observed, invalidated, result>>

Init ==
  /\ kind \in Kinds /\ at = "acquire" /\ redirects = 0
  /\ lease = None /\ served = None /\ response = None
  /\ chunk = 0 /\ body = 0 /\ generation = 0
  /\ observed = {} /\ invalidated = << >> /\ result = None

Ok(r) == r.status \in 200 .. 299
IsRedirection(r) == r.status \in 300 .. 399
-----------------------------------------------------------------------------
(* What a hop says of the rate limit, in tenths: read only when the three  *)
(* headers are there; a number of requests that cannot be read is no       *)
(* report, and a reset that cannot be read one without a time.             *)
Remaining(tenths) ==
  IF tenths = None \/ tenths \div 10 < 0 THEN None
  ELSE IF tenths \div 10 < MaxRemaining THEN tenths \div 10 ELSE MaxRemaining
ResetAfter(tenths) == IF tenths = None \/ tenths < 0 THEN None ELSE tenths

Reports(g, r) ==
  IF r.limits = None \/ Remaining(r.limits.remaining) = None THEN {}
  ELSE {[generation |-> g, remaining |-> Remaining(r.limits.remaining), reset |-> ResetAfter(r.limits.reset)]}
RateLimitReset(r) == IF r.limits = None THEN None ELSE r.limits.reset

(* validate_json_envelope and what follows it: the verdict on a body.      *)
InvalidEnvelope(r) ==
  \/ ~Ok(r) /\ r.json.error # "number"
  \/ r.json.error = "other"
  \/ r.json.errors

Fails(name) == [name |-> name, reset |-> None]
RateLimited(r) == [name |-> "RateLimited", reset |-> RateLimitReset(r)]

RefusedError(r) ==
  IF r.json.message = "Unauthorized" THEN Fails("Unauthorized")
  ELSE IF r.json.reason \in {"Quarantined", "Gated", "Private", "Banned"} THEN Fails(r.json.reason)
  ELSE Fails("Reddit")

JsonVerdict(r) ==
  CASE body = 0 \/ r.status = 429 -> RateLimited(r)
    [] body > 0 /\ r.status = 401 -> Fails("Unauthorized")
    [] body > 0 /\ r.status \notin {401, 429} /\ r.json = None ->
         Fails(IF r.status \in 500 .. 599 THEN "UpstreamUnavailable" ELSE "Decode")
    [] OTHER ->
         IF r.json.suspended THEN Fails("Suspended")
         ELSE IF InvalidEnvelope(r) THEN Fails("InvalidEnvelope")
         ELSE IF r.json.error = "number" THEN RefusedError(r)
         ELSE Fails("Ok")

HtmlVerdict(r) ==
  IF r.status = 429 \/ body = 0 THEN RateLimited(r)
  ELSE IF r.status = 401 THEN Fails("Unauthorized")
  ELSE IF ~Ok(r) THEN Fails("UnexpectedStatus")
  ELSE Fails("Ok")

GraphqlVerdict(r) ==
  IF body = 0 \/ r.json = None THEN Fails("Decode")
  ELSE IF r.json.errors \/ ~r.json.trees THEN Fails("InvalidEnvelope")
  ELSE Fails("Ok")

Verdict(r) ==
  IF kind = "json" THEN JsonVerdict(r)
  ELSE IF kind = "html" THEN HtmlVerdict(r) ELSE GraphqlVerdict(r)

IsRefusal(v) == v.name \in {"RateLimited", "Unauthorized"}
-----------------------------------------------------------------------------
(* The end of a call drops what it holds.                                  *)
End(r) == at' = "done" /\ result' = r /\ lease' = None

(* The manager replaces the credentials.                                   *)
Refresh ==
  /\ at # "done" /\ generation < MaxGeneration /\ generation' = generation + 1
  /\ UNCHANGED <<kind, at, redirects, lease, served, response, chunk, body, observed, invalidated, result>>

Acquire ==
  /\ at = "acquire"
  /\ \/ at' = "send" /\ lease' = generation /\ served' = generation /\ UNCHANGED result
     \/ End(Fails("Auth")) /\ UNCHANGED served
  /\ UNCHANGED <<kind, redirects, response, chunk, body, generation, observed, invalidated>>

(* The body is read unless it announces more than the limit.               *)
ReadOrRefuse(r) ==
  IF r.length # None /\ r.length > MaxBytes
    THEN End(Fails("BodyTooLarge"))
    ELSE at' = "body" /\ UNCHANGED <<result, lease>>

(* A redirect of a listing is followed, with a new lease.                  *)
Redirect(r) ==
  IF r.location = "none" THEN End(Fails("MissingRedirectLocation")) /\ UNCHANGED redirects
  ELSE IF r.location = "www" THEN End(Fails("InvalidRedirect")) /\ UNCHANGED redirects
  ELSE IF redirects = MaxRedirects THEN End(Fails("TooManyRedirects")) /\ UNCHANGED redirects
  ELSE at' = "acquire" /\ lease' = None /\ redirects' = redirects + 1 /\ UNCHANGED result

Answered(r) ==
  IF kind = "graphql"
    THEN /\ (IF Ok(r) THEN ReadOrRefuse(r) ELSE End(Fails("UnexpectedStatus")))
         /\ UNCHANGED <<redirects, observed>>
    ELSE /\ observed' = observed \cup Reports(lease, r)
         /\ IF kind = "json" /\ IsRedirection(r) THEN Redirect(r) ELSE ReadOrRefuse(r) /\ UNCHANGED redirects

Answer ==
  /\ at = "send"
  /\ \/ \E r \in Responses : response' = r /\ Answered(r)
     \/ End(Fails("Request")) /\ UNCHANGED <<redirects, response, observed>>
  /\ UNCHANGED <<kind, served, chunk, body, generation, invalidated>>

Fits(bytes) == bytes <= MaxBytes - body

(* append_body_chunk, and the end of the body: html and json give their    *)
(* lease back before they judge it.                                        *)
Receive ==
  /\ at = "body"
  /\ \/ /\ chunk < Len(response.chunks) /\ Fits(response.chunks[chunk + 1])
        /\ chunk' = chunk + 1 /\ body' = body + response.chunks[chunk + 1]
        /\ UNCHANGED <<at, lease, result>>
     \/ /\ chunk < Len(response.chunks) /\ ~Fits(response.chunks[chunk + 1])
        /\ End(Fails("BodyTooLarge")) /\ UNCHANGED <<chunk, body>>
     \/ End(Fails("Body")) /\ UNCHANGED <<chunk, body>>
     \/ /\ chunk = Len(response.chunks)
        /\ at' = "judge" /\ lease' = (IF kind = "graphql" THEN lease ELSE None)
        /\ UNCHANGED <<chunk, body, result>>
  /\ UNCHANGED <<kind, redirects, served, response, generation, observed, invalidated>>

(* A refusal of Reddit is reported before it is returned, except by the    *)
(* query of comments, which reports nothing.                               *)
Judge ==
  /\ at = "judge"
  /\ IF kind # "graphql" /\ IsRefusal(Verdict(response))
       THEN at' = "report" /\ UNCHANGED <<result, lease>>
       ELSE End(Verdict(response))
  /\ UNCHANGED <<kind, redirects, served, response, chunk, body, generation, observed, invalidated>>

\* Mutant: the generation in use is reported, not the one that was refused.
Current == generation
Refused == served

Report ==
  /\ at = "report" /\ invalidated' = Append(invalidated, Refused) /\ End(Verdict(response))
  /\ UNCHANGED <<kind, redirects, served, response, chunk, body, generation, observed>>

(* The deadline of 20 seconds passes, or the caller goes away.             *)
GiveUp ==
  /\ at # "done" /\ End(Fails("Timeout"))
  /\ UNCHANGED <<kind, redirects, served, response, chunk, body, generation, observed, invalidated>>

Next == Refresh \/ Acquire \/ Answer \/ Receive \/ Judge \/ Report \/ GiveUp

Spec == Init /\ [][Next]_vars
-----------------------------------------------------------------------------
(* A refusal of Reddit ends a call with the generation that was refused    *)
(* reported once, and nothing else does: not the generation that came to   *)
(* be in use since, not the one of an earlier hop, and not an error of the *)
(* community or of the network.                                            *)
RefusalsAreReported ==
  /\ invalidated # << >> => invalidated = <<served>> /\ at = "done" /\ IsRefusal(result)
  /\ at = "done" /\ IsRefusal(result) => kind # "graphql" /\ invalidated # << >>

(* What is returned as a success is a body within the limit, of a status   *)
(* of success, without an error of any form.                               *)
SuccessIsClean ==
  at = "done" /\ result.name = "Ok" =>
    /\ Ok(response) /\ body \in 1 .. MaxBytes
    /\ kind = "json" => response.json.error = "none" /\ ~response.json.errors /\ ~response.json.suspended
    /\ kind = "graphql" => response.json.trees /\ ~response.json.errors

(* A call never waits for a lease, or reports, while it holds one: with a  *)
(* budget of one it would wait for itself.                                 *)
WaitsEmptyHanded == at \in {"acquire", "report", "done"} => lease = None

(* What is reported of a rate limit names no generation newer than the     *)
(* lease the call had last.                                                *)
ReportsItsOwn == \A o \in observed : o.generation <= served

(* What a call returns, reports and holds agrees with what Reddit answered *)
(* (client.rs, request and fetch_json).                                    *)
RequestsAreHonest == RefusalsAreReported /\ SuccessIsClean /\ WaitsEmptyHanded /\ ReportsItsOwn
=============================================================================
