--------------------------- MODULE Authentication ---------------------------
(***************************************************************************)
(* Credentials::authenticate: a token for the identity of a mobile device, *)
(* or after that failed for one of a web client, in a number of exchanges  *)
(* each.  An exchange may time out at any point of it, and what Reddit     *)
(* says of the session in the headers of a response outlives the exchange  *)
(* in the backend.                                                         *)
(***************************************************************************)
EXTENDS Naturals

CONSTANTS
  Attempts,     \* ATTEMPTS_PER_BACKEND
  Timeout,      \* TOKEN_REQUEST_TIMEOUT, which is also the pause between exchanges
  None

VARIABLES
  backend,      \* "mobile" or "web"
  attempt,      \* of this backend
  at,           \* "exchange", "pause" or "done"
  captured,     \* response_headers: which exchange a header of the session is of
  exchanges,    \* history: exchanges begun, over both backends
  lastError,
  elapsed,
  credentials   \* [headers, backend, exchange], or None

vars == <<backend, attempt, at, captured, exchanges, lastError, elapsed, credentials>>

SessionHeaders == {"x-reddit-loid", "x-reddit-session"}
NoHeaders == [h \in {} |-> 0]

(* Credentials are told from their absence.                                *)
HeaderNames ==
  SessionHeaders \cup {"Authorization", "User-Agent", "client-vendor-id", "X-Reddit-Device-Id", "Origin"}
AuthenticationAssumption ==
  /\ Attempts \in Nat \ {0} /\ Timeout \in Nat
  /\ None \notin [headers : UNION {[names -> Nat \cup {"mobile", "web"}] : names \in SUBSET HeaderNames},
                  backend : {"mobile", "web"}, exchange : Nat]

Init ==
  /\ backend = "mobile" /\ attempt = 1 /\ at = "exchange"
  /\ captured = NoHeaders /\ exchanges = 1
  /\ lastError = "Unavailable" /\ elapsed = 0 /\ credentials = None

(* The identity of a backend, made once for all its exchanges, and which   *)
(* side wins where both name a header.                                     *)
DeviceHeaders == [h \in {"User-Agent", "client-vendor-id", "X-Reddit-Device-Id"} |-> "mobile"]
WebHeaders == [h \in {"Origin", "User-Agent"} |-> "web"]
Over(first, second) ==
  [h \in DOMAIN first \cup DOMAIN second |-> IF h \in DOMAIN first THEN first[h] ELSE second[h]]
Headers(session) ==
  IF backend = "mobile" THEN Over(session, DeviceHeaders) ELSE Over(WebHeaders, session)

\* Mutant: the headers of earlier exchanges are kept.
CapturedToo(new) == Over(new, captured)
Captured(new) == new

(* capture_response_headers: what the response has of them, in order, up   *)
(* to one that cannot be read.                                             *)
SessionOf(names) == [h \in names |-> exchanges]
Captures(broken) ==
  IF broken = "x-reddit-loid" THEN {{}}
  ELSE IF broken = "x-reddit-session" THEN SUBSET {"x-reddit-loid"} ELSE SUBSET SessionHeaders
Token == [h \in {"Authorization"} |-> exchanges]
-----------------------------------------------------------------------------
(* The next exchange of this backend, the first of the next one, or the    *)
(* error of the last.                                                      *)
FallBack ==
  IF backend = "mobile"
    THEN /\ backend' = "web" /\ attempt' = 1 /\ at' = "exchange"
         /\ captured' = NoHeaders /\ exchanges' = exchanges + 1
    ELSE at' = "done" /\ UNCHANGED <<backend, attempt, exchanges>>

FailWith(error, session) ==
  /\ lastError' = error
  /\ IF attempt < Attempts
       THEN at' = "pause" /\ captured' = session /\ UNCHANGED <<backend, attempt, exchanges>>
       ELSE FallBack /\ (backend = "mobile" \/ captured' = session)

Took(t) == elapsed' = elapsed + t

(* No response came: the headers of the exchange before are still there.   *)
SendFails ==
  /\ at = "exchange"
  /\ \/ \E t \in 0 .. Timeout : FailWith("Request", captured) /\ Took(t)
     \/ FailWith("Timeout", captured) /\ Took(Timeout)
  /\ UNCHANGED credentials

(* A response came: a header of it cannot be read, its body does not end   *)
(* in time, or its status or its body is no token.                         *)
ResponseFails ==
  /\ at = "exchange"
  /\ \/ \E broken \in SessionHeaders, t \in 0 .. Timeout :
          \E names \in Captures(broken) : FailWith("InvalidHeader", Captured(SessionOf(names))) /\ Took(t)
     \/ \E names \in Captures(None) : FailWith("Timeout", Captured(SessionOf(names))) /\ Took(Timeout)
     \/ \E names \in Captures(None), error \in {"Rejected", "Request", "MissingField"}, t \in 0 .. Timeout :
          FailWith(error, Captured(SessionOf(names))) /\ Took(t)
  /\ UNCHANGED credentials

(* A token that never expires as far as the clock can tell is an error at  *)
(* once: this backend is not asked again.                                  *)
ExpiryOverflows ==
  /\ at = "exchange"
  /\ \E t \in 0 .. Timeout, names \in Captures(None) :
       /\ Took(t) /\ lastError' = "InvalidExpiry"
       /\ FallBack /\ (backend = "mobile" \/ captured' = Captured(SessionOf(names)))
  /\ UNCHANGED credentials

Succeed ==
  /\ at = "exchange"
  /\ \E t \in 0 .. Timeout, names \in Captures(None) :
       /\ Took(t) /\ captured' = Captured(SessionOf(names)) /\ at' = "done"
       /\ credentials' = [headers |-> Over(Token, Headers(captured')),
                          backend |-> backend, exchange |-> exchanges]
  /\ UNCHANGED <<backend, attempt, exchanges, lastError>>

Pause ==
  /\ at = "pause" /\ Took(Timeout)
  /\ at' = "exchange" /\ attempt' = attempt + 1 /\ exchanges' = exchanges + 1
  /\ UNCHANGED <<backend, captured, lastError, credentials>>

Next == SendFails \/ ResponseFails \/ ExpiryOverflows \/ Succeed \/ Pause

Spec == Init /\ [][Next]_vars
-----------------------------------------------------------------------------
(* Credentials are of one exchange: no header of the session of an earlier *)
(* one is used with the token of a later, and the identity is that of the  *)
(* backend the token was given to.                                         *)
CredentialsAreOfOneExchange ==
  credentials # None =>
    /\ \A h \in DOMAIN credentials.headers \cap (SessionHeaders \cup {"Authorization"}) :
         credentials.headers[h] = credentials.exchange
    /\ credentials.headers["User-Agent"] = credentials.backend

(* Authenticating ends after both backends had their exchanges, each with  *)
(* the time it may take and a pause between two of one backend.            *)
EndsInTime ==
  /\ exchanges <= 2 * Attempts
  /\ elapsed <= 2 * (2 * Attempts - 1) * Timeout

(* Credentials are returned or an error is, never neither.                 *)
AuthenticationIsSound ==
  /\ CredentialsAreOfOneExchange /\ EndsInTime
  /\ at = "done" => (credentials # None \/ lastError # "Unavailable")
=============================================================================
