----------------------------- MODULE MediaProxy -----------------------------
(***************************************************************************)
(* A picture or a video by way of the proxy: the service rewrites a URL    *)
(* into a signed link, a browser asks for the link, the proxy follows the  *)
(* redirects of the upstream server and rewrites the URLs of a manifest    *)
(* into links again.                                                       *)
(*                                                                         *)
(* A URL is its scheme, whether it holds a user or a port, its host as a   *)
(* sequence of labels (none for an address), the form of its path and its  *)
(* fragment.  A signature is what it signs.                                *)
(***************************************************************************)
EXTENDS Naturals, SequencesExt

CONSTANTS
  Urls,          \* [scheme, user, port, host, path, fragment]
  MediaDomains, NavigationDomains, ShortlinkDomains,  \* sets of [labels, subdomains]
  Responses,     \* [status, location, type, readable, references]
  MaxRedirects,  \* MAX_MEDIA_REDIRECTS
  Data, Invalid, \* data in place of a URL, what is no URL
  None

ProxyAssumption ==
  /\ None \notin Urls /\ MaxRedirects \in Nat
  /\ Responses \subseteq
       [status : Nat, location : Urls \cup {None, Invalid}, type : STRING, readable : BOOLEAN,
        references : Seq(Urls \cup {Data, Invalid})]

VARIABLES
  route,         \* "media" or "video"
  original,      \* the URL that was rewritten
  link,          \* [signature, target], None if the URL is left as it is
  known,         \* the browser holds the resource: If-None-Match
  at, target, redirects,
  asked,         \* the URLs that were asked for
  response, answer

vars == <<route, original, link, known, at, target, redirects, asked, response, answer>>
request == <<route, original, link, known>>
-----------------------------------------------------------------------------
(* HostPattern: a domain, or all below it.                                 *)
PatternMatches(pattern, host) ==
  IF pattern.subdomains
    THEN Len(host) > Len(pattern.labels) /\ IsSuffix(pattern.labels, host)
    ELSE host = pattern.labels
DomainMatches(patterns, host) == \E p \in patterns : PatternMatches(p, host)

MediaAllowed(u) ==
  /\ u.scheme = "https" /\ ~u.user /\ ~u.port
  /\ DomainMatches(MediaDomains, u.host)

(* A video may be anywhere but at an address or a name of this network.    *)
VideoAllowed(u) ==
  /\ u.scheme = "https" /\ ~u.user /\ ~u.port
  /\ u.host # << >> /\ Last(u.host) # "localhost"
  /\ Len(u.host) > 1 => Last(u.host) \notin {"local", "internal"}

Allowed(r, u) == IF r = "media" THEN MediaAllowed(u) ELSE VideoAllowed(u)

(* sign: what is shown on a server that hides adult content is signed      *)
(* apart, and so are videos.                                               *)
Signature(policy, scope, u) == [policy |-> policy, scope |-> scope, target |-> u]
Scope(r) == IF r = "media" THEN None ELSE "video"
Signed(r, u) == [signature |-> Signature("this", Scope(r), u), target |-> u]

(* rewrite_absolute_url: a URL of a media host becomes a link, without its *)
(* fragment; one of Reddit's pages a local path.                           *)
Parses(u) == u.scheme \in {"http", "https"} /\ ~u.user
Plain(u) == [u EXCEPT !.scheme = "https", !.port = FALSE, !.fragment = FALSE]

Navigation(u) ==
  IF DomainMatches(NavigationDomains, u.host) THEN [local |-> IF u.path = "gallery" THEN "comments" ELSE u.path]
  ELSE IF DomainMatches(ShortlinkDomains, u.host) THEN [local |-> "comments"] ELSE None

Rewritten(u) ==
  IF ~Parses(u) THEN None
  ELSE IF DomainMatches(MediaDomains, u.host)
    THEN IF MediaAllowed(Plain(u)) THEN Signed("media", Plain(u)) ELSE None
    ELSE Navigation(u)

(* decode_target: the signature must be the one of this route, policy and  *)
(* target.                                                                 *)
Decodes(r, l) ==
  /\ l.target # None
  /\ l.signature = Signature("this", Scope(r), l.target)
  /\ Allowed(r, l.target)

(* A manifest is rewritten as a whole or not at all.  Data in place of a   *)
(* URL is left alone in a picture's manifest.                              *)
ReferenceFits(r, u) == IF u = Data THEN r = "media" ELSE u # Invalid /\ Allowed(r, u)
Reference(r, u) == IF u = Data THEN u ELSE Signed(r, u)
-----------------------------------------------------------------------------
(* Links are made when a page is shown.  One of another policy is left     *)
(* from before the server was started anew, one without a target damaged.  *)
Links(r, u) ==
  {l \in (IF r = "media" THEN {Rewritten(u)} ELSE {Signed(r, u)}) : l # None /\ "target" \in DOMAIN l}
    \cup {[signature |-> Signature("other", Scope(r), u), target |-> u],
          [signature |-> Signature("this", Scope(r), u), target |-> None]}

Init ==
  /\ route \in {"media", "video"} /\ original \in Urls
  /\ link \in Links(route, original) /\ known \in BOOLEAN
  /\ at = "decode" /\ target = None /\ redirects = 0 /\ asked = << >>
  /\ response = None /\ answer = None

Finish(result) == answer' = result /\ at' = "done"
Fail(code) == Finish([ok |-> FALSE, code |-> code])

(* The tag of a link is its signature: what it names never changes.        *)
Decode ==
  /\ at = "decode"
  /\ IF ~Decodes(route, link) THEN Fail("forbidden") /\ UNCHANGED target
     ELSE IF known
       THEN Finish([ok |-> TRUE, status |-> 304, location |-> FALSE, tag |-> link.signature, links |-> << >>]) /\ UNCHANGED target
       ELSE target' = link.target /\ at' = "fetch" /\ UNCHANGED answer
  /\ UNCHANGED <<request, redirects, asked, response>>

IsRedirection(status) == status \in 300 .. 399
IsSuccess(status) == status \in 200 .. 299

Fetch ==
  /\ at = "fetch"
  /\ asked' = Append(asked, target)
  /\ \/ Fail("failed") /\ UNCHANGED response
     \/ \E r \in Responses :
          /\ response' = r
          /\ at' = IF r.status = 304 \/ ~IsRedirection(r.status) THEN "finish" ELSE "redirect"
          /\ UNCHANGED answer
  /\ UNCHANGED <<request, target, redirects>>

\* Mutant: where the redirect came from is checked again.
Current(to) == target
Redirected(to) == to

Redirect ==
  /\ at = "redirect"
  /\ CASE redirects = MaxRedirects -> Fail("too many redirects") /\ UNCHANGED <<target, redirects>>
       [] redirects < MaxRedirects /\ response.location \in {None, Invalid} ->
            Fail("bad redirect") /\ UNCHANGED <<target, redirects>>
       [] redirects < MaxRedirects /\ response.location \in Urls /\ ~Allowed(route, Redirected(response.location)) ->
            Fail("forbidden redirect") /\ UNCHANGED <<target, redirects>>
       [] OTHER -> target' = response.location /\ redirects' = redirects + 1 /\ at' = "fetch" /\ UNCHANGED answer
  /\ UNCHANGED <<request, asked, response>>

IsHls == target.path = "m3u8" \/ response.type = "mpegurl"
IsDash == target.path = "mpd" \/ response.type = "dash"
IsManifest == IsSuccess(response.status) /\ (IsHls \/ (route = "media" /\ IsDash))

Passed(links) ==
  LET settled == IsSuccess(response.status) \/ response.status = 304
  IN [ok |-> TRUE, status |-> response.status, location |-> ~settled /\ response.location # None,
      tag |-> IF settled THEN link.signature ELSE None, links |-> links]

FinishResponse ==
  /\ at = "finish"
  /\ IF ~IsManifest THEN Finish(Passed(<< >>))
     ELSE IF response.readable /\ \A i \in DOMAIN response.references : ReferenceFits(route, response.references[i])
       THEN Finish(Passed([i \in DOMAIN response.references |-> Reference(route, response.references[i])]))
       ELSE Fail("bad manifest")
  /\ UNCHANGED <<request, target, redirects, asked, response>>

Next == Decode \/ Fetch \/ Redirect \/ FinishResponse

Spec == Init /\ [][Next]_vars
-----------------------------------------------------------------------------
Done == at = "done"
Made == link.target # None /\ link.signature.policy = "this"

(* A URL is asked for only where its route allows it, also after a chain   *)
(* of redirects, which has an end; what the browser holds is not asked for.*)
AskedAllowed ==
  /\ \A i \in DOMAIN asked : Allowed(route, asked[i])
  /\ Len(asked) <= MaxRedirects + 1
  /\ known => asked = << >>

(* A link the service put on a page can be followed, whatever the form of  *)
(* the URL it was made of, as long as the policy is the same.              *)
LinksAreFollowed ==
  Done /\ ~answer.ok /\ answer.code = "forbidden" /\ route = "media" => ~Made

(* A manifest goes on with links of the same route that can be followed in *)
(* turn, each to what stood in its place; it is tagged for the link that   *)
(* was asked for, and leads nowhere else.                                  *)
ManifestsGoOn ==
  Done /\ answer.ok =>
    /\ answer.status \in {200, 206, 304} => ~answer.location /\ answer.tag = link.signature
    /\ answer.links # << >> =>
         /\ Len(answer.links) = Len(response.references)
         /\ \A i \in DOMAIN answer.links : answer.links[i] # Data =>
              Decodes(route, answer.links[i]) /\ answer.links[i].target = response.references[i]

(* What the proxy asks for, what it is asked for, and what it answers      *)
(* (server.rs, proxy_media and proxy_video).                               *)
ProxyIsSound == AskedAllowed /\ LinksAreFollowed /\ ManifestsGoOn
=============================================================================
