---------------------------- MODULE MCProcesses ----------------------------
(***************************************************************************)
(* Seven processes of the program, each on a small instance: the video     *)
(* resolver, the collection of a search session, a call of the client, an  *)
(* authentication, a call of the service, a link to the media proxy, and   *)
(* the program from its start to its exit.  They share nothing, so a       *)
(* behaviour is one of a single part while the others stay as they start.  *)
(***************************************************************************)
EXTENDS Processes

VARIABLE part

sessionVars == <<sort, collection, step, requests, pending, pages, given>>
callVars == <<kind, callAt, redirects, lease, served, response, chunk, body, generation, observed, invalidated, answer>>
authVars == <<backend, attempt, authAt, captured, exchanges, lastError, elapsed, credentials>>
serviceVars == <<allow, scope, wants, todo, calls, vouched, found, ids, batch, hydrated, gate, serviceResult>>
linkVars == <<route, original, link, known, linkAt, target, hops, asked, linkResponse, linkAnswer>>
startVars == <<mode, config, startAt, running, routes, files, starts>>
allVars == <<part, vars, sessionVars, callVars, authVars, serviceVars, linkVars, startVars>>

(* Four items, two of them comments that are undecided without their post. *)
MCTime == <<2, 1, 1, 2>>
MCScore == <<5, 7, 5, 5>>
MCBytes == <<1, 1, 2, 1>>
MCVerdict == <<"true", "true", "unknown", "unknown">>
MCParentOf == <<None, None, 11, 12>>
MCWithParent == <<"true", "true", "true", "false">>

(* What Reddit may answer: every status the code tells apart, announced    *)
(* and measured sizes around a limit of two, and bodies of every form.     *)
NoError == [suspended |-> FALSE, error |-> "none", errors |-> FALSE, trees |-> TRUE, message |-> "", reason |-> ""]
Told == [remaining |-> 15, reset |-> 20]
Bodies ==
  {None, NoError, [NoError EXCEPT !.suspended = TRUE], [NoError EXCEPT !.errors = TRUE],
   [NoError EXCEPT !.trees = FALSE], [NoError EXCEPT !.error = "other"],
   [NoError EXCEPT !.error = "number", !.message = "Unauthorized"],
   [NoError EXCEPT !.error = "number", !.reason = "Private"],
   [NoError EXCEPT !.error = "number", !.reason = "unheard of"]}
Answer(status, limits, location, length, chunks, json) ==
  [status |-> status, limits |-> limits, location |-> location, length |-> length, chunks |-> chunks, json |-> json]
MCCallResponses ==
  {Answer(status, limits, "none", None, <<1>>, json) :
     status \in {200, 304, 401, 403, 429, 503}, limits \in {None, Told}, json \in Bodies}
  \cup {Answer(302, Told, location, None, << >>, None) : location \in {"none", "www", "other"}}
  \cup {Answer(200, limits, "none", length, chunks, NoError) :
     limits \in {Told, [remaining |-> None, reset |-> None], [remaining |-> -5, reset |-> 20], [remaining |-> 99, reset |-> -1]},
     length \in {None, 2, 3}, chunks \in {<< >>, <<2>>, <<1, 1>>, <<2, 1>>}}

(* Formats of one video and of another; two that are alike but for their   *)
(* place, one without a height, one that is not played.                    *)
Format(ext, height, width) ==
  [hls |-> FALSE, ext |-> ext, combined |-> TRUE, public |-> TRUE, height |-> height, width |-> width, ratio |-> None]
Low == Format("mp4", 10, 10)
High == Format("m4v", 20, 14)
Web == [Format("webm", 10, None) EXCEPT !.ratio = 10]
Line(id, format) == [id |-> id, format |-> format]
MCOutputs ==
  {<< >>, <<Line("x", Low), Line("y", Low)>>,
   <<Line("x", Low), Line("x", High), Line("x", Low)>>,
   <<Line("x", Format("mp4", None, None)), Line("x", Web), Line("x", Low), Line("x", High)>>,
   <<Line("x", [Low EXCEPT !.combined = FALSE]), Line("x", [High EXCEPT !.public = FALSE]), Line("x", Format("flv", 10, 10))>>}

ServiceValues == INSTANCE MCServiceCalls
MCInputs == ServiceValues!MCInputs
MCScopes == ServiceValues!MCScopes
MCListings == ServiceValues!MCListings
MCCards == ServiceValues!MCCards
MCComments == ServiceValues!MCComments

ProxyValues == INSTANCE MCMediaProxy
MCUrls == ProxyValues!MCUrls
MCResponses == ProxyValues!MCResponses
MCMediaDomains == ProxyValues!MCMediaDomains
MCNavigationDomains == ProxyValues!MCNavigationDomains
MCShortlinkDomains == ProxyValues!MCShortlinkDomains

(* Configurations that work and that fail at every step that can.          *)
Config ==
  [web |-> TRUE, api |-> TRUE, feeds |-> TRUE, shortlinks |-> TRUE, video |-> TRUE,
   key |-> "none", faults |-> {}, alias |-> FALSE]
MCConfigs ==
  {Config, [Config EXCEPT !.alias = TRUE], [Config EXCEPT !.faults = {"exclusions"}], [Config EXCEPT !.web = FALSE],
   [Config EXCEPT !.web = FALSE, !.video = FALSE, !.key = "file"],
   [Config EXCEPT !.api = FALSE, !.web = FALSE, !.video = FALSE], [Config EXCEPT !.feeds = FALSE, !.key = "short"],
   [Config EXCEPT !.shortlinks = FALSE, !.video = FALSE, !.alias = TRUE], [Config EXCEPT !.feeds = FALSE, !.api = FALSE]}

Parts == {"videos", "session", "call", "authentication", "service", "link", "start"}

(* The others start in one way only.                                       *)
AllInit ==
  /\ part \in Parts
  /\ part # "session" => sort = "new"
  /\ part # "call" => kind = "json"
  /\ part # "service" => todo = Service!users /\ allow = FALSE
  /\ part # "link" => route = "media" /\ original = ProxyValues!Manifest /\ link = Proxy!Signed("media", original) /\ known = FALSE
  /\ part # "start" =>
       mode = "serve" /\ config = Config /\ files = [store \in {"cache", "definitions"} |-> Start!Absent]
  /\ Init /\ Collected!Init /\ Called!Init /\ Auth!Init /\ Service!Init /\ Proxy!Init /\ Start!Init

AllNext ==
  /\ UNCHANGED part
  /\ \/ part = "videos" /\ Next /\ UNCHANGED <<sessionVars, callVars, authVars, serviceVars, linkVars, startVars>>
     \/ part = "session" /\ Collected!Next /\ UNCHANGED <<vars, callVars, authVars, serviceVars, linkVars, startVars>>
     \/ part = "call" /\ Called!Next /\ UNCHANGED <<vars, sessionVars, authVars, serviceVars, linkVars, startVars>>
     \/ part = "authentication" /\ Auth!Next /\ UNCHANGED <<vars, sessionVars, callVars, serviceVars, linkVars, startVars>>
     \/ part = "service" /\ Service!Next /\ UNCHANGED <<vars, sessionVars, callVars, authVars, linkVars, startVars>>
     \/ part = "link" /\ Proxy!Next /\ UNCHANGED <<vars, sessionVars, callVars, authVars, serviceVars, startVars>>
     \/ part = "start" /\ Start!Next /\ UNCHANGED <<vars, sessionVars, callVars, authVars, serviceVars, linkVars>>

AllSpec == AllInit /\ [][AllNext]_allVars
=============================================================================
