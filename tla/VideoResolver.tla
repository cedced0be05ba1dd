--------------------------- MODULE VideoResolver ---------------------------
(***************************************************************************)
(* Resolving hosted videos: a cache of what was extracted, a few permits   *)
(* for extractors, a queue for the permits with a limit on the wait, and   *)
(* what a player is offered of the formats an extractor printed.           *)
(***************************************************************************)
EXTENDS Integers, SequencesExt, FiniteSets, Selection

CONSTANTS
  Callers, Videos,
  MaxExtractors,   \* MAX_EXTRACTORS
  Ttl,             \* CACHE_TTL
  MaxSources,      \* sources of a playback
  MaxU32,          \* the largest size of a picture
  Outputs,         \* what an extractor may print: sequences of lines
  MaxTime,         \* bound: the time
  None

Errors ==
  {"NoPlayableFormats", "InvalidOutputShape", "InvalidTarget", "Busy", "ExtractionFailed", "Dropped"}

(* What an extractor says of a format, sizes in tenths.                    *)
Printed ==
  [hls : BOOLEAN, ext : STRING, combined : BOOLEAN, public : BOOLEAN,
   height : Int \cup {None}, width : Int \cup {None}, ratio : Int \cup {None}]

ASSUME VideoAssumption ==
  /\ MaxExtractors \in Nat /\ Ttl \in Nat \ {0} /\ MaxSources \in Nat /\ MaxU32 \in Nat
  /\ IsFiniteSet(Callers) /\ None \notin Videos \cup Errors
  /\ Outputs \subseteq Seq([id : STRING, format : Printed])

VARIABLES
  at,        \* at[c]: "idle", "target", "lookup", "queue", "permit", "extract" or "done"
  wanted,    \* wanted[c]: the video c asks for
  waiting,   \* those in the queue of the semaphore, first come first served
  permits,   \* free permits
  cache,     \* cache[v]: [stored, video], or None
  result,    \* result[c]
  clock

vars == <<at, wanted, waiting, permits, cache, result, clock>>

Init ==
  /\ at = [c \in Callers |-> "idle"] /\ wanted = [c \in Callers |-> None]
  /\ waiting = << >> /\ permits = MaxExtractors
  /\ cache = [v \in Videos |-> None] /\ result = [c \in Callers |-> None] /\ clock = 0
-----------------------------------------------------------------------------
(* finite_u32, of tenths: rounded, where it is a size at all.              *)
FiniteU32(tenths) ==
  IF tenths # None /\ tenths > 0 /\ tenths <= 10 * MaxU32 THEN (tenths + 5) \div 10 ELSE None
Or(a, b) == IF a # None THEN a ELSE b

(* source: formats with picture and sound that a browser plays.            *)
Mime(f) ==
  CASE f.hls -> "mpegurl"
    [] ~f.hls /\ f.ext \in {"mp4", "m4v"} -> "mp4"
    [] ~f.hls /\ f.ext \notin {"mp4", "m4v"} -> f.ext
Playable(f) == f.combined /\ f.public /\ Mime(f) \in {"mpegurl", "mp4", "webm"}
Width(f, height) ==
  Or(FiniteU32(f.width), IF f.ratio = None \/ height = None THEN None ELSE FiniteU32(height * f.ratio))
Source(f) ==
  LET height == FiniteU32(f.height) IN
  [mime |-> Mime(f), height |-> height, width |-> Width(f, height)]
SortKey(f) == Or(FiniteU32(f.height), 0)

(* playback: the highest first, equals in the order they were printed; of  *)
(* neighbours that are alike the first.                                    *)
Before(fs, i, j) ==
  \/ SortKey(fs[i]) > SortKey(fs[j])
  \/ SortKey(fs[i]) = SortKey(fs[j]) /\ i < j
Ordered(fs) == [n \in DOMAIN fs |-> Source(fs[Nth(DOMAIN fs, n, LAMBDA j, i : Before(fs, j, i))])]
Distinct(ss) == Picked(ss, {i \in DOMAIN ss : i = 1 \/ ss[i] # ss[i - 1]})
Truncated(ss) == SubSeq(ss, 1, IF Len(ss) < MaxSources THEN Len(ss) ELSE MaxSources)

Sources(formats) == Truncated(Distinct(Ordered(Picked(formats, {i \in DOMAIN formats : Playable(formats[i])}))))

Fails(name) == [error |-> name, sources |-> << >>, stored |-> None]
Playback(video, stored) ==
  IF Sources(video) = << >> THEN Fails("NoPlayableFormats")
  ELSE [error |-> None, sources |-> Sources(video), stored |-> stored]

(* parse_output: one line for each format, all of one video.               *)
OfOneVideo(lines) == \A i \in DOMAIN lines : lines[i].id = lines[1].id
Formats(lines) == [i \in DOMAIN lines |-> lines[i].format]
ParseError(lines) ==
  IF lines = << >> THEN "NoPlayableFormats"
  ELSE IF ~OfOneVideo(lines) THEN "InvalidOutputShape" ELSE None
-----------------------------------------------------------------------------
(* cached: entries past their time are dropped by whoever looks.           *)
Live(v) == cache[v] # None /\ clock - cache[v].stored < Ttl
Retained == [v \in Videos |-> IF Live(v) THEN cache[v] ELSE None]

Goes(c, where) == at' = [at EXCEPT ![c] = where]
End(c, r) == Goes(c, "done") /\ result' = [result EXCEPT ![c] = r]

Ask(c, v) ==
  /\ at[c] \in {"idle", "done"} /\ wanted' = [wanted EXCEPT ![c] = v] /\ Goes(c, "target")
  /\ result' = [result EXCEPT ![c] = None]
  /\ UNCHANGED <<waiting, permits, cache, clock>>

(* The target is refused, or its name resolves to public addresses alone.  *)
CheckTarget(c) ==
  /\ at[c] = "target"
  /\ \/ Goes(c, "lookup") /\ UNCHANGED result
     \/ End(c, Fails("InvalidTarget"))
  /\ UNCHANGED <<wanted, waiting, permits, cache, clock>>

Lookup(c) ==
  /\ at[c] = "lookup" /\ cache' = Retained
  /\ IF Live(wanted[c])
       THEN End(c, Playback(cache[wanted[c]].video, cache[wanted[c]].stored)) /\ UNCHANGED waiting
       ELSE Goes(c, "queue") /\ waiting' = Append(waiting, c) /\ UNCHANGED result
  /\ UNCHANGED <<wanted, permits, clock>>

TakePermit(c) ==
  /\ waiting # << >> /\ Head(waiting) = c /\ permits > 0
  /\ waiting' = Tail(waiting) /\ permits' = permits - 1 /\ Goes(c, "permit")
  /\ UNCHANGED <<wanted, cache, result, clock>>

NotFor(c) == RemoveFirst(waiting, c)

(* The wait of two seconds is over.                                        *)
QueueTimeout(c) ==
  /\ at[c] = "queue" /\ waiting' = NotFor(c) /\ End(c, Fails("Busy"))
  /\ UNCHANGED <<wanted, permits, cache, clock>>

\* Mutant: the cache is not looked at again with the permit.
OnceOnly(v) == FALSE
FoundAgain(v) == Live(v)

Recheck(c) ==
  /\ at[c] = "permit" /\ cache' = Retained
  /\ IF FoundAgain(wanted[c])
       THEN /\ End(c, Playback(cache[wanted[c]].video, cache[wanted[c]].stored))
            /\ permits' = permits + 1
       ELSE Goes(c, "extract") /\ UNCHANGED <<result, permits>>
  /\ UNCHANGED <<wanted, waiting, clock>>

(* The extractor printed lines: they are kept, whether or not there is     *)
(* anything to play in them.                                               *)
Extracted(c) ==
  /\ at[c] = "extract" /\ permits' = permits + 1
  /\ \E lines \in Outputs :
       IF ParseError(lines) # None
         THEN End(c, Fails(ParseError(lines))) /\ UNCHANGED cache
         ELSE /\ cache' = [cache EXCEPT ![wanted[c]] = [stored |-> clock, video |-> Formats(lines)]]
              /\ End(c, Playback(Formats(lines), clock))
  /\ UNCHANGED <<wanted, waiting, clock>>

(* It does not start, fails, prints too much, or is killed after its time. *)
ExtractorFails(c) ==
  /\ at[c] = "extract" /\ permits' = permits + 1
  /\ End(c, Fails("ExtractionFailed"))
  /\ UNCHANGED <<wanted, waiting, cache, clock>>

\* Mutant: an extractor that is dropped keeps its permit.
KeptPermit(c) == 0
PermitOf(c) == IF at[c] \in {"permit", "extract"} THEN 1 ELSE 0

(* The request goes away: its extractor is killed, its permit and its      *)
(* place in the queue are free.                                            *)
Abandon(c) ==
  /\ at[c] \notin {"idle", "done"}
  /\ permits' = permits + PermitOf(c) /\ waiting' = NotFor(c) /\ End(c, Fails("Dropped"))
  /\ UNCHANGED <<wanted, cache, clock>>

Tick ==
  /\ clock < MaxTime /\ clock' = clock + 1
  /\ UNCHANGED <<at, wanted, waiting, permits, cache, result>>

Next ==
  \/ Tick
  \/ \E c \in Callers :
       \/ \E v \in Videos : Ask(c, v)
       \/ CheckTarget(c) \/ Lookup(c) \/ TakePermit(c) \/ QueueTimeout(c) \/ Recheck(c)
       \/ Extracted(c) \/ ExtractorFails(c) \/ Abandon(c)

Spec == Init /\ [][Next]_vars
-----------------------------------------------------------------------------
(* A permit is free or somebody holds it, through every failure, timeout   *)
(* and request that goes away: no more extractors run than there are       *)
(* permits, and none is lost.                                              *)
Holders == {c \in Callers : at[c] \in {"permit", "extract"}}
PermitsAreAccounted == permits \in Nat /\ permits + Cardinality(Holders) = MaxExtractors

(* Who was not in the queue is not waited for, and nobody twice.           *)
QueueIsExact ==
  /\ ToSet(waiting) = {c \in Callers : at[c] = "queue"}
  /\ \A i, j \in DOMAIN waiting : waiting[i] = waiting[j] => i = j

(* What a player is offered is ordered from the highest picture, has no    *)
(* two alike next to each other and is within the limit.                   *)
OffersAreOrdered ==
  \A c \in Callers : result[c] # None /\ result[c].error = None =>
    LET ss == result[c].sources IN
    /\ Len(ss) \in 1 .. MaxSources
    /\ \A i \in 1 .. Len(ss) - 1 :
         ss[i] # ss[i + 1] /\ Or(ss[i].height, 0) >= Or(ss[i + 1].height, 0)

(* The resolver keeps its permits, its queue and the order of what it      *)
(* offers, whoever goes away or fails (video.rs, resolve and playback).    *)
ResolverIsSound == PermitsAreAccounted /\ QueueIsExact /\ OffersAreOrdered

(* A video is extracted only when no copy within its time is there, also   *)
(* for one who waited for the permit while another extracted it; and what  *)
(* is returned is within its time when it is.                              *)
ExtractsOnlyMissing ==
  [][\A c \in Callers :
       /\ at[c] # "extract" /\ at'[c] = "extract" => ~Live(wanted[c])
       /\ result[c] # result'[c] /\ result'[c] # None /\ result'[c].error = None
            => clock - result'[c].stored < Ttl]_vars
=============================================================================
