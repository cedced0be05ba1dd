------------------------- MODULE FeedCollectProofs -------------------------
(***************************************************************************)
(* What the build of a custom feed keeps, for any posts, verdicts, sizes,  *)
(* values, sources and budgets.                                            *)
(***************************************************************************)
EXTENDS FeedCollect, DataLemmas

Sightings == [post : Posts, source : 1 .. Sources, rank : Nat \ {0}]

TypeInv ==
  /\ phase \in {"collecting", "collected", "paging", "last", "failed"}
  /\ source \in 1 .. Sources + 1 /\ taken \in Nat
  /\ inspected \in Nat /\ unknown \in Nat /\ bytes \in Nat
  /\ candidates \in Seq(Sightings)
  /\ bounded \in BOOLEAN /\ exhausted \in BOOLEAN
  /\ number \in Nat \ {0} /\ shown \in Seq(Sightings)
  /\ seen \in SUBSET Sightings /\ IsFiniteSet(seen)
  /\ ending \in [1 .. Sources -> {"open", "window", "bytes", "end", "filtered", "cut"}]
  /\ phase = "collecting" => source <= Sources

(* Sight s of a post is not later in its source than t; of two alike it is *)
(* the one of the first source.                                            *)
NoWorse(s, t) == t.rank > s.rank \/ (t.rank = s.rank /\ t.source >= s.source)

(* Candidates are posts that count, each once and at its best sight.       *)
Apart(cs) == \A i, j \in 1 .. Len(cs) : cs[i].post = cs[j].post => i = j
Best(cs, sights) ==
  \A i \in 1 .. Len(cs) :
    /\ cs[i] \in sights /\ Counts(cs[i].post)
    /\ \A t \in sights : t.post = cs[i].post => NoWorse(cs[i], t)
Found(cs, sights) ==
  \A t \in sights : Counts(t.post) => \E i \in 1 .. Len(cs) : cs[i].post = t.post

CandidatesInv ==
  /\ Apart(candidates) /\ Best(candidates, seen)
  /\ (\E s \in 1 .. Sources : ending[s] = "bytes") \/ Found(candidates, seen)
  /\ phase = "collecting" => Found(candidates, seen)
  /\ \A t \in seen : t.source <= source

(* The candidates stand in the order of the ranking.                       *)
InOrder(cs) ==
  /\ \A i \in 1 .. Len(cs) : RankValue[cs[i].post] \in Int
  /\ \A i, j \in 1 .. Len(cs) : i < j => Before(cs[i], cs[j])

PagesInv ==
  /\ phase \in {"collecting", "collected"} => number = 1 /\ shown = << >>
  /\ phase \in {"paging", "last"} => InOrder(candidates)
  /\ phase = "paging" =>
       Start(number) <= Len(candidates) /\ shown = SubSeq(candidates, 1, Start(number))
  /\ phase = "last" => shown = candidates

(* A source that was left by its last page, and the sources that were left *)
(* so far: one of them was stopped unless exhausted is set.                *)
RanOut(s) == ending[s] \in {"end", "filtered", "cut"}

SourcesInv ==
  /\ exhausted => \A s \in 1 .. Sources : s < source => RanOut(s)
  /\ ~exhausted => \E s \in 1 .. Sources : ~RanOut(s) /\ s < source
  /\ phase \in {"collected", "paging", "last"} => source = Sources + 1

IInv == TypeInv /\ CandidatesInv /\ PagesInv
-----------------------------------------------------------------------------
(***************************************************************************)
(* The posts of a page, one after the other.                               *)
(***************************************************************************)
Results ==
  [candidates : Seq(Sightings), taken : Nat, unknown : Nat, bytes : Nat, full : BOOLEAN,
   seen : SUBSET Sightings]

Sound ==
  {c \in Results :
     /\ Apart(c.candidates) /\ Best(c.candidates, c.seen)
     /\ c.full \/ Found(c.candidates, c.seen)
     /\ c.taken >= taken /\ IsFiniteSet(c.seen)
     /\ \A t \in c.seen : t.source <= source}

(* The rank of a post that was not yet counted is the next of the source.  *)
SightOf(c, p) == [post |-> p, source |-> source, rank |-> c.taken + 1]
Seeing(c, p) == [c EXCEPT !.taken = c.taken + 1, !.seen = @ \cup {SightOf(c, p)}]

LEMMA SeeingTypes ==
  ASSUME TypeInv, source <= Sources, NEW c \in Sound, NEW p \in Posts
  PROVE  /\ SightOf(c, p) \in Sightings /\ Seeing(c, p) \in Results
         /\ Seeing(c, p).candidates = c.candidates /\ Seeing(c, p).full = c.full
         /\ Seeing(c, p).unknown = c.unknown /\ Seeing(c, p).bytes = c.bytes
         /\ Seeing(c, p).taken = c.taken + 1 /\ c.taken + 1 >= taken
         /\ Seeing(c, p).seen = c.seen \cup {SightOf(c, p)}
         /\ IsFiniteSet(c.seen \cup {SightOf(c, p)})
         /\ \A t \in c.seen \cup {SightOf(c, p)} : t.source <= source
<1>1. c \in Results /\ c.taken \in Nat /\ taken \in Nat /\ c.taken >= taken /\ IsFiniteSet(c.seen)
      /\ c.seen \subseteq Sightings /\ source \in 1 .. Sources
  BY DEF TypeInv, Sound, Results
<1>2. SightOf(c, p) \in Sightings
  BY <1>1 DEF SightOf, Sightings
<1>3. IsFiniteSet(c.seen \cup {SightOf(c, p)})
  BY <1>1, FS_AddElement
<1>4. \A t \in c.seen \cup {SightOf(c, p)} : t.source <= source
  BY <1>1 DEF Sound, SightOf
<1>5. /\ Seeing(c, p).candidates = c.candidates /\ Seeing(c, p).full = c.full
      /\ Seeing(c, p).unknown = c.unknown /\ Seeing(c, p).bytes = c.bytes
      /\ Seeing(c, p).taken = c.taken + 1
      /\ Seeing(c, p).seen = c.seen \cup {SightOf(c, p)}
  BY <1>1 DEF Seeing, Results
<1>6. Seeing(c, p) \in Results
  <2>1. c.seen \cup {SightOf(c, p)} \in SUBSET Sightings /\ c.taken + 1 \in Nat
    BY <1>1, <1>2
  <2>. QED BY <1>1, <2>1 DEF Seeing, Results
<1>. QED BY <1>1, <1>2, <1>3, <1>4, <1>5, <1>6

(* A post that is passed over.                                             *)
LEMMA PassedOver ==
  ASSUME TypeInv, source <= Sources, NEW c \in Sound, NEW p \in Posts, ~Counts(p),
         NEW d \in Results, d.candidates = c.candidates, d.full = c.full,
         d.taken = c.taken + 1, d.seen = c.seen \cup {SightOf(c, p)}
  PROVE  d \in Sound
<1>1. /\ Apart(c.candidates) /\ Best(c.candidates, c.seen)
      /\ c.full \/ Found(c.candidates, c.seen)
  BY DEF Sound
<1>2. SightOf(c, p).post = p
  BY DEF SightOf
<1>3. Best(c.candidates, c.seen \cup {SightOf(c, p)})
  BY <1>1, <1>2 DEF Best
<1>4. c.full \/ Found(c.candidates, c.seen \cup {SightOf(c, p)})
  BY <1>1, <1>2 DEF Found
<1>. QED BY <1>1, <1>3, <1>4, SeeingTypes DEF Sound

(* A post that was collected before.                                       *)
LEMMA SeenAgain ==
  ASSUME TypeInv, source <= Sources, NEW c \in Sound, NEW p \in Posts, Counts(p),
         NEW i \in 1 .. Len(c.candidates), c.candidates[i].post = p,
         NEW d \in Results, d.candidates = Better(c.candidates, i, c.taken + 1), d.full = c.full,
         d.taken = c.taken + 1, d.seen = c.seen \cup {SightOf(c, p)}
  PROVE  d \in Sound
<1>. DEFINE s == SightOf(c, p)
            cs == c.candidates
<1>1. /\ Apart(cs) /\ Best(cs, c.seen)
      /\ c.full \/ Found(cs, c.seen)
      /\ cs \in Seq(Sightings) /\ c.seen \subseteq Sightings
      /\ \A t \in c.seen : t.source <= source /\ t.source \in Int /\ t.rank \in Nat
  BY DEF Sound, Results, Sightings
<1>2. s.post = p /\ s.source = source /\ s.rank = c.taken + 1 /\ s \in Sightings
  BY SeeingTypes DEF SightOf
<1>3. source \in Int /\ c.taken + 1 \in Nat
  BY DEF TypeInv, Sound, Results
<1>4. /\ DOMAIN cs = 1 .. Len(cs) /\ Len(cs) \in Nat
      /\ \A j \in 1 .. Len(cs) : cs[j] \in Sightings
  BY <1>1, LenProperties, ElementOfSeq
<1>. HIDE DEF s, cs
<1>5. CASE s.rank < cs[i].rank
  <2>. DEFINE new == [cs EXCEPT ![i] = s]
  <2>1. Better(cs, i, s.rank) = new
    <3>1. cs[i] = [post |-> cs[i].post, source |-> cs[i].source, rank |-> cs[i].rank]
      BY <1>4 DEF cs, Sightings
    <3>2. [cs[i] EXCEPT !.source = source, !.rank = s.rank] = s
      BY <1>2, <3>1 DEF cs, s, SightOf
    <3>. QED BY <1>4, <1>5, <3>2 DEF Better, cs
  <2>2. /\ new \in Seq(Sightings) /\ Len(new) = Len(cs) /\ new[i] = s
        /\ \A j \in 1 .. Len(cs) : new[j].post = cs[j].post /\ (j # i => new[j] = cs[j])
    <3>1. new \in Seq(Sightings) /\ Len(new) = Len(cs)
      BY <1>1, <1>2, ExceptSeq DEF cs
    <3>2. new[i] = s /\ \A j \in 1 .. Len(cs) : j # i => new[j] = cs[j]
      BY <1>4 DEF cs
    <3>. QED BY <1>2, <3>1, <3>2 DEF cs
  <2>. HIDE DEF new
  <2>3. Apart(new)
    BY <1>1, <2>2 DEF Apart
  <2>4. Best(new, c.seen \cup {s})
    <3>. SUFFICES ASSUME NEW j \in 1 .. Len(cs)
                  PROVE  /\ new[j] \in c.seen \cup {s} /\ Counts(new[j].post)
                         /\ \A t \in c.seen \cup {s} : t.post = new[j].post => NoWorse(new[j], t)
      BY <2>2 DEF Best
    <3>1. CASE j = i
      <4>1. new[j] = s /\ new[j].post = p
        BY <1>2, <2>2, <3>1
      <4>2. ASSUME NEW t \in c.seen, t.post = p PROVE NoWorse(s, t)
        <5>1. NoWorse(cs[i], t)
          BY <1>1, <4>2 DEF Best, cs
        <5>2. cs[i].rank \in Nat /\ t.rank \in Nat
          BY <1>1, <1>4 DEF Sightings, cs
        <5>3. cs[i].rank <= t.rank
          BY <5>1, <5>2 DEF NoWorse
        <5>4. s.rank \in Nat /\ s.rank < t.rank
          BY <1>2, <1>3, <1>5, <5>2, <5>3
        <5>. QED BY <5>2, <5>4 DEF NoWorse
      <4>3. NoWorse(s, s)
        BY <1>2, <1>3 DEF NoWorse
      <4>. QED BY <4>1, <4>2, <4>3
    <3>2. CASE j # i
      <4>1. new[j] = cs[j] /\ cs[j].post # p
        BY <1>1, <2>2, <3>2 DEF Apart, cs
      <4>. QED BY <1>1, <1>2, <4>1 DEF Best
    <3>. QED BY <3>1, <3>2
  <2>5. ASSUME Found(cs, c.seen) PROVE Found(new, c.seen \cup {s})
    <3>. SUFFICES ASSUME NEW t \in c.seen \cup {s}, Counts(t.post)
                  PROVE  \E j \in 1 .. Len(cs) : new[j].post = t.post
      BY <2>2 DEF Found
    <3>1. CASE t \in c.seen
      <4>1. PICK j \in 1 .. Len(cs) : cs[j].post = t.post
        BY <2>5, <3>1 DEF Found
      <4>. QED BY <2>2, <4>1
    <3>2. CASE t = s
      BY <1>2, <2>2, <3>2 DEF cs
    <3>. QED BY <3>1, <3>2
  <2>6. d.candidates = new
    BY <1>2, <2>1 DEF cs
  <2>. QED BY <1>1, <2>3, <2>4, <2>5, <2>6, SeeingTypes DEF Sound, s
<1>6. CASE ~(s.rank < cs[i].rank)
  <2>1. Better(cs, i, s.rank) = cs
    BY <1>6 DEF Better
  <2>2. NoWorse(cs[i], s)
    <3>1. cs[i] \in c.seen
      BY <1>1 DEF Best, cs
    <3>. QED BY <1>1, <1>2, <1>3, <1>6, <3>1 DEF NoWorse
  <2>3. Best(cs, c.seen \cup {s})
    <3>. SUFFICES ASSUME NEW j \in 1 .. Len(cs), cs[j].post = p PROVE NoWorse(cs[j], s)
      BY <1>1, <1>2 DEF Best
    <3>1. j = i
      BY <1>1 DEF Apart, cs
    <3>. QED BY <2>2, <3>1
  <2>4. c.full \/ Found(cs, c.seen \cup {s})
    BY <1>1, <1>2 DEF Found, cs
  <2>5. d.candidates = cs
    BY <1>2, <2>1 DEF cs
  <2>6. /\ d.taken >= taken /\ IsFiniteSet(d.seen)
        /\ \A t \in d.seen : t.source <= source
    BY SeeingTypes
  <2>7. /\ Apart(d.candidates) /\ Best(d.candidates, d.seen)
        /\ d.full \/ Found(d.candidates, d.seen)
    BY <1>1, <2>3, <2>4, <2>5 DEF s
  <2>. QED BY <2>6, <2>7 DEF Sound
<1>. QED BY <1>5, <1>6

(* A post that is collected.                                               *)
LEMMA Collected ==
  ASSUME TypeInv, source <= Sources, NEW c \in Sound, NEW p \in Posts, Counts(p), ~c.full,
         \A i \in 1 .. Len(c.candidates) : c.candidates[i].post # p,
         NEW d \in Results, d.candidates = Append(c.candidates, SightOf(c, p)), d.full = c.full,
         d.taken = c.taken + 1, d.seen = c.seen \cup {SightOf(c, p)}
  PROVE  d \in Sound
<1>. DEFINE s == SightOf(c, p)
            cs == c.candidates
            new == Append(cs, s)
            L == Len(cs)
<1>1. /\ Apart(cs) /\ Best(cs, c.seen)
      /\ c.full \/ Found(cs, c.seen)
      /\ cs \in Seq(Sightings) /\ \A t \in c.seen : t.rank \in Nat
  BY DEF Sound, Results, Sightings
<1>2. s.post = p /\ s \in Sightings /\ NoWorse(s, s)
  <2>1. s.source \in Int /\ s.rank \in Int
    BY DEF SightOf, TypeInv, Sound, Results
  <2>. QED BY <2>1, SeeingTypes DEF SightOf, NoWorse
<1>3. L \in Nat
  BY <1>1, LenProperties
<1>4. /\ Len(new) = L + 1 /\ new[L + 1] = s
      /\ \A i \in 1 .. L : new[i] = cs[i]
  <2>. HIDE DEF s, cs
  <2>. QED BY <1>1, <1>2, AppendProperties
<1>5. ASSUME NEW t \in c.seen, t.post = p PROVE FALSE
  BY <1>1, <1>5 DEF Found
<1>. HIDE DEF s, cs, new, L
<1>6. Apart(new)
  <2>. SUFFICES ASSUME NEW i \in 1 .. L + 1, NEW j \in 1 .. L + 1, new[i].post = new[j].post
                PROVE  i = j
    BY <1>4 DEF Apart
  <2>1. \A k \in 1 .. L : new[k].post = cs[k].post /\ new[k].post # p
    BY <1>4 DEF cs, L
  <2>2. i = L + 1 <=> j = L + 1
    BY <1>2, <1>3, <1>4, <2>1
  <2>3. CASE i \in 1 .. L /\ j \in 1 .. L
    BY <1>1, <2>1, <2>3 DEF Apart, L
  <2>. QED BY <1>3, <2>2, <2>3
<1>7. Best(new, c.seen \cup {s})
  <2>. SUFFICES ASSUME NEW j \in 1 .. L + 1
                PROVE  /\ new[j] \in c.seen \cup {s} /\ Counts(new[j].post)
                       /\ \A t \in c.seen \cup {s} : t.post = new[j].post => NoWorse(new[j], t)
    BY <1>4 DEF Best
  <2>1. CASE j = L + 1
    BY <1>2, <1>4, <1>5, <2>1
  <2>2. CASE j \in 1 .. L
    <3>1. new[j] = cs[j] /\ cs[j].post # p
      BY <1>4, <2>2 DEF cs, L
    <3>2. /\ cs[j] \in c.seen /\ Counts(cs[j].post)
          /\ \A t \in c.seen : t.post = cs[j].post => NoWorse(cs[j], t)
      BY <1>1, <2>2 DEF Best, L
    <3>. QED BY <1>2, <3>1, <3>2
  <2>. QED BY <1>3, <2>1, <2>2
<1>8. Found(new, c.seen \cup {s})
  <2>. SUFFICES ASSUME NEW t \in c.seen \cup {s}, Counts(t.post)
                PROVE  \E j \in 1 .. L + 1 : new[j].post = t.post
    BY <1>4 DEF Found
  <2>1. CASE t \in c.seen
    <3>1. PICK j \in 1 .. L : cs[j].post = t.post
      BY <1>1, <2>1 DEF Found, L
    <3>2. j \in 1 .. L + 1
      BY <1>3
    <3>. QED BY <1>4, <3>1, <3>2
  <2>2. CASE t = s
    <3>1. L + 1 \in 1 .. L + 1
      BY <1>3
    <3>. QED BY <1>4, <2>2, <3>1
  <2>. QED BY <2>1, <2>2
<1>9. /\ d.taken >= taken /\ IsFiniteSet(d.seen)
      /\ \A t \in d.seen : t.source <= source
  BY SeeingTypes
<1>10. Apart(d.candidates) /\ Best(d.candidates, d.seen) /\ Found(d.candidates, d.seen)
  BY <1>6, <1>7, <1>8 DEF s, cs, new
<1>. QED BY <1>9, <1>10 DEF Sound

(* A post that no longer fits.                                             *)
LEMMA TooLarge ==
  ASSUME TypeInv, source <= Sources, NEW c \in Sound, NEW p \in Posts, Counts(p), ~c.full,
         \A i \in 1 .. Len(c.candidates) : c.candidates[i].post # p,
         NEW d \in Results, d.candidates = c.candidates, d.full = TRUE,
         d.taken = c.taken + 1, d.seen = c.seen \cup {SightOf(c, p)}
  PROVE  d \in Sound
<1>. DEFINE s == SightOf(c, p)
            cs == c.candidates
<1>1. Apart(cs) /\ Best(cs, c.seen)
  BY DEF Sound
<1>2. s.post = p
  BY DEF SightOf
<1>. HIDE DEF s
<1>3. Best(cs, c.seen \cup {s})
  BY <1>1, <1>2 DEF Best
<1>4. /\ d.taken >= taken /\ IsFiniteSet(d.seen)
      /\ \A t \in d.seen : t.source <= source
  BY SeeingTypes
<1>5. Apart(d.candidates) /\ Best(d.candidates, d.seen)
  BY <1>1, <1>3 DEF s
<1>. QED BY <1>4, <1>5 DEF Sound

LEMMA InspectIsSound ==
  ASSUME TypeInv, source <= Sources, NEW c \in Sound, NEW p \in Posts
  PROVE  Inspect(c, p) \in Sound
<1>. DEFINE s == SightOf(c, p)
            next == Seeing(c, p)
            cs == c.candidates
            places == {i \in DOMAIN cs : cs[i].post = p}
            d == Inspect(c, p)
<1>1. c \in Results /\ DOMAIN cs = 1 .. Len(cs) /\ cs \in Seq(Sightings)
  BY LenProperties DEF Sound, Results
<1>2. /\ s \in Sightings /\ next \in Results
      /\ next.candidates = cs /\ next.full = c.full
      /\ next.unknown = c.unknown /\ next.bytes = c.bytes
      /\ next.taken = c.taken + 1 /\ next.seen = c.seen \cup {s}
  BY SeeingTypes
<1>3. d = CASE c.full -> c
            [] ~c.full /\ ~IncludeNsfw /\ p \in Over18 -> next
            [] ~c.full /\ (IncludeNsfw \/ p \notin Over18) /\ Verdict[p] # "true" ->
                 [next EXCEPT !.unknown = @ + (IF Verdict[p] = "unknown" THEN 1 ELSE 0)]
            [] ~c.full /\ Counts(p) /\ places # {} ->
                 [next EXCEPT !.candidates = Better(@, CHOOSE i \in places : TRUE, c.taken + 1)]
            [] ~c.full /\ Counts(p) /\ places = {} ->
                 IF Overflows(c.bytes, p) THEN [next EXCEPT !.full = TRUE]
                   ELSE [next EXCEPT !.bytes = @ + Bytes[p],
                                     !.candidates = Append(@, s)]
  BY Zenon DEF Inspect, Seeing, SightOf
<1>. HIDE DEF d, next, s
<1>4. CASE c.full
  <2>1. d = c
    BY <1>3, <1>4
  <2>. QED BY <2>1 DEF d
<1>5. CASE ~c.full /\ ~IncludeNsfw /\ p \in Over18
  <2>1. d = next /\ ~Counts(p)
    BY <1>3, <1>5 DEF Counts
  <2>. QED BY <1>2, <2>1, PassedOver DEF d, s
<1>6. CASE ~c.full /\ (IncludeNsfw \/ p \notin Over18) /\ Verdict[p] # "true"
  <2>. DEFINE e == [next EXCEPT !.unknown = @ + (IF Verdict[p] = "unknown" THEN 1 ELSE 0)]
  <2>1. d = e /\ ~Counts(p)
    BY <1>3, <1>6 DEF Counts
  <2>2. /\ e \in Results /\ e.candidates = cs /\ e.full = c.full
        /\ e.taken = c.taken + 1 /\ e.seen = c.seen \cup {s}
    BY <1>2 DEF Results
  <2>. HIDE DEF e
  <2>. QED BY <2>1, <2>2, PassedOver DEF d, s
<1>7. CASE ~c.full /\ Counts(p) /\ places # {}
  <2>. DEFINE i == CHOOSE i \in places : TRUE
              e == [next EXCEPT !.candidates = Better(@, i, c.taken + 1)]
  <2>1. d = e
    BY <1>3, <1>7 DEF Counts
  <2>2. i \in 1 .. Len(cs) /\ cs[i].post = p
    BY <1>1, <1>7
  <2>. HIDE DEF i
  <2>3. Better(cs, i, c.taken + 1) \in Seq(Sightings)
    <3>. DEFINE x == [cs[i] EXCEPT !.source = source, !.rank = c.taken + 1]
    <3>1. x \in Sightings
      <4>1. cs[i] \in Sightings /\ source \in 1 .. Sources /\ c.taken + 1 \in Nat \ {0}
        BY <1>1, <2>2, ElementOfSeq DEF TypeInv, Results
      <4>. QED BY <4>1 DEF Sightings
    <3>2. [cs EXCEPT ![i] = x] \in Seq(Sightings)
      BY <1>1, <2>2, <3>1, ExceptSeq
    <3>3. [cs EXCEPT ![i] = x] = [cs EXCEPT ![i].source = source, ![i].rank = c.taken + 1]
      BY <1>1, <2>2
    <3>. QED BY <1>1, <3>2, <3>3 DEF Better
  <2>4. /\ e \in Results /\ e.candidates = Better(cs, i, c.taken + 1) /\ e.full = c.full
        /\ e.taken = c.taken + 1 /\ e.seen = c.seen \cup {s}
    BY <1>2, <2>3 DEF Results
  <2>. HIDE DEF e
  <2>. QED BY <1>7, <2>1, <2>2, <2>4, SeenAgain DEF d, s
<1>8. CASE ~c.full /\ Counts(p) /\ places = {} /\ Overflows(c.bytes, p)
  <2>. DEFINE e == [next EXCEPT !.full = TRUE]
  <2>1. d = e
    BY <1>3, <1>8 DEF Counts
  <2>2. /\ e \in Results /\ e.candidates = cs /\ e.full = TRUE
        /\ e.taken = c.taken + 1 /\ e.seen = c.seen \cup {s}
    BY <1>2 DEF Results
  <2>3. \A j \in 1 .. Len(cs) : cs[j].post # p
    BY <1>1, <1>8
  <2>. HIDE DEF e
  <2>. QED BY <1>8, <2>1, <2>2, <2>3, TooLarge DEF d, s
<1>9. CASE ~c.full /\ Counts(p) /\ places = {} /\ ~Overflows(c.bytes, p)
  <2>. DEFINE e == [next EXCEPT !.bytes = @ + Bytes[p], !.candidates = Append(@, s)]
  <2>1. d = e
    BY <1>3, <1>9 DEF Counts
  <2>2. Append(cs, s) \in Seq(Sightings)
    BY <1>1, <1>2, AppendProperties
  <2>3. c.bytes + Bytes[p] \in Nat
    BY <1>1, FeedCollectAssumption DEF Results
  <2>4. /\ e \in Results /\ e.candidates = Append(cs, s) /\ e.full = c.full
        /\ e.taken = c.taken + 1 /\ e.seen = c.seen \cup {s}
    BY <1>2, <2>2, <2>3 DEF Results
  <2>5. \A j \in 1 .. Len(cs) : cs[j].post # p
    BY <1>1, <1>9
  <2>. HIDE DEF e
  <2>. QED BY <1>9, <2>1, <2>4, <2>5, Collected DEF d, s
<1>. QED BY <1>4, <1>5, <1>6, <1>7, <1>8, <1>9 DEF Counts, d

Begin ==
  [candidates |-> candidates, taken |-> taken, unknown |-> unknown,
   bytes |-> bytes, full |-> FALSE, seen |-> seen]

LEMMA InspectedIsSound ==
  ASSUME TypeInv, source <= Sources, Begin \in Sound, NEW posts \in Seq(Posts)
  PROVE  Inspected(posts) \in Sound
<1>. DEFINE L == Len(posts)
            Passes(f) == f = [n \in 0 .. L |-> IF n = 0 THEN Begin ELSE Inspect(f[n - 1], posts[n])]
            passed == CHOOSE f : Passes(f)
            W == [x \in Sound \X (1 .. L) |-> Inspect(x[1], posts[x[2]])]
<1>1. L \in Nat /\ \A n \in 1 .. L : posts[n] \in Posts
  BY LenProperties, ElementOfSeq
<1>2. ASSUME NEW c \in Sound, NEW n \in 1 .. L
      PROVE  W[<<c, n>>] = Inspect(c, posts[n]) /\ Inspect(c, posts[n]) \in Sound
  BY <1>1, InspectIsSound
<1>3. \E f \in [0 .. L -> Sound] : Steps(f, W, Begin, L)
  <2>. HIDE DEF W, L
  <2>. QED BY <1>1, <1>2, StepsExist
<1>4. PICK f \in [0 .. L -> Sound] : Steps(f, W, Begin, L)
  BY <1>3
<1>5. Passes(f)
  <2>1. f = [n \in 0 .. L |-> IF n = 0 THEN Begin ELSE W[<<f[n - 1], n>>]]
    BY <1>4 DEF Steps
  <2>2. ASSUME NEW n \in 0 .. L, n # 0
        PROVE  W[<<f[n - 1], n>>] = Inspect(f[n - 1], posts[n])
    <3>1. n - 1 \in 0 .. L /\ n \in 1 .. L
      BY <1>1, <2>2
    <3>2. f[n - 1] \in Sound
      BY <1>4, <3>1
    <3>. QED BY <1>2, <3>1, <3>2
  <2>. HIDE DEF W
  <2>. QED BY <2>1, <2>2
<1>6. Passes(passed)
  <2>. HIDE DEF Passes
  <2>. QED BY <1>5, Zenon
<1>7. Inspected(posts) = passed[L]
  BY Zenon DEF Inspected, Begin
<1>. HIDE DEF passed, W
<1>8. \A n \in 0 .. L : passed[n] = IF n = 0 THEN Begin ELSE Inspect(passed[n - 1], posts[n])
  BY <1>6
<1>. DEFINE P == {n \in Nat : n <= L => passed[n] \in Sound}
<1>9. 0 \in P
  BY <1>1, <1>8
<1>10. ASSUME NEW n \in P PROVE n + 1 \in P
  <2>1. n \in Nat
    OBVIOUS
  <2>. SUFFICES ASSUME n + 1 <= L PROVE passed[n + 1] \in Sound
    OBVIOUS
  <2>2. n + 1 \in 1 .. L /\ n + 1 \in 0 .. L /\ n + 1 # 0 /\ (n + 1) - 1 = n /\ n <= L
    BY <1>1, <2>1
  <2>3. passed[n + 1] = Inspect(passed[n], posts[n + 1])
    BY <1>8, <2>2
  <2>4. passed[n] \in Sound /\ posts[n + 1] \in Posts
    BY <1>1, <2>2
  <2>. QED BY <2>3, <2>4, InspectIsSound
<1>11. P = Nat
  <2>1. P \in SUBSET Nat
    OBVIOUS
  <2>. HIDE DEF P
  <2>. QED BY <1>9, <1>10, <2>1, SetOfNaturals
<1>12. L \in P
  BY <1>1, <1>11
<1>. QED BY <1>7, <1>12

LEMMA BeginIsSound ==
  ASSUME TypeInv, CandidatesInv, Found(candidates, seen)
  PROVE  Begin \in Sound
BY DEF Begin, Sound, Results, TypeInv, CandidatesInv
-----------------------------------------------------------------------------
(***************************************************************************)
(* The order of the ranking.                                               *)
(***************************************************************************)
Ahead == {p \in (DOMAIN candidates) \X (DOMAIN candidates) :
            Before(candidates[p[1]], candidates[p[2]])}

(* What is ranked are the candidates, each once, in order.                 *)
LEMMA RankedProperties ==
  ASSUME TypeInv, CandidatesInv,
         \A i \in DOMAIN candidates : RankValue[candidates[i].post] # NoValue
  PROVE  /\ Ranked \in Seq(Sightings) /\ Len(Ranked) = Len(candidates)
         /\ InOrder(Ranked) /\ Apart(Ranked) /\ Best(Ranked, seen)
         /\ Found(candidates, seen) => Found(Ranked, seen)
<1>. DEFINE cs == candidates
            K == DOMAIN cs
            R == Ahead
            N == Cardinality(K)
            at(n) == PlaceAt(R, K, n)
<1>1. /\ K = 1 .. Len(cs) /\ Len(cs) \in Nat /\ cs \in Seq(Sightings)
      /\ \A k \in K : cs[k] \in Sightings
  BY LenProperties, ElementOfSeq DEF TypeInv
<1>2. \A k \in K : /\ RankValue[cs[k].post] \in Int /\ Created[cs[k].post] \in Int
                   /\ cs[k].post \in Int
  <2>. TAKE k \in K
  <2>. DEFINE p == cs[k].post
  <2>1. p \in Posts /\ RankValue[p] # NoValue
    BY <1>1 DEF Sightings
  <2>. HIDE DEF p
  <2>2. RankValue[p] \in Int /\ Created[p] \in Int /\ p \in Int
    BY <2>1, FeedCollectAssumption
  <2>. QED BY <2>2 DEF p
<1>3. Orders(R, K)
  <2>1. \A i, j \in K : <<i, j>> \in R <=> Before(cs[i], cs[j])
    BY <1>1 DEF Ahead
  <2>2. \A i \in K : ~Before(cs[i], cs[i])
    BY <1>2 DEF Before
  <2>3. \A i, j \in K : i = j \/ Before(cs[i], cs[j]) \/ Before(cs[j], cs[i])
    <3>. SUFFICES ASSUME NEW i \in K, NEW j \in K, i # j
                  PROVE  Before(cs[i], cs[j]) \/ Before(cs[j], cs[i])
      OBVIOUS
    <3>1. cs[i].post # cs[j].post
      BY <1>1 DEF CandidatesInv, Apart
    <3>. QED BY <1>2, <3>1 DEF Before
  <2>4. \A i, j, k \in K : Before(cs[i], cs[j]) /\ Before(cs[j], cs[k]) => Before(cs[i], cs[k])
    BY <1>2 DEF Before
  <2>. HIDE DEF R, K, cs
  <2>5. \A i \in K : <<i, i>> \notin R
    BY <2>1, <2>2
  <2>6. \A i, j \in K : i = j \/ <<i, j>> \in R \/ <<j, i>> \in R
    BY <2>1, <2>3
  <2>7. \A i, j, k \in K : <<i, j>> \in R /\ <<j, k>> \in R => <<i, k>> \in R
    BY <2>1, <2>4, Zenon
  <2>. QED BY <2>5, <2>6, <2>7 DEF Orders
<1>4. IsFiniteSet(K) /\ N = Len(cs)
  <2>1. 1 \in Int /\ Len(cs) \in Int /\ Len(cs) >= 0
    BY <1>1
  <2>2. /\ IsFiniteSet(1 .. Len(cs))
        /\ Cardinality(1 .. Len(cs)) = IF 1 > Len(cs) THEN 0 ELSE Len(cs) - 1 + 1
    BY <2>1, FS_Interval
  <2>. QED BY <1>1, <2>1, <2>2
<1>5. /\ \A n \in K : at(n) \in K
      /\ \A n, m \in K : n < m => <<at(n), at(m)>> \in R
      /\ \A k \in K : \E n \in K : at(n) = k
  <2>1. /\ \A n \in 1 .. N : PlaceAt(R, K, n) \in K
        /\ \A n, m \in 1 .. N : n < m => <<PlaceAt(R, K, n), PlaceAt(R, K, m)>> \in R
        /\ \A k \in K : \E n \in 1 .. N : PlaceAt(R, K, n) = k
    <3>. HIDE DEF R, K
    <3>. QED BY <1>3, <1>4, PlacesOfOrder
  <2>2. 1 .. N = K
    BY <1>1, <1>4
  <2>. HIDE DEF R, K, N
  <2>. QED BY <2>1, <2>2
<1>6. Ranked = [n \in K |-> cs[at(n)]]
  <2>. DEFINE low(i) == Cardinality({j \in K : Before(cs[j], cs[i])})
              place(n) == CHOOSE i \in K : low(i) = n - 1
  <2>1. Ranked = [n \in K |-> cs[place(n)]]
    BY DEF Ranked, Nth
  <2>2. \A i \in K : low(i) = Cardinality(Below(R, K, i))
    <3>1. \A i \in K : {j \in K : Before(cs[j], cs[i])} = Below(R, K, i)
      BY <1>1 DEF Below, Ahead
    <3>. HIDE DEF K, R, cs
    <3>. QED BY <3>1
  <2>. HIDE DEF low
  <2>3. ASSUME NEW n \in K PROVE place(n) = at(n)
    <3>. HIDE DEF K, R, cs
    <3>1. /\ \A m \in 1 .. N : \E k \in K : Cardinality(Below(R, K, k)) = m - 1
          /\ \A i, k \in K : Cardinality(Below(R, K, i)) = Cardinality(Below(R, K, k)) => i = k
      BY <1>3, <1>4, PlacesInOrder
    <3>2. n \in 1 .. N
      BY <1>1, <1>4 DEF K
    <3>3. \E k \in K : Cardinality(Below(R, K, k)) = n - 1
      BY <3>1, <3>2
    <3>4. at(n) \in K /\ Cardinality(Below(R, K, at(n))) = n - 1
      BY <3>3, Zenon DEF PlaceAt
    <3>5. place(n) \in K /\ low(place(n)) = n - 1
      <4>1. \E k \in K : low(k) = n - 1
        BY <2>2, <3>3
      <4>. QED BY <4>1, Zenon
    <3>. HIDE DEF place, at
    <3>. QED BY <2>2, <3>1, <3>4, <3>5
  <2>. HIDE DEF K, R, cs, place, at
  <2>. QED BY <2>1, <2>3
<1>. DEFINE rs == Ranked
<1>. HIDE DEF rs, at, R
<1>7. rs \in [K -> Sightings] /\ \A n \in K : rs[n] = cs[at(n)] /\ at(n) \in K
  <2>1. rs = [n \in K |-> cs[at(n)]]
    BY <1>6 DEF rs
  <2>. HIDE DEF K
  <2>. QED BY <1>1, <1>5, <2>1
<1>8. rs \in Seq(Sightings) /\ Len(rs) = Len(cs)
  BY <1>1, <1>7, FunctionIsSeq
<1>9. \A n, m \in K : at(n) = at(m) => n = m
  <2>. SUFFICES ASSUME NEW n \in K, NEW m \in K, at(n) = at(m), n # m PROVE FALSE
    OBVIOUS
  <2>1. n < m \/ m < n
    BY <1>1
  <2>2. <<at(n), at(n)>> \in R
    BY <1>5, <2>1
  <2>. QED BY <1>3, <1>5, <2>2 DEF Orders
<1>10. InOrder(rs)
  <2>1. \A n, m \in K : n < m => Before(rs[n], rs[m])
    BY <1>1, <1>5, <1>7 DEF R, Ahead
  <2>2. \A n \in K : RankValue[rs[n].post] \in Int
    BY <1>2, <1>7
  <2>. QED BY <1>8, <2>1, <2>2 DEF InOrder
<1>11. Apart(rs)
  <2>1. Apart(cs)
    BY DEF CandidatesInv
  <2>. QED BY <1>7, <1>8, <1>9, <2>1 DEF Apart
<1>12. Best(rs, seen)
  <2>1. Best(cs, seen)
    BY DEF CandidatesInv
  <2>. QED BY <1>7, <1>8, <2>1 DEF Best
<1>13. Found(cs, seen) => Found(rs, seen)
  <2>. SUFFICES ASSUME Found(cs, seen), NEW t \in seen, Counts(t.post)
                PROVE  \E n \in K : rs[n].post = t.post
    BY <1>8 DEF Found
  <2>1. PICK k \in K : cs[k].post = t.post
    BY DEF Found
  <2>2. PICK n \in K : at(n) = k
    BY <1>5
  <2>. QED BY <1>7, <2>1, <2>2
<1>. QED BY <1>8, <1>10, <1>11, <1>12, <1>13 DEF rs
-----------------------------------------------------------------------------
(***************************************************************************)
(* The steps.                                                              *)
(***************************************************************************)
LEMMA AllowedPosts ==
  ASSUME NEW raw \in Pages
  PROVE  /\ Allowed(raw) \in Seq(Posts)
         /\ AllowNsfw /\ Allowed(raw) = << >> => raw = << >>
<1>. DEFINE K == {i \in DOMAIN raw : AllowNsfw \/ raw[i] \notin Over18}
<1>1. PICK n \in Nat : raw \in [1 .. n -> Posts]
  BY FeedCollectAssumption DEF Pages
<1>2. K \in SUBSET Nat /\ IsFiniteSet(K) /\ \A k \in K : raw[k] \in Posts
  <2>1. K \in SUBSET (1 .. n) /\ IsFiniteSet(1 .. n)
    BY <1>1, FS_Interval
  <2>. QED BY <1>1, <2>1, FS_Subset
<1>3. Allowed(raw) = Picked(raw, K)
  BY DEF Allowed
<1>4. AllowNsfw => K = 1 .. n
  BY <1>1
<1>. HIDE DEF K
<1>5. /\ Picked(raw, K) \in Seq({raw[k] : k \in K})
      /\ Len(Picked(raw, K)) = Cardinality(K)
  BY <1>2, PickedProperties
<1>6. Allowed(raw) \in Seq(Posts)
  <2>1. {raw[k] : k \in K} \subseteq Posts
    BY <1>2
  <2>. QED BY <1>3, <1>5, <2>1, SeqMonotonic
<1>7. ASSUME AllowNsfw, Allowed(raw) = << >> PROVE raw = << >>
  <2>1. Len(Allowed(raw)) = 0
    BY <1>7
  <2>2. Cardinality(K) = 0
    BY <1>3, <1>5, <2>1
  <2>3. K = {}
    BY <1>2, <2>2, FS_EmptySet
  <2>4. n = 0
    BY <1>1, <1>4, <1>7, <2>3
  <2>. QED BY <1>1, <2>4
<1>. QED BY <1>6, <1>7

LEMMA RemainingIsNatural == TypeInv => Remaining \in Nat
<1>1. Quota \in Int
  BY FeedCollectAssumption DEF Quota
<1>2. ASSUME TypeInv PROVE Remaining \in Nat
  <2>1. MaxCandidates - inspected \in Int /\ taken \in Int
    BY <1>2, FeedCollectAssumption DEF TypeInv
  <2>. QED BY <1>1, <2>1 DEF Remaining, Least, Monus
<1>. QED BY <1>2

(* What a page is inspected into.                                          *)
LEMMA PageResult ==
  ASSUME IInv, phase = "collecting", NEW raw \in Pages
  PROVE  Inspected(SubSeq(Allowed(raw), 1, Least(Len(Allowed(raw)), Remaining))) \in Sound
<1>. DEFINE posts == Allowed(raw)
            m == Least(Len(posts), Remaining)
<1>1. posts \in Seq(Posts) /\ Len(posts) \in Nat /\ Remaining \in Nat
  BY AllowedPosts, RemainingIsNatural, LenProperties DEF IInv
<1>2. m \in 0 .. Len(posts)
  BY <1>1 DEF Least
<1>. HIDE DEF posts, m
<1>3. SubSeq(posts, 1, m) \in Seq(Posts)
  <2>1. m \in Int /\ 1 \in Int /\ \A i \in 1 .. m : posts[i] \in Posts
    BY <1>1, <1>2, ElementOfSeq
  <2>. QED BY <2>1, SubSeqProperties
<1>4. Begin \in Sound /\ source <= Sources
  BY BeginIsSound DEF IInv, TypeInv, CandidatesInv
<1>. QED BY <1>3, <1>4, InspectedIsSound DEF IInv, posts, m

LEMMA InitIInv == Init => IInv
<1>. SUFFICES ASSUME Init PROVE IInv
  OBVIOUS
<1>1. TypeInv
  <2>1. << >> \in Seq(Sightings) /\ IsFiniteSet({})
    BY EmptySeq, FS_EmptySet
  <2>2. Sources \in Nat \ {0}
    BY FeedCollectAssumption
  <2>3. ending \in [1 .. Sources -> {"open", "window", "bytes", "end", "filtered", "cut"}]
    BY DEF Init
  <2>4. seen = {} /\ candidates = << >> /\ shown = << >>
    BY DEF Init
  <2>5. candidates \in Seq(Sightings) /\ shown \in Seq(Sightings)
    BY <2>1, <2>4, Zenon
  <2>7. seen \in SUBSET Sightings
    <3>1. seen = {}
      BY <2>4
    <3>. QED BY <3>1
  <2>8. IsFiniteSet(seen)
    BY <2>1, <2>4, Zenon
  <2>6. /\ phase = "collecting" /\ source \in 1 .. Sources + 1 /\ taken \in Nat
        /\ inspected \in Nat /\ unknown \in Nat /\ bytes \in Nat
        /\ bounded \in BOOLEAN /\ exhausted \in BOOLEAN
        /\ number \in Nat \ {0} /\ source <= Sources
    <3>1. /\ phase = "collecting" /\ source = 1 /\ taken = 0 /\ inspected = 0 /\ unknown = 0
          /\ bytes = 0 /\ bounded = FALSE /\ exhausted = TRUE /\ number = 1
      BY Zenon DEF Init
    <3>2. 1 \in 1 .. Sources + 1 /\ 1 <= Sources
      BY <2>2
    <3>3. source \in 1 .. Sources + 1 /\ source <= Sources
      BY <3>1, <3>2
    <3>4. taken \in Nat /\ inspected \in Nat /\ unknown \in Nat /\ bytes \in Nat
      BY <3>1
    <3>5. number \in Nat \ {0}
      BY <3>1
    <3>6. bounded \in BOOLEAN /\ exhausted \in BOOLEAN
      BY <3>1
    <3>. QED BY <3>1, <3>3, <3>4, <3>5, <3>6
  <2>. QED BY <2>3, <2>5, <2>6, <2>7, <2>8 DEF TypeInv
<1>2. CandidatesInv
  BY DEF Init, CandidatesInv, Apart, Best, Found
<1>3. PagesInv
  BY DEF Init, PagesInv
<1>. QED BY <1>1, <1>2, <1>3 DEF IInv

(* A build that fails, and a reader that has stopped, leave all as it is.  *)
LEMMA NothingIsCollected ==
  ASSUME IInv, phase' \in {phase, "failed"}, UNCHANGED <<reading, collection, number, shown, seen, ending>>
  PROVE  IInv'
<1>. USE DEF reading, collection
<1>1. TypeInv'
  BY DEF IInv, TypeInv
<1>2. CandidatesInv'
  BY DEF IInv, CandidatesInv, Apart, Best, Found, Counts, NoWorse
<1>3. PagesInv'
  BY DEF IInv, PagesInv, InOrder, Before, Start
<1>. QED BY <1>1, <1>2, <1>3 DEF IInv

LEMMA WindowEndsIInv == ASSUME IInv, WindowEnds PROVE IInv'
<1>1. /\ phase = "collecting" /\ source' = source + 1 /\ taken' = 0
      /\ phase' = IF source = Sources THEN "collected" ELSE "collecting"
      /\ bounded' = TRUE /\ exhausted' = FALSE
      /\ ending' = [ending EXCEPT ![source] = "window"]
      /\ UNCHANGED <<inspected, unknown, bytes, candidates, number, shown, seen>>
  BY DEF WindowEnds, NextSource, LeavesMore, Ends
<1>2. TypeInv /\ source \in 1 .. Sources /\ Found(candidates, seen) /\ Sources \in Nat
  BY <1>1, FeedCollectAssumption DEF IInv, TypeInv, CandidatesInv
<1>3. TypeInv'
  <2>1. /\ source' \in 1 .. Sources + 1 /\ (phase' = "collecting" => source' <= Sources)
        /\ phase' \in {"collecting", "collected"}
    BY <1>1, <1>2
  <2>2. ending' \in [1 .. Sources -> {"open", "window", "bytes", "end", "filtered", "cut"}]
    BY <1>1, <1>2 DEF TypeInv
  <2>. QED BY <1>1, <1>2, <2>1, <2>2 DEF TypeInv
<1>4. CandidatesInv'
  <2>1. /\ Apart(candidates') /\ Best(candidates', seen') /\ Found(candidates', seen')
    BY <1>1, <1>2 DEF IInv, CandidatesInv
  <2>2. \A t \in seen' : t.source <= source'
    <3>1. \A t \in seen : t.source <= source /\ t.source \in Int
      BY <1>2 DEF IInv, TypeInv, CandidatesInv, Sightings
    <3>. QED BY <1>1, <1>2, <3>1
  <2>. QED BY <2>1, <2>2 DEF CandidatesInv
<1>5. PagesInv'
  BY <1>1 DEF IInv, PagesInv
<1>. QED BY <1>3, <1>4, <1>5 DEF IInv

LEMMA PageIInv ==
  ASSUME IInv, NEW raw \in Pages, NEW cursor, Page(raw, cursor)
  PROVE  IInv'
<1>. DEFINE posts == Allowed(raw)
            result == Inspected(SubSeq(posts, 1, Least(Len(posts), Remaining)))
            full == /\ result.full
                    /\ LeavesMore
                    /\ source' = Sources + 1 /\ after' = None /\ used' = {} /\ taken' = 0
                    /\ phase' = "collected"
                    /\ Ends("bytes")
            ends == /\ ~result.full /\ (cursor = None \/ posts = << >>)
                    /\ NextSource
                    /\ Ends(LastPage(raw, cursor))
                    /\ UNCHANGED <<bounded, exhausted>>
            goes == /\ ~result.full /\ cursor # None /\ posts # << >>
                    /\ taken' = result.taken
                    /\ IF Fresh(cursor)
                         THEN after' = cursor /\ used' = used \cup {cursor} /\ UNCHANGED phase
                         ELSE phase' = "failed" /\ UNCHANGED <<after, used>>
                    /\ UNCHANGED <<source, bounded, exhausted, ending>>
<1>1. /\ phase = "collecting" /\ Remaining > 0
      /\ inspected' = inspected + (result.taken - taken)
      /\ unknown' = result.unknown /\ bytes' = result.bytes
      /\ candidates' = result.candidates /\ seen' = result.seen
      /\ UNCHANGED <<number, shown>>
      /\ full \/ ends \/ goes
  BY DEF Page
<1>2. result \in Sound
  BY <1>1, PageResult
<1>. HIDE DEF result, full, ends, goes
<1>3. /\ TypeInv /\ source \in 1 .. Sources /\ Sources \in Nat \ {0} /\ taken \in Nat
      /\ inspected \in Nat
      /\ ending \in [1 .. Sources -> {"open", "window", "bytes", "end", "filtered", "cut"}]
  BY <1>1, FeedCollectAssumption DEF IInv, TypeInv
<1>4. /\ result.candidates \in Seq(Sightings) /\ result.taken \in Nat /\ result.taken >= taken
      /\ result.unknown \in Nat /\ result.bytes \in Nat
      /\ result.seen \in SUBSET Sightings /\ IsFiniteSet(result.seen)
      /\ Apart(result.candidates) /\ Best(result.candidates, result.seen)
      /\ result.full \/ Found(result.candidates, result.seen)
      /\ \A t \in result.seen : t.source <= source /\ t.source \in Int
  BY <1>2 DEF Sound, Results, Sightings
<1>5. /\ phase' \in {"collecting", "collected", "failed"}
      /\ source' \in source .. Sources + 1 /\ taken' \in Nat
      /\ ending' \in [1 .. Sources -> {"open", "window", "bytes", "end", "filtered", "cut"}]
      /\ bounded' \in BOOLEAN /\ exhausted' \in BOOLEAN
      /\ phase' = "collecting" => source' <= Sources
      /\ phase' = "failed" => ~result.full
      /\ result.full => phase' = "collected" /\ ending'[source] = "bytes"
  <2>1. bounded \in BOOLEAN /\ exhausted \in BOOLEAN
    BY <1>3 DEF TypeInv
  <2>2. CASE full
    <3>1. /\ bounded' = TRUE /\ exhausted' = FALSE /\ source' = Sources + 1 /\ taken' = 0
          /\ phase' = "collected" /\ result.full /\ ending' = [ending EXCEPT ![source] = "bytes"]
      BY <2>2 DEF full, Ends, LeavesMore
    <3>2. /\ ending' \in [1 .. Sources -> {"open", "window", "bytes", "end", "filtered", "cut"}]
          /\ ending'[source] = "bytes"
      BY <1>3, <3>1
    <3>3. source' \in source .. Sources + 1
      BY <1>3, <3>1
    <3>. QED BY <3>1, <3>2, <3>3
  <2>3. CASE ends
    BY <1>3, <2>1, <2>3 DEF ends, Ends, LastPage, NextSource
  <2>4. CASE goes
    BY <1>1, <1>3, <1>4, <2>1, <2>4 DEF goes
  <2>. QED BY <1>1, <2>2, <2>3, <2>4
<1>6. TypeInv'
  <2>1. inspected' \in Nat
    BY <1>1, <1>3, <1>4
  <2>2. source' \in 1 .. Sources + 1
    BY <1>3, <1>5
  <2>3. number' \in Nat \ {0} /\ shown' \in Seq(Sightings)
    BY <1>1, <1>3 DEF TypeInv
  <2>. QED BY <1>1, <1>4, <1>5, <2>1, <2>2, <2>3 DEF TypeInv
<1>7. CandidatesInv'
  <2>1. Apart(candidates') /\ Best(candidates', seen')
    BY <1>1, <1>4
  <2>2. \A t \in seen' : t.source <= source'
    BY <1>1, <1>3, <1>4, <1>5
  <2>3. (\E s \in 1 .. Sources : ending'[s] = "bytes") \/ Found(candidates', seen')
    BY <1>1, <1>3, <1>4, <1>5
  <2>4. phase' = "collecting" => Found(candidates', seen')
    BY <1>1, <1>4, <1>5
  <2>. QED BY <2>1, <2>2, <2>3, <2>4 DEF CandidatesInv
<1>8. PagesInv'
  <2>1. number' = 1 /\ shown' = << >>
    BY <1>1 DEF IInv, PagesInv
  <2>. QED BY <1>5, <2>1 DEF PagesInv
<1>. QED BY <1>6, <1>7, <1>8 DEF IInv

LEMMA RankIInv == ASSUME IInv, Rank PROVE IInv'
<1>. USE DEF reading
<1>1. CASE \E i \in DOMAIN candidates : RankValue[candidates[i].post] = NoValue
  <2>1. phase' = "failed" /\ UNCHANGED <<reading, collection, number, shown, seen, ending>>
    BY <1>1 DEF Rank, collection
  <2>. QED BY <2>1, NothingIsCollected
<1>2. CASE \A i \in DOMAIN candidates : RankValue[candidates[i].post] # NoValue
  <2>1. /\ phase = "collected" /\ phase' = "paging" /\ candidates' = Ranked
        /\ UNCHANGED <<source, after, used, taken, inspected, unknown, bytes, bounded, exhausted>>
        /\ UNCHANGED <<number, shown, seen, ending>>
    BY <1>2 DEF Rank
  <2>2. /\ Ranked \in Seq(Sightings) /\ Len(Ranked) = Len(candidates)
        /\ InOrder(Ranked) /\ Apart(Ranked) /\ Best(Ranked, seen)
        /\ Found(candidates, seen) => Found(Ranked, seen)
    BY <1>2, RankedProperties DEF IInv
  <2>3. TypeInv'
    BY <2>1, <2>2 DEF IInv, TypeInv
  <2>4. CandidatesInv'
    <3>1. /\ Apart(candidates') /\ Best(candidates', seen')
          /\ Found(candidates, seen) => Found(candidates', seen')
      BY <2>1, <2>2
    <3>. QED BY <2>1, <3>1 DEF IInv, CandidatesInv
  <2>5. PagesInv'
    <3>1. number = 1 /\ shown = << >>
      BY <2>1 DEF IInv, PagesInv
    <3>2. Start(1) = 0
      BY FeedCollectAssumption DEF Start
    <3>3. Len(candidates') \in Nat
      BY <2>1, <2>2, LenProperties
    <3>4. SubSeq(candidates', 1, 0) = << >>
      BY SubSeqEmpty
    <3>5. InOrder(candidates')
      BY <2>1, <2>2
    <3>. QED BY <2>1, <3>1, <3>2, <3>3, <3>4, <3>5 DEF PagesInv, Start
  <2>. QED BY <2>3, <2>4, <2>5 DEF IInv
<1>. QED BY <1>1, <1>2

LEMMA TurnPageIInv == ASSUME IInv, TurnPage PROVE IInv'
<1>. DEFINE cs == candidates
            total == Len(cs)
            a == Start(number)
            b == Least(a + Limit, total)
<1>1. /\ phase = "paging"
      /\ shown' = shown \o SubSeq(cs, a + 1, b)
      /\ IF a + Limit < total
           THEN number' = number + 1 /\ phase' = phase
           ELSE phase' = "last" /\ number' = number
      /\ UNCHANGED <<source, after, used, taken, inspected, unknown, bytes, cs, bounded, exhausted>>
      /\ UNCHANGED <<seen, ending>>
  BY DEF TurnPage, reading, collection
<1>2. /\ cs \in Seq(Sightings) /\ total \in Nat /\ number \in Nat \ {0} /\ Limit \in Nat \ {0}
      /\ a <= total /\ shown = SubSeq(cs, 1, a) /\ InOrder(cs)
  BY <1>1, LenProperties, FeedCollectAssumption DEF IInv, TypeInv, PagesInv
<1>3. a \in Nat /\ Start(number + 1) = a + Limit
  <2>1. number - 1 \in Nat /\ number = (number - 1) + 1
    BY <1>2
  <2>2. \A n, k \in Nat : n * k \in Nat /\ (n + 1) * k = n * k + k
    OBVIOUS
  <2>3. (number - 1) * Limit \in Nat /\ number * Limit = (number - 1) * Limit + Limit
    BY <1>2, <2>1, <2>2
  <2>4. (number + 1) - 1 = number
    BY <1>2
  <2>. QED BY <2>3, <2>4 DEF Start
<1>4. b \in Nat /\ a <= b /\ b <= total
  BY <1>2, <1>3 DEF Least
<1>5. shown' = SubSeq(cs, 1, b)
  <2>1. SubSeq(cs, 1, a) \o SubSeq(cs, a + 1, b) = SubSeq(cs, 1, b)
    <3>. HIDE DEF cs, total, a, b
    <3>1. 1 \in 1 .. Len(cs) + 1 /\ a \in 1 - 1 .. Len(cs) /\ b \in a .. Len(cs)
      BY <1>2, <1>3, <1>4 DEF total
    <3>. QED BY <1>2, <3>1, ConcatAdjacentSubSeq
  <2>. QED BY <1>1, <1>2, <2>1
<1>. HIDE DEF a, b
<1>6. TypeInv'
  <2>1. shown' \in Seq(Sightings)
    <3>1. b \in Int /\ 1 \in Int /\ \A i \in 1 .. b : cs[i] \in Sightings
      BY <1>2, <1>4, ElementOfSeq
    <3>. HIDE DEF cs
    <3>. QED BY <1>5, <3>1, SubSeqProperties
  <2>2. number' \in Nat \ {0} /\ phase' \in {"paging", "last"}
    BY <1>1, <1>2
  <2>. QED BY <1>1, <2>1, <2>2 DEF IInv, TypeInv
<1>7. CandidatesInv'
  BY <1>1 DEF IInv, CandidatesInv
<1>8. PagesInv'
  <2>1. CASE a + Limit < total
    <3>1. b = a + Limit /\ Start(number') = b /\ phase' = "paging"
      BY <1>1, <1>2, <1>3, <2>1 DEF b, Least, Start
    <3>2. Start(number)' = b
      BY <3>1 DEF Start
    <3>. QED BY <1>1, <1>2, <1>4, <1>5, <3>1, <3>2 DEF PagesInv
  <2>2. CASE ~(a + Limit < total)
    <3>1. b = total /\ phase' = "last"
      BY <1>1, <1>2, <1>3, <2>2 DEF b, Least
    <3>2. shown' = cs
      BY <1>2, <1>5, <3>1, SubSeqFull
    <3>. QED BY <1>1, <1>2, <3>1, <3>2 DEF PagesInv
  <2>. QED BY <2>1, <2>2
<1>. QED BY <1>6, <1>7, <1>8 DEF IInv

LEMMA NextIInv == IInv /\ [Next]_vars => IInv'
<1>. SUFFICES ASSUME IInv, [Next]_vars PROVE IInv'
  OBVIOUS
<1>1. CASE WindowEnds
  BY <1>1, WindowEndsIInv
<1>2. CASE SourceFails
  BY <1>2, NothingIsCollected DEF SourceFails
<1>3. CASE Rank
  BY <1>3, RankIInv
<1>4. CASE TurnPage
  BY <1>4, TurnPageIInv
<1>5. CASE Stopped \/ UNCHANGED vars
  BY <1>5, NothingIsCollected DEF Stopped, vars
<1>6. ASSUME NEW raw \in Pages, TooManyPosts(raw) PROVE IInv'
  BY <1>6, NothingIsCollected DEF TooManyPosts
<1>7. ASSUME NEW raw \in Pages, NEW cursor \in Cursors \cup {None}, Page(raw, cursor) PROVE IInv'
  BY <1>7, PageIInv
<1>. QED BY <1>1, <1>2, <1>3, <1>4, <1>5, <1>6, <1>7 DEF Next

LEMMA Invariance == Spec => []IInv
<1>. QED BY InitIInv, NextIInv, PTL DEF Spec

(* What a build keeps is of its type: what it inspects, collects and shows *)
(* are posts of its sources (collect).                                     *)
THEOREM TypeCorrect == Spec => []TypeInv
<1>1. IInv => TypeInv
  BY DEF IInv
<1>. QED BY <1>1, Invariance, PTL
-----------------------------------------------------------------------------
(***************************************************************************)
(* Each post once, at its best.                                            *)
(***************************************************************************)
(* Two sights of a post, neither worse than the other, are one.            *)
LEMMA BestIsOne ==
  ASSUME NEW s \in Sightings, NEW t \in Sightings, s.post = t.post, NoWorse(s, t), NoWorse(t, s)
  PROVE  s = t
<1>1. s.rank \in Nat /\ t.rank \in Nat /\ s.source \in Int /\ t.source \in Int
  BY DEF Sightings
<1>2. s.rank = t.rank /\ s.source = t.source
  BY <1>1 DEF NoWorse
<1>. QED BY <1>2 DEF Sightings

LEMMA BestsAreCandidates ==
  ASSUME TypeInv, CandidatesInv, NEW i \in 1 .. Len(candidates)
  PROVE  candidates[i] = BestRank(candidates[i].post)
<1>. DEFINE c == candidates[i]
            IsBest(s) == s.post = c.post /\ \A t \in seen : t.post = c.post => NoWorse(s, t)
            b == CHOOSE s \in seen : IsBest(s)
<1>1. c \in seen /\ IsBest(c)
  BY DEF CandidatesInv, Best
<1>2. BestRank(c.post) = b
  BY DEF BestRank, NoWorse
<1>. HIDE DEF c
<1>3. b \in seen /\ IsBest(b)
  <2>. HIDE DEF IsBest
  <2>. QED BY <1>1, Zenon
<1>. HIDE DEF b
<1>4. c \in Sightings /\ b \in Sightings
  BY <1>1, <1>3 DEF TypeInv
<1>5. NoWorse(c, b) /\ NoWorse(b, c)
  BY <1>1, <1>3
<1>6. c = b
  BY <1>3, <1>4, <1>5, BestIsOne
<1>. QED BY <1>2, <1>6 DEF c

(* As many as they are different.                                          *)
LEMMA AsMany ==
  ASSUME TypeInv, CandidatesInv
  PROVE  LET matched == {p \in Posts : Counts(p) /\ \E s \in seen : s.post = p}
             found == {candidates[i] : i \in DOMAIN candidates}
         IN /\ found \subseteq {BestRank(p) : p \in matched}
            /\ Cardinality(found) = Len(candidates)
            /\ Found(candidates, seen) => Cardinality(found) = Cardinality(matched)
<1>. DEFINE L == Len(candidates)
            K == 1 .. L
            matched == {p \in Posts : Counts(p) /\ \E s \in seen : s.post = p}
            found == {candidates[i] : i \in DOMAIN candidates}
            f == [i \in K |-> candidates[i]]
            g == [i \in K |-> candidates[i].post]
<1>1. DOMAIN candidates = K /\ L \in Nat /\ \A i \in K : candidates[i] \in Sightings
  BY LenProperties, ElementOfSeq DEF TypeInv
<1>2. Apart(candidates) /\ Best(candidates, seen)
  BY DEF CandidatesInv
<1>3. IsFiniteSet(K) /\ Cardinality(K) = L
  <2>1. 1 \in Int /\ L \in Int /\ L >= 0
    BY <1>1
  <2>2. IsFiniteSet(K) /\ Cardinality(K) = IF 1 > L THEN 0 ELSE L - 1 + 1
    <3>. HIDE DEF L
    <3>. QED BY <2>1, FS_Interval
  <2>. QED BY <2>1, <2>2
<1>4. \A i \in K : candidates[i].post \in matched
  <2>. TAKE i \in K
  <2>1. candidates[i] \in seen /\ Counts(candidates[i].post) /\ candidates[i].post \in Posts
    BY <1>1, <1>2 DEF Best, Sightings
  <2>. QED BY <2>1
<1>5. found \subseteq {BestRank(p) : p \in matched}
  <2>. SUFFICES ASSUME NEW i \in K PROVE candidates[i] \in {BestRank(p) : p \in matched}
    BY <1>1
  <2>1. candidates[i] = BestRank(candidates[i].post)
    BY BestsAreCandidates
  <2>. HIDE DEF matched
  <2>. QED BY <1>4, <2>1
<1>6. f \in Bijection(K, found)
  <2>1. f \in [K -> found] /\ \A x \in found : \E i \in K : f[i] = x
    BY <1>1
  <2>2. \A i, j \in K : f[i] = f[j] => i = j
    BY <1>2 DEF Apart
  <2>. HIDE DEF f, K, found
  <2>. QED BY <2>1, <2>2 DEF Bijection, Injection, IsInjective, Surjection
<1>7. Cardinality(found) = L
  <2>. HIDE DEF f, K, found, L
  <2>1. ExistsBijection(K, found)
    BY <1>6 DEF ExistsBijection
  <2>. QED BY <1>3, <2>1, FS_Bijection
<1>8. ASSUME Found(candidates, seen) PROVE Cardinality(found) = Cardinality(matched)
  <2>1. \A p \in matched : \E i \in K : candidates[i].post = p
    BY <1>8 DEF Found
  <2>2. g \in [K -> matched] /\ \A p \in matched : \E i \in K : g[i] = p
    <3>. HIDE DEF matched
    <3>. QED BY <1>4, <2>1
  <2>3. \A i, j \in K : g[i] = g[j] => i = j
    BY <1>2 DEF Apart
  <2>. HIDE DEF g, K, matched, found, L
  <2>4. g \in Bijection(K, matched)
    BY <2>2, <2>3 DEF Bijection, Injection, IsInjective, Surjection
  <2>5. ExistsBijection(K, matched)
    BY <2>4 DEF ExistsBijection
  <2>6. Cardinality(matched) = Cardinality(K)
    BY <1>3, <2>5, FS_Bijection
  <2>. QED BY <1>3, <1>7, <2>6
<1>. HIDE DEF matched, found
<1>9. /\ found \subseteq {BestRank(p) : p \in matched}
      /\ Cardinality(found) = Len(candidates)
      /\ Found(candidates, seen) => Cardinality(found) = Cardinality(matched)
  BY <1>5, <1>7, <1>8
<1>. QED BY <1>9 DEF matched, found

(* However often sources and pages repeat a post that counts, it is        *)
(* collected once, at its best rank and from the first source that gave it *)
(* that rank, unless the byte budget ended the build before it was seen    *)
(* (collect, the positions of the names).                                  *)
THEOREM EachOnceAtItsBest == Spec => []CandidatesAreBest
<1>1. ASSUME TypeInv, CandidatesInv PROVE CandidatesAreBest
  BY <1>1, AsMany DEF CandidatesAreBest, CandidatesInv
<1>2. IInv => CandidatesAreBest
  BY <1>1 DEF IInv
<1>. QED BY <1>2, Invariance, PTL
-----------------------------------------------------------------------------
(***************************************************************************)
(* The pages.                                                              *)
(***************************************************************************)
(* A reader who turns all pages saw every candidate once, in the one order *)
(* that value, time and name define, however many fit on a page            *)
(* (build_feed, slice_page).                                               *)
THEOREM PagesAreTheRanking == Spec => []PagesShowTheRanking
<1>1. ASSUME IInv, phase = "last"
      PROVE  /\ shown = candidates
             /\ \A i, j \in DOMAIN shown : i < j =>
                  LET a == shown[i].post  b == shown[j].post
                  IN /\ RankValue[a] >= RankValue[b]
                     /\ RankValue[a] = RankValue[b] => Created[a] >= Created[b]
                     /\ RankValue[a] = RankValue[b] /\ Created[a] = Created[b] => a < b
  <2>1. shown = candidates /\ InOrder(candidates) /\ DOMAIN candidates = 1 .. Len(candidates)
    BY <1>1, LenProperties DEF IInv, TypeInv, PagesInv
  <2>2. ASSUME NEW i \in 1 .. Len(candidates), NEW j \in 1 .. Len(candidates), i < j
        PROVE  LET a == candidates[i].post  b == candidates[j].post
               IN /\ RankValue[a] >= RankValue[b]
                  /\ RankValue[a] = RankValue[b] => Created[a] >= Created[b]
                  /\ RankValue[a] = RankValue[b] /\ Created[a] = Created[b] => a < b
    <3>. DEFINE a == candidates[i].post
                b == candidates[j].post
    <3>1. Before(candidates[i], candidates[j]) /\ RankValue[a] \in Int /\ RankValue[b] \in Int
      BY <2>1, <2>2 DEF InOrder
    <3>2. a \in Posts /\ b \in Posts
      <4>1. candidates[i] \in Sightings /\ candidates[j] \in Sightings
        BY <1>1, ElementOfSeq DEF IInv, TypeInv
      <4>. QED BY <4>1 DEF Sightings
    <3>3. \/ RankValue[a] > RankValue[b]
          \/ /\ RankValue[a] = RankValue[b]
             /\ Created[a] > Created[b] \/ (Created[a] = Created[b] /\ a < b)
      BY <3>1 DEF Before
    <3>. HIDE DEF a, b
    <3>4. Created[a] \in Int /\ Created[b] \in Int
      BY <3>2, FeedCollectAssumption
    <3>5. /\ RankValue[a] >= RankValue[b]
          /\ RankValue[a] = RankValue[b] => Created[a] >= Created[b]
          /\ RankValue[a] = RankValue[b] /\ Created[a] = Created[b] => a < b
      BY <3>1, <3>3, <3>4
    <3>. QED BY <3>5 DEF a, b
  <2>. QED BY <2>1, <2>2
<1>2. IInv => PagesShowTheRanking
  BY <1>1 DEF PagesShowTheRanking
<1>. QED BY <1>2, Invariance, PTL
-----------------------------------------------------------------------------
(***************************************************************************)
(* What counts as exhausted.                                               *)
(***************************************************************************)
LEMMA SourcesStay ==
  ASSUME IInv, SourcesInv, [Next]_vars
  PROVE  SourcesInv'
<1>0. /\ Sources \in Nat \ {0} /\ source \in 1 .. Sources + 1
      /\ phase = "collecting" => source \in 1 .. Sources
      /\ DOMAIN ending = 1 .. Sources
  BY FeedCollectAssumption DEF IInv, TypeInv
<1>1. ASSUME phase = "collecting", exhausted' = FALSE,
             NEW how \in {"window", "bytes"}, Ends(how),
             \/ source' = source + 1 /\ phase' = IF source = Sources THEN "collected" ELSE "collecting"
             \/ source' = Sources + 1 /\ phase' = "collected"
      PROVE  SourcesInv'
  <2>1. source \in 1 .. Sources /\ source < source' /\ ending'[source] = how
    BY <1>0, <1>1 DEF Ends
  <2>2. \E s \in 1 .. Sources : ~RanOut(s)' /\ s < source'
    <3>1. source \in 1 .. Sources /\ ending'[source] \notin {"end", "filtered", "cut"} /\ source < source'
      BY <2>1
    <3> QED BY <3>1 DEF RanOut
  <2>3. phase' \in {"collected", "paging", "last"} => source' = Sources + 1
    BY <1>1, <2>1
  <2> QED BY <1>1, <2>2, <2>3 DEF SourcesInv
<1>2. ASSUME phase' \in {phase, "failed"}, UNCHANGED <<source, exhausted, ending>> PROVE SourcesInv'
  BY <1>2 DEF SourcesInv, RanOut
<1>3. CASE Rank
  <2>1. phase = "collected" /\ phase' \in {"paging", "failed"}
        /\ UNCHANGED <<source, exhausted, ending>>
    BY <1>3 DEF Rank, reading
  <2>. QED BY <2>1 DEF SourcesInv, RanOut
<1>4. CASE TurnPage
  <2>1. phase = "paging" /\ phase' \in {"paging", "last"}
        /\ UNCHANGED <<source, exhausted, ending>>
    BY <1>4 DEF TurnPage, reading, collection
  <2>. QED BY <2>1 DEF SourcesInv, RanOut
<1>5. ASSUME NEW raw \in Pages, NEW cursor, Page(raw, cursor) PROVE SourcesInv'
  <2>1. phase = "collecting" /\ source \in 1 .. Sources
    BY <1>0, <1>5 DEF Page
  <2>2. \/ exhausted' = FALSE /\ source' = Sources + 1 /\ phase' = "collected" /\ Ends("bytes")
        \/ /\ source' = source + 1
           /\ phase' = IF source = Sources THEN "collected" ELSE "collecting"
           /\ Ends(LastPage(raw, cursor))
           /\ exhausted' = exhausted
        \/ phase' \in {phase, "failed"} /\ UNCHANGED <<source, exhausted, ending>>
    BY <1>5 DEF Page, LeavesMore, NextSource
  <2>3. CASE exhausted' = FALSE /\ source' = Sources + 1 /\ phase' = "collected" /\ Ends("bytes")
    BY <1>1, <2>1, <2>3
  <2>4. CASE /\ source' = source + 1
             /\ phase' = IF source = Sources THEN "collected" ELSE "collecting"
             /\ Ends(LastPage(raw, cursor))
             /\ exhausted' = exhausted
    <3>1. /\ ending' = [ending EXCEPT ![source] = LastPage(raw, cursor)]
          /\ LastPage(raw, cursor) \in {"end", "filtered", "cut"}
      BY <2>4 DEF Ends, LastPage
    <3>. DEFINE how == LastPage(raw, cursor)
    <3>. HIDE DEF how
    <3>2. ending'[source] = how /\ \A s \in 1 .. Sources : s < source => ending'[s] = ending[s]
      BY <1>0, <2>1, <3>1 DEF how
    <3>3. exhausted' => \A s \in 1 .. Sources : s < source' => RanOut(s)'
      <4>. SUFFICES ASSUME exhausted, NEW s \in 1 .. Sources, s < source + 1
                    PROVE  ending'[s] \in {"end", "filtered", "cut"}
        BY <2>4 DEF RanOut
      <4>1. CASE s = source
        BY <3>1, <3>2, <4>1 DEF how
      <4>2. CASE s < source
        BY <3>2, <4>2 DEF SourcesInv, RanOut
      <4>. QED BY <1>0, <4>1, <4>2
    <3>4. ~exhausted' => \E s \in 1 .. Sources : ~RanOut(s)' /\ s < source'
      <4>. SUFFICES ASSUME ~exhausted PROVE \E s \in 1 .. Sources : ~RanOut(s)' /\ s < source + 1
        BY <2>4
      <4>1. PICK s \in 1 .. Sources : ~RanOut(s) /\ s < source
        BY DEF SourcesInv
      <4>2. ending'[s] \notin {"end", "filtered", "cut"} /\ s < source + 1
        BY <1>0, <3>2, <4>1 DEF RanOut
      <4>. QED BY <4>2 DEF RanOut
    <3>5. phase' \in {"collected", "paging", "last"} => source' = Sources + 1
      BY <2>4
    <3>. QED BY <3>3, <3>4, <3>5 DEF SourcesInv
  <2>. QED BY <1>2, <2>2, <2>3, <2>4
<1>6. CASE SourceFails \/ Stopped \/ UNCHANGED vars \/ \E raw \in Pages : TooManyPosts(raw)
  BY <1>2, <1>6 DEF SourceFails, Stopped, TooManyPosts, vars, reading, collection
<1>7. CASE WindowEnds
  <2>1. /\ phase = "collecting" /\ exhausted' = FALSE /\ Ends("window") /\ source' = source + 1
        /\ phase' = IF source = Sources THEN "collected" ELSE "collecting"
    BY <1>7 DEF WindowEnds, LeavesMore, NextSource
  <2>. QED BY <1>1, <2>1
<1>. QED BY <1>3, <1>4, <1>5, <1>6, <1>7 DEF Next

(* The build says that its sources are exhausted exactly when none of them *)
(* was stopped by its window or by the bytes and none was left unread, for *)
(* any sources and budgets (collect, all_sources_exhausted).  What it does *)
(* not notice are the last page that is longer than the window and the one *)
(* that the policy emptied: the run feed_filtered shows the second.         *)
THEOREM StopsNoticed == Spec => []StopsAreNoticed
<1>1. Init => SourcesInv
  BY FeedCollectAssumption DEF Init, SourcesInv
<1>2. IInv /\ SourcesInv /\ [Next]_vars => SourcesInv'
  BY SourcesStay
<1>3. IInv /\ SourcesInv => StopsAreNoticed
  <2>. SUFFICES ASSUME IInv, SourcesInv, phase \in {"collected", "paging", "last"}
                PROVE  exhausted <=> \A s \in 1 .. Sources : RanOut(s)
    BY DEF StopsAreNoticed, RanOut
  <2>1. source = Sources + 1 /\ \A s \in 1 .. Sources : s < Sources + 1
    BY FeedCollectAssumption DEF SourcesInv
  <2>. QED BY <2>1 DEF SourcesInv, IInv, TypeInv
<1>. QED BY <1>1, <1>2, <1>3, Invariance, PTL DEF Spec
=============================================================================
