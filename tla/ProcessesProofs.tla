-------------------------- MODULE ProcessesProofs --------------------------
(***************************************************************************)
(* What the processes that share nothing keep, for any answers, limits,    *)
(* attempts and configurations.                                            *)
(***************************************************************************)
EXTENDS Processes, DataLemmas

(***************************************************************************)
(* The video resolver, for any number of callers, videos and permits and   *)
(* any output of the extractors: a video is extracted only when it is      *)
(* missing, what is answered is within its time, permits are never lost,   *)
(* the queue is of those who wait, and what is offered is in order.        *)
(***************************************************************************)
Places == {"idle", "target", "lookup", "queue", "permit", "extract", "done"}

VideoTypeInv ==
  /\ at \in [Callers -> Places] /\ result = [c \in Callers |-> result[c]]
  /\ permits \in Nat /\ clock \in Nat

(* A permit is free or a caller holds it.                                  *)
VideoBoundInv == permits + Cardinality(Holders) = MaxExtractors

(* The queue is of those who wait for a permit, each once.                 *)
QueueInv ==
  /\ IsLine(waiting, Callers)
  /\ ToSet(waiting) = {c \in Callers : at[c] = "queue"}

VideoIInv == VideoTypeInv /\ VideoBoundInv
-----------------------------------------------------------------------------
LEMMA HoldersAreFinite == IsFiniteSet(Holders) /\ Cardinality(Holders) \in Nat
<1>1. Holders \subseteq Callers
  BY DEF Holders
<1>. QED BY <1>1, VideoAssumption, FS_Subset, FS_CardinalityType

(* A caller goes to where it holds no permit.                              *)
LEMMA LeavesHolders ==
  ASSUME VideoIInv, NEW c \in Callers, NEW p \in Places \ {"permit", "extract"}, Goes(c, p)
  PROVE  /\ at' \in [Callers -> Places]
         /\ Cardinality(Holders') = Cardinality(Holders) - (IF c \in Holders THEN 1 ELSE 0)
<1>1. at' \in [Callers -> Places]
  BY DEF VideoIInv, VideoTypeInv, Goes
<1>2. Holders' = Holders \ {c}
  BY DEF VideoIInv, VideoTypeInv, Goes, Holders
<1>3. Cardinality(Holders \ {c}) = Cardinality(Holders) - (IF c \in Holders THEN 1 ELSE 0)
  <2>1. CASE c \in Holders
    BY <2>1, HoldersAreFinite, FS_RemoveElement
  <2>2. CASE c \notin Holders
    <3>1. Holders \ {c} = Holders
      BY <2>2
    <3>2. Cardinality(Holders \ {c}) = Cardinality(Holders)
      BY <3>1, Zenon
    <3>. QED BY <2>2, <3>2, HoldersAreFinite
  <2>. QED BY <2>1, <2>2
<1>. QED BY <1>1, <1>2, <1>3

(* A caller goes to where it holds one.                                    *)
LEMMA JoinsHolders ==
  ASSUME VideoIInv, NEW c \in Callers, NEW p \in {"permit", "extract"}, Goes(c, p)
  PROVE  /\ at' \in [Callers -> Places]
         /\ Cardinality(Holders') = Cardinality(Holders) + (IF c \in Holders THEN 0 ELSE 1)
<1>1. at' \in [Callers -> Places]
  BY DEF VideoIInv, VideoTypeInv, Goes, Places
<1>2. Holders' = Holders \cup {c}
  BY DEF VideoIInv, VideoTypeInv, Goes, Holders
<1>3. Cardinality(Holders \cup {c}) = Cardinality(Holders) + (IF c \in Holders THEN 0 ELSE 1)
  BY HoldersAreFinite, FS_AddElement
<1>. QED BY <1>1, <1>2, <1>3

(* A step that leaves the holders and the permits alone, or lets both go.  *)
LEMMA Moves ==
  ASSUME VideoIInv, NEW c \in Callers, NEW p \in Places \ {"permit", "extract"}, Goes(c, p),
         permits' = permits + (IF c \in Holders THEN 1 ELSE 0),
         result' = [d \in Callers |-> result'[d]], UNCHANGED clock
  PROVE  VideoIInv'
<1>. DEFINE n == Cardinality(Holders)
<1>1. n \in Nat /\ at' \in [Callers -> Places]
      /\ Cardinality(Holders') = n - (IF c \in Holders THEN 1 ELSE 0)
  BY HoldersAreFinite, LeavesHolders
<1>. HIDE DEF n
<1>2. permits \in Nat /\ permits + n = MaxExtractors
  BY DEF VideoIInv, VideoTypeInv, VideoBoundInv, n
<1>3. permits' \in Nat /\ permits' + Cardinality(Holders') = MaxExtractors
  BY <1>1, <1>2, VideoAssumption
<1>. QED BY <1>1, <1>3 DEF VideoIInv, VideoTypeInv, VideoBoundInv

LEMMA ResultStays ==
  ASSUME VideoIInv, NEW c \in Callers, NEW r,
         result' = result \/ result' = [result EXCEPT ![c] = r]
  PROVE  result' = [d \in Callers |-> result'[d]]
BY DEF VideoIInv, VideoTypeInv

(* A call that ends where it is, with the permit it has.                   *)
LEMMA Ends ==
  ASSUME VideoIInv, NEW c \in Callers, NEW r, End(c, r), UNCHANGED clock,
         permits' = permits + (IF c \in Holders THEN 1 ELSE 0)
  PROVE  VideoIInv'
<1>1. Goes(c, "done") /\ "done" \in Places \ {"permit", "extract"}
  BY DEF End, Places
<1>2. result' = [d \in Callers |-> result'[d]]
  BY ResultStays DEF End
<1>. QED BY <1>1, <1>2, Moves

LEMMA VideoInitIInv == Init => VideoIInv
<1>. SUFFICES ASSUME Init PROVE VideoIInv
  OBVIOUS
<1>1. VideoTypeInv
  BY VideoAssumption DEF Init, VideoTypeInv, Places
<1>2. Holders = {}
  BY DEF Init, Holders
<1>3. Cardinality(Holders) = 0
  BY <1>2, FS_EmptySet
<1>. QED BY <1>1, <1>3, VideoAssumption DEF Init, VideoIInv, VideoBoundInv

LEMMA VideoNextIInv == VideoIInv /\ QueueInv /\ [Next]_vars => VideoIInv'
<1>. SUFFICES ASSUME VideoIInv, QueueInv, [Next]_vars PROVE VideoIInv'
  OBVIOUS
<1>1. ASSUME NEW c \in Callers, NEW v \in Videos, Ask(c, v) PROVE VideoIInv'
  <2>1. c \notin Holders /\ "target" \in Places \ {"permit", "extract"}
    BY <1>1 DEF Ask, Holders, Places
  <2>2. permits' = permits /\ permits \in Nat
    BY <1>1 DEF Ask, VideoIInv, VideoTypeInv
  <2>3. Goes(c, "target") /\ result' = [result EXCEPT ![c] = None] /\ UNCHANGED clock
    BY <1>1 DEF Ask
  <2>4. result' = [d \in Callers |-> result'[d]]
    BY <2>3, ResultStays
  <2>5. permits' = permits + (IF c \in Holders THEN 1 ELSE 0)
    BY <2>1, <2>2
  <2>. QED BY <2>1, <2>3, <2>4, <2>5, Moves
<1>2. ASSUME NEW c \in Callers, CheckTarget(c) PROVE VideoIInv'
  <2>1. /\ c \notin Holders /\ "lookup" \in Places \ {"permit", "extract"}
        /\ permits' = permits /\ permits \in Nat /\ UNCHANGED clock
    BY <1>2 DEF CheckTarget, Holders, Places, VideoIInv, VideoTypeInv
  <2>2. CASE Goes(c, "lookup") /\ UNCHANGED result
    BY <2>1, <2>2, Moves, ResultStays
  <2>3. CASE End(c, Fails("InvalidTarget"))
    BY <2>1, <2>3, Ends
  <2>. QED BY <1>2, <2>2, <2>3 DEF CheckTarget
<1>3. ASSUME NEW c \in Callers, Lookup(c) PROVE VideoIInv'
  <2>1. /\ c \notin Holders /\ "queue" \in Places \ {"permit", "extract"}
        /\ permits' = permits /\ permits \in Nat /\ UNCHANGED clock
    BY <1>3 DEF Lookup, Holders, Places, VideoIInv, VideoTypeInv
  <2>2. CASE Goes(c, "queue") /\ UNCHANGED result
    BY <2>1, <2>2, Moves, ResultStays
  <2>3. CASE \E r : End(c, r)
    BY <2>1, <2>3, Ends
  <2>. QED BY <1>3, <2>2, <2>3 DEF Lookup
<1>4. ASSUME NEW c \in Callers, TakePermit(c) PROVE VideoIInv'
  <2>1. /\ Goes(c, "permit") /\ permits > 0 /\ permits' = permits - 1
        /\ UNCHANGED <<result, clock>>
    BY <1>4 DEF TakePermit
  <2>2. /\ at' \in [Callers -> Places]
        /\ Cardinality(Holders') = Cardinality(Holders) + (IF c \in Holders THEN 0 ELSE 1)
    BY <2>1, JoinsHolders
  <2>3. c \notin Holders
    <3>1. c \in ToSet(waiting)
      BY <1>4, LineServed DEF TakePermit, QueueInv
    <3>. QED BY <3>1 DEF QueueInv, Holders
  <2>. QED BY <2>3, <2>1, <2>2, HoldersAreFinite, VideoAssumption DEF VideoIInv, VideoTypeInv, VideoBoundInv
<1>5. ASSUME NEW c \in Callers, QueueTimeout(c) PROVE VideoIInv'
  <2>1. c \notin Holders /\ permits' = permits /\ permits \in Nat /\ UNCHANGED clock
    BY <1>5 DEF QueueTimeout, Holders, VideoIInv, VideoTypeInv
  <2>. QED BY <1>5, <2>1, Ends DEF QueueTimeout
<1>6. ASSUME NEW c \in Callers, Recheck(c) PROVE VideoIInv'
  <2>1. c \in Holders /\ permits \in Nat /\ UNCHANGED clock
    BY <1>6 DEF Recheck, Holders, VideoIInv, VideoTypeInv
  <2>2. CASE permits' = permits + 1 /\ \E r : End(c, r)
    BY <2>1, <2>2, Ends
  <2>3. CASE Goes(c, "extract") /\ UNCHANGED <<result, permits>>
    <3>1. /\ at' \in [Callers -> Places]
          /\ Cardinality(Holders') = Cardinality(Holders)
      BY <2>1, <2>3, JoinsHolders, HoldersAreFinite
    <3>. QED BY <2>1, <2>3, <3>1 DEF VideoIInv, VideoTypeInv, VideoBoundInv
  <2>. QED BY <1>6, <2>2, <2>3 DEF Recheck
<1>7. ASSUME NEW c \in Callers, Extracted(c) PROVE VideoIInv'
  <2>1. c \in Holders /\ permits' = permits + 1 /\ permits \in Nat /\ UNCHANGED clock
    BY <1>7 DEF Extracted, Holders, VideoIInv, VideoTypeInv
  <2>2. \E r : End(c, r)
    BY <1>7 DEF Extracted
  <2>. QED BY <2>1, <2>2, Ends
<1>8. ASSUME NEW c \in Callers, ExtractorFails(c) PROVE VideoIInv'
  <2>1. c \in Holders /\ permits' = permits + 1 /\ permits \in Nat /\ UNCHANGED clock
    BY <1>8 DEF ExtractorFails, Holders, VideoIInv, VideoTypeInv
  <2>. QED BY <1>8, <2>1, Ends DEF ExtractorFails
<1>9. ASSUME NEW c \in Callers, Abandon(c) PROVE VideoIInv'
  <2>1. permits' = permits + (IF c \in Holders THEN 1 ELSE 0) /\ UNCHANGED clock
    BY <1>9 DEF Abandon, PermitOf, Holders
  <2>. QED BY <1>9, <2>1, Ends DEF Abandon
<1>10. ASSUME Tick \/ UNCHANGED vars PROVE VideoIInv'
  BY <1>10 DEF Tick, vars, VideoIInv, VideoTypeInv, VideoBoundInv, Holders
<1>. QED BY <1>1, <1>2, <1>3, <1>4, <1>5, <1>6, <1>7, <1>8, <1>9, <1>10 DEF Next
-----------------------------------------------------------------------------
(***************************************************************************)
(* What a player is offered.                                               *)
(***************************************************************************)
(* The height of what is offered, and offers that are ordered.             *)
HeightOf(x) == Or(x.height, 0)
Descends(ss) ==
  /\ ss = [n \in 1 .. Len(ss) |-> ss[n]] /\ Len(ss) \in Nat
  /\ \A n \in 1 .. Len(ss) : HeightOf(ss[n]) \in Int
  /\ \A n, m \in 1 .. Len(ss) : n < m => HeightOf(ss[n]) >= HeightOf(ss[m])

LEMMA SourceHeight ==
  ASSUME NEW f \in Printed
  PROVE  HeightOf(Source(f)) = SortKey(f) /\ SortKey(f) \in Int
<1>1. HeightOf(Source(f)) = SortKey(f)
  BY DEF HeightOf, Source, SortKey
<1>2. FiniteU32(f.height) \in Int \cup {None}
  BY VideoAssumption DEF Printed, FiniteU32
<1>3. SortKey(f) \in Int
  BY <1>2 DEF SortKey, Or
<1>. QED BY <1>1, <1>3

(* The order in which formats are offered.                                 *)
FormatAt(fs, n) == Nth(DOMAIN fs, n, LAMBDA j, i : Before(fs, j, i))

LEMMA FormatsInOrder ==
  ASSUME NEW fs \in Seq(Printed)
  PROVE  /\ \A n \in 1 .. Len(fs) : FormatAt(fs, n) \in 1 .. Len(fs)
         /\ \A n, m \in 1 .. Len(fs) :
              n < m => SortKey(fs[FormatAt(fs, n)]) >= SortKey(fs[FormatAt(fs, m)])
<1>. DEFINE K == 1 .. Len(fs)
            R == {p \in K \X K : Before(fs, p[1], p[2])}
            First(k) == {j \in K : Before(fs, j, k)}
<1>0. DOMAIN fs = K /\ Len(fs) \in Nat /\ \A k \in K : fs[k] \in Printed
  BY LenProperties, ElementOfSeq
<1>1. \A k \in K : SortKey(fs[k]) \in Int
  BY <1>0, SourceHeight
<1>2. Orders(R, K)
  <2>1. \A i, j \in K : <<i, j>> \in R <=> Before(fs, i, j)
    OBVIOUS
  <2>2. \A i \in K : ~Before(fs, i, i)
    BY <1>1 DEF Before
  <2>3. \A i, j \in K : i = j \/ Before(fs, i, j) \/ Before(fs, j, i)
    BY <1>1 DEF Before
  <2>4. \A i, j, k \in K : Before(fs, i, j) /\ Before(fs, j, k) => Before(fs, i, k)
    BY <1>1 DEF Before
  <2>. HIDE DEF R, K
  <2>. QED BY <2>1, <2>2, <2>3, <2>4 DEF Orders
<1>3. \A k \in K : Below(R, K, k) = First(k)
  BY DEF Below
<1>4. IsFiniteSet(K) /\ Cardinality(K) = Len(fs)
  <2>1. 1 \in Int /\ Len(fs) \in Int /\ Len(fs) >= 0
    BY <1>0
  <2>2. IsFiniteSet(K) /\ Cardinality(K) = IF 1 > Len(fs) THEN 0 ELSE Len(fs) - 1 + 1
    BY <2>1, FS_Interval
  <2>. QED BY <2>1, <2>2
<1>5. /\ \A n \in K : \E k \in K : Cardinality(First(k)) = n - 1
      /\ \A i, k \in K : Cardinality(First(i)) < Cardinality(First(k)) => <<i, k>> \in R
  <2>1. /\ \A n \in 1 .. Cardinality(K) : \E k \in K : Cardinality(Below(R, K, k)) = n - 1
        /\ \A i, k \in K :
             Cardinality(Below(R, K, i)) < Cardinality(Below(R, K, k)) => <<i, k>> \in R
    <3>. HIDE DEF R, K
    <3>. QED BY <1>2, <1>4, PlacesInOrder
  <2>2. 1 .. Cardinality(K) = K
    BY <1>4
  <2>. HIDE DEF R, First
  <2>. QED BY <1>3, <2>1, <2>2
<1>6. ASSUME NEW n \in K
      PROVE  FormatAt(fs, n) \in K /\ Cardinality(First(FormatAt(fs, n))) = n - 1
  <2>1. FormatAt(fs, n) = CHOOSE i \in DOMAIN fs : Cardinality({j \in DOMAIN fs : Before(fs, j, i)}) = n - 1
    BY DEF FormatAt, Nth
  <2>2. FormatAt(fs, n) = CHOOSE i \in K : Cardinality(First(i)) = n - 1
    <3>. HIDE DEF K
    <3>. QED BY <1>0, <2>1, Zenon
  <2>3. \E k \in K : Cardinality(First(k)) = n - 1
    BY <1>5
  <2>. HIDE DEF First, K
  <2>. QED BY <2>2, <2>3, Zenon
<1>7. ASSUME NEW n \in K, NEW m \in K, n < m
      PROVE  SortKey(fs[FormatAt(fs, n)]) >= SortKey(fs[FormatAt(fs, m)])
  <2>. DEFINE i == FormatAt(fs, n)
              k == FormatAt(fs, m)
  <2>1. i \in K /\ k \in K /\ Cardinality(First(i)) = n - 1 /\ Cardinality(First(k)) = m - 1
    BY <1>6
  <2>. HIDE DEF i, k, First
  <2>2. n - 1 < m - 1
    BY <1>7
  <2>3. <<i, k>> \in R
    BY <1>5, <2>1, <2>2
  <2>4. Before(fs, i, k)
    BY <2>3
  <2>5. SortKey(fs[i]) >= SortKey(fs[k])
    BY <1>1, <2>1, <2>4 DEF Before
  <2>. QED BY <2>5 DEF i, k
<1>. QED BY <1>6, <1>7

LEMMA OrderedDescends ==
  ASSUME NEW fs \in Seq(Printed)
  PROVE  Descends(Ordered(fs))
<1>. DEFINE ss == Ordered(fs)
<1>1. DOMAIN fs = 1 .. Len(fs) /\ Len(fs) \in Nat /\ \A k \in 1 .. Len(fs) : fs[k] \in Printed
  BY LenProperties, ElementOfSeq
<1>2. ss = [n \in 1 .. Len(fs) |-> Source(fs[FormatAt(fs, n)])]
  BY <1>1 DEF Ordered, FormatAt
<1>. HIDE DEF ss
<1>3. ss = [n \in 1 .. Len(fs) |-> ss[n]] /\ DOMAIN ss = 1 .. Len(fs)
  BY <1>2
<1>4. Len(ss) = Len(fs)
  <2>1. ss \in Seq({ss[n] : n \in 1 .. Len(fs)})
    BY <1>1, <1>3
  <2>. QED BY <1>1, <1>3, <2>1, LenProperties
<1>5. \A n \in 1 .. Len(fs) : HeightOf(ss[n]) = SortKey(fs[FormatAt(fs, n)]) /\ HeightOf(ss[n]) \in Int
  <2>. TAKE n \in 1 .. Len(fs)
  <2>1. fs[FormatAt(fs, n)] \in Printed /\ ss[n] = Source(fs[FormatAt(fs, n)])
    BY <1>1, <1>2, FormatsInOrder
  <2>. QED BY <2>1, SourceHeight
<1>6. Descends(ss)
  BY <1>1, <1>3, <1>4, <1>5, FormatsInOrder DEF Descends
<1>. QED BY <1>6 DEF ss

(* Of neighbours that are alike the first is left, so none are.            *)
Alike(ss) == \E n \in 1 .. Len(ss) - 1 : ss[n] = ss[n + 1]

LEMMA DistinctProperties ==
  ASSUME NEW ss, Descends(ss)
  PROVE  Descends(Distinct(ss)) /\ ~Alike(Distinct(ss))
<1>. DEFINE L == Len(ss)
            K == {i \in 1 .. L : i = 1 \/ ss[i] # ss[i - 1]}
            d == Distinct(ss)
            placed(n) == NumberAt(K, n)
<1>1. DOMAIN ss = 1 .. L /\ L \in Nat
  BY DEF Descends
<1>2. K \in SUBSET (1 .. L) /\ K \in SUBSET Nat
  BY <1>1
<1>3. IsFiniteSet(K)
  <2>1. IsFiniteSet(1 .. L)
    BY <1>1, FS_Interval
  <2>. HIDE DEF K
  <2>. QED BY <1>2, <2>1, FS_Subset
<1>4. d = Picked(ss, K)
  BY <1>1 DEF Distinct
<1>. DEFINE N == Cardinality(K)
<1>. HIDE DEF K, d, L
<1>5. /\ d = [n \in 1 .. N |-> ss[placed(n)]] /\ N \in Nat /\ Len(d) = N
  BY <1>2, <1>3, <1>4, PickedProperties
<1>6. /\ \A n \in 1 .. N : placed(n) \in K
      /\ \A n, m \in 1 .. N : n < m => placed(n) < placed(m)
      /\ \A k \in K : \E n \in 1 .. N : placed(n) = k
  BY <1>2, <1>3, NumbersInOrder
<1>. HIDE DEF placed, N
<1>7. Descends(d)
  <2>1. \A n \in 1 .. N : d[n] = ss[placed(n)] /\ placed(n) \in 1 .. L
    BY <1>2, <1>5, <1>6
  <2>2. d = [n \in 1 .. N |-> d[n]]
    BY <1>5
  <2>3. /\ \A n \in 1 .. L : HeightOf(ss[n]) \in Int
        /\ \A n, m \in 1 .. L : n < m => HeightOf(ss[n]) >= HeightOf(ss[m])
    BY DEF Descends, L
  <2>. QED BY <1>5, <1>6, <2>1, <2>2, <2>3 DEF Descends
<1>8. ASSUME NEW n \in 1 .. N - 1 PROVE d[n] # d[n + 1]
  <2>. DEFINE a == placed(n)
              b == placed(n + 1)
  <2>1. n \in 1 .. N /\ n + 1 \in 1 .. N /\ n < n + 1
    BY <1>5
  <2>2. a \in K /\ b \in K /\ a < b /\ d[n] = ss[a] /\ d[n + 1] = ss[b]
    BY <1>5, <1>6, <2>1
  <2>. DEFINE Between == {m \in 1 .. N : a < placed(m) /\ placed(m) < b}
  <2>3. Between = {}
    <3>1. SUFFICES ASSUME NEW m \in 1 .. N, a < placed(m), placed(m) < b PROVE FALSE
      OBVIOUS
    <3>2. placed(n) \in Nat /\ placed(n + 1) \in Nat /\ placed(m) \in Nat
      BY <1>2, <1>6, <2>1
    <3>3. ~(m < n) /\ m # n
      <4>1. m < n => placed(m) < placed(n)
        BY <1>6, <2>1
      <4>. QED BY <3>1, <3>2, <4>1
    <3>4. ~(n + 1 < m) /\ m # n + 1
      <4>1. n + 1 < m => placed(n + 1) < placed(m)
        BY <1>6, <2>1
      <4>. QED BY <3>1, <3>2, <4>1
    <3>. QED BY <1>5, <3>3, <3>4
  <2>. HIDE DEF a, b
  <2>4. a \in 1 .. L /\ b \in 1 .. L
    BY <1>2, <2>2
  <2>5. ASSUME NEW i \in a + 1 .. b - 1 PROVE i \notin K
    <3>1. a < i /\ i < b
      BY <1>1, <2>4
    <3>. QED BY <1>6, <2>3, <3>1
  <2>6. \A i \in a + 1 .. b - 1 : ss[i] = ss[i - 1]
    BY <1>1, <2>4, <2>5 DEF K
  <2>7. a \in Nat /\ b - 1 \in Nat /\ b - 1 \in a .. b - 1
    BY <1>1, <2>2, <2>4
  <2>8. \A i \in a .. b - 1 : ss[i] = ss[a]
    BY <2>6, <2>7, SameAllAlong
  <2>9. ss[b] # ss[b - 1]
    BY <1>1, <2>2, <2>4 DEF K
  <2>. QED BY <2>2, <2>7, <2>8, <2>9
<1>9. Descends(d) /\ ~Alike(d)
  BY <1>5, <1>7, <1>8 DEF Alike
<1>. QED BY <1>9 DEF d

(* What is offered of any formats.                                         *)
Offer(ss) ==
  /\ Len(ss) \in 1 .. MaxSources
  /\ \A i \in 1 .. Len(ss) - 1 :
       ss[i] # ss[i + 1] /\ Or(ss[i].height, 0) >= Or(ss[i + 1].height, 0)

LEMMA SourcesAreOffered ==
  ASSUME NEW fs \in Seq(Printed), Sources(fs) # << >>
  PROVE  Offer(Sources(fs))
<1>. DEFINE K == {i \in DOMAIN fs : Playable(fs[i])}
            gs == Picked(fs, K)
            ss == Distinct(Ordered(gs))
            n == IF Len(ss) < MaxSources THEN Len(ss) ELSE MaxSources
<1>1. DOMAIN fs = 1 .. Len(fs) /\ Len(fs) \in Nat /\ \A k \in 1 .. Len(fs) : fs[k] \in Printed
  BY LenProperties, ElementOfSeq
<1>2. K \in SUBSET (1 .. Len(fs)) /\ K \in SUBSET Nat
  BY <1>1
<1>3. IsFiniteSet(K)
  <2>1. IsFiniteSet(1 .. Len(fs))
    BY <1>1, FS_Interval
  <2>. HIDE DEF K
  <2>. QED BY <1>2, <2>1, FS_Subset
<1>4. Sources(fs) = SubSeq(ss, 1, n)
  BY DEF Sources, Truncated
<1>. HIDE DEF K
<1>5. gs \in Seq(Printed)
  <2>1. gs \in Seq({fs[k] : k \in K})
    BY <1>2, <1>3, PickedProperties
  <2>2. {fs[k] : k \in K} \subseteq Printed
    BY <1>1, <1>2
  <2>. HIDE DEF gs
  <2>. QED BY <2>1, <2>2
<1>. HIDE DEF gs
<1>6. Descends(ss) /\ ~Alike(ss)
  BY <1>5, OrderedDescends, DistinctProperties
<1>. HIDE DEF ss
<1>7. Len(ss) \in Nat /\ n \in Nat /\ n <= Len(ss) /\ n <= MaxSources
  BY <1>6, VideoAssumption DEF Descends
<1>. HIDE DEF n
<1>8. Sources(fs) = [i \in 1 .. n |-> ss[i]] /\ Len(Sources(fs)) = n
  <2>1. \A i \in 1 .. n : ss[i] \in {ss[j] : j \in 1 .. n}
    OBVIOUS
  <2>2. 1 \in Int /\ n \in Int /\ 1 - 1 <= n
    BY <1>7
  <2>. DEFINE S == {ss[j] : j \in 1 .. n}
  <2>. HIDE DEF S
  <2>. QED BY <1>4, <1>7, <2>1, <2>2, SubSeqProperties DEF S
<1>9. n # 0
  BY <1>7, <1>8
<1>10. ASSUME NEW i \in 1 .. n - 1
       PROVE  ss[i] # ss[i + 1] /\ HeightOf(ss[i]) >= HeightOf(ss[i + 1])
  <2>1. i \in 1 .. Len(ss) - 1 /\ i \in 1 .. Len(ss) /\ i + 1 \in 1 .. Len(ss) /\ i < i + 1
    BY <1>7
  <2>. QED BY <1>6, <2>1 DEF Alike, Descends
<1>11. \A i \in 1 .. n : Sources(fs)[i] = ss[i]
  BY <1>8
<1>12. ASSUME NEW i \in 1 .. n - 1
       PROVE  Sources(fs)[i] = ss[i] /\ Sources(fs)[i + 1] = ss[i + 1]
  BY <1>7, <1>11
<1>. QED BY <1>7, <1>8, <1>9, <1>10, <1>12 DEF Offer, HeightOf
-----------------------------------------------------------------------------
(***************************************************************************)
(* The queue, and what is kept and answered.                               *)
(***************************************************************************)
Entries == [stored : Nat, video : Seq(Printed)]

(* An answer is an error or an offer.                                      *)
IsOffer(r) == r.error = None => Offer(r.sources)

DataInv ==
  /\ wanted = [c \in Callers |-> wanted[c]]
  /\ \A c \in Callers : at[c] # "idle" => wanted[c] \in Videos
  /\ cache \in [Videos -> Entries \cup {None}]
  /\ \A c \in Callers : result[c] # None => IsOffer(result[c])

LEMMA FailsOffer == ASSUME NEW n \in Errors PROVE IsOffer(Fails(n))
BY VideoAssumption DEF Fails, IsOffer

LEMMA PlaybackOffers ==
  ASSUME NEW video \in Seq(Printed), NEW stored
  PROVE  IsOffer(Playback(video, stored))
<1>1. CASE Sources(video) = << >>
  <2>1. "NoPlayableFormats" \in Errors
    BY DEF Errors
  <2>. QED BY <1>1, <2>1, FailsOffer DEF Playback
<1>2. CASE Sources(video) # << >>
  <2>1. Offer(Sources(video)) /\ Playback(video, stored).sources = Sources(video)
    BY <1>2, SourcesAreOffered DEF Playback
  <2>. QED BY <2>1 DEF IsOffer
<1>. QED BY <1>1, <1>2

(* A caller who leaves a place that is not the queue, for one that is not. *)
LEMMA QueueStays ==
  ASSUME VideoIInv, QueueInv, UNCHANGED waiting,
         \A c \in Callers : at'[c] = "queue" <=> at[c] = "queue"
  PROVE  QueueInv'
BY DEF QueueInv

LEMMA QueueLeft ==
  ASSUME VideoIInv, QueueInv, NEW c \in Callers, NEW p, p # "queue", Goes(c, p),
         waiting' = NotFor(c)
  PROVE  QueueInv'
<1>1. /\ IsLine(waiting', Callers)
      /\ ToSet(waiting') = ToSet(waiting) \ {c}
  BY LineLeft DEF QueueInv, NotFor
<1>2. \A d \in Callers : at'[d] = IF d = c THEN p ELSE at[d]
  BY DEF VideoIInv, VideoTypeInv, Goes
<1>. QED BY <1>1, <1>2 DEF QueueInv

(* A step without an entry, in which a caller may get an answer.           *)
LEMMA DataStays ==
  ASSUME VideoIInv, DataInv, NEW c \in Callers, NEW p, Goes(c, p), at[c] # "idle",
         wanted' = wanted,
         cache' \in [Videos -> Entries \cup {None}],
         result' = result \/ \E r : result' = [result EXCEPT ![c] = r] /\ IsOffer(r)
  PROVE  DataInv'
<1>1. \A d \in Callers : at'[d] = at[d] \/ d = c
  BY DEF VideoIInv, VideoTypeInv, Goes
<1>2. \A d \in Callers : at'[d] # "idle" => wanted'[d] \in Videos
  BY <1>1 DEF DataInv
<1>3. \A d \in Callers : result'[d] = result[d] \/ IsOffer(result'[d])
  BY DEF VideoIInv, VideoTypeInv
<1>4. \A d \in Callers : result'[d] # None => IsOffer(result'[d])
  BY <1>3 DEF DataInv
<1>. QED BY <1>2, <1>4 DEF DataInv, IsOffer, Offer, Or

LEMMA RetainedIsKept ==
  ASSUME DataInv PROVE Retained \in [Videos -> Entries \cup {None}]
BY DEF DataInv, Retained

LEMMA LiveIsEntry ==
  ASSUME DataInv, NEW v \in Videos, Live(v) PROVE cache[v].video \in Seq(Printed)
<1>1. cache[v] \in Entries
  BY DEF DataInv, Live
<1>. QED BY <1>1 DEF Entries

LEMMA FormatsArePrinted ==
  ASSUME NEW lines \in Outputs PROVE Formats(lines) \in Seq(Printed)
<1>1. lines \in Seq([id : STRING, format : Printed])
  BY VideoAssumption
<1>2. DOMAIN lines = 1 .. Len(lines) /\ Len(lines) \in Nat
      /\ \A i \in 1 .. Len(lines) : lines[i] \in [id : STRING, format : Printed]
  BY <1>1, LenProperties, ElementOfSeq
<1>3. \A i \in 1 .. Len(lines) : lines[i].format \in Printed
  BY <1>2
<1>4. Formats(lines) \in [1 .. Len(lines) -> Printed]
  BY <1>2, <1>3 DEF Formats
<1>. QED BY <1>2, <1>4

LEMMA InitQueueData == Init => QueueInv /\ DataInv
<1>. SUFFICES ASSUME Init PROVE QueueInv /\ DataInv
  OBVIOUS
<1>1. IsLine(waiting, Callers) /\ ToSet(waiting) = {}
  BY DEF Init, IsLine, ToSet
<1>2. QueueInv
  BY <1>1 DEF Init, QueueInv
<1>3. DataInv
  BY DEF Init, DataInv
<1>. QED BY <1>2, <1>3

LEMMA NextQueueData ==
  ASSUME VideoIInv, QueueInv, DataInv, [Next]_vars
  PROVE  QueueInv' /\ DataInv'
<1>1. ASSUME NEW c \in Callers, NEW p, Goes(c, p)
      PROVE  \A d \in Callers : at'[d] = IF d = c THEN p ELSE at[d]
  BY <1>1 DEF VideoIInv, VideoTypeInv, Goes
<1>2. {"InvalidTarget", "Busy", "ExtractionFailed", "Dropped"} \subseteq Errors
  BY DEF Errors
<1>3. ASSUME NEW c \in Callers, NEW v \in Videos, Ask(c, v) PROVE QueueInv' /\ DataInv'
  <2>1. QueueInv'
    BY <1>1, <1>3, QueueStays DEF Ask
  <2>2. /\ wanted' = [wanted EXCEPT ![c] = v] /\ result' = [result EXCEPT ![c] = None]
        /\ UNCHANGED cache /\ Goes(c, "target")
    BY <1>3 DEF Ask
  <2>3. \A d \in Callers : at'[d] # "idle" => wanted'[d] \in Videos
    BY <1>1, <2>2 DEF DataInv
  <2>4. \A d \in Callers : result'[d] # None => IsOffer(result'[d])
    BY <2>2 DEF DataInv, VideoIInv, VideoTypeInv
  <2>5. DataInv'
    BY <2>2, <2>3, <2>4 DEF DataInv, IsOffer, Offer, Or
  <2>. QED BY <2>1, <2>5
<1>4. ASSUME NEW c \in Callers, CheckTarget(c) PROVE QueueInv' /\ DataInv'
  <2>1. \E p \in {"lookup", "done"} : Goes(c, p)
    BY <1>4 DEF CheckTarget, End
  <2>2. QueueInv'
    BY <1>1, <1>4, <2>1, QueueStays DEF CheckTarget
  <2>3. result' = result \/ \E r : result' = [result EXCEPT ![c] = r] /\ IsOffer(r)
    BY <1>2, <1>4, FailsOffer DEF CheckTarget, End
  <2>4. cache' \in [Videos -> Entries \cup {None}] /\ wanted' = wanted /\ at[c] # "idle"
    BY <1>4 DEF CheckTarget, DataInv
  <2>. QED BY <2>1, <2>2, <2>3, <2>4, DataStays
<1>5. ASSUME NEW c \in Callers, Live(wanted[c]), at[c] # "idle"
      PROVE  IsOffer(Playback(cache[wanted[c]].video, cache[wanted[c]].stored))
  <2>1. wanted[c] \in Videos
    BY <1>5 DEF DataInv
  <2>. QED BY <1>5, <2>1, LiveIsEntry, PlaybackOffers
<1>6. ASSUME NEW c \in Callers, Lookup(c) PROVE QueueInv' /\ DataInv'
  <2>1. /\ at[c] = "lookup" /\ cache' = Retained /\ wanted' = wanted
        /\ cache' \in [Videos -> Entries \cup {None}]
    BY <1>6, RetainedIsKept DEF Lookup
  <2>2. CASE Live(wanted[c])
    <3>1. /\ Goes(c, "done") /\ UNCHANGED waiting
          /\ result' = [result EXCEPT ![c] = Playback(cache[wanted[c]].video, cache[wanted[c]].stored)]
      BY <1>6, <2>2 DEF Lookup, End
    <3>2. QueueInv'
      BY <1>1, <2>1, <3>1, QueueStays
    <3>. QED BY <1>5, <2>1, <2>2, <3>1, <3>2, DataStays
  <2>3. CASE ~Live(wanted[c])
    <3>1. Goes(c, "queue") /\ waiting' = Append(waiting, c) /\ UNCHANGED result
      BY <1>6, <2>3 DEF Lookup
    <3>2. c \notin ToSet(waiting) /\ IsLine(waiting, Callers)
      BY <2>1 DEF QueueInv
    <3>3. IsLine(waiting', Callers) /\ ToSet(waiting') = ToSet(waiting) \cup {c}
      BY <3>1, <3>2, LineJoined
    <3>4. QueueInv'
      BY <1>1, <3>1, <3>3 DEF QueueInv
    <3>. QED BY <2>1, <3>1, <3>4, DataStays
  <2>. QED BY <2>2, <2>3
<1>7. ASSUME NEW c \in Callers, TakePermit(c) PROVE QueueInv' /\ DataInv'
  <2>1. /\ waiting # << >> /\ Head(waiting) = c /\ waiting' = Tail(waiting) /\ Goes(c, "permit")
        /\ UNCHANGED <<wanted, cache, result>>
    BY <1>7 DEF TakePermit
  <2>2. /\ IsLine(waiting', Callers) /\ ToSet(waiting') = ToSet(waiting) \ {c}
        /\ c \in ToSet(waiting)
    BY <2>1, LineServed DEF QueueInv
  <2>3. QueueInv'
    BY <1>1, <2>1, <2>2 DEF QueueInv
  <2>4. at[c] # "idle" /\ cache' \in [Videos -> Entries \cup {None}]
    BY <2>1, <2>2 DEF QueueInv, DataInv
  <2>. QED BY <2>1, <2>3, <2>4, DataStays
<1>8. ASSUME NEW c \in Callers, NEW n \in Errors, End(c, Fails(n)), at[c] # "idle",
             UNCHANGED <<wanted, cache>>
      PROVE  DataInv'
  <2>1. Goes(c, "done") /\ result' = [result EXCEPT ![c] = Fails(n)] /\ IsOffer(Fails(n))
    BY <1>8, FailsOffer DEF End
  <2>2. cache' \in [Videos -> Entries \cup {None}]
    BY <1>8 DEF DataInv
  <2>. QED BY <1>8, <2>1, <2>2, DataStays
<1>9. ASSUME NEW c \in Callers, QueueTimeout(c) PROVE QueueInv' /\ DataInv'
  BY <1>2, <1>8, <1>9, QueueLeft DEF QueueTimeout, End
<1>10. ASSUME NEW c \in Callers, Recheck(c) PROVE QueueInv' /\ DataInv'
  <2>1. /\ at[c] = "permit" /\ cache' = Retained /\ wanted' = wanted /\ UNCHANGED waiting
        /\ cache' \in [Videos -> Entries \cup {None}]
    BY <1>10, RetainedIsKept DEF Recheck
  <2>2. \E p \in {"extract", "done"} : Goes(c, p)
    BY <1>10 DEF Recheck, End
  <2>3. result' = result \/ \E r : result' = [result EXCEPT ![c] = r] /\ IsOffer(r)
    BY <1>5, <1>10, <2>1 DEF Recheck, End, FoundAgain
  <2>4. QueueInv'
    BY <1>1, <2>1, <2>2, QueueStays
  <2>. QED BY <2>1, <2>2, <2>3, <2>4, DataStays
<1>11. ASSUME NEW c \in Callers, Extracted(c) PROVE QueueInv' /\ DataInv'
  <2>1. at[c] = "extract" /\ UNCHANGED <<wanted, waiting>> /\ Goes(c, "done")
    BY <1>11 DEF Extracted, End
  <2>2. QueueInv'
    BY <1>1, <2>1, QueueStays
  <2>3. PICK lines \in Outputs :
          \/ ParseError(lines) # None /\ End(c, Fails(ParseError(lines))) /\ UNCHANGED cache
          \/ /\ cache' = [cache EXCEPT ![wanted[c]] = [stored |-> clock, video |-> Formats(lines)]]
             /\ End(c, Playback(Formats(lines), clock))
    BY <1>11 DEF Extracted
  <2>4. CASE ParseError(lines) # None /\ End(c, Fails(ParseError(lines))) /\ UNCHANGED cache
    <3>1. ParseError(lines) \in Errors
      BY <2>4 DEF ParseError, Errors
    <3>. QED BY <1>8, <2>1, <2>2, <2>4, <3>1
  <2>5. CASE /\ cache' = [cache EXCEPT ![wanted[c]] = [stored |-> clock, video |-> Formats(lines)]]
             /\ End(c, Playback(Formats(lines), clock))
    <3>1. Formats(lines) \in Seq(Printed)
      BY FormatsArePrinted
    <3>2. [stored |-> clock, video |-> Formats(lines)] \in Entries
      BY <3>1 DEF Entries, VideoIInv, VideoTypeInv
    <3>3. cache' \in [Videos -> Entries \cup {None}]
      BY <2>5, <3>2 DEF DataInv
    <3>4. IsOffer(Playback(Formats(lines), clock))
      BY <3>1, PlaybackOffers
    <3>5. result' = [result EXCEPT ![c] = Playback(Formats(lines), clock)]
      BY <2>5 DEF End
    <3>. QED BY <2>1, <2>2, <3>3, <3>4, <3>5, DataStays
  <2>. QED BY <2>3, <2>4, <2>5
<1>12. ASSUME NEW c \in Callers, ExtractorFails(c) PROVE QueueInv' /\ DataInv'
  <2>1. QueueInv'
    BY <1>1, <1>12, QueueStays DEF ExtractorFails, End
  <2>. QED BY <1>2, <1>8, <1>12, <2>1 DEF ExtractorFails
<1>13. ASSUME NEW c \in Callers, Abandon(c) PROVE QueueInv' /\ DataInv'
  BY <1>2, <1>8, <1>13, QueueLeft DEF Abandon, End
<1>14. ASSUME Tick \/ UNCHANGED vars PROVE QueueInv' /\ DataInv'
  BY <1>14 DEF Tick, vars, QueueInv, DataInv, IsOffer, Offer, Or
<1>. QED BY <1>3, <1>4, <1>6, <1>7, <1>9, <1>10, <1>11, <1>12, <1>13, <1>14 DEF Next

LEMMA VideoInvariants == Spec => [](VideoIInv /\ QueueInv /\ DataInv)
<1>1. Init => VideoIInv /\ QueueInv /\ DataInv
  BY VideoInitIInv, InitQueueData
<1>2. VideoIInv /\ QueueInv /\ DataInv /\ [Next]_vars => (VideoIInv /\ QueueInv /\ DataInv)'
  BY VideoNextIInv, NextQueueData
<1>. QED BY <1>1, <1>2, PTL DEF Spec
-----------------------------------------------------------------------------
(* Through every failure, timeout and request that goes away a permit is   *)
(* free or held, the queue is of those who wait, each once, and what is    *)
(* offered of any output has the highest picture first and no two alike    *)
(* next to each other (video.rs, resolve and playback).                    *)
THEOREM ResolverHolds == Spec => []ResolverIsSound
<1>1. VideoIInv /\ QueueInv /\ DataInv => ResolverIsSound
  <2>. SUFFICES ASSUME VideoIInv, QueueInv, DataInv PROVE ResolverIsSound
    OBVIOUS
  <2>1. PermitsAreAccounted
    BY DEF VideoIInv, VideoTypeInv, VideoBoundInv, PermitsAreAccounted
  <2>2. QueueIsExact
    <3>1. DOMAIN waiting = 1 .. Len(waiting)
      BY LenProperties DEF QueueInv, IsLine
    <3>. QED BY <3>1 DEF QueueInv, IsLine, QueueIsExact
  <2>3. OffersAreOrdered
    BY DEF DataInv, IsOffer, Offer, OffersAreOrdered
  <2>. QED BY <2>1, <2>2, <2>3 DEF ResolverIsSound
<1>. QED BY <1>1, VideoInvariants, PTL
-----------------------------------------------------------------------------
(* What the property says of one caller.                                   *)
Missing(c) ==
  /\ at[c] # "extract" /\ at'[c] = "extract" => ~Live(wanted[c])
  /\ result[c] # result'[c] /\ result'[c] # None /\ result'[c].error = None
       => clock - result'[c].stored < Ttl

LEMMA Unmoved == ASSUME NEW c, at'[c] = at[c], result'[c] = result[c] PROVE Missing(c)
BY DEF Missing

(* An answer is an error or within its time.                               *)
InTime(r) == r.error = None => clock - r.stored < Ttl

LEMMA FailsInTime == ASSUME NEW n \in Errors PROVE InTime(Fails(n))
BY VideoAssumption DEF Fails, InTime

LEMMA PlaybackInTime ==
  ASSUME NEW video, NEW stored, clock - stored < Ttl
  PROVE  InTime(Playback(video, stored))
<1>1. CASE Sources(video) = << >>
  <2>1. "NoPlayableFormats" \in Errors
    BY DEF Errors
  <2>. QED BY <1>1, <2>1, FailsInTime DEF Playback
<1>. QED BY <1>1 DEF Playback, InTime

LEMMA EndsInTime ==
  ASSUME VideoIInv, NEW c \in Callers, NEW r, End(c, r), InTime(r)
  PROVE  \A d \in Callers : Missing(d)
<1>. SUFFICES ASSUME NEW d \in Callers PROVE Missing(d)
  OBVIOUS
<1>1. CASE d = c
  <2>1. at'[d] = "done" /\ result'[d] = r
    BY <1>1 DEF VideoIInv, VideoTypeInv, End, Goes
  <2>. QED BY <2>1 DEF Missing, InTime
<1>2. CASE d # c
  <2>1. at'[d] = at[d] /\ result'[d] = result[d]
    BY <1>2 DEF VideoIInv, VideoTypeInv, End, Goes
  <2>. QED BY <2>1, Unmoved
<1>. QED BY <1>1, <1>2

(* A caller goes on without an answer.                                     *)
LEMMA GoesOn ==
  ASSUME VideoIInv, NEW c \in Callers, NEW p \in Places, Goes(c, p),
         p = "extract" => ~Live(wanted[c]),
         result' = result \/ result' = [result EXCEPT ![c] = None]
  PROVE  \A d \in Callers : Missing(d)
<1>. SUFFICES ASSUME NEW d \in Callers PROVE Missing(d)
  OBVIOUS
<1>1. result'[d] = result[d] \/ result'[d] = None
  BY DEF VideoIInv, VideoTypeInv
<1>2. at'[d] = at[d] \/ (d = c /\ at'[d] = p)
  BY DEF VideoIInv, VideoTypeInv, Goes
<1>. QED BY <1>1, <1>2 DEF Missing

LEMMA NextExtractsOnlyMissing ==
  ASSUME VideoIInv, [Next]_vars
  PROVE  \A c \in Callers : Missing(c)
<1>1. ASSUME NEW c \in Callers, NEW n \in Errors, End(c, Fails(n))
      PROVE  \A d \in Callers : Missing(d)
  BY <1>1, FailsInTime, EndsInTime
<1>2. ASSUME NEW c \in Callers, Live(wanted[c]),
             End(c, Playback(cache[wanted[c]].video, cache[wanted[c]].stored))
      PROVE  \A d \in Callers : Missing(d)
  BY <1>2, PlaybackInTime, EndsInTime DEF Live
<1>3. "InvalidTarget" \in Errors /\ "Busy" \in Errors /\ "ExtractionFailed" \in Errors
      /\ "Dropped" \in Errors
  BY DEF Errors
<1>4. {"target", "lookup", "queue", "permit", "extract"} \subseteq Places
  BY DEF Places
<1>5. ASSUME NEW c \in Callers, NEW v \in Videos, Ask(c, v) PROVE \A d \in Callers : Missing(d)
  BY <1>4, <1>5, GoesOn DEF Ask
<1>6. ASSUME NEW c \in Callers, CheckTarget(c) PROVE \A d \in Callers : Missing(d)
  BY <1>1, <1>3, <1>4, <1>6, GoesOn DEF CheckTarget
<1>7. ASSUME NEW c \in Callers, Lookup(c) PROVE \A d \in Callers : Missing(d)
  <2>1. CASE Live(wanted[c])
    BY <1>2, <1>7, <2>1 DEF Lookup
  <2>2. CASE ~Live(wanted[c])
    BY <1>4, <1>7, <2>2, GoesOn DEF Lookup
  <2>. QED BY <2>1, <2>2
<1>8. ASSUME NEW c \in Callers, TakePermit(c) PROVE \A d \in Callers : Missing(d)
  BY <1>4, <1>8, GoesOn DEF TakePermit
<1>9. ASSUME NEW c \in Callers, QueueTimeout(c) PROVE \A d \in Callers : Missing(d)
  BY <1>1, <1>3, <1>9 DEF QueueTimeout
<1>10. ASSUME NEW c \in Callers, Recheck(c) PROVE \A d \in Callers : Missing(d)
  <2>1. CASE Live(wanted[c])
    BY <1>2, <1>10, <2>1 DEF Recheck, FoundAgain
  <2>2. CASE ~Live(wanted[c])
    BY <1>4, <1>10, <2>2, GoesOn DEF Recheck, FoundAgain
  <2>. QED BY <2>1, <2>2
<1>11. ASSUME NEW c \in Callers, Extracted(c) PROVE \A d \in Callers : Missing(d)
  <2>1. PICK lines \in Outputs :
          \/ ParseError(lines) # None /\ End(c, Fails(ParseError(lines)))
          \/ End(c, Playback(Formats(lines), clock))
    BY <1>11 DEF Extracted
  <2>2. ParseError(lines) # None => ParseError(lines) \in Errors
    BY DEF ParseError, Errors
  <2>3. clock - clock < Ttl
    BY VideoAssumption DEF VideoIInv, VideoTypeInv
  <2>4. InTime(Playback(Formats(lines), clock))
    BY <2>3, PlaybackInTime
  <2>. QED BY <1>1, <2>1, <2>2, <2>4, EndsInTime
<1>12. ASSUME NEW c \in Callers, ExtractorFails(c) PROVE \A d \in Callers : Missing(d)
  BY <1>1, <1>3, <1>12 DEF ExtractorFails
<1>13. ASSUME NEW c \in Callers, Abandon(c) PROVE \A d \in Callers : Missing(d)
  BY <1>1, <1>3, <1>13 DEF Abandon
<1>14. ASSUME Tick \/ UNCHANGED vars PROVE \A d \in Callers : Missing(d)
  BY <1>14, Unmoved DEF Tick, vars
<1>. QED BY <1>5, <1>6, <1>7, <1>8, <1>9, <1>10, <1>11, <1>12, <1>13, <1>14 DEF Next

(* A video is extracted only when no copy within its time is there, also   *)
(* for one who waited for a permit; an answer is within its time (video.rs,*)
(* resolve and cached).                                                    *)
THEOREM OnlyMissingExtracted == Spec => ExtractsOnlyMissing
<1>1. ASSUME VideoIInv, [Next]_vars
      PROVE  [\A c \in Callers :
                /\ at[c] # "extract" /\ at'[c] = "extract" => ~Live(wanted[c])
                /\ result[c] # result'[c] /\ result'[c] # None /\ result'[c].error = None
                     => clock - result'[c].stored < Ttl]_vars
  BY <1>1, NextExtractsOnlyMissing DEF Missing
<1>. QED BY <1>1, VideoInvariants, PTL DEF Spec, ExtractsOnlyMissing
-----------------------------------------------------------------------------
(***************************************************************************)
(* A call of the client: any number of redirects, any limit of the body    *)
(* and any answers of Reddit.                                              *)
(***************************************************************************)
(* Errors that say nothing of the credentials, nor are a success.          *)
PlainNames ==
  {"Auth", "BodyTooLarge", "MissingRedirectLocation", "InvalidRedirect", "TooManyRedirects",
   "UnexpectedStatus", "Request", "Body", "Timeout"}

CallTypeInv ==
  /\ kind \in {"json", "html", "graphql"}
  /\ callAt \in {"acquire", "send", "body", "judge", "report", "done"}
  /\ generation \in Nat /\ served \in Nat \cup {None}
  /\ chunk \in Nat /\ body \in 0 .. MaxBytes
  /\ callAt \in {"body", "judge", "report"} => response \in Called!Answers

(* The last lease is not newer than what is in use, and is held from when  *)
(* a hop is sent until its body was read; what was observed is of a lease. *)
LeaseInv ==
  /\ served # None => served <= generation
  /\ callAt \in {"send", "body"} => lease = served /\ served # None
  /\ callAt = "judge" /\ kind # "graphql" => lease = None
  /\ Called!WaitsEmptyHanded
  /\ observed # {} => served # None
  /\ \A o \in observed : o.generation \in Nat
  /\ Called!ReportsItsOwn

(* Nothing is reported before the last step, and then a refusal is.        *)
VerdictInv ==
  /\ callAt # "done" => invalidated = << >>
  /\ callAt \in {"body", "judge", "report"} /\ kind = "graphql" => Called!Ok(response)
  /\ callAt = "report" => kind # "graphql" /\ Called!IsRefusal(Called!Verdict(response))

EndInv == callAt = "done" => Called!RefusalsAreReported /\ Called!SuccessIsClean

CallIInv == CallTypeInv /\ LeaseInv /\ VerdictInv /\ EndInv
-----------------------------------------------------------------------------
LEMMA PlainIsPlain ==
  ASSUME NEW n \in PlainNames
  PROVE  ~Called!IsRefusal(Called!Fails(n)) /\ Called!Fails(n).name # "Ok"
BY DEF PlainNames, Called!IsRefusal, Called!Fails

(* Only a call that may report a refusal gets one as its verdict.          *)
LEMMA GraphqlIsNeverRefused ==
  ASSUME NEW r, kind = "graphql"
  PROVE  ~Called!IsRefusal(Called!Verdict(r))
BY DEF Called!IsRefusal, Called!Verdict, Called!GraphqlVerdict, Called!Fails

(* A body is judged a success only if nothing in it is an error.           *)
LEMMA JsonSuccess ==
  ASSUME NEW r \in Called!Answers, body \in 0 .. MaxBytes, Called!CallAssumption,
         Called!JsonVerdict(r).name = "Ok"
  PROVE  /\ Called!Ok(r) /\ body \in 1 .. MaxBytes
         /\ r.json.error = "none" /\ ~r.json.errors /\ ~r.json.suspended
<1>1. body # 0 /\ r.status # 429
  BY DEF Called!JsonVerdict, Called!RateLimited
<1>2. body > 0 /\ body \in 1 .. MaxBytes
  BY <1>1 DEF Called!CallAssumption
<1>3. r.status # 401
  BY <1>1, <1>2 DEF Called!JsonVerdict, Called!Fails
<1>4. r.json # None
  BY <1>1, <1>2, <1>3 DEF Called!JsonVerdict, Called!Fails
<1>5. /\ ~r.json.suspended /\ ~Called!InvalidEnvelope(r) /\ r.json.error # "number"
  BY <1>1, <1>2, <1>3, <1>4 DEF Called!JsonVerdict, Called!Fails, Called!RefusedError
<1>6. r.json.error \in {"none", "number", "other"}
  BY <1>4 DEF Called!Answers, Called!Decoded
<1>. QED BY <1>2, <1>5, <1>6 DEF Called!InvalidEnvelope

LEMMA Success ==
  ASSUME Called!CallAssumption, CallTypeInv, NEW r \in Called!Answers, kind = "graphql" => Called!Ok(r),
         Called!Verdict(r).name = "Ok"
  PROVE  /\ Called!Ok(r) /\ body \in 1 .. MaxBytes
         /\ kind = "json" => r.json.error = "none" /\ ~r.json.errors /\ ~r.json.suspended
         /\ kind = "graphql" => r.json.trees /\ ~r.json.errors
<1>1. CASE kind = "json"
  BY <1>1, JsonSuccess DEF Called!Verdict, CallTypeInv
<1>2. CASE kind = "html"
  BY <1>2 DEF Called!Verdict, CallTypeInv, Called!HtmlVerdict, Called!Fails, Called!RateLimited, Called!CallAssumption
<1>3. CASE kind = "graphql"
  BY <1>3 DEF Called!Verdict, CallTypeInv, Called!GraphqlVerdict, Called!Fails, Called!CallAssumption
<1>. QED BY <1>1, <1>2, <1>3 DEF CallTypeInv

(* A call that ends with a plain error, wherever it is.                    *)
LEMMA PlainEnd ==
  ASSUME Called!CallAssumption, CallIInv, callAt # "done", NEW n \in PlainNames, Called!End(Called!Fails(n)),
         UNCHANGED <<kind, served, chunk, body, generation, invalidated>>,
         observed' # {} => served # None,
         \A o \in observed' : o.generation \in Nat /\ o.generation <= served
  PROVE  CallIInv'
<1>1. callAt' = "done" /\ answer' = Called!Fails(n) /\ lease' = None
  BY DEF Called!End
<1>2. CallTypeInv'
  BY <1>1 DEF CallIInv, CallTypeInv
<1>3. LeaseInv'
  BY <1>1 DEF CallIInv, LeaseInv, Called!WaitsEmptyHanded, Called!ReportsItsOwn
<1>4. VerdictInv'
  BY <1>1 DEF CallIInv, VerdictInv
<1>5. ~Called!IsRefusal(answer') /\ answer'.name # "Ok" /\ invalidated' = << >>
  BY <1>1, PlainIsPlain DEF CallIInv, VerdictInv
<1>6. EndInv'
  BY <1>5 DEF EndInv, Called!RefusalsAreReported, Called!SuccessIsClean
<1>. QED BY <1>2, <1>3, <1>4, <1>6 DEF CallIInv

(* What a hop reports is of the lease it holds.                            *)
LEMMA OwnReports ==
  ASSUME CallIInv, callAt = "send", NEW r, NEW o \in observed \cup Called!Reports(lease, r)
  PROVE  served # None /\ o.generation \in Nat /\ o.generation <= served
<1>1. lease = served /\ served \in Nat
  BY DEF CallIInv, CallTypeInv, LeaseInv
<1>2. CASE o \in observed
  BY <1>1, <1>2 DEF CallIInv, LeaseInv, Called!ReportsItsOwn
<1>3. CASE o \in Called!Reports(lease, r)
  <2>1. o.generation = lease
    BY <1>3 DEF Called!Reports
  <2>. QED BY <1>1, <2>1 DEF CallIInv, CallTypeInv, LeaseInv
<1>. QED BY <1>2, <1>3
-----------------------------------------------------------------------------
LEMMA CallInitIInv == ASSUME Called!CallAssumption PROVE Called!Init => CallIInv
<1>. SUFFICES ASSUME Called!Init PROVE CallIInv
  OBVIOUS
<1>1. CallTypeInv
  BY DEF Called!Init, CallTypeInv, Called!CallAssumption
<1>2. LeaseInv
  BY DEF Called!Init, LeaseInv, Called!WaitsEmptyHanded, Called!ReportsItsOwn
<1>3. VerdictInv /\ EndInv
  BY DEF Called!Init, VerdictInv, EndInv
<1>. QED BY <1>1, <1>2, <1>3 DEF CallIInv

LEMMA RefreshIInv == ASSUME Called!CallAssumption, CallIInv, Called!Refresh PROVE CallIInv'
<1>1. CallTypeInv'
  BY DEF CallIInv, CallTypeInv, Called!Refresh
<1>2. LeaseInv'
  BY DEF CallIInv, CallTypeInv, LeaseInv, Called!WaitsEmptyHanded, Called!ReportsItsOwn, Called!Refresh
<1>3. callAt' # "done" /\ callAt' = callAt /\ UNCHANGED <<kind, response, body, invalidated>>
  BY DEF Called!Refresh
<1>4. VerdictInv'
  <2>1. callAt = "report" => Called!IsRefusal(Called!Verdict(response))'
    BY <1>3 DEF CallIInv, VerdictInv, Called!IsRefusal, Called!Verdict, Called!JsonVerdict, Called!HtmlVerdict, Called!GraphqlVerdict
  <2>. QED BY <1>3, <2>1 DEF CallIInv, VerdictInv
<1>. QED BY <1>1, <1>2, <1>3, <1>4 DEF CallIInv, EndInv

LEMMA AcquireIInv == ASSUME Called!CallAssumption, CallIInv, Called!Acquire PROVE CallIInv'
<1>1. CASE callAt' = "send" /\ lease' = generation /\ served' = generation /\ UNCHANGED answer
  <2>1. CallTypeInv'
    BY <1>1 DEF CallIInv, CallTypeInv, Called!Acquire
  <2>2. LeaseInv'
    BY <1>1 DEF CallIInv, CallTypeInv, LeaseInv, Called!WaitsEmptyHanded, Called!ReportsItsOwn, Called!Acquire, Called!CallAssumption
  <2>3. VerdictInv' /\ EndInv'
    BY <1>1 DEF CallIInv, VerdictInv, EndInv, Called!Acquire
  <2>. QED BY <2>1, <2>2, <2>3 DEF CallIInv
<1>2. CASE Called!End(Called!Fails("Auth")) /\ UNCHANGED served
  <2>1. "Auth" \in PlainNames /\ callAt # "done"
    BY DEF PlainNames, Called!Acquire
  <2>. QED BY <1>2, <2>1, PlainEnd DEF Called!Acquire, CallIInv, LeaseInv, Called!ReportsItsOwn
<1>. QED BY <1>1, <1>2 DEF Called!Acquire

(* A hop that goes on: to its body or, with a new lease, to the next hop.  *)
LEMMA HopGoesOn ==
  ASSUME Called!CallAssumption, CallIInv, callAt = "send", NEW r \in Called!Answers,
         response' = r, UNCHANGED <<kind, served, chunk, body, generation, invalidated, answer>>,
         observed' = observed \/ observed' = observed \cup Called!Reports(lease, r),
         \/ callAt' = "body" /\ lease' = lease
         \/ callAt' = "acquire" /\ lease' = None,
         callAt' = "body" /\ kind = "graphql" => Called!Ok(r)
  PROVE  CallIInv'
<1>1. \A o \in observed' : served # None /\ o.generation \in Nat /\ o.generation <= served
  BY OwnReports DEF CallIInv, CallTypeInv, LeaseInv, Called!ReportsItsOwn
<1>2. CallTypeInv'
  BY DEF CallIInv, CallTypeInv
<1>3. LeaseInv'
  BY <1>1 DEF CallIInv, LeaseInv, Called!WaitsEmptyHanded, Called!ReportsItsOwn
<1>4. VerdictInv' /\ EndInv'
  BY DEF CallIInv, VerdictInv, EndInv
<1>. QED BY <1>2, <1>3, <1>4 DEF CallIInv

LEMMA AnswerIInv == ASSUME Called!CallAssumption, CallIInv, Called!Answer PROVE CallIInv'
<1>1. callAt = "send" /\ callAt # "done" /\ UNCHANGED <<kind, served, chunk, body, generation, invalidated>>
  BY DEF Called!Answer
<1>2. ASSUME NEW n \in PlainNames, Called!End(Called!Fails(n)),
             NEW r, observed' = observed \/ observed' = observed \cup Called!Reports(lease, r)
      PROVE  CallIInv'
  <2>1. \A o \in observed' : served # None /\ o.generation \in Nat /\ o.generation <= served
    BY <1>1, <1>2, OwnReports DEF CallIInv, LeaseInv, Called!ReportsItsOwn
  <2>2. observed' # {} => served # None
    BY <2>1
  <2>. QED BY <1>1, <1>2, <2>1, <2>2, PlainEnd
<1>3. ASSUME Called!End(Called!Fails("Request")), UNCHANGED observed
      PROVE  CallIInv'
  BY <1>2, <1>3 DEF PlainNames
<1>4. ASSUME NEW r \in CallResponses, response' = r, Called!Answered(r)
      PROVE  CallIInv'
  <2>1. r \in Called!Answers /\ (observed' = observed \/ observed' = observed \cup Called!Reports(lease, r))
    BY <1>4 DEF Called!Answered, Called!CallAssumption
  <2>2. \/ \E n \in PlainNames : Called!End(Called!Fails(n))
        \/ callAt' = "body" /\ UNCHANGED <<answer, lease>> /\ (kind = "graphql" => Called!Ok(r))
        \/ callAt' = "acquire" /\ lease' = None /\ UNCHANGED answer
    BY <1>4 DEF Called!Answered, Called!ReadOrRefuse, Called!Redirect, PlainNames
  <2>3. CASE \E n \in PlainNames : Called!End(Called!Fails(n))
    BY <1>2, <2>1, <2>3
  <2>4. CASE callAt' = "body" /\ UNCHANGED <<answer, lease>> /\ (kind = "graphql" => Called!Ok(r))
    BY <1>1, <1>4, <2>1, <2>4, HopGoesOn
  <2>5. CASE callAt' = "acquire" /\ lease' = None /\ UNCHANGED answer
    BY <1>1, <1>4, <2>1, <2>5, HopGoesOn
  <2>. QED BY <2>2, <2>3, <2>4, <2>5
<1>. QED BY <1>3, <1>4 DEF Called!Answer

LEMMA ReceiveIInv == ASSUME Called!CallAssumption, CallIInv, Called!Receive PROVE CallIInv'
<1>1. /\ callAt = "body" /\ response \in Called!Answers
      /\ UNCHANGED <<kind, redirects, served, response, generation, observed, invalidated>>
  BY DEF Called!Receive, CallIInv, CallTypeInv
<1>2. ASSUME NEW n \in PlainNames, Called!End(Called!Fails(n)), UNCHANGED <<chunk, body>>
      PROVE  CallIInv'
  BY <1>1, <1>2, PlainEnd DEF CallIInv, LeaseInv, Called!ReportsItsOwn
<1>3. CASE /\ chunk < Len(response.chunks) /\ Called!Fits(response.chunks[chunk + 1])
           /\ chunk' = chunk + 1 /\ body' = body + response.chunks[chunk + 1]
           /\ UNCHANGED <<callAt, lease, answer>>
  <2>1. response.chunks \in Seq(Nat)
    BY <1>1 DEF Called!Answers
  <2>2. chunk + 1 \in 1 .. Len(response.chunks)
    BY <1>3, <2>1 DEF CallIInv, CallTypeInv
  <2>3. response.chunks[chunk + 1] \in Nat
    BY <2>1, <2>2
  <2>4. body' \in 0 .. MaxBytes
    BY <1>3, <2>3 DEF CallIInv, CallTypeInv, Called!Fits, Called!CallAssumption
  <2>5. CallTypeInv'
    BY <1>1, <1>3, <2>4 DEF CallIInv, CallTypeInv
  <2>6. LeaseInv'
    BY <1>1, <1>3 DEF CallIInv, LeaseInv, Called!WaitsEmptyHanded, Called!ReportsItsOwn
  <2>7. VerdictInv' /\ EndInv'
    BY <1>1, <1>3 DEF CallIInv, VerdictInv, EndInv, Called!Ok
  <2>. QED BY <2>5, <2>6, <2>7 DEF CallIInv
<1>4. CASE /\ callAt' = "judge" /\ lease' = (IF kind = "graphql" THEN lease ELSE None)
           /\ UNCHANGED <<chunk, body, answer>>
  <2>1. CallTypeInv'
    BY <1>1, <1>4 DEF CallIInv, CallTypeInv
  <2>2. LeaseInv'
    BY <1>1, <1>4 DEF CallIInv, LeaseInv, Called!WaitsEmptyHanded, Called!ReportsItsOwn
  <2>3. VerdictInv' /\ EndInv'
    BY <1>1, <1>4 DEF CallIInv, VerdictInv, EndInv, Called!Ok
  <2>. QED BY <2>1, <2>2, <2>3 DEF CallIInv
<1>5. "BodyTooLarge" \in PlainNames /\ "Body" \in PlainNames
  BY DEF PlainNames
<1>. QED BY <1>2, <1>3, <1>4, <1>5 DEF Called!Receive

(* A call that ends with its verdict, reported if it is a refusal.         *)
LEMMA VerdictEnd ==
  ASSUME Called!CallAssumption, CallIInv, callAt \in {"judge", "report"}, Called!End(Called!Verdict(response)),
         UNCHANGED <<kind, served, response, chunk, body, generation, observed>>,
         IF Called!IsRefusal(Called!Verdict(response))
           THEN kind # "graphql" /\ invalidated' = <<served>> ELSE UNCHANGED invalidated
  PROVE  CallIInv'
<1>1. callAt' = "done" /\ answer' = Called!Verdict(response) /\ lease' = None
  BY DEF Called!End
<1>2. CallTypeInv'
  BY <1>1 DEF CallIInv, CallTypeInv
<1>3. LeaseInv'
  BY <1>1 DEF CallIInv, LeaseInv, Called!WaitsEmptyHanded, Called!ReportsItsOwn
<1>4. VerdictInv'
  BY <1>1 DEF VerdictInv
<1>5. invalidated = << >>
  BY DEF CallIInv, VerdictInv
<1>6. Called!RefusalsAreReported'
  <2>1. CASE Called!IsRefusal(Called!Verdict(response))
    <3>1. Called!IsRefusal(answer)' /\ invalidated' = <<served'>> /\ kind' # "graphql"
      BY <1>1, <2>1 DEF Called!IsRefusal
    <3>2. <<served'>> # << >>
      OBVIOUS
    <3>. QED BY <1>1, <3>1, <3>2 DEF Called!RefusalsAreReported
  <2>2. CASE ~Called!IsRefusal(Called!Verdict(response))
    <3>1. ~Called!IsRefusal(answer)' /\ invalidated' = << >>
      BY <1>1, <1>5, <2>2 DEF Called!IsRefusal
    <3>. QED BY <3>1 DEF Called!RefusalsAreReported
  <2>. QED BY <2>1, <2>2
<1>7. Called!SuccessIsClean'
  <2>1. response \in Called!Answers /\ (kind = "graphql" => Called!Ok(response)) /\ CallTypeInv
    BY DEF CallIInv, CallTypeInv, VerdictInv
  <2>2. Called!Ok(response) <=> Called!Ok(response')
    BY DEF Called!Ok
  <2>. QED BY <1>1, <2>1, <2>2, Success DEF Called!SuccessIsClean
<1>. QED BY <1>2, <1>3, <1>4, <1>6, <1>7 DEF CallIInv, EndInv

LEMMA JudgeIInv == ASSUME Called!CallAssumption, CallIInv, Called!Judge PROVE CallIInv'
<1>1. callAt = "judge" /\ UNCHANGED <<kind, redirects, served, response, chunk, body, generation, observed, invalidated>>
  BY DEF Called!Judge
<1>2. CASE kind # "graphql" /\ Called!IsRefusal(Called!Verdict(response))
  <2>1. callAt' = "report" /\ UNCHANGED <<answer, lease>>
    BY <1>2 DEF Called!Judge
  <2>2. CallTypeInv'
    BY <1>1, <2>1 DEF CallIInv, CallTypeInv
  <2>3. LeaseInv'
    BY <1>1, <1>2, <2>1 DEF CallIInv, LeaseInv, Called!WaitsEmptyHanded, Called!ReportsItsOwn
  <2>4. Called!IsRefusal(Called!Verdict(response))'
    BY <1>1, <1>2 DEF Called!IsRefusal, Called!Verdict, Called!JsonVerdict, Called!HtmlVerdict, Called!GraphqlVerdict
  <2>5. VerdictInv'
    BY <1>1, <1>2, <2>1, <2>4 DEF CallIInv, VerdictInv
  <2>. QED BY <2>1, <2>2, <2>3, <2>5 DEF CallIInv, EndInv
<1>3. CASE ~(kind # "graphql" /\ Called!IsRefusal(Called!Verdict(response)))
  <2>1. ~Called!IsRefusal(Called!Verdict(response))
    BY <1>3, GraphqlIsNeverRefused
  <2>. QED BY <1>1, <1>3, <2>1, VerdictEnd DEF Called!Judge
<1>. QED BY <1>2, <1>3

LEMMA ReportIInv == ASSUME Called!CallAssumption, CallIInv, Called!Report PROVE CallIInv'
<1>1. /\ callAt = "report" /\ Called!End(Called!Verdict(response)) /\ invalidated' = Append(invalidated, served)
      /\ UNCHANGED <<kind, redirects, served, response, chunk, body, generation, observed>>
  BY DEF Called!Report, Called!Refused
<1>2. kind # "graphql" /\ Called!IsRefusal(Called!Verdict(response)) /\ invalidated = << >>
  BY <1>1 DEF CallIInv, VerdictInv
<1>3. invalidated' = <<served>>
  BY <1>1, <1>2
<1>. QED BY <1>1, <1>2, <1>3, VerdictEnd

LEMMA GiveUpIInv == ASSUME Called!CallAssumption, CallIInv, Called!GiveUp PROVE CallIInv'
<1>1. "Timeout" \in PlainNames
  BY DEF PlainNames
<1>. QED BY <1>1, PlainEnd DEF Called!GiveUp, CallIInv, LeaseInv, Called!ReportsItsOwn

LEMMA CallStutterIInv == ASSUME CallIInv, UNCHANGED Called!vars PROVE CallIInv'
BY DEF Called!vars, CallIInv, CallTypeInv, LeaseInv, Called!WaitsEmptyHanded, Called!ReportsItsOwn, VerdictInv, EndInv,
       Called!RefusalsAreReported, Called!SuccessIsClean, Called!Ok, Called!IsRefusal, Called!Verdict, Called!JsonVerdict, Called!HtmlVerdict,
       Called!GraphqlVerdict

LEMMA CallNextIInv == ASSUME Called!CallAssumption PROVE CallIInv /\ [Called!Next]_Called!vars => CallIInv'
BY RefreshIInv, AcquireIInv, AnswerIInv, ReceiveIInv, JudgeIInv, ReportIInv, GiveUpIInv,
   CallStutterIInv DEF Called!Next
-----------------------------------------------------------------------------
(* A refusal of Reddit ends a call with the generation it was given to     *)
(* reported once, and nothing else is reported; a success is free of       *)
(* errors; no lease is held while another one is waited for; limits are    *)
(* reported of leases the call had (client.rs, request and fetch_json).    *)
THEOREM CallsAreHonest == Called!Spec => []RequestsAreHonest
<1>1. CallIInv => RequestsAreHonest
  <2>. SUFFICES ASSUME CallIInv PROVE RequestsAreHonest
    OBVIOUS
  <2>1. Called!RefusalsAreReported
    BY DEF CallIInv, VerdictInv, EndInv, Called!RefusalsAreReported
  <2>2. Called!SuccessIsClean
    BY DEF CallIInv, EndInv, Called!SuccessIsClean
  <2>. QED BY <2>1, <2>2 DEF CallIInv, LeaseInv, RequestsAreHonest, Called!RequestsAreHonest
<1>2. Called!Init => CallIInv
  BY ProcessesAssumption, CallInitIInv
<1>3. CallIInv /\ [Called!Next]_Called!vars => CallIInv'
  BY ProcessesAssumption, CallNextIInv
<1>. QED BY <1>1, <1>2, <1>3, PTL DEF Called!Spec
-----------------------------------------------------------------------------

(***************************************************************************)
(* An authentication: any number of attempts and any timeout.              *)
(***************************************************************************)
AuthTypeInv ==
  /\ backend \in {"mobile", "web"} /\ attempt \in 1 .. Attempts
  /\ authAt \in {"exchange", "pause", "done"}
  /\ exchanges \in Nat /\ elapsed \in Nat

(* The exchanges and pauses, each of Timeout at most, that may be over.    *)
Slots ==
  (IF backend = "web" THEN 2 * Attempts - 1 ELSE 0) + 2 * attempt - (IF authAt = "exchange" THEN 2 ELSE 1)

TimeInv ==
  /\ exchanges <= (IF backend = "web" THEN Attempts ELSE 0) + attempt
  /\ elapsed <= Slots * Timeout

(* A pause is made only before another exchange of the same backend.       *)
PauseInv == authAt = "pause" => attempt < Attempts

AnswerInv == authAt = "done" => (credentials # None \/ lastError # "Unavailable")

AuthIInv == AuthTypeInv /\ TimeInv /\ PauseInv /\ AnswerInv /\ Auth!CredentialsAreOfOneExchange
-----------------------------------------------------------------------------
(* One more slot is time enough for one more wait.                         *)
LEMMA Multiples ==
  ASSUME NEW m \in Nat, NEW n \in Nat, NEW t \in Nat, m <= n
  PROVE  m * t <= n * t
OBVIOUS

LEMMA NextSlot ==
  ASSUME NEW m \in Nat, NEW n \in Nat, NEW t \in Nat, NEW e \in Nat, NEW d \in 0 .. t,
         m + 1 <= n, e <= m * t
  PROVE  e + d <= n * t
<1>1. (m + 1) * t <= n * t
  BY Multiples
<1>2. (m + 1) * t = m * t + t /\ m * t \in Nat /\ n * t \in Nat
  OBVIOUS
<1>. QED BY <1>1, <1>2

LEMMA SlotsAreFew ==
  ASSUME Auth!AuthenticationAssumption, AuthTypeInv
  PROVE  Slots \in Nat /\ Slots <= 2 * (2 * Attempts - 1)
BY DEF Auth!AuthenticationAssumption, AuthTypeInv, Slots

LEMMA EnoughTime ==
  ASSUME Auth!AuthenticationAssumption, AuthTypeInv, TimeInv
  PROVE  Auth!EndsInTime
<1>1. Slots \in Nat /\ Slots <= 2 * (2 * Attempts - 1)
  BY SlotsAreFew
<1>2. 2 * (2 * Attempts - 1) \in Nat /\ Timeout \in Nat
  BY DEF Auth!AuthenticationAssumption
<1>3. Slots * Timeout <= 2 * (2 * Attempts - 1) * Timeout
  BY <1>1, <1>2, Multiples
<1>4. elapsed <= 2 * (2 * Attempts - 1) * Timeout
  <2>. DEFINE low == Slots * Timeout
              high == 2 * (2 * Attempts - 1) * Timeout
  <2>1. low \in Nat /\ high \in Nat
    BY <1>1, <1>2
  <2>2. elapsed <= low /\ low <= high
    BY <1>3 DEF TimeInv
  <2>. HIDE DEF low, high
  <2>3. elapsed <= high
    BY <2>1, <2>2 DEF AuthTypeInv
  <2>. QED BY <2>3 DEF high
<1>5. exchanges <= 2 * Attempts
  BY DEF AuthTypeInv, TimeInv, Auth!AuthenticationAssumption
<1>. QED BY <1>4, <1>5 DEF Auth!EndsInTime

(* Time passes in every step, and every step has a slot for it.            *)
LEMMA SlotTaken ==
  ASSUME Auth!AuthenticationAssumption, AuthTypeInv, TimeInv, AuthTypeInv', Slots' >= Slots + 1,
         NEW t \in 0 .. Timeout, Auth!Took(t)
  PROVE  elapsed' <= Slots' * Timeout
<1>1. Slots \in Nat /\ Slots' \in Nat /\ Timeout \in Nat
  <2>1. Slots \in Nat /\ Slots' \in Int
    BY SlotsAreFew DEF Auth!AuthenticationAssumption, AuthTypeInv, Slots
  <2>. QED BY <2>1 DEF Auth!AuthenticationAssumption
<1>2. elapsed \in Nat /\ elapsed <= Slots * Timeout /\ elapsed' = elapsed + t
  BY DEF AuthTypeInv, TimeInv, Auth!Took
<1>. QED BY <1>1, <1>2, NextSlot

(* What every failed exchange does: a pause, the other backend, or the end.*)
LEMMA FailureSteps ==
  ASSUME Auth!AuthenticationAssumption, AuthIInv, authAt = "exchange", NEW t \in 0 .. Timeout, Auth!Took(t),
         NEW e, e # "Unavailable", lastError' = e, UNCHANGED credentials,
         Auth!FallBack \/ (attempt < Attempts /\ authAt' = "pause" /\ UNCHANGED <<backend, attempt, exchanges>>)
  PROVE  AuthIInv'
<1>1. /\ backend' \in {"mobile", "web"} /\ attempt' \in 1 .. Attempts
      /\ authAt' \in {"exchange", "pause", "done"} /\ exchanges' \in Nat
  BY DEF AuthIInv, AuthTypeInv, Auth!FallBack, Auth!AuthenticationAssumption
<1>2. elapsed' \in Nat
  BY DEF AuthIInv, AuthTypeInv, Auth!Took, Auth!AuthenticationAssumption
<1>3. AuthTypeInv'
  BY <1>1, <1>2 DEF AuthTypeInv
<1>4. Slots' >= Slots + 1 /\ exchanges' <= (IF backend' = "web" THEN Attempts ELSE 0) + attempt'
  BY DEF AuthIInv, AuthTypeInv, TimeInv, Auth!FallBack, Auth!AuthenticationAssumption, Slots
<1>5. TimeInv'
  BY <1>3, <1>4, SlotTaken DEF AuthIInv, TimeInv
<1>6. PauseInv' /\ AnswerInv' /\ Auth!CredentialsAreOfOneExchange'
  BY DEF AuthIInv, Auth!FallBack, PauseInv, AnswerInv, Auth!CredentialsAreOfOneExchange
<1>. QED BY <1>3, <1>5, <1>6 DEF AuthIInv

LEMMA OverIsAFunction ==
  ASSUME NEW f, NEW g
  PROVE  Auth!Over(f, g) = [x \in DOMAIN Auth!Over(f, g) |-> Auth!Over(f, g)[x]]
BY DEF Auth!Over

(* The headers of a success: those of this exchange and of this backend.   *)
Made(names) == Auth!Over(Auth!Token, Auth!Headers(Auth!SessionOf(names)))

LEMMA HeadersOfOne ==
  ASSUME AuthTypeInv, NEW names \in SUBSET Auth!SessionHeaders
  PROVE  /\ \A h \in DOMAIN Made(names) \cap (Auth!SessionHeaders \cup {"Authorization"}) :
               Made(names)[h] = exchanges
         /\ Made(names)["User-Agent"] = backend
         /\ Made(names) \in UNION {[some -> Nat \cup {"mobile", "web"}] : some \in SUBSET Auth!HeaderNames}
<1>. DEFINE session == Auth!SessionOf(names)
            own == IF backend = "mobile" THEN Auth!DeviceHeaders ELSE Auth!WebHeaders
            rest == Auth!Headers(session)
<1>1. DOMAIN Auth!Token = {"Authorization"} /\ Auth!Token["Authorization"] = exchanges
  BY DEF Auth!Token
<1>2. DOMAIN session = names /\ \A h \in names : session[h] = exchanges
  BY DEF Auth!SessionOf
<1>3. /\ DOMAIN own \subseteq Auth!HeaderNames \ (Auth!SessionHeaders \cup {"Authorization"})
      /\ "User-Agent" \in DOMAIN own
      /\ \A h \in DOMAIN own : own[h] = backend
  BY DEF AuthTypeInv, Auth!DeviceHeaders, Auth!WebHeaders, Auth!HeaderNames, Auth!SessionHeaders
<1>4. rest = Auth!Over(session, own) \/ rest = Auth!Over(own, session)
  BY DEF Auth!Headers
<1>5. Made(names) = Auth!Over(Auth!Token, rest)
  BY DEF Made
<1>. HIDE DEF session, own, rest
<1>6. DOMAIN session \cap DOMAIN own = {} /\ DOMAIN Auth!Token \cap (DOMAIN session \cup DOMAIN own) = {}
  BY <1>1, <1>2, <1>3 DEF Auth!SessionHeaders
<1>7. /\ DOMAIN rest = DOMAIN session \cup DOMAIN own
      /\ \A h \in DOMAIN session : rest[h] = session[h]
      /\ \A h \in DOMAIN own : rest[h] = own[h]
  <2>1. DOMAIN session \cap DOMAIN own = {}
    BY <1>6
  <2>2. CASE rest = Auth!Over(session, own)
    BY <2>1, <2>2 DEF Auth!Over
  <2>3. CASE rest = Auth!Over(own, session)
    BY <2>1, <2>3 DEF Auth!Over
  <2>. QED BY <1>4, <2>2, <2>3
<1>8. /\ DOMAIN Made(names) = DOMAIN Auth!Token \cup DOMAIN rest
      /\ \A h \in DOMAIN Auth!Token : Made(names)[h] = Auth!Token[h]
      /\ \A h \in DOMAIN rest : Made(names)[h] = rest[h]
  <2>1. DOMAIN Auth!Token \cap DOMAIN rest = {}
    BY <1>6, <1>7
  <2>. QED BY <1>5, <2>1 DEF Auth!Over
<1>9. /\ DOMAIN Made(names) = {"Authorization"} \cup names \cup DOMAIN own
      /\ Made(names)["Authorization"] = exchanges
      /\ \A h \in names : Made(names)[h] = exchanges
      /\ \A h \in DOMAIN own : Made(names)[h] = backend
  BY <1>1, <1>2, <1>3, <1>7, <1>8
<1>10. Made(names) = [h \in DOMAIN Made(names) |-> Made(names)[h]]
  BY <1>5, OverIsAFunction
<1>11. DOMAIN Made(names) \in SUBSET Auth!HeaderNames
  BY <1>3, <1>9 DEF Auth!HeaderNames
<1>12. \A h \in DOMAIN Made(names) : Made(names)[h] = exchanges \/ Made(names)[h] = backend
  BY <1>9
<1>13. \A h \in DOMAIN Made(names) : Made(names)[h] \in Nat \cup {"mobile", "web"}
  BY <1>12 DEF AuthTypeInv
<1>14. Made(names) \in [DOMAIN Made(names) -> Nat \cup {"mobile", "web"}]
  BY <1>10, <1>13
<1>15. \A h \in DOMAIN Made(names) \cap (Auth!SessionHeaders \cup {"Authorization"}) :
          Made(names)[h] = exchanges
  BY <1>3, <1>9
<1>16. Made(names)["User-Agent"] = backend
  BY <1>3, <1>9
<1>. QED BY <1>11, <1>14, <1>15, <1>16

LEMMA AuthInitIInv == ASSUME Auth!AuthenticationAssumption PROVE Auth!Init => AuthIInv
<1>. SUFFICES ASSUME Auth!Init PROVE AuthIInv
  OBVIOUS
<1>1. AuthTypeInv
  BY DEF Auth!Init, AuthTypeInv, Auth!AuthenticationAssumption
<1>2. Slots = 0 /\ TimeInv
  BY DEF Auth!Init, TimeInv, Slots, Auth!AuthenticationAssumption
<1>. QED BY <1>1, <1>2 DEF Auth!Init, AuthIInv, PauseInv, AnswerInv, Auth!CredentialsAreOfOneExchange

LEMMA FailWithSteps ==
  ASSUME Auth!AuthenticationAssumption, AuthIInv, authAt = "exchange", NEW t \in 0 .. Timeout, Auth!Took(t),
         NEW e, e # "Unavailable", NEW session, Auth!FailWith(e, session), UNCHANGED credentials
  PROVE  AuthIInv'
<1>1. lastError' = e
  BY DEF Auth!FailWith
<1>2. Auth!FallBack \/ (attempt < Attempts /\ authAt' = "pause" /\ UNCHANGED <<backend, attempt, exchanges>>)
  BY DEF Auth!FailWith
<1>. QED BY <1>1, <1>2, FailureSteps

LEMMA SendFailsIInv == ASSUME Auth!AuthenticationAssumption, AuthIInv, Auth!SendFails PROVE AuthIInv'
<1>1. Timeout \in 0 .. Timeout
  BY DEF Auth!AuthenticationAssumption
<1>. QED BY <1>1, FailWithSteps DEF Auth!SendFails

LEMMA ResponseFailsIInv == ASSUME Auth!AuthenticationAssumption, AuthIInv, Auth!ResponseFails PROVE AuthIInv'
<1>1. Timeout \in 0 .. Timeout
  BY DEF Auth!AuthenticationAssumption
<1>2. ASSUME NEW e \in {"InvalidHeader", "Timeout", "Rejected", "Request", "MissingField"}
      PROVE  e # "Unavailable"
  OBVIOUS
<1>3. \A b : \A names \in Auth!Captures(b) : names \in SUBSET Auth!SessionHeaders
  BY DEF Auth!Captures, Auth!SessionHeaders
<1>4. PICK e \in {"InvalidHeader", "Timeout", "Rejected", "Request", "MissingField"},
           t \in 0 .. Timeout, names \in SUBSET Auth!SessionHeaders :
        Auth!FailWith(e, Auth!Captured(Auth!SessionOf(names))) /\ Auth!Took(t)
  BY <1>1, <1>3 DEF Auth!ResponseFails
<1>. QED BY <1>2, <1>4, FailWithSteps DEF Auth!ResponseFails

LEMMA ExpiryOverflowsIInv == ASSUME Auth!AuthenticationAssumption, AuthIInv, Auth!ExpiryOverflows PROVE AuthIInv'
<1>1. PICK t \in 0 .. Timeout : Auth!Took(t)
  BY DEF Auth!ExpiryOverflows
<1>2. authAt = "exchange" /\ Auth!FallBack /\ lastError' = "InvalidExpiry" /\ UNCHANGED credentials
  BY DEF Auth!ExpiryOverflows
<1>. QED BY <1>1, <1>2, FailureSteps

LEMMA SucceedIInv == ASSUME Auth!AuthenticationAssumption, AuthIInv, Auth!Succeed PROVE AuthIInv'
<1>1. PICK t \in 0 .. Timeout, names \in Auth!Captures(None) :
        /\ Auth!Took(t) /\ captured' = Auth!SessionOf(names) /\ authAt' = "done"
        /\ credentials' = [headers |-> Made(names), backend |-> backend, exchange |-> exchanges]
  BY DEF Auth!Succeed, Auth!Captured, Made
<1>2. names \in SUBSET Auth!SessionHeaders
  BY DEF Auth!Captures, Auth!SessionHeaders
<1>3. authAt = "exchange" /\ UNCHANGED <<backend, attempt, exchanges, lastError>>
  BY DEF Auth!Succeed
<1>4. AuthTypeInv'
  BY <1>1, <1>3 DEF AuthIInv, AuthTypeInv, Auth!Took, Auth!AuthenticationAssumption
<1>5. Slots' >= Slots + 1
  BY <1>1, <1>3 DEF AuthIInv, AuthTypeInv, Slots, Auth!AuthenticationAssumption
<1>6. elapsed' <= Slots' * Timeout
  BY <1>1, <1>4, <1>5, SlotTaken DEF AuthIInv
<1>7. TimeInv'
  BY <1>3, <1>6 DEF AuthIInv, TimeInv
<1>8. credentials' \in [headers : UNION {[some -> Nat \cup {"mobile", "web"}] : some \in SUBSET Auth!HeaderNames},
                       backend : {"mobile", "web"}, exchange : Nat]
  BY <1>1, <1>2, HeadersOfOne DEF AuthIInv, AuthTypeInv
<1>9. credentials' # None
  BY <1>8 DEF Auth!AuthenticationAssumption
<1>10. Auth!CredentialsAreOfOneExchange'
  BY <1>1, <1>2, HeadersOfOne DEF AuthIInv, Auth!CredentialsAreOfOneExchange, Auth!SessionHeaders
<1>11. PauseInv' /\ AnswerInv'
  BY <1>1, <1>9 DEF PauseInv, AnswerInv
<1>. QED BY <1>4, <1>7, <1>10, <1>11 DEF AuthIInv

LEMMA PauseIInv == ASSUME Auth!AuthenticationAssumption, AuthIInv, Auth!Pause PROVE AuthIInv'
<1>1. /\ authAt = "pause" /\ Auth!Took(Timeout) /\ Timeout \in 0 .. Timeout
      /\ authAt' = "exchange" /\ attempt' = attempt + 1 /\ exchanges' = exchanges + 1
      /\ UNCHANGED <<backend, lastError, credentials>>
  BY DEF Auth!Pause, Auth!AuthenticationAssumption
<1>2. attempt < Attempts
  BY <1>1 DEF AuthIInv, PauseInv
<1>3. AuthTypeInv'
  BY <1>1, <1>2 DEF AuthIInv, AuthTypeInv, Auth!Took, Auth!AuthenticationAssumption
<1>4. Slots' >= Slots + 1
  BY <1>1 DEF AuthIInv, AuthTypeInv, Slots, Auth!AuthenticationAssumption
<1>5. elapsed' <= Slots' * Timeout
  BY <1>1, <1>3, <1>4, SlotTaken DEF AuthIInv
<1>6. TimeInv'
  BY <1>1, <1>5 DEF AuthIInv, AuthTypeInv, TimeInv, Auth!AuthenticationAssumption
<1>. QED BY <1>1, <1>3, <1>6 DEF AuthIInv, AnswerInv, PauseInv, Auth!CredentialsAreOfOneExchange

LEMMA AuthNextIInv == ASSUME Auth!AuthenticationAssumption PROVE AuthIInv /\ [Auth!Next]_Auth!vars => AuthIInv'
<1>1. ASSUME AuthIInv, UNCHANGED Auth!vars PROVE AuthIInv'
  BY <1>1 DEF Auth!vars, AuthIInv, AuthTypeInv, TimeInv, Slots, PauseInv, AnswerInv, Auth!CredentialsAreOfOneExchange
<1>. QED BY <1>1, SendFailsIInv, ResponseFailsIInv, ExpiryOverflowsIInv, SucceedIInv, PauseIInv DEF Auth!Next
-----------------------------------------------------------------------------
(* Credentials are of one exchange and of one identity, authenticating     *)
(* ends within the attempts and the time both backends have, and an error  *)
(* is returned if no credentials are (backend.rs, authenticate).           *)
THEOREM AuthenticationHolds == Auth!Spec => []AuthenticationIsSound
<1>1. AuthIInv => AuthenticationIsSound
  BY ProcessesAssumption, EnoughTime DEF AuthIInv, AnswerInv, AuthenticationIsSound, Auth!AuthenticationIsSound
<1>2. Auth!Init => AuthIInv
  BY ProcessesAssumption, AuthInitIInv
<1>3. AuthIInv /\ [Auth!Next]_Auth!vars => AuthIInv'
  BY ProcessesAssumption, AuthNextIInv
<1>. QED BY <1>1, <1>2, <1>3, PTL DEF Auth!Spec
-----------------------------------------------------------------------------

(***************************************************************************)
(* The program: any configuration, any files and any number of starts.     *)
(***************************************************************************)
StartSteps ==
  {"load", "log", "backup", "bind", "signer", "cache", "shortlinks", "client", "video",
   "serve", "shutdown", "exited"}
StartStores == {"cache", "definitions"}

StartTypeInv ==
  /\ mode \in {"serve", "check", "backup"} /\ config \in Configs /\ startAt \in StartSteps
  /\ files \in [StartStores -> [version : Nat, kind : StartStores \cup {None}]]

(* Who goes on after the check of the configuration has a valid one.       *)
ModeInv ==
  /\ startAt \notin {"load", "exited"} => Start!IsValid(config)
  /\ startAt = "log" => mode # "check"
  /\ startAt \notin {"load", "log", "backup", "exited"} => mode = "serve"

(* What a process holds at each step.                                      *)
StartDefinitions == IF config.feeds /\ config.shortlinks THEN {"definitions"} ELSE {}
StartVideos == IF config.video THEN {"videos"} ELSE {}
HoldingInv ==
  /\ startAt \in {"load", "log", "backup", "bind", "exited"} => running = {}
  /\ startAt \in {"signer", "cache"} => running = {"listener"}
  /\ startAt = "shortlinks" => running = {"listener", "cache"}
  /\ startAt = "client" => running = {"listener", "cache"} \cup StartDefinitions
  /\ startAt = "video" => running = {"listener", "cache", "refresh"} \cup StartDefinitions
  /\ startAt = "serve" => running = {"listener", "cache", "refresh"} \cup StartDefinitions \cup StartVideos
  /\ startAt = "shutdown" => running = {"cache", "refresh"} \cup StartDefinitions \cup StartVideos
  /\ routes = IF startAt = "serve" THEN Start!Routed ELSE {}

StartIInv == StartTypeInv /\ ModeInv /\ HoldingInv /\ Start!StoresAreApart
-----------------------------------------------------------------------------
(* A process that ends holds nothing.                                      *)
LEMMA ExitIInv ==
  ASSUME StartIInv, Start!Exit, UNCHANGED <<mode, config>>, StartTypeInv'
  PROVE  StartIInv'
BY DEF StartIInv, Start!Exit, ModeInv, HoldingInv, Start!StoresAreApart

(* A step that neither opens nor creates a store.                          *)
LEMMA StoresStay ==
  ASSUME StartIInv, UNCHANGED <<config, files>>, running' \cap StartStores \subseteq running
  PROVE  Start!StoresAreApart'
BY DEF StartIInv, Start!StoresAreApart, Start!File, StartStores

(* A file that a store may open is of that store once it is open.          *)
LEMMA CreatedFile ==
  ASSUME StartIInv, NEW store \in StartStores, Start!Opens(store)
  PROVE  /\ Start!Created(store) \in [StartStores -> [version : Nat, kind : StartStores \cup {None}]]
         /\ Start!Created(store)[Start!File(store)] = [version |-> 1, kind |-> store]
         /\ \A f \in StartStores : files[f].version # 0 => Start!Created(store)[f] = files[f]
<1>1. Start!File(store) \in StartStores
  BY DEF Start!File, StartStores
<1>2. files \in [StartStores -> [version : Nat, kind : StartStores \cup {None}]]
  BY DEF StartIInv, StartTypeInv
<1>3. files[Start!File(store)] \in [version : Nat, kind : StartStores \cup {None}]
  BY <1>1, <1>2
<1>4. CASE files[Start!File(store)].version = 0
  <2>. DEFINE file == [version |-> 1, kind |-> store]
  <2>1. Start!Created(store) = [files EXCEPT ![Start!File(store)] = file]
    BY <1>4 DEF Start!Created
  <2>2. file \in [version : Nat, kind : StartStores \cup {None}]
    OBVIOUS
  <2>. HIDE DEF file
  <2>3. /\ Start!Created(store) \in [StartStores -> [version : Nat, kind : StartStores \cup {None}]]
        /\ Start!Created(store)[Start!File(store)] = file
        /\ \A f \in StartStores : files[f].version # 0 => Start!Created(store)[f] = files[f]
    BY <1>1, <1>2, <1>4, <2>1, <2>2
  <2>. QED BY <2>3 DEF file
<1>5. CASE files[Start!File(store)].version # 0
  <2>1. Start!Created(store) = files
    BY <1>5 DEF Start!Created
  <2>2. files[Start!File(store)].version = 1 /\ files[Start!File(store)].kind = store
    BY <1>3, <1>5 DEF Start!Opens
  <2>3. files[Start!File(store)] = [version |-> 1, kind |-> store]
    BY <1>3, <2>2
  <2>. QED BY <1>2, <2>1, <2>3
<1>. QED BY <1>4, <1>5

LEMMA OpenedApart ==
  ASSUME StartIInv, NEW store \in StartStores, Start!Opens(store), files' = Start!Created(store),
         UNCHANGED config, running' = running \cup {store}
  PROVE  Start!StoresAreApart'
<1>. SUFFICES ASSUME NEW s \in StartStores \cap running'
     PROVE files'[Start!File(s)'] = [version |-> 1, kind |-> s]
  BY DEF Start!StoresAreApart, StartStores
<1>1. PICK f \in StartStores : f = Start!File(s) /\ f = Start!File(s)'
  BY DEF Start!File, StartStores
<1>2. CASE s = store
  BY <1>1, <1>2, CreatedFile
<1>3. CASE s \in running
  <2>1. files[f] = [version |-> 1, kind |-> s]
    BY <1>1, <1>3 DEF StartIInv, Start!StoresAreApart, StartStores
  <2>2. files[f].version # 0
    BY <2>1
  <2>3. files'[f] = files[f]
    BY <2>2, CreatedFile
  <2>. QED BY <1>1, <2>1, <2>3
<1>. QED BY <1>2, <1>3

LEMMA StartInitIInv == ASSUME Start!StartAssumption PROVE Start!Init => StartIInv
<1>. SUFFICES ASSUME Start!Init PROVE StartIInv
  OBVIOUS
<1>1. StartTypeInv
  BY DEF Start!Init, StartTypeInv, StartSteps, StartStores, Start!Absent
<1>. QED BY <1>1 DEF Start!Init, StartIInv, ModeInv, HoldingInv, Start!StoresAreApart

LEMMA LoadIInv == ASSUME StartIInv, Start!Load PROVE StartIInv'
<1>1. StartTypeInv'
  BY DEF StartIInv, StartTypeInv, Start!Load, Start!Exit, Start!Goes, StartSteps
<1>2. CASE Start!Exit
  BY <1>1, <1>2, ExitIInv DEF Start!Load
<1>3. CASE Start!IsValid(config) /\ mode # "check" /\ Start!Goes("log") /\ Start!Stay
  BY <1>1, <1>3, StoresStay DEF StartIInv, Start!Load, Start!Goes, Start!Stay, ModeInv, HoldingInv, Start!IsValid, StartStores
<1>. QED BY <1>2, <1>3 DEF Start!Load

LEMMA InitLoggingIInv == ASSUME StartIInv, Start!InitLogging PROVE StartIInv'
<1>1. StartTypeInv'
  BY DEF StartIInv, StartTypeInv, Start!InitLogging, Start!Exit, Start!Goes, StartSteps
<1>2. CASE Start!Exit
  BY <1>1, <1>2, ExitIInv DEF Start!InitLogging
<1>3. CASE Start!Goes(IF mode = "backup" THEN "backup" ELSE "bind") /\ Start!Stay
  <2>1. /\ startAt = "log" /\ startAt' \in {"backup", "bind"} /\ (startAt' = "bind" => mode # "backup")
        /\ UNCHANGED <<running, routes, mode, config, files>>
    BY <1>3 DEF Start!InitLogging, Start!Goes, Start!Stay
  <2>2. Start!StoresAreApart'
    BY <2>1, StoresStay
  <2>3. ModeInv'
    BY <2>1 DEF StartIInv, StartTypeInv, ModeInv, Start!IsValid
  <2>4. HoldingInv'
    BY <2>1 DEF StartIInv, HoldingInv
  <2>. QED BY <1>1, <2>2, <2>3, <2>4 DEF StartIInv
<1>. QED BY <1>2, <1>3 DEF Start!InitLogging

LEMMA BackUpIInv == ASSUME StartIInv, Start!BackUp PROVE StartIInv'
<1>1. Start!Exit /\ UNCHANGED <<mode, config>>
  BY DEF Start!BackUp
<1>2. files' \in [StartStores -> [version : Nat, kind : StartStores \cup {None}]]
  <2>1. "definitions" \in StartStores
    BY DEF StartStores
  <2>. QED BY <2>1, CreatedFile DEF Start!BackUp, StartIInv, StartTypeInv
<1>3. StartTypeInv'
  BY <1>1, <1>2 DEF StartIInv, StartTypeInv, Start!Exit, StartSteps
<1>. QED BY <1>1, <1>3, ExitIInv

LEMMA BindIInv == ASSUME StartIInv, Start!Bind PROVE StartIInv'
<1>1. StartTypeInv'
  BY DEF StartIInv, StartTypeInv, Start!Bind, Start!Exit, Start!Goes, StartSteps
<1>2. CASE Start!Exit
  BY <1>1, <1>2, ExitIInv DEF Start!Bind
<1>3. CASE Start!Goes("signer") /\ running' = running \cup {"listener"} /\ UNCHANGED routes
  <2>1. running = {} /\ running' = {"listener"}
    BY <1>3 DEF StartIInv, HoldingInv, Start!Bind
  <2>2. Start!StoresAreApart'
    BY <2>1, StoresStay DEF Start!Bind, StartStores
  <2>. QED BY <1>1, <1>3, <2>1, <2>2 DEF StartIInv, Start!Bind, Start!Goes, ModeInv, HoldingInv, Start!IsValid
<1>. QED BY <1>2, <1>3 DEF Start!Bind

LEMMA MakeSignerIInv == ASSUME StartIInv, Start!MakeSigner PROVE StartIInv'
<1>1. StartTypeInv'
  BY DEF StartIInv, StartTypeInv, Start!MakeSigner, Start!Exit, Start!Goes, Start!Stay, StartSteps
<1>2. CASE Start!Exit
  BY <1>1, <1>2, ExitIInv DEF Start!MakeSigner
<1>3. CASE Start!Goes("cache") /\ Start!Stay
  <2>1. Start!StoresAreApart'
    BY <1>3, StoresStay DEF Start!MakeSigner, Start!Stay
  <2>. QED BY <1>1, <1>3, <2>1 DEF StartIInv, Start!MakeSigner, Start!Goes, Start!Stay, ModeInv, HoldingInv, Start!IsValid
<1>. QED BY <1>2, <1>3 DEF Start!MakeSigner

(* A store is opened: the process ends, or holds it and nothing else new.  *)
LEMMA OpenSteps ==
  ASSUME StartIInv, NEW store \in StartStores, NEW next \in StartSteps, Start!Open(store, next),
         UNCHANGED <<mode, config>>
  PROVE  \/ StartIInv'
         \/ /\ startAt' = next /\ running' = running \cup {store} /\ UNCHANGED routes
            /\ StartTypeInv' /\ Start!StoresAreApart'
<1>1. CASE Start!Opens(store)
  <2>1. /\ startAt' = next /\ running' = running \cup {store} /\ UNCHANGED routes
        /\ files' = Start!Created(store)
    BY <1>1 DEF Start!Open, Start!Goes
  <2>2. StartTypeInv'
    BY <1>1, <2>1, CreatedFile DEF StartIInv, StartTypeInv
  <2>. QED BY <1>1, <2>1, <2>2, OpenedApart
<1>2. CASE ~Start!Opens(store)
  <2>1. Start!Exit /\ UNCHANGED files
    BY <1>2 DEF Start!Open
  <2>2. StartTypeInv'
    BY <2>1 DEF StartIInv, StartTypeInv, Start!Exit, StartSteps
  <2>. QED BY <2>1, <2>2, ExitIInv
<1>. QED BY <1>1, <1>2

LEMMA OpenCacheIInv == ASSUME StartIInv, Start!OpenCache PROVE StartIInv'
<1>1. "cache" \in StartStores /\ "shortlinks" \in StartSteps
  BY DEF StartStores, StartSteps
<1>2. CASE /\ startAt' = "shortlinks" /\ running' = running \cup {"cache"} /\ UNCHANGED routes
           /\ StartTypeInv' /\ Start!StoresAreApart'
  BY <1>2 DEF StartIInv, Start!OpenCache, ModeInv, HoldingInv, Start!IsValid
<1>. QED BY <1>1, <1>2, OpenSteps DEF Start!OpenCache

LEMMA OpenShortlinksIInv == ASSUME StartIInv, Start!OpenShortlinks PROVE StartIInv'
<1>1. "definitions" \in StartStores /\ "client" \in StartSteps
  BY DEF StartStores, StartSteps
<1>2. CASE config.feeds /\ config.shortlinks
  <2>1. StartDefinitions = {"definitions"} /\ StartDefinitions' = {"definitions"}
    BY <1>2 DEF StartDefinitions, Start!OpenShortlinks
  <2>2. CASE /\ startAt' = "client" /\ running' = running \cup {"definitions"} /\ UNCHANGED routes
             /\ StartTypeInv' /\ Start!StoresAreApart'
    BY <2>1, <2>2 DEF StartIInv, Start!OpenShortlinks, ModeInv, HoldingInv, Start!IsValid
  <2>. QED BY <1>1, <1>2, <2>2, OpenSteps DEF Start!OpenShortlinks
<1>3. CASE ~(config.feeds /\ config.shortlinks)
  <2>1. /\ startAt = "shortlinks" /\ startAt' = "client"
        /\ UNCHANGED <<running, routes, files, mode, config>>
    BY <1>3 DEF Start!OpenShortlinks, Start!Goes, Start!Stay
  <2>2. StartDefinitions' = {} /\ StartTypeInv'
    BY <1>3, <2>1 DEF StartDefinitions, StartIInv, StartTypeInv, StartSteps
  <2>3. Start!StoresAreApart'
    BY <2>1, StoresStay
  <2>. QED BY <2>1, <2>2, <2>3 DEF StartIInv, ModeInv, HoldingInv, Start!IsValid
<1>. QED BY <1>2, <1>3

LEMMA MakeClientIInv == ASSUME StartIInv, Start!MakeClient PROVE StartIInv'
<1>1. StartTypeInv'
  BY DEF StartIInv, StartTypeInv, Start!MakeClient, Start!Exit, Start!Goes, StartSteps
<1>2. CASE Start!Exit
  BY <1>1, <1>2, ExitIInv DEF Start!MakeClient
<1>3. CASE Start!Goes("video") /\ running' = running \cup {"refresh"} /\ UNCHANGED routes
  <2>1. Start!StoresAreApart'
    BY <1>3, StoresStay DEF Start!MakeClient, StartStores
  <2>2. StartDefinitions' = StartDefinitions
    BY DEF Start!MakeClient, StartDefinitions
  <2>. QED BY <1>1, <1>3, <2>1, <2>2 DEF StartIInv, Start!MakeClient, Start!Goes, ModeInv, HoldingInv, Start!IsValid
<1>. QED BY <1>2, <1>3 DEF Start!MakeClient

LEMMA MakeVideoIInv == ASSUME StartIInv, Start!MakeVideo PROVE StartIInv'
<1>1. config.faults = {} /\ startAt = "video"
  BY DEF StartIInv, Start!MakeVideo, ModeInv, Start!IsValid
<1>2. /\ startAt' = "serve" /\ routes' = Start!Routed /\ running' = running \cup StartVideos
      /\ UNCHANGED <<mode, config, files>>
  BY <1>1 DEF Start!MakeVideo, Start!Goes, StartVideos
<1>3. StartDefinitions' = StartDefinitions /\ StartVideos' = StartVideos /\ Start!Routed' = Start!Routed
  BY <1>2 DEF StartDefinitions, StartVideos, Start!Routed
<1>4. StartTypeInv'
  BY <1>2 DEF StartIInv, StartTypeInv, StartSteps
<1>5. Start!StoresAreApart'
  <2>1. running' \cap StartStores \subseteq running
    BY <1>2 DEF StartVideos, StartStores
  <2>. QED BY <1>2, <2>1, StoresStay
<1>. QED BY <1>1, <1>2, <1>3, <1>4, <1>5 DEF StartIInv, ModeInv, HoldingInv, Start!IsValid

LEMMA ServeIInv == ASSUME StartIInv, Start!Serve PROVE StartIInv'
<1>1. /\ startAt = "serve" /\ startAt' = "shutdown" /\ routes' = {} /\ running' = running \ {"listener"}
      /\ UNCHANGED <<mode, config, files>>
  BY DEF Start!Serve, Start!Goes
<1>2. StartDefinitions' = StartDefinitions /\ StartVideos' = StartVideos
  BY <1>1 DEF StartDefinitions, StartVideos
<1>3. running' = {"cache", "refresh"} \cup StartDefinitions \cup StartVideos
  <2>1. "listener" \notin StartDefinitions \cup StartVideos
    BY DEF StartDefinitions, StartVideos
  <2>. QED BY <1>1, <2>1 DEF StartIInv, HoldingInv
<1>4. StartTypeInv'
  BY <1>1 DEF StartIInv, StartTypeInv, StartSteps
<1>5. Start!StoresAreApart'
  BY <1>1, StoresStay
<1>. QED BY <1>1, <1>2, <1>3, <1>4, <1>5 DEF StartIInv, ModeInv, HoldingInv, Start!IsValid

LEMMA EndsIInv == ASSUME StartIInv, Start!Shutdown \/ Start!Killed PROVE StartIInv'
<1>1. Start!Exit /\ UNCHANGED <<mode, config, files>>
  BY DEF Start!Shutdown, Start!Killed
<1>2. StartTypeInv'
  BY <1>1 DEF StartIInv, StartTypeInv, Start!Exit, StartSteps
<1>. QED BY <1>1, <1>2, ExitIInv

LEMMA RestartIInv == ASSUME StartIInv, Start!Restart PROVE StartIInv'
<1>1. StartTypeInv'
  BY DEF StartIInv, StartTypeInv, Start!Restart, StartSteps
<1>. QED BY <1>1 DEF StartIInv, Start!Restart, ModeInv, HoldingInv, Start!StoresAreApart

LEMMA StartStutterIInv == ASSUME StartIInv, UNCHANGED Start!vars PROVE StartIInv'
BY DEF Start!vars, StartIInv, StartTypeInv, ModeInv, Start!IsValid, HoldingInv, StartDefinitions, StartVideos, Start!Routed,
       Start!StoresAreApart, Start!File

LEMMA StartNextIInv == StartIInv /\ [Start!Next]_Start!vars => StartIInv'
BY LoadIInv, InitLoggingIInv, BackUpIInv, BindIInv, MakeSignerIInv, OpenCacheIInv,
   OpenShortlinksIInv, MakeClientIInv, MakeVideoIInv, ServeIInv, EndsIInv, RestartIInv,
   StartStutterIInv DEF Start!Next
-----------------------------------------------------------------------------
(* What is served has its parts; a check or a backup starts nothing; no    *)
(* two stores use one file, whatever was there before (main.rs, run, and   *)
(* Database::open of storage.rs).                                            *)
THEOREM StartHolds == Start!Spec => []StartIsOrderly
<1>1. ASSUME StartIInv PROVE StartIsOrderly
  <2>1. Start!EndsInOrder
    BY <1>1 DEF StartIInv, StartTypeInv, ModeInv, HoldingInv, Start!EndsInOrder, StartSteps
  <2>2. Start!ServesWithAllParts
    <3>1. CASE startAt # "serve"
      BY <1>1, <3>1 DEF StartIInv, HoldingInv, Start!ServesWithAllParts
    <3>2. CASE startAt = "serve"
      <4>1. /\ Start!IsValid(config) /\ mode = "serve" /\ routes = Start!Routed
            /\ running = {"listener", "cache", "refresh"} \cup StartDefinitions \cup StartVideos
        BY <1>1, <3>2 DEF StartIInv, ModeInv, HoldingInv
      <4>2. config.video => "videos" \in running
        BY <4>1 DEF StartVideos
      <4>3. "/media/video" \in Start!Routed => config.video /\ config.web /\ "/media/video/player" \in Start!Routed
        BY <4>1 DEF Start!Routed, Start!IsValid
      <4>4. "/feeds" \in Start!Routed => config.feeds
        BY DEF Start!Routed
      <4>5. config.feeds /\ config.shortlinks => "definitions" \in running
        BY <4>1 DEF StartDefinitions
      <4>6. config.web \/ config.api
        BY <4>1 DEF Start!IsValid
      <4>. QED BY <4>1, <4>2, <4>3, <4>4, <4>5, <4>6 DEF Start!ServesWithAllParts
    <3>. QED BY <3>1, <3>2
  <2>. QED BY <1>1, <2>1, <2>2 DEF StartIInv, StartIsOrderly, Start!StartIsOrderly
<1>2. Start!Init => StartIInv
  BY ProcessesAssumption, StartInitIInv
<1>3. StartIInv /\ [Start!Next]_Start!vars => StartIInv'
  BY ProcessesAssumption, StartNextIInv
<1>. QED BY <1>1, <1>2, <1>3, PTL DEF Start!Spec
-----------------------------------------------------------------------------
(***************************************************************************)
(* A link to the proxy: any URLs, domains, answers and limit of redirects. *)
(***************************************************************************)
(* What a link may name: a URL, as it is or put plain.                     *)
Targets == Urls \cup {Proxy!Plain(u) : u \in Urls} \cup {None}
LinkPlaces == {"decode", "fetch", "redirect", "finish", "done"}

ProxyTypeInv ==
  /\ route \in {"media", "video"}
  /\ linkAt \in LinkPlaces
  /\ hops \in 0 .. MaxRedirects
  /\ target \in Targets
  /\ asked \in Seq(Targets)
  /\ linkAt \in {"redirect", "finish"} => linkResponse \in Responses

(* Where the proxy goes next is allowed, and there is a call for each hop. *)
AskedInv ==
  /\ linkAt \in {"fetch", "redirect", "finish"} => Proxy!Allowed(route, target) /\ ~known
  /\ \A i \in 1 .. Len(asked) : Proxy!Allowed(route, asked[i])
  /\ linkAt = "decode" => asked = << >> /\ hops = 0
  /\ linkAt = "fetch" => Len(asked) = hops
  /\ linkAt \in {"redirect", "finish"} => Len(asked) = hops + 1
  /\ Len(asked) <= MaxRedirects + 1
  /\ known => asked = << >>

(* A link of this server is one that it decodes; its target is a URL.      *)
LinkInv ==
  /\ link.target \in Targets
  /\ route = "media" /\ Proxy!Made => Proxy!Decodes(route, link)
  /\ Proxy!Done /\ ~linkAnswer.ok /\ linkAnswer.code = "forbidden" => ~Proxy!Decodes(route, link)

ProxyIInv == ProxyTypeInv /\ AskedInv /\ LinkInv /\ Proxy!ManifestsGoOn
-----------------------------------------------------------------------------
(* A link on a page is signed for its route, or was damaged.               *)
LEMMA LinksAreSigned ==
  ASSUME Proxy!ProxyAssumption, NEW u \in Urls, NEW r \in {"media", "video"}, NEW l \in Proxy!Links(r, u)
  PROVE  /\ l.target \in Targets
         /\ r = "media" /\ l.target # None /\ l.signature.policy = "this" => Proxy!Decodes(r, l)
<1>1. {u, Proxy!Plain(u), None} \subseteq Targets
  BY DEF Targets
<1>2. CASE l = [signature |-> Proxy!Signature("other", Proxy!Scope(r), u), target |-> u]
  BY <1>1, <1>2 DEF Proxy!Signature
<1>3. CASE l = [signature |-> Proxy!Signature("this", Proxy!Scope(r), u), target |-> None]
  BY <1>1, <1>3
<1>4. CASE r = "media" /\ l = Proxy!Rewritten(u) /\ l # None /\ "target" \in DOMAIN l
  <2>1. l = Proxy!Signed("media", Proxy!Plain(u)) /\ Proxy!MediaAllowed(Proxy!Plain(u))
    BY <1>4 DEF Proxy!Rewritten, Proxy!Navigation
  <2>2. l.target = Proxy!Plain(u) /\ l.signature = Proxy!Signature("this", Proxy!Scope(r), l.target)
    BY <2>1, <1>4 DEF Proxy!Signed
  <2>3. Proxy!Allowed(r, l.target)
    BY <2>1, <2>2, <1>4 DEF Proxy!Allowed
  <2>. QED BY <1>1, <2>2, <2>3 DEF Proxy!Decodes
<1>5. CASE r = "video" /\ l = Proxy!Signed(r, u)
  BY <1>1, <1>5 DEF Proxy!Signed
<1>. QED BY <1>2, <1>3, <1>4, <1>5 DEF Proxy!Links

LEMMA ProxyInit ==
  ASSUME Proxy!ProxyAssumption, Proxy!Init
  PROVE  ProxyIInv
<1>1. ProxyTypeInv
  BY DEF Proxy!ProxyAssumption, Proxy!Init, ProxyTypeInv, LinkPlaces, Targets
<1>2. AskedInv
  BY DEF Proxy!ProxyAssumption, Proxy!Init, AskedInv
<1>3. link.target \in Targets /\ (route = "media" /\ Proxy!Made => Proxy!Decodes(route, link))
  <2>. route \in {"media", "video"} /\ original \in Urls /\ link \in Proxy!Links(route, original)
    BY DEF Proxy!Init
  <2>. QED BY LinksAreSigned DEF Proxy!Made
<1>4. ~Proxy!Done
  BY DEF Proxy!Init, Proxy!Done
<1>. QED BY <1>1, <1>2, <1>3, <1>4 DEF ProxyIInv, LinkInv, Proxy!ManifestsGoOn

LEMMA ProxyDecode ==
  ASSUME Proxy!ProxyAssumption, ProxyIInv, Proxy!Decode
  PROVE  ProxyIInv'
<1>. USE DEF Proxy!Decode, Proxy!request
<1>1. UNCHANGED <<route, link, known, hops, asked, linkResponse>> /\ linkAt = "decode"
  OBVIOUS
<1>2. \/ ~Proxy!Decodes(route, link) /\ Proxy!Fail("forbidden") /\ UNCHANGED target
      \/ /\ known /\ UNCHANGED target
         /\ Proxy!Finish([ok |-> TRUE, status |-> 304, location |-> FALSE, tag |-> link.signature, links |-> << >>])
      \/ Proxy!Decodes(route, link) /\ ~known /\ target' = link.target /\ linkAt' = "fetch" /\ UNCHANGED linkAnswer
  OBVIOUS
<1>. USE DEF Proxy!Fail, Proxy!Finish
<1>. HIDE DEF Proxy!Decode
<1>3. ProxyTypeInv'
  BY <1>1, <1>2 DEF ProxyIInv, ProxyTypeInv, LinkInv, LinkPlaces, Targets
<1>4. AskedInv'
  BY <1>1, <1>2 DEF ProxyIInv, ProxyTypeInv, AskedInv, Proxy!Decodes, Proxy!ProxyAssumption
<1>5. LinkInv'
  BY <1>1, <1>2 DEF ProxyIInv, LinkInv, Proxy!Made, Proxy!Decodes, Proxy!Done
<1>6. Proxy!ManifestsGoOn'
  BY <1>1, <1>2 DEF Proxy!ManifestsGoOn, Proxy!Done
<1>. QED BY <1>3, <1>4, <1>5, <1>6 DEF ProxyIInv

LEMMA ProxyFetch ==
  ASSUME Proxy!ProxyAssumption, ProxyIInv, Proxy!Fetch
  PROVE  ProxyIInv'
<1>1. UNCHANGED <<route, link, known, hops, target>> /\ linkAt = "fetch" /\ asked' = Append(asked, target)
  BY DEF Proxy!Fetch, Proxy!request
<1>2. \/ Proxy!Fail("failed")
      \/ linkResponse' \in Responses /\ linkAt' \in {"finish", "redirect"} /\ UNCHANGED linkAnswer
  BY DEF Proxy!Fetch
<1>3. /\ asked' \in Seq(Targets) /\ Len(asked') = hops + 1
      /\ \A i \in 1 .. Len(asked') : Proxy!Allowed(route, asked'[i])
  BY <1>1 DEF ProxyIInv, ProxyTypeInv, AskedInv
<1>4. ProxyTypeInv'
  <2>1. linkAt' \in LinkPlaces /\ (linkAt' \in {"redirect", "finish"} => linkResponse' \in Responses)
    BY <1>2 DEF LinkPlaces, Targets, Proxy!Fail, Proxy!Finish
  <2>. QED BY <1>1, <1>3, <2>1 DEF ProxyIInv, ProxyTypeInv
<1>5. \A i \in 1 .. Len(asked') : Proxy!Allowed(route', asked'[i])
  BY <1>1, <1>3
<1>6. linkAt' \in {"finish", "redirect", "done"} /\ ~known'
  BY <1>1, <1>2 DEF ProxyIInv, AskedInv, Proxy!Fail, Proxy!Finish
<1>7. Proxy!Allowed(route', target')
  BY <1>1 DEF ProxyIInv, AskedInv
<1>8. AskedInv'
  BY <1>1, <1>3, <1>5, <1>6, <1>7 DEF AskedInv, ProxyIInv, ProxyTypeInv, Proxy!ProxyAssumption
<1>9. LinkInv' /\ Proxy!ManifestsGoOn'
  BY <1>1, <1>2, <1>6 DEF ProxyIInv, LinkInv, Proxy!ManifestsGoOn, Proxy!Made, Proxy!Decodes, Proxy!Done, Proxy!Fail, Proxy!Finish
<1>. QED BY <1>4, <1>8, <1>9 DEF ProxyIInv

LEMMA ProxyRedirect ==
  ASSUME Proxy!ProxyAssumption, ProxyIInv, Proxy!Redirect
  PROVE  ProxyIInv'
<1>1. UNCHANGED <<route, link, known, asked, linkResponse>> /\ linkAt = "redirect" /\ linkResponse \in Responses
  BY DEF Proxy!Redirect, Proxy!request, ProxyIInv, ProxyTypeInv
<1>2. linkResponse.location \in Urls \cup {None, Invalid} /\ hops \in 0 .. MaxRedirects
  BY <1>1 DEF Proxy!ProxyAssumption, ProxyIInv, ProxyTypeInv
<1>. DEFINE Refused(code) == Proxy!Fail(code) /\ UNCHANGED <<target, hops>>
            Follows == /\ target' = linkResponse.location /\ target' \in Urls /\ Proxy!Allowed(route, linkResponse.location)
                       /\ hops < MaxRedirects /\ hops' = hops + 1 /\ linkAt' = "fetch" /\ UNCHANGED linkAnswer
<1>3. \/ Refused("too many redirects") \/ Refused("bad redirect") \/ Refused("forbidden redirect")
      \/ Follows
  <2>1. CASE hops = MaxRedirects
    BY <2>1 DEF Proxy!Redirect
  <2>2. CASE hops < MaxRedirects /\ linkResponse.location \in {None, Invalid}
    BY <2>2 DEF Proxy!Redirect, Proxy!ProxyAssumption
  <2>3. CASE hops < MaxRedirects /\ linkResponse.location \in Urls /\ ~Proxy!Allowed(route, linkResponse.location)
    BY <2>3 DEF Proxy!Redirect, Proxy!ProxyAssumption, Proxy!Redirected
  <2>4. CASE hops < MaxRedirects /\ linkResponse.location \in Urls /\ Proxy!Allowed(route, linkResponse.location)
    BY <2>4 DEF Proxy!Redirect, Proxy!ProxyAssumption, Proxy!Redirected
  <2>5. hops = MaxRedirects \/ hops < MaxRedirects
    BY <1>2 DEF Proxy!ProxyAssumption
  <2>. HIDE DEF Refused, Follows
  <2>. QED BY <1>2, <2>1, <2>2, <2>3, <2>4, <2>5, Zenon
<1>4. ASSUME NEW code \in {"too many redirects", "bad redirect", "forbidden redirect"}, Refused(code)
       PROVE  /\ UNCHANGED <<target, hops>> /\ linkAt' = "done"
              /\ ~linkAnswer'.ok /\ linkAnswer'.code # "forbidden"
  BY <1>4 DEF Proxy!Fail, Proxy!Finish
<1>5. \/ /\ UNCHANGED <<target, hops>> /\ linkAt' = "done"
          /\ ~linkAnswer'.ok /\ linkAnswer'.code # "forbidden"
       \/ Follows
  <2>. HIDE DEF Refused, Follows
  <2>. QED BY <1>3, <1>4, Zenon
<1>6. ProxyTypeInv'
  BY <1>1, <1>2, <1>5 DEF ProxyIInv, ProxyTypeInv, LinkPlaces, Targets, Proxy!ProxyAssumption
<1>7. /\ \A i \in 1 .. Len(asked') : Proxy!Allowed(route', asked'[i])
      /\ linkAt' = "fetch" => Proxy!Allowed(route', target')
  BY <1>1, <1>5 DEF ProxyIInv, AskedInv, Proxy!Fail, Proxy!Finish
<1>8. linkAt' \in {"fetch", "done"} /\ (linkAt' = "fetch" => hops' = hops + 1)
  BY <1>5 DEF Proxy!Fail, Proxy!Finish
<1>9. AskedInv'
  BY <1>1, <1>2, <1>7, <1>8 DEF AskedInv, ProxyIInv, Proxy!ProxyAssumption
<1>10. LinkInv' /\ Proxy!ManifestsGoOn'
  BY <1>1, <1>5, <1>8 DEF ProxyIInv, LinkInv, Proxy!ManifestsGoOn, Proxy!Made, Proxy!Decodes, Proxy!Done, Proxy!Fail, Proxy!Finish
<1>. QED BY <1>6, <1>9, <1>10 DEF ProxyIInv

(* The links of a manifest that is rewritten are followed in turn.         *)
LEMMA ReferencesAreFollowed ==
  ASSUME Proxy!ProxyAssumption, NEW r, NEW u \in Urls \cup {Data, Invalid}, u # Data, Proxy!ReferenceFits(r, u)
  PROVE  Proxy!Decodes(r, Proxy!Reference(r, u)) /\ Proxy!Reference(r, u).target = u
<1>1. u # None /\ Proxy!Allowed(r, u)
  BY DEF Proxy!ReferenceFits, Proxy!ProxyAssumption
<1>2. Proxy!Reference(r, u) = [signature |-> Proxy!Signature("this", Proxy!Scope(r), u), target |-> u]
  BY DEF Proxy!Reference, Proxy!Signed
<1>. QED BY <1>1, <1>2 DEF Proxy!Decodes

(* What is passed on of an answer.                                         *)
LEMMA PassedOn ==
  ASSUME NEW links
  PROVE  /\ Proxy!Passed(links).ok
         /\ Proxy!Passed(links).links = links
         /\ Proxy!Passed(links).status \in {200, 206, 304} =>
              ~Proxy!Passed(links).location /\ Proxy!Passed(links).tag = link.signature
<1>. DEFINE settled == Proxy!IsSuccess(linkResponse.status) \/ linkResponse.status = 304
            onward == ~settled /\ linkResponse.location # None
            label == IF settled THEN link.signature ELSE None
<1>1. Proxy!Passed(links) =
        [ok |-> TRUE, status |-> linkResponse.status, location |-> onward, tag |-> label, links |-> links]
  BY Zenon DEF Proxy!Passed
<1>2. linkResponse.status \in {200, 206, 304} => ~onward /\ label = link.signature
  BY DEF Proxy!IsSuccess
<1>. HIDE DEF settled, onward, label
<1>. QED BY <1>1, <1>2

LEMMA ProxyFinishes ==
  ASSUME Proxy!ProxyAssumption, ProxyIInv, Proxy!FinishResponse
  PROVE  ProxyIInv'
<1>1. UNCHANGED <<route, link, known, hops, target, asked, linkResponse>> /\ linkAt = "finish" /\ linkResponse \in Responses
  BY DEF Proxy!FinishResponse, Proxy!request, ProxyIInv, ProxyTypeInv
<1>. DEFINE links == [i \in DOMAIN linkResponse.references |-> Proxy!Reference(route, linkResponse.references[i])]
<1>2. \/ Proxy!Finish(Proxy!Passed(<< >>))
      \/ /\ \A i \in DOMAIN linkResponse.references : Proxy!ReferenceFits(route, linkResponse.references[i])
         /\ Proxy!Finish(Proxy!Passed(links))
      \/ Proxy!Fail("bad manifest")
  BY DEF Proxy!FinishResponse
<1>3. linkResponse.references \in Seq(Urls \cup {Data, Invalid})
  BY <1>1 DEF Proxy!ProxyAssumption
<1>4. Len(links) = Len(linkResponse.references) /\ DOMAIN links = 1 .. Len(linkResponse.references)
  BY <1>3
<1>5. linkAt' = "done" /\ (~linkAnswer'.ok => linkAnswer'.code = "bad manifest")
  <2>1. CASE Proxy!Finish(Proxy!Passed(<< >>))
    BY <2>1, PassedOn DEF Proxy!Finish
  <2>2. CASE Proxy!Finish(Proxy!Passed(links))
    BY <2>2, PassedOn DEF Proxy!Finish
  <2>3. CASE Proxy!Fail("bad manifest")
    BY <2>3 DEF Proxy!Finish, Proxy!Fail
  <2>. QED BY <1>2, <2>1, <2>2, <2>3, Zenon
<1>6. ProxyTypeInv'
  BY <1>1, <1>5 DEF ProxyIInv, ProxyTypeInv, LinkPlaces, Targets
<1>7. \A i \in 1 .. Len(asked') : Proxy!Allowed(route', asked'[i])
  BY <1>1 DEF ProxyIInv, AskedInv
<1>8. AskedInv'
  BY <1>1, <1>5, <1>7 DEF AskedInv, ProxyIInv
<1>9. LinkInv'
  BY <1>1, <1>5 DEF ProxyIInv, LinkInv, Proxy!Made, Proxy!Decodes, Proxy!Done
<1>10. Proxy!ManifestsGoOn'
  <2>1. CASE Proxy!Finish(Proxy!Passed(<< >>))
    BY <1>1, <2>1, PassedOn DEF Proxy!ManifestsGoOn, Proxy!Finish
  <2>2. CASE Proxy!Fail("bad manifest")
    BY <2>2 DEF Proxy!ManifestsGoOn, Proxy!Finish, Proxy!Fail
  <2>3. CASE /\ \A i \in DOMAIN linkResponse.references : Proxy!ReferenceFits(route, linkResponse.references[i])
             /\ Proxy!Finish(Proxy!Passed(links))
    <3>1. linkAnswer'.links = links
      BY <2>3, PassedOn DEF Proxy!Finish
    <3>2. \A i \in DOMAIN links : links[i] # Data =>
            Proxy!Decodes(route, links[i]) /\ links[i].target = linkResponse.references[i]
      <4>. SUFFICES ASSUME NEW i \in DOMAIN links, links[i] # Data
                    PROVE  Proxy!Decodes(route, links[i]) /\ links[i].target = linkResponse.references[i]
        OBVIOUS
      <4>1. linkResponse.references[i] \in Urls \cup {Data, Invalid} /\ Proxy!ReferenceFits(route, linkResponse.references[i])
        BY <1>3, <2>3
      <4>2. links[i] = Proxy!Reference(route, linkResponse.references[i])
        OBVIOUS
      <4>3. linkResponse.references[i] # Data
        BY <4>2 DEF Proxy!Reference
      <4>. HIDE DEF links
      <4>. QED BY <4>1, <4>2, <4>3, ReferencesAreFollowed
    <3>3. linkAnswer'.status \in {200, 206, 304} => ~linkAnswer'.location /\ linkAnswer'.tag = link.signature
      BY <2>3, PassedOn DEF Proxy!Finish
    <3>. HIDE DEF links
    <3>. QED BY <1>1, <1>4, <3>1, <3>2, <3>3 DEF Proxy!ManifestsGoOn, Proxy!Decodes
  <2>. QED BY <1>2, <2>1, <2>2, <2>3
<1>. QED BY <1>6, <1>8, <1>9, <1>10 DEF ProxyIInv

LEMMA ProxyStep ==
  ASSUME Proxy!ProxyAssumption, ProxyIInv, [Proxy!Next]_Proxy!vars
  PROVE  ProxyIInv'
<1>1. CASE UNCHANGED Proxy!vars
  BY <1>1 DEF Proxy!vars, ProxyIInv, ProxyTypeInv, AskedInv, LinkInv, Proxy!Made, Proxy!Decodes, Proxy!Allowed, Proxy!MediaAllowed,
       Proxy!VideoAllowed, Proxy!Done, Proxy!ManifestsGoOn
<1>. QED BY <1>1, ProxyDecode, ProxyFetch, ProxyRedirect, ProxyFinishes DEF Proxy!Next

LEMMA ProxyInvSound ==
  ASSUME ProxyIInv
  PROVE  ProxyIsSound
<1>1. Proxy!AskedAllowed
  BY DEF ProxyIInv, ProxyTypeInv, AskedInv, Proxy!AskedAllowed
<1>2. Proxy!LinksAreFollowed
  BY DEF ProxyIInv, LinkInv, Proxy!LinksAreFollowed
<1>. QED BY <1>1, <1>2 DEF ProxyIInv, ProxyIsSound, Proxy!ProxyIsSound

(* The proxy asks only where the route of the link allows it, after any    *)
(* number of redirects; every link of this server is followed; and a       *)
(* manifest goes on with links that are followed in turn (server.rs,       *)
(* proxy_media and proxy_video).                                           *)
THEOREM ProxyHolds == Proxy!Spec => []ProxyIsSound
<1>. Proxy!ProxyAssumption
  BY ProcessesAssumption
<1>1. Proxy!Init => ProxyIInv
  BY ProxyInit
<1>2. ProxyIInv /\ [Proxy!Next]_Proxy!vars => ProxyIInv'
  BY ProxyStep
<1>3. ProxyIInv => ProxyIsSound
  BY ProxyInvSound
<1>. QED BY <1>1, <1>2, <1>3, PTL DEF Proxy!Spec

(***************************************************************************)
(* A search session, for any items, order, budgets and answers of the      *)
(* source: its pages show what matches, each item once and none that was   *)
(* never given; New is chronological, Top is of the whole source.  Holds   *)
(* relates the items that are out, p, to the collection that goes on.      *)
(***************************************************************************)
CollectionEnds == {"none", "exhausted", "stopped"}
ParentStates == {"unasked", "missing", "known"}
Collections ==
  [ready : Seq(Items), tie : Seq(Items), lastTime : Int \cup {None}, cursors : SUBSET Cursors,
   seen : SUBSET Items, parents : [Parents -> ParentStates],
   sourcePages : Nat, sourceCalls : Nat, candidates : Nat, bytes : Nat,
   end : CollectionEnds, failed : BOOLEAN]
PageLabels ==
  {"error", "buffered_results_remain", "more_results_may_exist", "selected_sources_exhausted", "stopped_early"}

PageTypes == [items : Seq(Items), more : BOOLEAN, label : PageLabels]

(* The two orders of pages.                                                *)
Chronological(s) ==
  \A i, j \in 1 .. Len(s) : i < j =>
    Time[s[i]] > Time[s[j]] \/ (Time[s[i]] = Time[s[j]] /\ s[i] < s[j])
BestFirst(s) == \A i, j \in 1 .. Len(s) : i < j => Collected!Best(s[i], s[j])

(* What a collection has put out after the items p, of the items d that    *)
(* were judged: matches, each once, and every one unless it was stopped.   *)
Out(p, c) == p \o c.ready
Held(p, c) == ToSet(Out(p, c)) \cup ToSet(c.tie)
Decided(c, i) ==
  ItemVerdict[i] = "unknown" /\ ParentOf[i] # None => c.parents[ParentOf[i]] # "unasked"
EachOnce(p, c) ==
  /\ IsLine(Out(p, c), Items) /\ IsLine(c.tie, Items) /\ ToSet(Out(p, c)) \cap ToSet(c.tie) = {}
  /\ sort # "new" => c.tie = << >>
Exact(p, c, d) ==
  /\ Held(p, c) \subseteq d
  /\ \A i \in Held(p, c) : Collected!VerdictOf(c, i) = "true"
  /\ c.end # "stopped" =>
       \A i \in d : Decided(c, i) /\ (Collected!VerdictOf(c, i) = "true" => i \in Held(p, c))

(* Under New, while more may come: the tie is of the last time, and what   *)
(* was put out is newer.                                                   *)
Timely(p, c) ==
  sort = "new" =>
    /\ Chronological(Out(p, c))
    /\ c.tie # << >> => c.lastTime # None
    /\ \A i \in ToSet(c.tie) : Time[i] = c.lastTime
    /\ c.lastTime = None => Out(p, c) = << >>
    /\ c.lastTime # None => \A i \in ToSet(Out(p, c)) : Time[i] > c.lastTime
Finished(p, c) ==
  c.end # "none" => c.tie = << >> /\ (sort = "new" => Chronological(Out(p, c)))

(* The parts of the invariant, of a state: the items on its pages p, its   *)
(* collection c, where its advance is, st, and what belongs to that.       *)
TypesHold(c, st, rq, pd, pg, gv) ==
  /\ c \in Collections /\ st \in {"idle", "fetching"} /\ rq \in Nat
  /\ pd \in Seq(Items) /\ pg \in Seq(PageTypes) /\ gv \in SUBSET Items

(* An order that needs all items has not judged those that wait.           *)
WaitingIn(st, pd) == IF st = "fetching" THEN ToSet(pd) ELSE {}
OutHolds(p, c, judged) ==
  /\ EachOnce(p, c) /\ Exact(p, c, judged)
  /\ c.end = "none" => Timely(p, c)
  /\ Finished(p, c)
  /\ c.failed => c.end = "stopped"
PendingHolds(c, st, pd, pg) ==
  /\ IsLine(pd, Items) /\ ToSet(pd) \subseteq c.seen
  /\ st = "fetching" /\ pd # << >> => Collected!CompleteSet /\ pg = << >>
WholeHolds(p, c, st, rq, pg) ==
  Collected!CompleteSet =>
    /\ c.end = "none" =>
         pg = << >> /\ c.sourcePages < MaxPages /\ c.sourcePages = IF st = "fetching" THEN rq ELSE 0
    /\ pg = << >> => c.ready = << >>
    /\ sort = "top" => BestFirst(Out(p, c))
GivenHolds(c, gv) == c.seen \subseteq gv /\ (c.end # "stopped" => c.seen = gv)
LabelsHold(c, st, pg) ==
  \A n \in 1 .. Len(pg) : pg[n].label = "selected_sources_exhausted" =>
    /\ n = Len(pg) /\ ~pg[n].more /\ st = "idle"
    /\ c.end = "exhausted" /\ c.ready = << >> /\ c.tie = << >>
LimitsHold(c) ==
  /\ c.sourceCalls <= MaxSourceCalls /\ c.candidates <= MaxCandidates /\ c.sourcePages <= MaxSourcePages
  /\ c.end = "none" => c.sourceCalls <= 2 * c.sourcePages /\ c.sourcePages < MaxSourcePages

Holds(p, c, st, rq, pd, pg, gv) ==
  /\ TypesHold(c, st, rq, pd, pg, gv) /\ OutHolds(p, c, c.seen \ WaitingIn(st, pd))
  /\ PendingHolds(c, st, pd, pg) /\ WholeHolds(p, c, st, rq, pg)
  /\ GivenHolds(c, gv) /\ LabelsHold(c, st, pg) /\ LimitsHold(c)

(* The items of the pages, one page after the other.                       *)
AllOf(pg) ==
  LET upTo[n \in 0 .. Len(pg)] == IF n = 0 THEN << >> ELSE upTo[n - 1] \o pg[n].items
  IN upTo[Len(pg)]

CollectionIInv == Holds(AllOf(pages), collection, step, requests, pending, pages, given)
-----------------------------------------------------------------------------
(***************************************************************************)
(* The orders in which a session puts items out.                           *)
(***************************************************************************)
(* Items of one time are put out by name.                                  *)
LEMMA TieByName ==
  ASSUME Collected!CollectionAssumption, NEW s, IsLine(s, Items)
  PROVE  LET r == Collected!Arranged(s, <)
         IN /\ IsLine(r, Items) /\ Len(r) = Len(s) /\ ToSet(r) = ToSet(s)
            /\ \A n, m \in 1 .. Len(r) : n < m => r[n] < r[m]
<1>. DEFINE K == DOMAIN s
            R == {p \in K \X K : s[p[1]] < s[p[2]]}
            low(i) == Cardinality({j \in K : s[j] < s[i] \/ (~(s[i] < s[j]) /\ j < i)})
            place == [n \in K |-> CHOOSE i \in K : low(i) = n - 1]
            r == Collected!Arranged(s, <)
<1>1. /\ K = 1 .. Len(s) /\ Len(s) \in Nat /\ \A i \in K : s[i] \in Nat
      /\ \A i, j \in K : s[i] = s[j] => i = j
  BY LenProperties, ElementOfSeq DEF IsLine, Collected!CollectionAssumption
<1>2. \A i, j \in K : <<i, j>> \in R <=> s[i] < s[j]
  OBVIOUS
<1>3. r = [n \in K |-> s[place[n]]]
  BY DEF Collected!Arranged, Collected!Nth, Collected!Cardinality, Cardinality
<1>4. \A i \in K : low(i) = Cardinality(Below(R, K, i))
  <2>1. ASSUME NEW i \in K
        PROVE  {j \in K : s[j] < s[i] \/ (~(s[i] < s[j]) /\ j < i)} = Below(R, K, i)
    <3>. HIDE DEF K, R
    <3>1. \A j \in K : (s[j] < s[i] \/ (~(s[i] < s[j]) /\ j < i)) <=> s[j] < s[i]
      BY <1>1
    <3>. QED BY <1>2, <3>1 DEF Below
  <2>. HIDE DEF K, R
  <2>. QED BY <2>1
<1>5. Orders(R, K)
  <2>1. /\ \A i \in K : ~(s[i] < s[i])
        /\ \A i, j \in K : i = j \/ s[i] < s[j] \/ s[j] < s[i]
        /\ \A i, j, k \in K : s[i] < s[j] /\ s[j] < s[k] => s[i] < s[k]
    <3>. HIDE DEF K
    <3>1. \A i \in K : s[i] \in Int
      BY <1>1
    <3>2. \A i, j, k \in K : s[i] < s[j] /\ s[j] < s[k] => s[i] < s[k]
      BY <3>1
    <3>3. \A i \in K : ~(s[i] < s[i])
      BY <3>1
    <3>4. \A i, j \in K : s[i] # s[j] => s[i] < s[j] \/ s[j] < s[i]
      BY <3>1
    <3>. QED BY <1>1, <3>2, <3>3, <3>4
  <2>. HIDE DEF K, R
  <2>. QED BY <1>2, <2>1 DEF Orders
<1>. HIDE DEF R, low
<1>6. ASSUME NEW n \in K, \E k \in K : Cardinality(Below(R, K, k)) = n - 1
      PROVE  place[n] \in K /\ Cardinality(Below(R, K, place[n])) = n - 1
  <2>1. \E k \in K : low(k) = n - 1
    BY <1>4, <1>6
  <2>2. place[n] = CHOOSE i \in K : low(i) = n - 1
    OBVIOUS
  <2>. HIDE DEF place
  <2>3. place[n] \in K /\ low(place[n]) = n - 1
    BY <2>1, <2>2, Zenon
  <2>. QED BY <1>4, <2>3
<1>. HIDE DEF place, r
<1>7. /\ IsLine(r, Items) /\ Len(r) = Len(s) /\ ToSet(r) = ToSet(s)
      /\ \A n, m \in 1 .. Len(r) : n < m => \E i, j \in K : <<i, j>> \in R /\ r[n] = s[i] /\ r[m] = s[j]
  <2>1. IsPlacing(place, R, K)
    BY <1>6 DEF IsPlacing
  <2>2. IsSorting([n \in K |-> s[place[n]]], s, Items, R)
    BY <1>5, <2>1, SortedByPlaces
  <2>3. IsSorting(r, s, Items, R)
    BY <1>3, <2>2, Zenon
  <2>. QED BY <2>3 DEF IsSorting
<1>8. \A n, m \in 1 .. Len(r) : n < m => r[n] < r[m]
  <2>. HIDE DEF K
  <2>. QED BY <1>2, <1>7, Zenon
<1>. QED BY <1>7, <1>8, Zenon DEF r

(* A source page is put in the order of time, the newest first.            *)
LEMMA BatchByTime ==
  ASSUME Collected!CollectionAssumption, NEW s, IsLine(s, Items)
  PROVE  LET r == Collected!Arranged(s, Collected!Newer)
         IN /\ IsLine(r, Items) /\ Len(r) = Len(s) /\ ToSet(r) = ToSet(s)
            /\ \A n, m \in 1 .. Len(r) : n < m => Time[r[n]] >= Time[r[m]]
<1>. DEFINE K == DOMAIN s
            T(i) == Time[s[i]]
            Ahead(j, i) == T(j) > T(i) \/ (~(T(i) > T(j)) /\ j < i)
            R == {p \in K \X K : Ahead(p[1], p[2])}
            low(i) == Cardinality({j \in K : Ahead(j, i)})
            place == [n \in K |-> CHOOSE i \in K : low(i) = n - 1]
            r == Collected!Arranged(s, Collected!Newer)
<1>1. /\ K = 1 .. Len(s) /\ Len(s) \in Nat /\ \A i \in K : T(i) \in Int
      /\ \A i, j \in K : s[i] = s[j] => i = j
  BY LenProperties, ElementOfSeq DEF IsLine, Collected!CollectionAssumption
<1>2. \A i, j \in K : <<i, j>> \in R <=> Ahead(i, j)
  OBVIOUS
<1>3. r = [n \in K |-> s[place[n]]]
  BY DEF Collected!Arranged, Collected!Nth, Collected!Cardinality, Cardinality, Collected!Newer
<1>4. \A i \in K : low(i) = Cardinality(Below(R, K, i))
  <2>1. ASSUME NEW i \in K
        PROVE  {j \in K : Ahead(j, i)} = Below(R, K, i)
    <3>. HIDE DEF K, R, Ahead
    <3>. QED BY <1>2 DEF Below
  <2>. HIDE DEF K, R, Ahead
  <2>. QED BY <2>1
<1>5. Orders(R, K)
  <2>1. /\ \A i \in K : ~Ahead(i, i)
        /\ \A i, j \in K : i = j \/ Ahead(i, j) \/ Ahead(j, i)
        /\ \A i, j, k \in K : Ahead(i, j) /\ Ahead(j, k) => Ahead(i, k)
    <3>. HIDE DEF K, T
    <3>. QED BY <1>1
  <2>. HIDE DEF K, R, Ahead
  <2>. QED BY <1>2, <2>1 DEF Orders
<1>6. \A i, j \in K : <<i, j>> \in R => T(i) >= T(j)
  <2>. HIDE DEF K, R, T
  <2>. QED BY <1>1, <1>2
<1>. HIDE DEF R, low
<1>7. ASSUME NEW n \in K, \E k \in K : Cardinality(Below(R, K, k)) = n - 1
      PROVE  place[n] \in K /\ Cardinality(Below(R, K, place[n])) = n - 1
  <2>1. \E k \in K : low(k) = n - 1
    BY <1>4, <1>7
  <2>2. place[n] = CHOOSE i \in K : low(i) = n - 1
    OBVIOUS
  <2>. HIDE DEF place
  <2>3. place[n] \in K /\ low(place[n]) = n - 1
    BY <2>1, <2>2, Zenon
  <2>. QED BY <1>4, <2>3
<1>. HIDE DEF place, r
<1>8. /\ IsLine(r, Items) /\ Len(r) = Len(s) /\ ToSet(r) = ToSet(s)
      /\ \A n, m \in 1 .. Len(r) : n < m => \E i, j \in K : <<i, j>> \in R /\ r[n] = s[i] /\ r[m] = s[j]
  <2>1. IsPlacing(place, R, K)
    BY <1>7 DEF IsPlacing
  <2>2. IsSorting([n \in K |-> s[place[n]]], s, Items, R)
    BY <1>5, <2>1, SortedByPlaces
  <2>3. IsSorting(r, s, Items, R)
    BY <1>3, <2>2, Zenon
  <2>. QED BY <2>3 DEF IsSorting
<1>9. \A n, m \in 1 .. Len(r) : n < m => Time[r[n]] >= Time[r[m]]
  <2>. SUFFICES ASSUME NEW n \in 1 .. Len(r), NEW m \in 1 .. Len(r), n < m PROVE Time[r[n]] >= Time[r[m]]
    OBVIOUS
  <2>1. PICK i \in K, j \in K : <<i, j>> \in R /\ r[n] = s[i] /\ r[m] = s[j]
    BY <1>8
  <2>2. T(i) >= T(j)
    BY <1>6, <2>1
  <2>. QED BY <2>1, <2>2
<1>. QED BY <1>8, <1>9 DEF r

(* What is collected whole is put in the order of Best.                    *)
LEMMA WholeByBest ==
  ASSUME Collected!CollectionAssumption, NEW s, IsLine(s, Items)
  PROVE  LET r == Collected!Arranged(s, Collected!Best)
         IN /\ IsLine(r, Items) /\ Len(r) = Len(s) /\ ToSet(r) = ToSet(s)
            /\ BestFirst(r)
<1>. DEFINE K == DOMAIN s
            B(i, j) == Collected!Best(s[i], s[j])
            R == {p \in K \X K : B(p[1], p[2])}
            Ahead(j, i) == B(j, i) \/ (~B(i, j) /\ j < i)
            low(i) == Cardinality({j \in K : Ahead(j, i)})
            place == [n \in K |-> CHOOSE i \in K : low(i) = n - 1]
            r == Collected!Arranged(s, Collected!Best)
<1>0. /\ K = 1 .. Len(s) /\ Len(s) \in Nat /\ \A i \in K : s[i] \in Items
      /\ \A i, j \in K : s[i] = s[j] => i = j
  <2>1. s \in Seq(Items) /\ \A i, j \in 1 .. Len(s) : s[i] = s[j] => i = j
    BY DEF IsLine
  <2>2. K = 1 .. Len(s) /\ Len(s) \in Nat /\ \A i \in 1 .. Len(s) : s[i] \in Items
    BY <2>1, LenProperties, ElementOfSeq
  <2>. HIDE DEF K
  <2>. QED BY <2>1, <2>2
<1>1. /\ K = 1 .. Len(s) /\ Len(s) \in Nat
      /\ \A i \in K : Time[s[i]] \in Int /\ Score[s[i]] \in Int /\ s[i] \in Int
      /\ \A i, j \in K : s[i] = s[j] => i = j
  <2>0. Items \subseteq Nat /\ Time \in [Items -> Int] /\ Score \in [Items -> Int]
    BY Zenon DEF Collected!CollectionAssumption
  <2>1. (\A i \in Items : Time[i] \in Int) /\ (\A i \in Items : Score[i] \in Int) /\ \A i \in Items : i \in Int
    <3>. HIDE DEF K
    <3>1. \A i \in Items : i \in Nat
      BY <2>0
    <3>. QED BY <2>0, <3>1
  <2>. HIDE DEF K
  <2>2. \A i \in K : Time[s[i]] \in Int /\ Score[s[i]] \in Int /\ s[i] \in Int
    BY <1>0, <2>1
  <2>. QED BY <1>0, <2>2
<1>2. \A i, j \in K : <<i, j>> \in R <=> B(i, j)
  OBVIOUS
<1>3. r = [n \in K |-> s[place[n]]]
  BY DEF Collected!Arranged, Collected!Nth, Collected!Cardinality, Cardinality
<1>4. /\ \A i \in K : ~B(i, i)
      /\ \A i, j \in K : i = j \/ B(i, j) \/ B(j, i)
      /\ \A i, j, k \in K : B(i, j) /\ B(j, k) => B(i, k)
  <2>. HIDE DEF K
  <2>1. \A i \in K : ~B(i, i)
    BY <1>1 DEF Collected!Best
  <2>2. \A i, j \in K : i = j \/ B(i, j) \/ B(j, i)
    <3>. SUFFICES ASSUME NEW i \in K, NEW j \in K, i # j PROVE B(i, j) \/ B(j, i)
      OBVIOUS
    <3>1. /\ Time[s[i]] \in Int /\ Score[s[i]] \in Int /\ s[i] \in Int
          /\ Time[s[j]] \in Int /\ Score[s[j]] \in Int /\ s[j] \in Int /\ s[i] # s[j]
      BY <1>1
    <3>. QED BY <3>1 DEF Collected!Best
  <2>3. ASSUME NEW i \in K, NEW j \in K, NEW k \in K, B(i, j), B(j, k) PROVE B(i, k)
    <3>1. /\ Time[s[i]] \in Int /\ Score[s[i]] \in Int /\ s[i] \in Int
          /\ Time[s[j]] \in Int /\ Score[s[j]] \in Int /\ s[j] \in Int
          /\ Time[s[k]] \in Int /\ Score[s[k]] \in Int /\ s[k] \in Int
      BY <1>1
    <3>. QED BY <2>3, <3>1 DEF Collected!Best
  <2>. HIDE DEF B
  <2>. QED BY <2>1, <2>2, <2>3
<1>5. \A i \in K : low(i) = Cardinality(Below(R, K, i))
  <2>1. ASSUME NEW i \in K
        PROVE  {j \in K : Ahead(j, i)} = Below(R, K, i)
    <3>. HIDE DEF K, R, B
    <3>1. \A j \in K : Ahead(j, i) <=> B(j, i)
      BY <1>1, <1>4
    <3>. HIDE DEF Ahead
    <3>. QED BY <1>2, <3>1 DEF Below
  <2>. HIDE DEF K, R, Ahead
  <2>. QED BY <2>1
<1>6. Orders(R, K)
  <2>. HIDE DEF K, R, B
  <2>. QED BY <1>2, <1>4 DEF Orders
<1>. HIDE DEF R, low
<1>7. ASSUME NEW n \in K, \E k \in K : Cardinality(Below(R, K, k)) = n - 1
      PROVE  place[n] \in K /\ Cardinality(Below(R, K, place[n])) = n - 1
  <2>1. \E k \in K : low(k) = n - 1
    BY <1>5, <1>7
  <2>2. place[n] = CHOOSE i \in K : low(i) = n - 1
    OBVIOUS
  <2>. HIDE DEF place
  <2>3. place[n] \in K /\ low(place[n]) = n - 1
    BY <2>1, <2>2, Zenon
  <2>. QED BY <1>5, <2>3
<1>. HIDE DEF place, r
<1>8. /\ IsLine(r, Items) /\ Len(r) = Len(s) /\ ToSet(r) = ToSet(s)
      /\ \A n, m \in 1 .. Len(r) : n < m => \E i, j \in K : <<i, j>> \in R /\ r[n] = s[i] /\ r[m] = s[j]
  <2>1. IsPlacing(place, R, K)
    BY <1>7 DEF IsPlacing
  <2>2. IsSorting([n \in K |-> s[place[n]]], s, Items, R)
    BY <1>6, <2>1, SortedByPlaces
  <2>3. IsSorting(r, s, Items, R)
    BY <1>3, <2>2, Zenon
  <2>. QED BY <2>3 DEF IsSorting
<1>9. BestFirst(r)
  <2>. HIDE DEF K
  <2>. QED BY <1>2, <1>8, Zenon DEF BestFirst
<1>. QED BY <1>8, <1>9 DEF r
-----------------------------------------------------------------------------
(***************************************************************************)
(* The items of a source page that count.                                  *)
(***************************************************************************)
CountStates ==
  [candidates : 0 .. MaxCandidates, bytes : Nat, seen : SUBSET Items, batch : Seq(Items), full : BOOLEAN]
FirstOf(items, n) == {items[k] : k \in 1 .. n}
CountedOf(c, items, n) ==
  {b \in CountStates :
     /\ IsLine(b.batch, Items) /\ ToSet(b.batch) \cap c.seen = {}
     /\ b.seen = c.seen \cup ToSet(b.batch) /\ Len(b.batch) <= n
     /\ b.seen \subseteq c.seen \cup FirstOf(items, n)
     /\ ~b.full => b.seen = c.seen \cup FirstOf(items, n)}

(* Counting an item keeps the types.                                       *)
LEMMA CountTypes ==
  ASSUME Collected!CollectionAssumption, NEW b \in CountStates, NEW item \in Items
  PROVE  /\ Collected!Count(b, item) \in CountStates
         /\ \/ Collected!Count(b, item).full
               /\ Collected!Count(b, item).seen = b.seen /\ Collected!Count(b, item).batch = b.batch
            \/ ~b.full /\ ~Collected!Count(b, item).full /\ Collected!Count(b, item).seen = b.seen \cup {item}
               /\ Collected!Count(b, item).batch = IF item \in b.seen THEN b.batch ELSE Append(b.batch, item)
<1>. DEFINE d == Collected!Count(b, item)
            a == [b EXCEPT !.candidates = @ + 1, !.bytes = @ + Bytes[item]]
<1>1. /\ b.candidates \in 0 .. MaxCandidates /\ b.bytes \in Nat /\ b.seen \in SUBSET Items /\ b.batch \in Seq(Items)
      /\ b.full \in BOOLEAN /\ Bytes[item] \in Nat /\ MaxCandidates \in Nat
  BY DEF CountStates, Collected!CollectionAssumption
<1>. DEFINE ended == Collected!EndsBatch(b)
            retained == Collected!Retain(a, item)
<1>2. d = CASE b.full -> b
            [] ~b.full /\ b.candidates = MaxCandidates -> ended
            [] ~b.full /\ b.candidates < MaxCandidates -> retained
  BY Zenon DEF Collected!Count
<1>. HIDE DEF d, a, ended, retained
<1>3. CASE b.full
  <2>1. d = b
    BY <1>2, <1>3
  <2>. QED BY <1>3, <2>1 DEF d
<1>4. CASE ~b.full /\ b.candidates = MaxCandidates
  <2>1. d = [b EXCEPT !.full = TRUE]
    <3>1. d = ended
      BY <1>1, <1>2, <1>4
    <3>. QED BY <3>1 DEF Collected!EndsBatch, ended
  <2>2. d \in CountStates /\ d.full /\ d.seen = b.seen /\ d.batch = b.batch /\ d.candidates = b.candidates
    BY <2>1 DEF CountStates
  <2>. QED BY <2>2 DEF d
<1>5. CASE ~b.full /\ b.candidates < MaxCandidates
  <2>1. d = Collected!Retain(a, item)
    <3>1. ~(b.candidates = MaxCandidates)
      BY <1>1, <1>5
    <3>2. d = retained
      BY <1>2, <1>5, <3>1
    <3>. QED BY <3>2 DEF retained
  <2>0. /\ a \in CountStates /\ a.candidates = b.candidates + 1 /\ a.seen = b.seen
        /\ a.batch = b.batch /\ a.full = b.full
    <3>0. b.candidates \in 0 .. MaxCandidates /\ MaxCandidates \in Nat /\ b.candidates < MaxCandidates
      BY <1>1, <1>5
    <3>1. b.candidates + 1 \in 0 .. MaxCandidates
      BY <3>0
    <3>2. b.bytes + Bytes[item] \in Nat
      BY <1>1
    <3>. QED BY <3>1, <3>2 DEF CountStates, a
  <2>2. CASE a.bytes > MaxSessionBytes
    <3>1. d = [a EXCEPT !.full = TRUE]
      BY <2>1, <2>2 DEF Collected!Retain, Collected!EndsBatch
    <3>2. d \in CountStates /\ d.full /\ d.seen = a.seen /\ d.batch = a.batch /\ d.candidates = a.candidates
      BY <2>0, <3>1 DEF CountStates
    <3>. QED BY <2>0, <3>2 DEF d
  <2>3. CASE ~(a.bytes > MaxSessionBytes)
    <3>. DEFINE new == IF item \in b.seen THEN b.batch ELSE Append(b.batch, item)
    <3>1. d = [a EXCEPT !.seen = @ \cup {item}, !.batch = new]
      BY <2>0, <2>1, <2>3 DEF Collected!Retain, Collected!IsNew
    <3>2. new \in Seq(Items) /\ b.seen \cup {item} \in SUBSET Items
      BY <1>1, AppendProperties
    <3>. HIDE DEF new
    <3>3. /\ d \in CountStates /\ d.full = a.full /\ d.seen = a.seen \cup {item} /\ d.batch = new
          /\ d.candidates = a.candidates
      BY <2>0, <3>1, <3>2 DEF CountStates
    <3>. QED BY <1>5, <2>0, <3>3 DEF d, new
  <2>. QED BY <2>2, <2>3
<1>6. b.full \/ (~b.full /\ (b.candidates = MaxCandidates \/ b.candidates < MaxCandidates))
  BY <1>1
<1>. QED BY <1>3, <1>4, <1>5, <1>6

(* One item more is counted: it is new to the session or left out.         *)
LEMMA CountStep ==
  ASSUME Collected!CollectionAssumption, NEW c, c.seen \in SUBSET Items, NEW items \in Seq(Items),
         NEW n \in 1 .. Len(items), NEW b \in CountedOf(c, items, n - 1)
  PROVE  Collected!Count(b, items[n]) \in CountedOf(c, items, n)
<1>. DEFINE item == items[n]
            d == Collected!Count(b, item)
            Earlier == FirstOf(items, n - 1)
            Now == FirstOf(items, n)
<1>1. /\ b \in CountStates /\ IsLine(b.batch, Items) /\ ToSet(b.batch) \cap c.seen = {}
      /\ b.seen = c.seen \cup ToSet(b.batch) /\ Len(b.batch) <= n - 1
      /\ b.seen \subseteq c.seen \cup Earlier
      /\ ~b.full => b.seen = c.seen \cup Earlier
  BY DEF CountedOf
<1>2. Len(items) \in Nat /\ n \in Nat /\ item \in Items /\ Len(b.batch) \in Nat
  BY <1>1, LenProperties, ElementOfSeq DEF CountStates
<1>3. Now = Earlier \cup {item}
  <2>1. 1 .. n = (1 .. n - 1) \cup {n}
    BY <1>2
  <2>. QED BY <2>1 DEF FirstOf
<1>. HIDE DEF item, Earlier, Now
<1>4. /\ d \in CountStates
      /\ \/ d.full /\ d.seen = b.seen /\ d.batch = b.batch
         \/ ~b.full /\ ~d.full /\ d.seen = b.seen \cup {item}
            /\ d.batch = IF item \in b.seen THEN b.batch ELSE Append(b.batch, item)
  BY <1>1, <1>2, CountTypes
<1>. HIDE DEF d
<1>8. Len(b.batch) <= n - 1
  BY <1>1
<1>5. CASE d.full /\ d.seen = b.seen /\ d.batch = b.batch
  <2>1. Len(d.batch) <= n
    <3>1. Len(d.batch) = Len(b.batch)
      BY <1>5
    <3>. QED BY <1>2, <1>8, <3>1
  <2>2. d.seen \subseteq c.seen \cup Now
    BY <1>1, <1>3, <1>5
  <2>3. IsLine(d.batch, Items) /\ ToSet(d.batch) \cap c.seen = {} /\ d.seen = c.seen \cup ToSet(d.batch)
    BY <1>1, <1>5
  <2>. QED BY <1>4, <1>5, <2>1, <2>2, <2>3 DEF CountedOf, d, item, Now
<1>6. CASE ~b.full /\ ~d.full /\ d.seen = b.seen \cup {item} /\ item \in b.seen /\ d.batch = b.batch
  <2>1. Len(d.batch) <= n
    <3>1. Len(d.batch) = Len(b.batch)
      BY <1>6
    <3>. QED BY <1>2, <1>8, <3>1
  <2>2. d.seen = c.seen \cup Now
    BY <1>1, <1>3, <1>6
  <2>3. IsLine(d.batch, Items) /\ ToSet(d.batch) \cap c.seen = {} /\ d.seen = c.seen \cup ToSet(d.batch)
    BY <1>1, <1>6
  <2>. QED BY <1>4, <1>6, <2>1, <2>2, <2>3 DEF CountedOf, d, item, Now
<1>7. CASE ~b.full /\ ~d.full /\ d.seen = b.seen \cup {item} /\ item \notin b.seen /\ d.batch = Append(b.batch, item)
  <2>1. /\ IsLine(d.batch, Items) /\ ToSet(d.batch) = ToSet(b.batch) \cup {item}
    BY <1>1, <1>2, <1>7, LineJoined
  <2>2. Len(d.batch) <= n
    <3>1. Len(d.batch) = Len(b.batch) + 1
      BY <1>1, <1>2, <1>7, AppendProperties DEF IsLine
    <3>. QED BY <1>2, <1>8, <3>1
  <2>3. d.seen = c.seen \cup Now
    BY <1>1, <1>3, <1>7
  <2>4. ToSet(d.batch) \cap c.seen = {} /\ d.seen = c.seen \cup ToSet(d.batch)
    BY <1>1, <1>7, <2>1
  <2>. QED BY <1>4, <1>7, <2>1, <2>2, <2>3, <2>4 DEF CountedOf, d, item, Now
<1>. QED BY <1>4, <1>5, <1>6, <1>7

(* After the loop over a page, the batch is what was new on it.            *)
LEMMA CountedIsOf ==
  ASSUME Collected!CollectionAssumption, NEW c \in Collections, c.candidates <= MaxCandidates,
         NEW items \in Seq(Items)
  PROVE  Collected!Counted(c, items) \in CountedOf(c, items, Len(items))
<1>. DEFINE L == Len(items)
            begin == [candidates |-> c.candidates, bytes |-> c.bytes, seen |-> c.seen, batch |-> << >>, full |-> FALSE]
            Passes(f) == f = [n \in 0 .. L |-> IF n = 0 THEN begin ELSE Collected!Count(f[n - 1], items[n])]
            passed == CHOOSE f : Passes(f)
            W == [x \in CountStates \X (1 .. L) |-> Collected!Count(x[1], items[x[2]])]
<1>1. L \in Nat /\ \A n \in 1 .. L : items[n] \in Items
  BY LenProperties, ElementOfSeq
<1>2. c.candidates \in 0 .. MaxCandidates /\ c.bytes \in Nat /\ c.seen \in SUBSET Items
  BY DEF Collections, Collected!CollectionAssumption
<1>3. begin \in CountStates
  BY <1>2 DEF CountStates
<1>4. begin \in CountedOf(c, items, 0)
  <2>1. << >> \in Seq(Items) /\ Len(<< >>) = 0 /\ ToSet(<< >>) = {}
    BY DEF ToSet
  <2>2. IsLine(<< >>, Items)
    BY <2>1 DEF IsLine
  <2>3. FirstOf(items, 0) = {}
    BY DEF FirstOf
  <2>4. begin.batch = << >> /\ begin.seen = c.seen
    OBVIOUS
  <2>. HIDE DEF begin
  <2>5. /\ begin \in CountStates /\ IsLine(begin.batch, Items) /\ ToSet(begin.batch) \cap c.seen = {}
        /\ begin.seen = c.seen \cup ToSet(begin.batch) /\ Len(begin.batch) <= 0
        /\ begin.seen \subseteq c.seen \cup FirstOf(items, 0)
        /\ begin.seen = c.seen \cup FirstOf(items, 0)
    BY <1>3, <2>1, <2>2, <2>3, <2>4
  <2>. QED BY <2>5 DEF CountedOf
<1>5. ASSUME NEW b \in CountStates, NEW n \in 1 .. L
      PROVE  W[<<b, n>>] = Collected!Count(b, items[n]) /\ Collected!Count(b, items[n]) \in CountStates
  BY <1>1, CountTypes
<1>. HIDE DEF begin
<1>6. PICK f \in [0 .. L -> CountStates] : Steps(f, W, begin, L)
  <2>. HIDE DEF W, L
  <2>1. \A b \in CountStates : \A n \in 1 .. L : W[<<b, n>>] \in CountStates
    BY <1>5, Zenon
  <2>2. L \in Nat
    BY <1>1
  <2>. QED BY <1>3, <2>1, <2>2, StepsExist
<1>7. Passes(f)
  <2>1. f = [n \in 0 .. L |-> IF n = 0 THEN begin ELSE W[<<f[n - 1], n>>]]
    BY <1>6 DEF Steps
  <2>2. ASSUME NEW n \in 0 .. L, n # 0
        PROVE  W[<<f[n - 1], n>>] = Collected!Count(f[n - 1], items[n])
    <3>1. n - 1 \in 0 .. L /\ n \in 1 .. L
      BY <1>1, <2>2
    <3>2. f[n - 1] \in CountStates
      BY <1>6, <3>1
    <3>. QED BY <1>5, <3>1, <3>2
  <2>. HIDE DEF W
  <2>. QED BY <2>1, <2>2
<1>8. Passes(passed)
  <2>. HIDE DEF Passes
  <2>. QED BY <1>7, Zenon
<1>9. Collected!Counted(c, items) = passed[L]
  BY Zenon DEF Collected!Counted, begin
<1>. HIDE DEF passed, W
<1>10. \A n \in 0 .. L : passed[n] = IF n = 0 THEN begin ELSE Collected!Count(passed[n - 1], items[n])
  BY <1>8
<1>. DEFINE P == {n \in Nat : n <= L => passed[n] \in CountedOf(c, items, n)}
<1>11. 0 \in P
  BY <1>1, <1>4, <1>10
<1>12. ASSUME NEW n \in P PROVE n + 1 \in P
  <2>1. n \in Nat
    OBVIOUS
  <2>. SUFFICES ASSUME n + 1 <= L PROVE passed[n + 1] \in CountedOf(c, items, n + 1)
    OBVIOUS
  <2>2. n + 1 \in 1 .. L /\ n + 1 \in 0 .. L /\ n + 1 # 0 /\ (n + 1) - 1 = n /\ n <= L
    BY <1>1, <2>1
  <2>3. passed[n + 1] = Collected!Count(passed[n], items[n + 1])
    BY <1>10, <2>2
  <2>4. passed[n] \in CountedOf(c, items, (n + 1) - 1)
    BY <2>2
  <2>5. n + 1 \in 1 .. Len(items)
    BY <2>2
  <2>. HIDE DEF L
  <2>6. Collected!Count(passed[n], items[n + 1]) \in CountedOf(c, items, n + 1)
    BY <1>2, <2>4, <2>5, CountStep
  <2>. QED BY <2>3, <2>6
<1>13. P = Nat
  <2>1. P \in SUBSET Nat
    OBVIOUS
  <2>. HIDE DEF P
  <2>. QED BY <1>11, <1>12, <2>1, SetOfNaturals
<1>. QED BY <1>1, <1>9, <1>13
-----------------------------------------------------------------------------
(***************************************************************************)
(* The parents that are asked for.                                         *)
(***************************************************************************)
SameItems(c, d) ==
  /\ d.ready = c.ready /\ d.tie = c.tie /\ d.lastTime = c.lastTime /\ d.seen = c.seen
  /\ d.sourcePages = c.sourcePages /\ d.candidates = c.candidates

(* Stopping keeps the types, and the items where they are.                 *)
LEMMA StopTypes ==
  ASSUME NEW c \in Collections, NEW f \in BOOLEAN
  PROVE  LET d == Collected!Stop(c, f)
         IN /\ d \in Collections /\ SameItems(c, d)
            /\ d.parents = c.parents /\ d.sourceCalls = c.sourceCalls /\ d.end = "stopped"
BY DEF Collections, CollectionEnds, SameItems, Collected!Stop

HearParents(c, slice, learnt) ==
  [p \in Parents |-> IF p \in learnt THEN "known" ELSE IF p \in slice THEN "missing" ELSE c.parents[p]]

(* An answer about parents only adds to what is known of them.             *)
LEMMA HearTypes ==
  ASSUME NEW c \in Collections, NEW slice, NEW learnt
  PROVE  LET d == Collected!Hear(c, slice, learnt)
         IN /\ d \in Collections /\ SameItems(c, d)
            /\ d.parents = HearParents(c, slice, learnt)
            /\ d.sourceCalls = c.sourceCalls + 1 /\ d.end = c.end /\ d.failed = c.failed
<1>1. c.parents \in [Parents -> ParentStates] /\ c.sourceCalls \in Nat
  BY DEF Collections
<1>2. HearParents(c, slice, learnt) \in [Parents -> ParentStates]
  BY <1>1 DEF HearParents, ParentStates
<1>3. c.sourceCalls + 1 \in Nat
  BY <1>1
<1>4. Collected!Hear(c, slice, learnt) =
        [c EXCEPT !.sourceCalls = c.sourceCalls + 1, !.parents = HearParents(c, slice, learnt)]
  BY DEF Collected!Hear, HearParents, Collections
<1>. QED BY <1>2, <1>3, <1>4 DEF Collections, SameItems

CallStates == [c : Collections, done : BOOLEAN]

(* One call, or none.                                                      *)
IsCall(h, g, slice) ==
  /\ g \in CallStates /\ SameItems(h.c, g.c)
  /\ g.c.sourceCalls <= h.c.sourceCalls + 1
  /\ h.c.sourceCalls <= MaxSourceCalls => g.c.sourceCalls <= MaxSourceCalls
  /\ h.done => g = h
  /\ g.done => h.done \/ g.c.end = "stopped"
  /\ ~g.done => g.c.end = h.c.end /\ g.c.failed = h.c.failed /\ \A p \in slice : g.c.parents[p] # "unasked"
  /\ \A p \in Parents : p \notin slice => g.c.parents[p] = h.c.parents[p]
  /\ \A p \in Parents : h.c.parents[p] # "unasked" => g.c.parents[p] # "unasked"

(* So does a call for parents, answered or not.                            *)
LEMMA AskTypes ==
  ASSUME Collected!CollectionAssumption, NEW h \in CallStates, NEW slice \in SUBSET Parents,
         NEW came \in SUBSET Parents, NEW fails \in BOOLEAN
  PROVE  IsCall(h, Collected!Ask(h, slice, came, fails), slice)
<1>. DEFINE c == h.c
            g == Collected!Ask(h, slice, came, fails)
            kept == came \cap slice
            over == Collected!Overfull(c, kept)
            refused == [c |-> Collected!Stop(c, FALSE), done |-> TRUE]
            heard == Collected!AskParents(c, slice, came, fails)
            called == [c |-> heard, done |-> fails \/ over]
<1>1. c \in Collections /\ h.done \in BOOLEAN /\ c.sourceCalls \in Nat /\ MaxSourceCalls \in Nat
  BY DEF CallStates, Collections, Collected!CollectionAssumption
<1>2. g = CASE h.done -> h
            [] ~h.done /\ ~Collected!MayCall(c) -> refused
            [] ~h.done /\ Collected!MayCall(c) -> called
  BY Zenon DEF Collected!Ask
<1>. HIDE DEF g, c, refused, called
<1>3. CASE h.done
  <2>1. g = h
    BY <1>2, <1>3
  <2>. QED BY <1>1, <1>3, <2>1 DEF g, c, SameItems, IsCall
<1>4. CASE ~h.done /\ ~Collected!MayCall(c)
  <2>1. g = refused
    BY <1>2, <1>4
  <2>2. g.done /\ g.c = Collected!Stop(c, FALSE) /\ g = [c |-> Collected!Stop(c, FALSE), done |-> TRUE]
    BY <2>1 DEF refused
  <2>3. g.c \in Collections /\ SameItems(c, g.c) /\ g.c.parents = c.parents
        /\ g.c.sourceCalls = c.sourceCalls /\ g.c.end = "stopped"
    BY <1>1, <2>2, StopTypes
  <2>4. g \in CallStates
    BY <2>2, <2>3 DEF CallStates
  <2>5. g.c.sourceCalls <= c.sourceCalls + 1 /\ (c.sourceCalls <= MaxSourceCalls => g.c.sourceCalls <= MaxSourceCalls)
    BY <1>1, <2>3
  <2>6. ~h.done /\ g.done
    BY <1>4, <2>2
  <2>. QED BY <2>3, <2>4, <2>5, <2>6 DEF g, c, IsCall
<1>5. CASE ~h.done /\ Collected!MayCall(c)
  <2>1. g = called
    BY <1>2, <1>5
  <2>2. g.c = heard /\ g.done = (fails \/ over) /\ g = [c |-> heard, done |-> fails \/ over]
    BY <2>1 DEF called
  <2>3. c.sourceCalls + 1 <= MaxSourceCalls
    BY <1>1, <1>5 DEF Collected!MayCall
  <2>. DEFINE learnt == IF fails THEN {} ELSE IF over THEN Collected!Retained(c, kept) ELSE kept
              d == Collected!Hear(c, slice, learnt)
  <2>4. heard = IF fails THEN Collected!Stop(d, TRUE) ELSE IF over THEN Collected!Stop(d, FALSE) ELSE d
    <3>1. CASE fails
      BY <3>1 DEF Collected!AskParents
    <3>2. CASE ~fails /\ over
      BY <3>2 DEF Collected!AskParents
    <3>3. CASE ~fails /\ ~over
      BY <3>3 DEF Collected!AskParents
    <3>. QED BY <3>1, <3>2, <3>3
  <2>5. learnt \subseteq slice
    BY DEF Collected!Retained
  <2>. HIDE DEF learnt, heard, over
  <2>6. /\ d \in Collections /\ SameItems(c, d) /\ d.parents = HearParents(c, slice, learnt)
        /\ d.sourceCalls = c.sourceCalls + 1 /\ d.end = c.end /\ d.failed = c.failed
    BY <1>1, HearTypes
  <2>. HIDE DEF d
  <2>7. /\ heard \in Collections /\ SameItems(c, heard) /\ heard.parents = d.parents
        /\ heard.sourceCalls = d.sourceCalls
        /\ IF fails \/ over THEN heard.end = "stopped" ELSE heard.end = d.end /\ heard.failed = d.failed
    <3>1. CASE fails
      BY <2>4, <2>6, <3>1, StopTypes DEF SameItems
    <3>2. CASE ~fails /\ over
      BY <2>4, <2>6, <3>2, StopTypes DEF SameItems
    <3>3. CASE ~fails /\ ~over
      BY <2>4, <2>6, <3>3
    <3>. QED BY <3>1, <3>2, <3>3
  <2>8. g \in CallStates
    BY <2>2, <2>7 DEF CallStates
  <2>9. \A p \in Parents : p \notin slice => g.c.parents[p] = c.parents[p]
    BY <2>2, <2>5, <2>6, <2>7 DEF HearParents
  <2>10. \A p \in slice : g.c.parents[p] # "unasked"
    BY <2>2, <2>6, <2>7 DEF HearParents
  <2>11. \A p \in Parents : c.parents[p] # "unasked" => g.c.parents[p] # "unasked"
    BY <2>9, <2>10
  <2>12. g.c.sourceCalls <= c.sourceCalls + 1 /\ g.c.sourceCalls <= MaxSourceCalls
    BY <1>1, <2>2, <2>3, <2>6, <2>7
  <2>13. SameItems(c, g.c)
    BY <2>2, <2>6, <2>7 DEF SameItems
  <2>14. ~h.done /\ (g.done => g.c.end = "stopped") /\ (~g.done => g.c.end = c.end /\ g.c.failed = c.failed)
    BY <1>5, <2>2, <2>6, <2>7
  <2>. QED BY <2>8, <2>9, <2>10, <2>11, <2>12, <2>13, <2>14 DEF g, c, IsCall
<1>. QED BY <1>3, <1>4, <1>5

(* Every parent is in one of the chunks, and few are in one.               *)
LEMMA RankIsInChunk ==
  ASSUME NEW n \in Nat, NEW size \in Nat \ {0}, NEW k \in Nat, k < n
  PROVE  /\ (n + size - 1) \div size \in Nat /\ k \div size \in Nat
         /\ k \div size + 1 \in 1 .. (n + size - 1) \div size
         /\ n <= size => (n + size - 1) \div size <= 1
<1>. DEFINE q == k \div size
            m == (n + size - 1) \div size
<1>1. q \in Nat /\ m \in Nat
  OBVIOUS
<1>2. size * q <= k /\ n + size - 1 < size * (m + 1)
  OBVIOUS
<1>3. n <= size => m <= 1
  OBVIOUS
<1>. HIDE DEF q, m
<1>4. q < m
  <2>. SUFFICES ASSUME m <= q PROVE FALSE
    BY <1>1
  <2>1. size * (m + 1) <= size * (q + 1)
    BY <1>1
  <2>2. size * (q + 1) = size * q + size
    BY <1>1
  <2>3. size * (m + 1) \in Int /\ size * q \in Int
    BY <1>1
  <2>. HIDE DEF q, m
  <2>. QED BY <1>2, <2>1, <2>2, <2>3
<1>5. q + 1 \in 1 .. m
  BY <1>1, <1>4
<1>. QED BY <1>1, <1>3, <1>5 DEF q, m

(* Every parent that is wanted is in one of the chunks.                    *)
LEMMA ChunksCover ==
  ASSUME Collected!CollectionAssumption, NEW sought \in SUBSET Parents, IsFiniteSet(sought)
  PROVE  /\ Collected!Chunks(sought) \in Nat
         /\ \A n : Collected!Chunk(sought, n) \subseteq sought
         /\ \A p \in sought : \E n \in 1 .. Collected!Chunks(sought) : p \in Collected!Chunk(sought, n)
         /\ Cardinality(sought) <= ChunkSize => Collected!Chunks(sought) <= 1
<1>. DEFINE N == Cardinality(sought)
            rank(p) == Cardinality({q \in sought : q < p})
<1>1. ChunkSize \in Nat \ {0} /\ N \in Nat /\ Parents \subseteq Nat
  BY FS_CardinalityType DEF Collected!CollectionAssumption
<1>2. Collected!Chunks(sought) = (N + ChunkSize - 1) \div ChunkSize
  BY DEF Collected!Chunks, Collected!Cardinality, Cardinality
<1>3. \A n : Collected!Chunk(sought, n) = {p \in sought : rank(p) \div ChunkSize = n - 1}
  BY DEF Collected!Chunk, Collected!Cardinality, Cardinality
<1>4. ASSUME NEW p \in sought PROVE rank(p) \in Nat /\ rank(p) < N
  <2>. DEFINE Less == {q \in sought : q < p}
  <2>1. Less \in SUBSET sought /\ p \notin Less
    BY <1>1
  <2>2. IsFiniteSet(Less) /\ Cardinality(Less) <= N /\ (N = Cardinality(Less) => sought = Less)
    <3>. HIDE DEF Less
    <3>. QED BY <2>1, FS_Subset
  <2>3. Cardinality(Less) \in Nat
    BY <2>2, FS_CardinalityType
  <2>. HIDE DEF Less, N
  <2>4. Cardinality(Less) # N
    BY <2>1, <2>2
  <2>5. Cardinality(Less) < N
    BY <1>1, <2>2, <2>3, <2>4
  <2>. QED BY <2>3, <2>5 DEF Less
<1>. HIDE DEF rank, N
<1>5. (N + ChunkSize - 1) \div ChunkSize \in Nat /\ (N <= ChunkSize => (N + ChunkSize - 1) \div ChunkSize <= 1)
  BY <1>1
<1>6. ASSUME NEW p \in sought PROVE \E n \in 1 .. Collected!Chunks(sought) : p \in Collected!Chunk(sought, n)
  <2>. DEFINE n == rank(p) \div ChunkSize + 1
  <2>1. n \in 1 .. (N + ChunkSize - 1) \div ChunkSize /\ rank(p) \div ChunkSize \in Nat
    BY <1>1, <1>4, RankIsInChunk
  <2>2. rank(p) \div ChunkSize = n - 1
    BY <2>1
  <2>. HIDE DEF n
  <2>. QED BY <1>2, <1>3, <2>1, <2>2
<1>. QED BY <1>2, <1>3, <1>5, <1>6 DEF N

(* What is asked for are parents, finitely many, not asked before.         *)
LEMMA AskedOf ==
  ASSUME Collected!CollectionAssumption, NEW c \in Collections, NEW fresh \in Seq(Items)
  PROVE  LET sought == Collected!Asked(c, fresh)
         IN /\ sought \in SUBSET Parents /\ IsFiniteSet(sought) /\ Cardinality(sought) <= Len(fresh)
            /\ \A p \in sought : c.parents[p] = "unasked"
            /\ \A i \in ToSet(fresh) : Decided(c, i) \/ ParentOf[i] \in sought
<1>. DEFINE sought == Collected!Asked(c, fresh)
            D == {n \in 1 .. Len(fresh) : ItemVerdict[fresh[n]] = "unknown" /\ ParentOf[fresh[n]] \in sought}
            f == [n \in D |-> ParentOf[fresh[n]]]
<1>1. Len(fresh) \in Nat /\ ToSet(fresh) = {fresh[n] : n \in 1 .. Len(fresh)} /\ ToSet(fresh) \subseteq Items
  BY LenProperties, ElementOfSeq DEF ToSet
<1>2. sought = {p \in Parents : /\ c.parents[p] = "unasked"
                             /\ \E i \in ToSet(fresh) : ItemVerdict[i] = "unknown" /\ ParentOf[i] = p}
  BY DEF Collected!Asked, Collected!ToSet, ToSet
<1>. HIDE DEF sought
<1>3. IsFiniteSet(D) /\ Cardinality(D) <= Len(fresh)
  <2>1. IsFiniteSet(1 .. Len(fresh)) /\ Cardinality(1 .. Len(fresh)) = Len(fresh)
    <3>1. 1 \in Int /\ Len(fresh) \in Int /\ Len(fresh) >= 0
      BY <1>1
    <3>2. /\ IsFiniteSet(1 .. Len(fresh))
          /\ Cardinality(1 .. Len(fresh)) = IF 1 > Len(fresh) THEN 0 ELSE Len(fresh) - 1 + 1
      BY <3>1, FS_Interval
    <3>. QED BY <3>1, <3>2
  <2>2. D \in SUBSET (1 .. Len(fresh))
    OBVIOUS
  <2>. HIDE DEF D
  <2>. QED BY <2>1, <2>2, FS_Subset
<1>4. f \in Surjection(D, sought)
  <2>1. f \in [D -> sought]
    OBVIOUS
  <2>2. ASSUME NEW p \in sought PROVE \E n \in D : f[n] = p
    <3>1. PICK i \in ToSet(fresh) : ItemVerdict[i] = "unknown" /\ ParentOf[i] = p
      BY <1>2
    <3>2. PICK n \in 1 .. Len(fresh) : fresh[n] = i
      BY <1>1
    <3>. QED BY <3>1, <3>2
  <2>. HIDE DEF f, D
  <2>. QED BY <2>1, <2>2 DEF Surjection
<1>5. IsFiniteSet(sought) /\ Cardinality(sought) <= Cardinality(D)
  <2>. HIDE DEF f, D
  <2>. QED BY <1>3, <1>4, FS_Surjection
<1>6. Cardinality(sought) <= Len(fresh)
  <2>1. Cardinality(sought) \in Nat /\ Cardinality(D) \in Nat
    <3>. HIDE DEF D
    <3>. QED BY <1>3, <1>5, FS_CardinalityType
  <2>. HIDE DEF D
  <2>. QED BY <1>1, <1>3, <1>5, <2>1
<1>7. ASSUME NEW i \in ToSet(fresh) PROVE Decided(c, i) \/ ParentOf[i] \in sought
  <2>. SUFFICES ASSUME ItemVerdict[i] = "unknown", ParentOf[i] # None, c.parents[ParentOf[i]] = "unasked"
                PROVE  ParentOf[i] \in sought
    BY DEF Decided
  <2>1. ParentOf[i] \in Parents
    BY <1>1 DEF Collected!CollectionAssumption
  <2>. QED BY <1>2, <2>1
<1>. QED BY <1>2, <1>5, <1>6, <1>7 DEF sought

(* After some chunks.                                                      *)
HeardOf(c, sought, n) ==
  {h \in CallStates :
     /\ SameItems(c, h.c)
     /\ h.c.sourceCalls <= c.sourceCalls + n
     /\ c.sourceCalls <= MaxSourceCalls => h.c.sourceCalls <= MaxSourceCalls
     /\ IF h.done THEN h.c.end = "stopped"
        ELSE /\ h.c.end = c.end /\ h.c.failed = c.failed
             /\ \A k \in 1 .. n : \A p \in Collected!Chunk(sought, k) : h.c.parents[p] # "unasked"
     /\ \A p \in Parents : p \notin sought => h.c.parents[p] = c.parents[p]}

(* One chunk more is asked for, unless an earlier one ended the loop.      *)
LEMMA AskStep ==
  ASSUME Collected!CollectionAssumption, NEW c \in Collections, NEW sought \in SUBSET Parents, IsFiniteSet(sought),
         NEW n \in Nat \ {0}, NEW h \in HeardOf(c, sought, n - 1),
         NEW came \in SUBSET Parents, NEW fails \in BOOLEAN
  PROVE  Collected!Ask(h, Collected!Chunk(sought, n), came, fails) \in HeardOf(c, sought, n)
<1>. DEFINE slice == Collected!Chunk(sought, n)
            g == Collected!Ask(h, slice, came, fails)
<1>1. slice \subseteq sought /\ \A k : Collected!Chunk(sought, k) \subseteq sought
  BY ChunksCover
<1>2. /\ h \in CallStates /\ SameItems(c, h.c)
      /\ h.c.sourceCalls <= c.sourceCalls + (n - 1)
      /\ c.sourceCalls <= MaxSourceCalls => h.c.sourceCalls <= MaxSourceCalls
      /\ h.done => h.c.end = "stopped"
      /\ ~h.done => /\ h.c.end = c.end /\ h.c.failed = c.failed
                    /\ \A k \in 1 .. n - 1 : \A p \in Collected!Chunk(sought, k) : h.c.parents[p] # "unasked"
      /\ \A p \in Parents : p \notin sought => h.c.parents[p] = c.parents[p]
  BY DEF HeardOf
<1>. HIDE DEF slice
<1>3. /\ g \in CallStates /\ SameItems(h.c, g.c)
      /\ g.c.sourceCalls <= h.c.sourceCalls + 1
      /\ h.c.sourceCalls <= MaxSourceCalls => g.c.sourceCalls <= MaxSourceCalls
      /\ h.done => g = h
      /\ g.done => h.done \/ g.c.end = "stopped"
      /\ ~g.done => g.c.end = h.c.end /\ g.c.failed = h.c.failed /\ \A p \in slice : g.c.parents[p] # "unasked"
      /\ \A p \in Parents : p \notin slice => g.c.parents[p] = h.c.parents[p]
      /\ \A p \in Parents : h.c.parents[p] # "unasked" => g.c.parents[p] # "unasked"
  <2>1. slice \in SUBSET Parents
    BY <1>1
  <2>. HIDE DEF g
  <2>2. IsCall(h, g, slice)
    BY <1>2, <2>1, AskTypes DEF g
  <2>. QED BY <2>2 DEF IsCall
<1>. HIDE DEF g
<1>4. SameItems(c, g.c)
  BY <1>2, <1>3 DEF SameItems
<1>5. g.c.sourceCalls <= c.sourceCalls + n /\ (c.sourceCalls <= MaxSourceCalls => g.c.sourceCalls <= MaxSourceCalls)
  <2>1. g.c.sourceCalls \in Nat /\ h.c.sourceCalls \in Nat /\ c.sourceCalls \in Nat /\ n \in Nat
    BY <1>2, <1>3 DEF CallStates, Collections
  <2>. QED BY <1>2, <1>3, <2>1
<1>6. \A p \in Parents : p \notin sought => g.c.parents[p] = c.parents[p]
  BY <1>1, <1>2, <1>3
<1>7. g.done => g.c.end = "stopped"
  BY <1>2, <1>3
<1>8. ASSUME ~g.done
      PROVE  /\ g.c.end = c.end /\ g.c.failed = c.failed
             /\ \A k \in 1 .. n : \A p \in Collected!Chunk(sought, k) : g.c.parents[p] # "unasked"
  <2>1. ~h.done
    BY <1>3, <1>8
  <2>2. ASSUME NEW k \in 1 .. n, NEW p \in Collected!Chunk(sought, k) PROVE g.c.parents[p] # "unasked"
    <3>1. CASE k = n
      BY <1>3, <1>8, <3>1 DEF slice
    <3>2. CASE k # n
      <4>1. k \in 1 .. n - 1 /\ p \in Parents
        BY <1>1, <3>2
      <4>. QED BY <1>2, <1>3, <2>1, <4>1
    <3>. QED BY <3>1, <3>2
  <2>. QED BY <1>2, <1>3, <1>8, <2>1, <2>2
<1>. QED BY <1>3, <1>4, <1>5, <1>6, <1>7, <1>8 DEF HeardOf, g, slice

IsHydrated(c, fresh, h) ==
  /\ h \in Collections /\ SameItems(c, h)
  /\ h.sourceCalls <= MaxSourceCalls
  /\ Len(fresh) <= ChunkSize => h.sourceCalls <= c.sourceCalls + 1
  /\ h.end = "stopped" \/ (h.end = c.end /\ h.failed = c.failed)
  /\ \A q \in Parents : c.parents[q] # "unasked" => h.parents[q] = c.parents[q]
  /\ h.end # "stopped" => \A i \in ToSet(fresh) : Decided(h, i)

(* Afterwards, no parent of the batch is left unasked, or the session      *)
(* stopped.                                                                *)
LEMMA HydrateProperties ==
  ASSUME Collected!CollectionAssumption, NEW c \in Collections, c.sourceCalls <= MaxSourceCalls,
         c.failed => c.end = "stopped",
         NEW fresh \in Seq(Items), NEW came \in SUBSET Parents, NEW fails \in BOOLEAN
  PROVE  IsHydrated(c, fresh, Collected!Hydrate(c, fresh, came, fails))
<1>. DEFINE sought == Collected!Asked(c, fresh)
            L == Collected!Chunks(sought)
            begin == [c |-> c, done |-> FALSE]
            A(h, n) == Collected!Ask(h, Collected!Chunk(sought, n), came, fails)
            Passes(f) == f = [n \in 0 .. L |-> IF n = 0 THEN begin ELSE A(f[n - 1], n)]
            passed == CHOOSE f : Passes(f)
            W == [x \in CallStates \X (1 .. L) |-> A(x[1], x[2])]
            d == Collected!Hydrate(c, fresh, came, fails)
<1>1. /\ sought \in SUBSET Parents /\ IsFiniteSet(sought) /\ Cardinality(sought) <= Len(fresh)
      /\ \A p \in sought : c.parents[p] = "unasked"
      /\ \A i \in ToSet(fresh) : Decided(c, i) \/ ParentOf[i] \in sought
  BY AskedOf
<1>2. d = IF c.failed THEN c ELSE passed[L].c
  BY Zenon DEF Collected!Hydrate
<1>. HIDE DEF sought
<1>3. /\ L \in Nat /\ (\A n : Collected!Chunk(sought, n) \subseteq sought)
      /\ \A p \in sought : \E n \in 1 .. L : p \in Collected!Chunk(sought, n)
      /\ Cardinality(sought) <= ChunkSize => L <= 1
  BY <1>1, ChunksCover
<1>. HIDE DEF L
<1>4. begin \in CallStates /\ begin.c = c /\ begin.done = FALSE
  BY DEF CallStates
<1>5. ASSUME NEW h \in CallStates, NEW n \in 1 .. L
      PROVE  W[<<h, n>>] = A(h, n) /\ A(h, n) \in CallStates
  <2>1. Collected!Chunk(sought, n) \in SUBSET Parents
    BY <1>1, <1>3
  <2>2. A(h, n) \in CallStates
    BY <2>1, AskTypes DEF IsCall
  <2>. QED BY <2>2
<1>6. begin \in HeardOf(c, sought, 0)
  <2>1. c.sourceCalls \in Nat /\ c.sourceCalls <= c.sourceCalls + 0
    BY DEF Collections
  <2>. HIDE DEF begin
  <2>. QED BY <1>4, <2>1 DEF HeardOf, SameItems
<1>. HIDE DEF begin, A
<1>7. PICK f \in [0 .. L -> CallStates] : Steps(f, W, begin, L)
  <2>1. \A h \in CallStates : \A n \in 1 .. L : W[<<h, n>>] \in CallStates
    BY <1>5, Zenon
  <2>2. L \in Nat
    BY <1>3
  <2>. HIDE DEF W
  <2>. QED BY <1>4, <2>1, <2>2, StepsExist
<1>8. Passes(f)
  <2>1. f = [n \in 0 .. L |-> IF n = 0 THEN begin ELSE W[<<f[n - 1], n>>]]
    BY <1>7 DEF Steps
  <2>2. ASSUME NEW n \in 0 .. L, n # 0
        PROVE  W[<<f[n - 1], n>>] = A(f[n - 1], n)
    <3>1. n - 1 \in 0 .. L /\ n \in 1 .. L
      BY <1>3, <2>2
    <3>2. f[n - 1] \in CallStates
      BY <1>7, <3>1
    <3>. QED BY <1>5, <3>1, <3>2
  <2>. HIDE DEF W
  <2>. QED BY <2>1, <2>2
<1>9. Passes(passed)
  <2>. HIDE DEF Passes
  <2>. QED BY <1>8, Zenon
<1>. HIDE DEF passed, W
<1>10. \A n \in 0 .. L : passed[n] = IF n = 0 THEN begin ELSE A(passed[n - 1], n)
  BY <1>9
<1>. DEFINE P == {n \in Nat : n <= L => passed[n] \in HeardOf(c, sought, n)}
<1>11. 0 \in P
  BY <1>3, <1>6, <1>10
<1>12. ASSUME NEW n \in P PROVE n + 1 \in P
  <2>1. n \in Nat
    OBVIOUS
  <2>. SUFFICES ASSUME n + 1 <= L PROVE passed[n + 1] \in HeardOf(c, sought, n + 1)
    OBVIOUS
  <2>2. n + 1 \in Nat \ {0} /\ n + 1 \in 0 .. L /\ (n + 1) - 1 = n /\ n <= L
    BY <1>3, <2>1
  <2>3. passed[n + 1] = A(passed[n], n + 1)
    BY <1>10, <2>2
  <2>4. passed[n] \in HeardOf(c, sought, (n + 1) - 1)
    BY <2>2
  <2>5. A(passed[n], n + 1) \in HeardOf(c, sought, n + 1)
    BY <1>1, <2>2, <2>4, AskStep DEF A
  <2>. QED BY <2>3, <2>5
<1>13. P = Nat
  <2>1. P \in SUBSET Nat
    OBVIOUS
  <2>. HIDE DEF P
  <2>. QED BY <1>11, <1>12, <2>1, SetOfNaturals
<1>14. passed[L] \in HeardOf(c, sought, L)
  BY <1>3, <1>13
<1>. DEFINE h == passed[L]
<1>. HIDE DEF d, h, P
<1>15. CASE c.failed
  <2>1. d = c
    BY <1>2, <1>15
  <2>2. c.sourceCalls \in Nat /\ c.sourceCalls <= c.sourceCalls + 1
    BY DEF Collections
  <2>3. IsHydrated(c, fresh, d)
    BY <1>15, <2>1, <2>2 DEF IsHydrated, SameItems
  <2>. QED BY <2>3 DEF d
<1>16. CASE ~c.failed
  <2>1. d = h.c
    BY <1>2, <1>16 DEF h
  <2>2. /\ h \in CallStates /\ SameItems(c, h.c)
        /\ h.c.sourceCalls <= c.sourceCalls + L /\ h.c.sourceCalls <= MaxSourceCalls
        /\ h.done => h.c.end = "stopped"
        /\ ~h.done => /\ h.c.end = c.end /\ h.c.failed = c.failed
                      /\ \A k \in 1 .. L : \A p \in Collected!Chunk(sought, k) : h.c.parents[p] # "unasked"
        /\ \A p \in Parents : p \notin sought => h.c.parents[p] = c.parents[p]
    BY <1>14 DEF HeardOf, h
  <2>3. Len(fresh) <= ChunkSize => d.sourceCalls <= c.sourceCalls + 1
    <3>1. /\ d.sourceCalls \in Nat /\ c.sourceCalls \in Nat /\ Len(fresh) \in Nat /\ Cardinality(sought) \in Nat
          /\ ChunkSize \in Nat
      BY <1>1, <2>1, <2>2, LenProperties, FS_CardinalityType DEF CallStates, Collections, Collected!CollectionAssumption
    <3>2. Len(fresh) <= ChunkSize => L <= 1
      BY <1>1, <1>3, <3>1
    <3>. QED BY <1>3, <2>1, <2>2, <3>1, <3>2
  <2>4. \A p \in Parents : c.parents[p] # "unasked" => d.parents[p] = c.parents[p]
    BY <1>1, <2>1, <2>2
  <2>5. ASSUME d.end # "stopped", NEW i \in ToSet(fresh) PROVE Decided(d, i)
    <3>1. ~h.done
      BY <2>1, <2>2, <2>5
    <3>2. CASE ParentOf[i] \in sought
      <4>1. PICK k \in 1 .. L : ParentOf[i] \in Collected!Chunk(sought, k)
        BY <1>3, <3>2
      <4>. QED BY <2>1, <2>2, <3>1, <4>1 DEF Decided
    <3>3. CASE ParentOf[i] \notin sought
      <4>1. Decided(c, i)
        BY <1>1, <3>3
      <4>2. i \in Items
        <5>1. \A n \in 1 .. Len(fresh) : fresh[n] \in Items
          BY ElementOfSeq
        <5>. QED BY <5>1, LenProperties DEF ToSet
      <4>3. ParentOf[i] # None => ParentOf[i] \in Parents
        BY <4>2 DEF Collected!CollectionAssumption
      <4>. QED BY <2>1, <2>2, <3>3, <4>1, <4>3 DEF Decided
    <3>. QED BY <3>2, <3>3
  <2>6. d \in Collections /\ SameItems(c, d) /\ d.sourceCalls <= MaxSourceCalls
        /\ (d.end = "stopped" \/ (d.end = c.end /\ d.failed = c.failed))
    BY <2>1, <2>2 DEF CallStates
  <2>7. IsHydrated(c, fresh, d)
    BY <2>3, <2>4, <2>5, <2>6 DEF IsHydrated
  <2>. QED BY <2>7 DEF d
<1>. QED BY <1>15, <1>16
-----------------------------------------------------------------------------
(***************************************************************************)
(* What is put out.                                                        *)
(***************************************************************************)
SameBudget(c, d) ==
  /\ d.parents = c.parents /\ d.sourceCalls = c.sourceCalls /\ d.sourcePages = c.sourcePages
  /\ d.candidates = c.candidates /\ d.seen = c.seen /\ d.end = c.end /\ d.failed = c.failed

(* Times are numbers, so that they compare.                                *)
LEMMA TimesAreNumbers ==
  ASSUME Collected!CollectionAssumption, NEW s \in Seq(Items)
  PROVE  /\ Len(s) \in Nat /\ ToSet(s) = {s[n] : n \in 1 .. Len(s)} /\ ToSet(s) \subseteq Items
         /\ \A i \in 1 .. Len(s) : s[i] \in Items /\ s[i] \in ToSet(s) /\ s[i] \in Int /\ Time[s[i]] \in Int
<1>1. Len(s) \in Nat /\ DOMAIN s = 1 .. Len(s) /\ \A i \in 1 .. Len(s) : s[i] \in Items
  BY LenProperties, ElementOfSeq
<1>2. ToSet(s) = {s[n] : n \in 1 .. Len(s)}
  BY <1>1 DEF ToSet
<1>3. Items \subseteq Nat /\ Time \in [Items -> Int]
  BY Zenon DEF Collected!CollectionAssumption
<1>4. \A i \in Items : Time[i] \in Int
  BY <1>3
<1>5. ASSUME NEW i \in 1 .. Len(s) PROVE s[i] \in Int /\ Time[s[i]] \in Int
  <2>1. s[i] \in Items
    BY <1>1
  <2>2. s[i] \in Nat /\ Time[s[i]] \in Int
    BY <1>3, <1>4, <2>1
  <2>. QED BY <2>2
<1>6. ToSet(s) \subseteq Items /\ \A i \in 1 .. Len(s) : s[i] \in ToSet(s)
  BY <1>1, <1>2
<1>. QED BY <1>1, <1>2, <1>5, <1>6

(* A tie of one time follows what is newer.                                *)
LEMMA TieFollows ==
  ASSUME Collected!CollectionAssumption, NEW s \in Seq(Items), NEW t \in Seq(Items), NEW time \in Int,
         Chronological(s), \A i \in ToSet(s) : Time[i] > time,
         \A i \in ToSet(t) : Time[i] = time,
         \A n, m \in 1 .. Len(t) : n < m => t[n] < t[m]
  PROVE  Chronological(s \o t)
<1>. DEFINE r == s \o t
<1>1. /\ Len(s) \in Nat /\ Len(t) \in Nat
      /\ \A i \in 1 .. Len(s) : Time[s[i]] \in Int /\ Time[s[i]] > time
      /\ \A i \in 1 .. Len(t) : Time[t[i]] = time
  BY TimesAreNumbers
<1>2. /\ r \in Seq(Items) /\ Len(r) = Len(s) + Len(t)
      /\ \A i \in 1 .. Len(r) : r[i] = IF i <= Len(s) THEN s[i] ELSE t[i - Len(s)]
  BY ConcatIsFunction
<1>. HIDE DEF r
<1>3. SUFFICES ASSUME NEW i \in 1 .. Len(r), NEW j \in 1 .. Len(r), i < j
               PROVE  Time[r[i]] > Time[r[j]] \/ (Time[r[i]] = Time[r[j]] /\ r[i] < r[j])
  BY DEF Chronological, r
<1>4. CASE j <= Len(s)
  <2>0. i \in 1 .. Len(s) /\ j \in 1 .. Len(s) /\ i <= Len(s)
    BY <1>1, <1>2, <1>3, <1>4
  <2>1. r[i] = s[i] /\ r[j] = s[j] /\ i \in 1 .. Len(s) /\ j \in 1 .. Len(s)
    BY <1>2, <1>4, <2>0
  <2>. QED BY <1>3, <2>1 DEF Chronological
<1>5. CASE i <= Len(s) /\ j > Len(s)
  <2>1. i \in 1 .. Len(s) /\ j - Len(s) \in 1 .. Len(t) /\ r[i] = s[i] /\ r[j] = t[j - Len(s)]
    BY <1>1, <1>2, <1>3, <1>5
  <2>. QED BY <1>1, <2>1
<1>6. CASE i > Len(s)
  <2>1. /\ i - Len(s) \in 1 .. Len(t) /\ j - Len(s) \in 1 .. Len(t) /\ i - Len(s) < j - Len(s)
        /\ r[i] = t[i - Len(s)] /\ r[j] = t[j - Len(s)]
    BY <1>1, <1>2, <1>3, <1>6
  <2>. QED BY <1>1, <2>1
<1>. QED BY <1>1, <1>3, <1>4, <1>5, <1>6

(* Nothing follows what is empty.                                          *)
LEMMA NothingFollows ==
  ASSUME NEW s \in Seq(Items)
  PROVE  s \o << >> = s /\ ToSet(<< >>) = {} /\ Len(<< >>) = 0 /\ << >> \in Seq(Items) /\ IsLine(<< >>, Items)
<1>1. << >> \in Seq(Items) /\ Len(<< >>) = 0 /\ ToSet(<< >>) = {}
  BY DEF ToSet
<1>2. IsLine(<< >>, Items)
  BY <1>1 DEF IsLine
<1>3. s \o << >> = s
  BY ConcatSimplifications
<1>. QED BY <1>1, <1>2, <1>3

(* A flush of an empty tie changes nothing.                                *)
LEMMA EmptyTie ==
  ASSUME Collected!CollectionAssumption
  PROVE  Collected!Arranged(<< >>, <) = << >>
<1>. DEFINE r == Collected!Arranged(<< >>, <)
<1>1. IsLine(<< >>, Items) /\ Len(<< >>) = 0
  <2>1. << >> \in Seq(Items)
    OBVIOUS
  <2>. QED BY <2>1, NothingFollows
<1>2. IsLine(r, Items) /\ Len(r) = 0
  BY <1>1, TieByName, Zenon
<1>. HIDE DEF r
<1>3. r = << >>
  BY <1>2, EmptySeq DEF IsLine
<1>. QED BY <1>3, Zenon DEF r

(* What was decided stays so while the parents do.                         *)
LEMMA SameVerdicts ==
  ASSUME NEW c, NEW d, d.parents = c.parents, NEW i
  PROVE  Collected!VerdictOf(d, i) = Collected!VerdictOf(c, i) /\ (Decided(d, i) <=> Decided(c, i))
BY DEF Collected!VerdictOf, Decided

IsAppended(p, c, g, t) == Out(p, c) \in Seq(Items) /\ Out(p, g) = Out(p, c) \o t

(* What becomes ready is out last.                                         *)
LEMMA OutAppended ==
  ASSUME NEW p \in Seq(Items), NEW c \in Collections, NEW t \in Seq(Items), NEW g, g.ready = c.ready \o t
  PROVE  IsAppended(p, c, g, t)
<1>1. c.ready \in Seq(Items)
  BY DEF Collections
<1>2. p \o c.ready \in Seq(Items)
  BY <1>1, ConcatIsFunction
<1>3. \A a \in Seq(Items) : p \o (a \o t) = (p \o a) \o t
  BY ConcatTwice
<1>4. p \o (c.ready \o t) = (p \o c.ready) \o t
  BY <1>1, <1>3
<1>. QED BY <1>2, <1>4 DEF Out, IsAppended

(* flush_tie                                                               *)
IsFlush(p, c, g) ==
  /\ g \in Collections /\ SameBudget(c, g) /\ g.tie = << >> /\ g.lastTime = c.lastTime
  /\ EachOnce(p, g) /\ Held(p, g) = Held(p, c) /\ ToSet(Out(p, g)) = Held(p, c)
  /\ c.tie = << >> => g.ready = c.ready
  /\ Timely(p, c) /\ sort = "new" =>
       /\ Chronological(Out(p, g))
       /\ c.lastTime = None => Out(p, g) = << >>
       /\ c.lastTime # None => \A i \in ToSet(Out(p, g)) : Time[i] >= c.lastTime

(* The tie goes out by name; what is held and what is judged stay the      *)
(* same.                                                                   *)
LEMMA FlushTieProperties ==
  ASSUME Collected!CollectionAssumption, NEW p \in Seq(Items), NEW c \in Collections, EachOnce(p, c)
  PROVE  IsFlush(p, c, Collected!FlushTie(c))
<1>. DEFINE g == Collected!FlushTie(c)
            t == Collected!Arranged(c.tie, <)
<1>1. c.ready \in Seq(Items) /\ c.tie \in Seq(Items) /\ IsLine(c.tie, Items)
  BY DEF Collections, EachOnce
<1>2. /\ IsLine(t, Items) /\ Len(t) = Len(c.tie) /\ ToSet(t) = ToSet(c.tie)
      /\ \A n, m \in 1 .. Len(t) : n < m => t[n] < t[m]
  BY <1>1, TieByName, Zenon
<1>3. c.tie = << >> => t = << >>
  BY EmptyTie, Zenon
<1>4. g = [c EXCEPT !.ready = c.ready \o t, !.tie = << >>]
  BY DEF Collected!FlushTie
<1>. HIDE DEF g, t
<1>5. t \in Seq(Items)
  BY <1>2 DEF IsLine
<1>6. c.ready \o t \in Seq(Items) /\ << >> \in Seq(Items)
  BY <1>1, <1>5, ConcatIsFunction
<1>7. /\ g \in Collections /\ SameBudget(c, g) /\ g.ready = c.ready \o t
      /\ g.tie = << >> /\ g.lastTime = c.lastTime
  BY <1>4, <1>6 DEF Collections, SameBudget
<1>8. Out(p, g) = Out(p, c) \o t /\ Out(p, c) \in Seq(Items)
  <2>1. g.ready = c.ready \o t
    BY <1>7
  <2>2. IsAppended(p, c, g, t)
    BY <1>5, <2>1, OutAppended
  <2>. QED BY <2>2 DEF IsAppended
<1>9. /\ IsLine(Out(p, c), Items) /\ ToSet(Out(p, c)) \cap ToSet(c.tie) = {}
      /\ sort # "new" => c.tie = << >>
  BY DEF EachOnce
<1>10. IsLine(Out(p, g), Items) /\ ToSet(Out(p, g)) = Held(p, c)
  BY <1>2, <1>8, <1>9, LinesJoined DEF Held
<1>11. ToSet(<< >>) = {} /\ IsLine(<< >>, Items)
  BY NothingFollows
<1>12. EachOnce(p, g) /\ Held(p, g) = Held(p, c)
  BY <1>7, <1>10, <1>11 DEF EachOnce, Held
<1>13. c.tie = << >> => g.ready = c.ready
  BY <1>1, <1>3, <1>7, NothingFollows
<1>14. ASSUME Timely(p, c), sort = "new"
       PROVE  /\ Chronological(Out(p, g))
              /\ c.lastTime = None => Out(p, g) = << >>
              /\ c.lastTime # None => \A i \in ToSet(Out(p, g)) : Time[i] >= c.lastTime
  <2>1. /\ Chronological(Out(p, c))
        /\ c.tie # << >> => c.lastTime # None
        /\ \A i \in ToSet(c.tie) : Time[i] = c.lastTime
        /\ c.lastTime = None => Out(p, c) = << >>
        /\ c.lastTime # None => \A i \in ToSet(Out(p, c)) : Time[i] > c.lastTime
    BY <1>14 DEF Timely
  <2>2. CASE c.lastTime = None
    <3>1. t = << >> /\ Out(p, c) = << >>
      BY <1>3, <2>1, <2>2
    <3>2. Out(p, g) = Out(p, c)
      BY <1>8, <3>1, NothingFollows
    <3>. QED BY <2>1, <2>2, <3>1, <3>2
  <2>3. CASE c.lastTime # None
    <3>1. c.lastTime \in Int
      BY <2>3 DEF Collections
    <3>2. Chronological(Out(p, g))
      <4>1. \A i \in ToSet(t) : Time[i] = c.lastTime
        BY <1>2, <2>1
      <4>2. \A i \in ToSet(Out(p, c)) : Time[i] > c.lastTime
        BY <2>1, <2>3
      <4>3. Chronological(Out(p, c)) /\ \A n, m \in 1 .. Len(t) : n < m => t[n] < t[m]
        BY <1>2, <2>1
      <4>4. Chronological(Out(p, c) \o t)
        BY <1>5, <1>8, <3>1, <4>1, <4>2, <4>3, TieFollows
      <4>. QED BY <1>8, <4>4, Zenon
    <3>3. \A i \in ToSet(Out(p, c)) : Time[i] \in Int
      BY <1>8, TimesAreNumbers
    <3>4. ASSUME NEW i \in ToSet(Out(p, g)) PROVE Time[i] >= c.lastTime
      <4>1. i \in ToSet(Out(p, c)) \/ i \in ToSet(c.tie)
        BY <1>10 DEF Held
      <4>. QED BY <2>1, <2>3, <3>1, <3>3, <4>1
    <3>. QED BY <2>3, <3>2, <3>4
  <2>. QED BY <2>2, <2>3
<1>. QED BY <1>7, <1>10, <1>12, <1>13, <1>14 DEF IsFlush, g
-----------------------------------------------------------------------------
(***************************************************************************)
(* How items are judged.                                                   *)
(***************************************************************************)
IsClosed(p, c, item, g) ==
  /\ g \in Collections /\ SameBudget(c, g)
  /\ EachOnce(p, g) /\ Held(p, g) = Held(p, c)
  /\ Timely(p, g) /\ (sort = "new" => g.lastTime = Time[item])

(* The parts of a collection of which only the last time changed.          *)
IsDated(p, b, time, g) ==
  /\ g \in Collections /\ SameBudget(b, g) /\ Out(p, g) = Out(p, b) /\ g.tie = b.tie /\ g.lastTime = time
  /\ Held(p, g) = Held(p, b) /\ (EachOnce(p, b) => EachOnce(p, g))

(* Setting the time of the last item leaves what is held alone.            *)
LEMMA DatedProperties ==
  ASSUME NEW p, NEW b \in Collections, NEW time \in Int
  PROVE  IsDated(p, b, time, [b EXCEPT !.lastTime = time])
<1>. DEFINE g == [b EXCEPT !.lastTime = time]
<1>1. /\ g \in Collections /\ SameBudget(b, g)
      /\ g.tie = b.tie /\ g.ready = b.ready /\ g.lastTime = time
  BY DEF Collections, SameBudget
<1>. HIDE DEF g
<1>2. Out(p, g) = Out(p, b)
  BY <1>1 DEF Out
<1>3. Held(p, g) = Held(p, b) /\ (EachOnce(p, b) => EachOnce(p, g))
  BY <1>1, <1>2 DEF Held, EachOnce
<1>4. IsDated(p, b, time, g)
  BY <1>1, <1>2, <1>3 DEF IsDated
<1>. QED BY <1>4 DEF g

(* Two steps that leave the budgets alone.                                 *)
LEMMA SameBudgetTwice ==
  ASSUME NEW b, NEW c, NEW d, SameBudget(b, c), SameBudget(c, d)
  PROVE  SameBudget(b, d)
BY DEF SameBudget

(* An older item ends the group before it; what is out stays newer.        *)
LEMMA CloseGroupProperties ==
  ASSUME Collected!CollectionAssumption, NEW p \in Seq(Items), NEW c \in Collections,
         EachOnce(p, c), Timely(p, c), NEW item \in Items,
         sort = "new" => c.lastTime = None \/ Time[item] <= c.lastTime
  PROVE  IsClosed(p, c, item, Collected!CloseGroup(c, item))
<1>. DEFINE g == Collected!CloseGroup(c, item)
            time == Time[item]
            f == Collected!FlushTie(c)
<1>1. time \in Int /\ None \notin Int
  <2>1. Time \in [Items -> Int] /\ None \notin Int
    BY Zenon DEF Collected!CollectionAssumption
  <2>. QED BY <2>1
<1>2. IsFlush(p, c, f)
  BY FlushTieProperties
<1>3. /\ sort # "new" => g = c
      /\ sort = "new" /\ c.lastTime # None /\ time < c.lastTime => g = [f EXCEPT !.lastTime = time]
      /\ sort = "new" /\ ~(c.lastTime # None /\ time < c.lastTime) => g = [c EXCEPT !.lastTime = time]
  BY Zenon DEF Collected!CloseGroup
<1>. HIDE DEF g, time, f
<1>4. CASE sort # "new"
  <2>1. g = c
    BY <1>3, <1>4
  <2>2. IsClosed(p, c, item, c)
    BY <1>4 DEF IsClosed, SameBudget
  <2>. QED BY <2>1, <2>2 DEF g
<1>5. CASE sort = "new" /\ c.lastTime # None /\ time < c.lastTime
  <2>1. g = [f EXCEPT !.lastTime = time] /\ c.lastTime \in Int
    BY <1>3, <1>5 DEF Collections
  <2>2. /\ f \in Collections /\ SameBudget(c, f) /\ f.tie = << >>
        /\ EachOnce(p, f) /\ Held(p, f) = Held(p, c)
    BY <1>2 DEF IsFlush
  <2>3. Chronological(Out(p, f)) /\ \A i \in ToSet(Out(p, f)) : Time[i] >= c.lastTime
    BY <1>2, <1>5 DEF IsFlush
  <2>4. IsDated(p, f, time, g)
    BY <1>1, <2>1, <2>2, DatedProperties
  <2>5. /\ g \in Collections /\ SameBudget(f, g) /\ Out(p, g) = Out(p, f) /\ g.tie = << >> /\ g.lastTime = time
        /\ EachOnce(p, g) /\ Held(p, g) = Held(p, c)
    BY <2>2, <2>4 DEF IsDated
  <2>6. f.ready \in Seq(Items)
    BY <2>2 DEF Collections
  <2>7. Out(p, f) \in Seq(Items)
    BY <2>6, ConcatIsFunction DEF Out
  <2>8. \A i \in ToSet(Out(p, f)) : Time[i] \in Int
    BY <2>7, TimesAreNumbers
  <2>9. ASSUME NEW i \in ToSet(Out(p, f)) PROVE Time[i] > time
    <3>1. Time[i] \in Int /\ Time[i] >= c.lastTime
      BY <2>3, <2>8
    <3>2. c.lastTime \in Int /\ time \in Int /\ time < c.lastTime
      BY <1>1, <1>5, <2>1
    <3>. QED BY <3>1, <3>2
  <2>10. ToSet(<< >>) = {}
    BY DEF ToSet
  <2>11. Timely(p, g)
    BY <1>1, <2>3, <2>5, <2>9, <2>10 DEF Timely
  <2>12. SameBudget(c, g)
    BY <2>2, <2>5, SameBudgetTwice
  <2>. QED BY <2>5, <2>11, <2>12 DEF IsClosed, g, time
<1>6. CASE sort = "new" /\ ~(c.lastTime # None /\ time < c.lastTime)
  <2>1. g = [c EXCEPT !.lastTime = time]
    BY <1>3, <1>6
  <2>2. IsDated(p, c, time, g)
    BY <1>1, <2>1, DatedProperties
  <2>3. /\ g \in Collections /\ SameBudget(c, g) /\ Out(p, g) = Out(p, c) /\ g.tie = c.tie /\ g.lastTime = time
        /\ EachOnce(p, g) /\ Held(p, g) = Held(p, c)
    BY <2>2 DEF IsDated
  <2>4. /\ Chronological(Out(p, c))
        /\ c.tie # << >> => c.lastTime # None
        /\ \A i \in ToSet(c.tie) : Time[i] = c.lastTime
        /\ c.lastTime = None => Out(p, c) = << >>
        /\ c.lastTime # None => \A i \in ToSet(Out(p, c)) : Time[i] > c.lastTime
    BY <1>6 DEF Timely
  <2>5. ToSet(<< >>) = {}
    BY DEF ToSet
  <2>6. c.lastTime \in Int \cup {None}
    BY DEF Collections
  <2>7. c.lastTime = None \/ time <= c.lastTime
    BY <1>6 DEF time
  <2>8. c.lastTime = None \/ c.lastTime = time
    BY <1>1, <1>6, <2>6, <2>7
  <2>9. (\A i \in ToSet(c.tie) : Time[i] = time) /\ (\A i \in ToSet(Out(p, c)) : Time[i] > time)
    BY <2>4, <2>5, <2>8
  <2>10. Timely(p, g)
    BY <1>1, <2>3, <2>4, <2>9 DEF Timely
  <2>. QED BY <2>3, <2>10 DEF IsClosed, g, time
<1>. QED BY <1>4, <1>5, <1>6 DEF g

(* A match joins the tie of its time, or is ready.                         *)
IsAdmitted(p, b, item, g) ==
  /\ g \in Collections /\ SameBudget(b, g)
  /\ EachOnce(p, g) /\ Held(p, g) = Held(p, b) \cup {item}
  /\ Timely(p, g) /\ g.lastTime = b.lastTime

(* A match joins the tie or what is ready, after all that is there.        *)
LEMMA AdmitProperties ==
  ASSUME NEW p \in Seq(Items), NEW b \in Collections, NEW item \in Items, None \notin Int,
         EachOnce(p, b), Timely(p, b), item \notin Held(p, b),
         sort = "new" => b.lastTime = Time[item] /\ Time[item] \in Int
  PROVE  IsAdmitted(p, b, item, Collected!Admit(b, item))
<1>. DEFINE g == Collected!Admit(b, item)
<1>1. /\ b.ready \in Seq(Items) /\ b.tie \in Seq(Items)
  BY DEF Collections
<1>2. /\ IsLine(Out(p, b), Items) /\ IsLine(b.tie, Items) /\ ToSet(Out(p, b)) \cap ToSet(b.tie) = {}
      /\ sort # "new" => b.tie = << >>
  BY DEF EachOnce
<1>3. item \notin ToSet(Out(p, b)) /\ item \notin ToSet(b.tie)
  BY DEF Held
<1>4. CASE sort = "new"
  <2>1. g = [b EXCEPT !.tie = Append(b.tie, item)]
    BY <1>4 DEF Collected!Admit
  <2>. HIDE DEF g
  <2>2. /\ IsLine(Append(b.tie, item), Items)
        /\ ToSet(Append(b.tie, item)) = ToSet(b.tie) \cup {item}
    BY <1>2, <1>3, LineJoined
  <2>3. Append(b.tie, item) \in Seq(Items)
    BY <2>2 DEF IsLine
  <2>4. /\ g \in Collections /\ SameBudget(b, g) /\ g.ready = b.ready
        /\ g.tie = Append(b.tie, item) /\ g.lastTime = b.lastTime
    BY <2>1, <2>3 DEF Collections, SameBudget
  <2>5. Out(p, g) = Out(p, b)
    BY <2>4 DEF Out
  <2>6. EachOnce(p, g)
    BY <1>2, <1>3, <1>4, <2>2, <2>4, <2>5 DEF EachOnce
  <2>7. Held(p, g) = Held(p, b) \cup {item}
    BY <2>2, <2>4, <2>5 DEF Held
  <2>8. /\ Chronological(Out(p, b)) /\ b.lastTime # None
        /\ \A i \in ToSet(b.tie) : Time[i] = b.lastTime
        /\ \A i \in ToSet(Out(p, b)) : Time[i] > b.lastTime
    BY <1>4 DEF Timely
  <2>9. \A i \in ToSet(g.tie) : Time[i] = b.lastTime
    BY <1>4, <2>2, <2>4, <2>8
  <2>10. Timely(p, g)
    BY <2>4, <2>5, <2>8, <2>9 DEF Timely
  <2>. QED BY <2>4, <2>6, <2>7, <2>10 DEF IsAdmitted, g
<1>5. CASE sort # "new"
  <2>1. g = [b EXCEPT !.ready = Append(b.ready, item)]
    BY <1>5 DEF Collected!Admit
  <2>. HIDE DEF g
  <2>2. Append(b.ready, item) \in Seq(Items)
    BY <1>1, AppendProperties
  <2>3. /\ g \in Collections /\ SameBudget(b, g) /\ g.ready = Append(b.ready, item)
        /\ g.tie = b.tie /\ g.lastTime = b.lastTime
    BY <2>1, <2>2 DEF Collections, SameBudget
  <2>4. \A a \in Seq(Items) : p \o Append(a, item) = Append(p \o a, item)
    BY ConcatAppended
  <2>5. Out(p, g) = Append(Out(p, b), item)
    BY <1>1, <2>3, <2>4 DEF Out
  <2>6. /\ IsLine(Append(Out(p, b), item), Items)
        /\ ToSet(Append(Out(p, b), item)) = ToSet(Out(p, b)) \cup {item}
    BY <1>2, <1>3, LineJoined
  <2>7. EachOnce(p, g)
    BY <1>2, <1>3, <1>5, <2>3, <2>5, <2>6 DEF EachOnce
  <2>8. Held(p, g) = Held(p, b) \cup {item}
    BY <2>3, <2>5, <2>6 DEF Held
  <2>9. Timely(p, g)
    BY <1>5 DEF Timely
  <2>. QED BY <2>3, <2>7, <2>8, <2>9 DEF IsAdmitted, g
<1>. QED BY <1>4, <1>5

(* evaluate, for one item                                                  *)
IsJudged(p, c, d, item, g) ==
  /\ g \in Collections /\ SameBudget(c, g)
  /\ EachOnce(p, g) /\ Exact(p, g, d \cup {item})
  /\ Timely(p, g) /\ (sort = "new" => g.lastTime = Time[item])

(* One item more is judged: a match that is held, or none.                 *)
LEMMA ExactStep ==
  ASSUME NEW p, NEW c, NEW d, NEW item, NEW g, Exact(p, c, d), g.parents = c.parents, g.end = c.end,
         c.end # "stopped" => Decided(c, item),
         Held(p, g) = IF Collected!VerdictOf(c, item) = "true" THEN Held(p, c) \cup {item} ELSE Held(p, c)
  PROVE  Exact(p, g, d \cup {item})
<1>1. /\ Held(p, c) \subseteq d
      /\ \A i \in Held(p, c) : Collected!VerdictOf(c, i) = "true"
      /\ c.end # "stopped" =>
           \A i \in d : Decided(c, i) /\ (Collected!VerdictOf(c, i) = "true" => i \in Held(p, c))
  BY DEF Exact
<1>2. \A i : Collected!VerdictOf(g, i) = Collected!VerdictOf(c, i) /\ (Decided(g, i) <=> Decided(c, i))
  BY SameVerdicts
<1>3. Held(p, g) \subseteq d \cup {item} /\ \A i \in Held(p, g) : Collected!VerdictOf(g, i) = "true"
  BY <1>1, <1>2
<1>4. ASSUME g.end # "stopped", NEW i \in d \cup {item}
      PROVE  Decided(g, i) /\ (Collected!VerdictOf(g, i) = "true" => i \in Held(p, g))
  BY <1>1, <1>2, <1>4
<1>. QED BY <1>3, <1>4 DEF Exact

(* What one round of the loop over the batch keeps.                        *)
LEMMA JudgeStep ==
  ASSUME Collected!CollectionAssumption, NEW p \in Seq(Items), NEW c \in Collections, NEW d,
         EachOnce(p, c), Exact(p, c, d), Timely(p, c), NEW item \in Items, item \notin d,
         sort = "new" => c.lastTime = None \/ Time[item] <= c.lastTime,
         c.end # "stopped" => Decided(c, item)
  PROVE  IsJudged(p, c, d, item, Collected!Judge(c, item))
<1>. DEFINE b == Collected!CloseGroup(c, item)
            g == Collected!Judge(c, item)
            matches == Collected!VerdictOf(c, item) = "true"
<1>1. Time[item] \in Int /\ None \notin Int
  <2>1. Time \in [Items -> Int] /\ None \notin Int
    BY Zenon DEF Collected!CollectionAssumption
  <2>. QED BY <2>1
<1>2. IsClosed(p, c, item, b)
  BY CloseGroupProperties
<1>3. g = IF matches THEN Collected!Admit(b, item) ELSE b
  BY Zenon DEF Collected!Judge
<1>4. item \notin Held(p, c)
  BY DEF Exact
<1>. HIDE DEF b, g, matches
<1>5. /\ b \in Collections /\ SameBudget(c, b)
      /\ EachOnce(p, b) /\ Held(p, b) = Held(p, c)
      /\ Timely(p, b) /\ (sort = "new" => b.lastTime = Time[item])
  BY <1>2 DEF IsClosed
<1>6. CASE matches
  <2>1. IsAdmitted(p, b, item, Collected!Admit(b, item))
    BY <1>1, <1>4, <1>5, AdmitProperties
  <2>2. IsAdmitted(p, b, item, g)
    BY <1>3, <1>6, <2>1
  <2>3. /\ g \in Collections /\ SameBudget(b, g)
        /\ EachOnce(p, g) /\ Held(p, g) = Held(p, b) \cup {item}
        /\ Timely(p, g) /\ g.lastTime = b.lastTime
    BY <2>2 DEF IsAdmitted
  <2>4. SameBudget(c, g)
    BY <1>5, <2>3, SameBudgetTwice
  <2>5. g.parents = c.parents /\ g.end = c.end
    BY <2>4 DEF SameBudget
  <2>6. Held(p, g) = IF Collected!VerdictOf(c, item) = "true" THEN Held(p, c) \cup {item} ELSE Held(p, c)
    BY <1>5, <1>6, <2>3 DEF matches
  <2>7. Exact(p, g, d \cup {item})
    BY <2>5, <2>6, ExactStep
  <2>. QED BY <1>5, <2>3, <2>4, <2>7 DEF IsJudged, g
<1>7. CASE ~matches
  <2>1. g = b
    BY <1>3, <1>7
  <2>2. g.parents = c.parents /\ g.end = c.end
    BY <1>5, <2>1 DEF SameBudget
  <2>3. Held(p, g) = IF Collected!VerdictOf(c, item) = "true" THEN Held(p, c) \cup {item} ELSE Held(p, c)
    BY <1>5, <1>7, <2>1 DEF matches
  <2>4. Exact(p, g, d \cup {item})
    BY <2>2, <2>3, ExactStep
  <2>. QED BY <1>5, <2>1, <2>4 DEF IsJudged, g
<1>. QED BY <1>6, <1>7

(* evaluate, for the items of a fresh                                      *)
JudgedOf(p, c, d, fresh, n) ==
  {g \in Collections :
     /\ SameBudget(c, g) /\ EachOnce(p, g) /\ Exact(p, g, d \cup FirstOf(fresh, n)) /\ Timely(p, g)
     /\ sort = "new" => g.lastTime = IF n = 0 THEN c.lastTime ELSE Time[fresh[n]]}
IsDue(c, d, fresh) ==
  /\ IsLine(fresh, Items) /\ ToSet(fresh) \cap d = {}
  /\ sort = "new" =>
       /\ \A n, m \in 1 .. Len(fresh) : n < m => Time[fresh[n]] >= Time[fresh[m]]
       /\ fresh # << >> => c.lastTime = None \/ Time[fresh[1]] <= c.lastTime
  /\ c.end # "stopped" => \A i \in ToSet(fresh) : Decided(c, i)

(* The same, after the rounds before it.                                   *)
LEMMA JudgedOfStep ==
  ASSUME Collected!CollectionAssumption, NEW p \in Seq(Items), NEW c \in Collections, NEW d,
         NEW fresh, IsDue(c, d, fresh), NEW n \in 1 .. Len(fresh), NEW g \in JudgedOf(p, c, d, fresh, n - 1)
  PROVE  Collected!Judge(g, fresh[n]) \in JudgedOf(p, c, d, fresh, n)
<1>. DEFINE item == fresh[n]
            Earlier == d \cup FirstOf(fresh, n - 1)
            h == Collected!Judge(g, item)
<1>1. /\ fresh \in Seq(Items) /\ (\A i, j \in 1 .. Len(fresh) : fresh[i] = fresh[j] => i = j)
      /\ ToSet(fresh) \cap d = {}
      /\ sort = "new" =>
           /\ \A k, m \in 1 .. Len(fresh) : k < m => Time[fresh[k]] >= Time[fresh[m]]
           /\ fresh # << >> => c.lastTime = None \/ Time[fresh[1]] <= c.lastTime
      /\ c.end # "stopped" => \A i \in ToSet(fresh) : Decided(c, i)
  BY DEF IsDue, IsLine
<1>2. Len(fresh) \in Nat /\ \A k \in 1 .. Len(fresh) : fresh[k] \in ToSet(fresh) /\ Time[fresh[k]] \in Int
  BY <1>1, TimesAreNumbers
<1>3. /\ g \in Collections /\ SameBudget(c, g) /\ EachOnce(p, g) /\ Exact(p, g, Earlier) /\ Timely(p, g)
      /\ sort = "new" => g.lastTime = IF n - 1 = 0 THEN c.lastTime ELSE Time[fresh[n - 1]]
  BY DEF JudgedOf
<1>4. item \in Items /\ item \in ToSet(fresh) /\ n \in Nat /\ n # 0
  BY <1>1, <1>2, ElementOfSeq
<1>5. item \notin FirstOf(fresh, n - 1)
  <2>1. \A k \in 1 .. n - 1 : k \in 1 .. Len(fresh) /\ k # n
    BY <1>2
  <2>. QED BY <1>1, <2>1 DEF FirstOf
<1>6. item \notin Earlier
  BY <1>1, <1>4, <1>5
<1>7. FirstOf(fresh, n) = FirstOf(fresh, n - 1) \cup {item}
  <2>1. 1 .. n = (1 .. n - 1) \cup {n}
    BY <1>4
  <2>. QED BY <2>1 DEF FirstOf
<1>8. sort = "new" => g.lastTime = None \/ Time[item] <= g.lastTime
  <2>. SUFFICES ASSUME sort = "new" PROVE g.lastTime = None \/ Time[item] <= g.lastTime
    OBVIOUS
  <2>1. CASE n = 1
    <3>1. fresh # << >>
      BY <1>2
    <3>2. g.lastTime = c.lastTime
      BY <1>3, <2>1
    <3>. QED BY <1>1, <2>1, <3>1, <3>2
  <2>2. CASE n # 1
    <3>1. n - 1 \in 1 .. Len(fresh) /\ n - 1 < n /\ n - 1 # 0
      BY <1>4, <2>2
    <3>2. g.lastTime = Time[fresh[n - 1]] /\ Time[fresh[n - 1]] >= Time[fresh[n]]
      BY <1>1, <1>3, <3>1
    <3>3. Time[fresh[n - 1]] \in Int /\ Time[item] \in Int
      BY <1>2, <3>1
    <3>. QED BY <3>2, <3>3
  <2>. QED BY <2>1, <2>2
<1>9. g.end = c.end /\ g.parents = c.parents
  BY <1>3 DEF SameBudget
<1>10. g.end # "stopped" => Decided(g, item)
  <2>1. Decided(g, item) <=> Decided(c, item)
    BY <1>9, SameVerdicts
  <2>. QED BY <1>1, <1>4, <1>9, <2>1
<1>. HIDE DEF h, item, Earlier
<1>11. IsJudged(p, g, Earlier, item, Collected!Judge(g, item))
  BY <1>3, <1>4, <1>6, <1>8, <1>10, JudgeStep
<1>12. /\ h \in Collections /\ SameBudget(g, h)
       /\ EachOnce(p, h) /\ Exact(p, h, Earlier \cup {item})
       /\ Timely(p, h) /\ (sort = "new" => h.lastTime = Time[item])
  BY <1>11 DEF IsJudged, h
<1>13. SameBudget(c, h)
  BY <1>3, <1>12, SameBudgetTwice
<1>14. Earlier \cup {item} = d \cup FirstOf(fresh, n)
  BY <1>7 DEF Earlier
<1>15. h \in JudgedOf(p, c, d, fresh, n)
  BY <1>4, <1>12, <1>13, <1>14 DEF JudgedOf, item
<1>. QED BY <1>15 DEF h, item

(* And so of all its rounds.                                               *)
LEMMA JudgedAllIsOf ==
  ASSUME Collected!CollectionAssumption, NEW p \in Seq(Items), NEW c \in Collections, NEW d,
         EachOnce(p, c), Exact(p, c, d), Timely(p, c), NEW fresh, IsDue(c, d, fresh)
  PROVE  Collected!JudgedAll(c, fresh) \in JudgedOf(p, c, d, fresh, Len(fresh))
<1>. DEFINE L == Len(fresh)
            J == [n \in 0 .. L |-> JudgedOf(p, c, d, fresh, n)]
            Passes(f) == f = [n \in 0 .. L |-> IF n = 0 THEN c ELSE Collected!Judge(f[n - 1], fresh[n])]
            passed == CHOOSE f : Passes(f)
            Next1(b, n) == IF Collected!Judge(b, fresh[n]) \in Collections THEN Collected!Judge(b, fresh[n]) ELSE b
            W == [x \in Collections \X (1 .. L) |-> Next1(x[1], x[2])]
<1>1. L \in Nat
  BY LenProperties DEF IsDue, IsLine
<1>2. c \in JudgedOf(p, c, d, fresh, 0)
  <2>1. FirstOf(fresh, 0) = {}
    BY DEF FirstOf
  <2>2. d \cup FirstOf(fresh, 0) = d
    BY <2>1
  <2>. QED BY <2>2 DEF JudgedOf, SameBudget
<1>3. ASSUME NEW n \in 1 .. L, NEW b \in JudgedOf(p, c, d, fresh, n - 1)
      PROVE  /\ Collected!Judge(b, fresh[n]) \in JudgedOf(p, c, d, fresh, n)
             /\ Collected!Judge(b, fresh[n]) \in Collections /\ b \in Collections
  <2>1. Collected!Judge(b, fresh[n]) \in JudgedOf(p, c, d, fresh, n)
    BY <1>3, JudgedOfStep
  <2>. QED BY <2>1 DEF JudgedOf
<1>4. ASSUME NEW b \in Collections, NEW n \in 1 .. L
      PROVE  W[<<b, n>>] = Next1(b, n) /\ W[<<b, n>>] \in Collections
  OBVIOUS
<1>. HIDE DEF Next1
<1>5. PICK f \in [0 .. L -> Collections] : Steps(f, W, c, L)
  <2>. HIDE DEF W, L
  <2>. QED BY <1>1, <1>4, StepsExist
<1>6. f = [n \in 0 .. L |-> IF n = 0 THEN c ELSE W[<<f[n - 1], n>>]]
  BY <1>5 DEF Steps
<1>. HIDE DEF W
<1>7. \A n \in 1 .. L : n - 1 \in 0 .. L /\ n \in 0 .. L /\ n # 0
  BY <1>1
<1>8. ASSUME NEW n \in 1 .. L, f[n - 1] \in J[n - 1]
      PROVE  f[n] \in J[n] /\ f[n] = Collected!Judge(f[n - 1], fresh[n])
  <2>1. f[n - 1] \in JudgedOf(p, c, d, fresh, n - 1)
    BY <1>7, <1>8
  <2>2. /\ Collected!Judge(f[n - 1], fresh[n]) \in JudgedOf(p, c, d, fresh, n)
        /\ Collected!Judge(f[n - 1], fresh[n]) \in Collections /\ f[n - 1] \in Collections
    BY <1>3, <2>1
  <2>3. f[n] = W[<<f[n - 1], n>>]
    BY <1>6, <1>7
  <2>4. W[<<f[n - 1], n>>] = Collected!Judge(f[n - 1], fresh[n])
    BY <1>4, <2>2 DEF Next1
  <2>. QED BY <1>7, <2>2, <2>3, <2>4
<1>9. f[0] = c /\ J[0] = JudgedOf(p, c, d, fresh, 0)
  BY <1>1, <1>6
<1>10. \A n \in 0 .. L : f[n] \in J[n]
  <2>. HIDE DEF L, J
  <2>. QED BY <1>1, <1>2, <1>8, <1>9, StepsStay
<1>11. Passes(f)
  <2>1. \A n \in 0 .. L : n # 0 => n \in 1 .. L /\ n - 1 \in 0 .. L
    BY <1>1
  <2>2. ASSUME NEW n \in 0 .. L, n # 0 PROVE W[<<f[n - 1], n>>] = Collected!Judge(f[n - 1], fresh[n])
    <3>1. f[n] = Collected!Judge(f[n - 1], fresh[n])
      BY <1>8, <1>10, <2>1, <2>2
    <3>2. f[n] = W[<<f[n - 1], n>>]
      BY <1>6, <2>2
    <3>. QED BY <3>1, <3>2
  <2>. HIDE DEF J, L
  <2>. QED BY <1>6, <2>2
<1>12. Passes(passed)
  <2>. HIDE DEF Passes
  <2>. QED BY <1>11, Zenon
<1>13. Collected!JudgedAll(c, fresh) = passed[L]
  BY Zenon DEF Collected!JudgedAll
<1>. HIDE DEF passed
<1>14. \A n \in 0 .. L : passed[n] = IF n = 0 THEN c ELSE Collected!Judge(passed[n - 1], fresh[n])
  BY <1>12
<1>15. ASSUME NEW n \in 1 .. L, passed[n - 1] \in J[n - 1]
       PROVE  passed[n] \in J[n]
  <2>1. passed[n - 1] \in JudgedOf(p, c, d, fresh, n - 1)
    BY <1>7, <1>15
  <2>2. passed[n] = Collected!Judge(passed[n - 1], fresh[n])
    BY <1>7, <1>14
  <2>. QED BY <1>3, <1>7, <2>1, <2>2
<1>16. passed[0] = c
  BY <1>1, <1>14
<1>17. \A n \in 0 .. L : passed[n] \in J[n]
  <2>. HIDE DEF L, J
  <2>. QED BY <1>1, <1>2, <1>9, <1>15, <1>16, StepsStay
<1>18. L \in 0 .. L
  BY <1>1
<1>. QED BY <1>13, <1>17, <1>18
-----------------------------------------------------------------------------
(***************************************************************************)
(* evaluate                                                                *)
(***************************************************************************)
ClosedWell(p, g) == EachOnce(p, g) /\ (g.end = "none" => Timely(p, g)) /\ Finished(p, g)
IsEvaluated(p, c, d, size, g) ==
  /\ g \in Collections /\ g.seen = c.seen /\ g.sourcePages = c.sourcePages /\ g.candidates = c.candidates
  /\ g.sourceCalls <= MaxSourceCalls /\ (size <= ChunkSize => g.sourceCalls <= c.sourceCalls + 1)
  /\ g.end = "stopped" \/ (g.end = c.end /\ g.failed = c.failed)
  /\ Exact(p, g, d) /\ ClosedWell(p, g)

(* A closed collection holds what it held.                                 *)
IsClosedOf(p, c, g) ==
  /\ g \in Collections /\ SameBudget(c, g) /\ EachOnce(p, g) /\ Held(p, g) = Held(p, c)
  /\ ClosedWell(p, g) /\ (c.tie = << >> => g.ready = c.ready)

(* Once the tie is flushed the order is that of the pages.                 *)
LEMMA FlushIsFinished ==
  ASSUME NEW p, NEW c, NEW g, IsFlush(p, c, g), Timely(p, c), c.end # "none"
  PROVE  ClosedWell(p, g)
<1>1. /\ g.end = c.end /\ g.tie = << >> /\ EachOnce(p, g)
      /\ sort = "new" => Chronological(Out(p, g))
  BY DEF IsFlush, SameBudget
<1>. QED BY <1>1 DEF ClosedWell, Finished

(* A session that has ended has no tie.                                    *)
LEMMA ClosedProperties ==
  ASSUME Collected!CollectionAssumption, NEW p \in Seq(Items), NEW c \in Collections,
         EachOnce(p, c), Timely(p, c)
  PROVE  IsClosedOf(p, c, Collected!Closed(c))
<1>. DEFINE g == Collected!Closed(c)
            f == Collected!FlushTie(c)
<1>1. IsFlush(p, c, f)
  BY FlushTieProperties
<1>2. g = IF c.end # "none" THEN f ELSE c
  BY Zenon DEF Collected!Closed
<1>. HIDE DEF g, f
<1>3. CASE c.end # "none"
  <2>1. g = f
    BY <1>2, <1>3
  <2>2. ClosedWell(p, f)
    BY <1>1, <1>3, FlushIsFinished
  <2>. QED BY <1>1, <2>1, <2>2 DEF IsFlush, IsClosedOf, g
<1>4. CASE c.end = "none"
  <2>1. g = c
    BY <1>2, <1>4
  <2>2. IsClosedOf(p, c, c)
    BY <1>4 DEF IsClosedOf, ClosedWell, Finished, SameBudget
  <2>. QED BY <2>1, <2>2 DEF g
<1>. QED BY <1>3, <1>4

(* The verdicts that were given stay when parents come.                    *)
LEMMA ExactStays ==
  ASSUME NEW p, NEW c \in Collections, NEW d \in SUBSET Items, NEW g, Exact(p, c, d), g.ready = c.ready, g.tie = c.tie,
         \A q \in Parents : c.parents[q] # "unasked" => g.parents[q] = c.parents[q],
         ParentOf \in [Items -> Parents \cup {None}],
         g.end # "stopped" => c.end # "stopped"
  PROVE  Exact(p, g, d)
<1>1. /\ Held(p, c) \subseteq d
      /\ \A i \in Held(p, c) : Collected!VerdictOf(c, i) = "true"
      /\ c.end # "stopped" =>
           \A i \in d : Decided(c, i) /\ (Collected!VerdictOf(c, i) = "true" => i \in Held(p, c))
  BY DEF Exact
<1>2. Held(p, g) = Held(p, c)
  BY DEF Held, Out
<1>3. ASSUME NEW i \in Items, Collected!VerdictOf(c, i) = "true"
      PROVE  Collected!VerdictOf(g, i) = "true"
  <2>1. ParentOf[i] # None => ParentOf[i] \in Parents
    OBVIOUS
  <2>2. CASE ItemVerdict[i] = "unknown"
    <3>1. ParentOf[i] # None /\ c.parents[ParentOf[i]] = "known" /\ WithParent[i] = "true"
      BY <1>3, <2>2 DEF Collected!VerdictOf
    <3>2. g.parents[ParentOf[i]] = "known"
      BY <2>1, <3>1
    <3>. QED BY <2>2, <3>1, <3>2 DEF Collected!VerdictOf
  <2>3. CASE ItemVerdict[i] # "unknown"
    BY <1>3, <2>3 DEF Collected!VerdictOf
  <2>. QED BY <2>2, <2>3
<1>4. ASSUME NEW i \in Items, Decided(c, i)
      PROVE  Decided(g, i) /\ Collected!VerdictOf(g, i) = Collected!VerdictOf(c, i)
  <2>1. ParentOf[i] # None => ParentOf[i] \in Parents
    OBVIOUS
  <2>2. ItemVerdict[i] = "unknown" /\ ParentOf[i] # None =>
          c.parents[ParentOf[i]] # "unasked" /\ g.parents[ParentOf[i]] = c.parents[ParentOf[i]]
    BY <1>4, <2>1 DEF Decided
  <2>3. Decided(g, i)
    BY <2>2 DEF Decided
  <2>4. Collected!VerdictOf(g, i) = Collected!VerdictOf(c, i)
    BY <2>2 DEF Collected!VerdictOf
  <2>. QED BY <2>3, <2>4
<1>5. \A i \in Held(p, g) : Collected!VerdictOf(g, i) = "true"
  BY <1>1, <1>2, <1>3
<1>6. ASSUME g.end # "stopped", NEW i \in d
      PROVE  Decided(g, i) /\ (Collected!VerdictOf(g, i) = "true" => i \in Held(p, g))
  <2>1. Decided(c, i) /\ (Collected!VerdictOf(c, i) = "true" => i \in Held(p, c))
    BY <1>1, <1>6
  <2>2. Decided(g, i) /\ Collected!VerdictOf(g, i) = Collected!VerdictOf(c, i)
    BY <1>4, <2>1
  <2>. QED BY <1>2, <2>1, <2>2
<1>. QED BY <1>1, <1>2, <1>5, <1>6 DEF Exact

(* What only its holdings and its verdicts say.                            *)
LEMMA ExactAlike ==
  ASSUME NEW p, NEW c, NEW g, NEW d, NEW e, Exact(p, c, d), Held(p, g) = Held(p, c), g.parents = c.parents,
         d \subseteq e, g.end # "stopped" => c.end # "stopped" /\ e = d
  PROVE  Exact(p, g, e)
<1>1. \A i : Collected!VerdictOf(g, i) = Collected!VerdictOf(c, i) /\ (Decided(g, i) <=> Decided(c, i))
  BY SameVerdicts
<1>. QED BY <1>1 DEF Exact

(* What nothing was added to.                                              *)
SameHoldings(p, c, g) ==
  /\ Out(p, g) = Out(p, c) /\ Held(p, g) = Held(p, c)
  /\ EachOnce(p, c) => EachOnce(p, g)
  /\ Timely(p, c) => Timely(p, g)

(* What matters of the items depends on the items, their verdicts and the  *)
(* end.                                                                    *)
LEMMA HoldingsStay ==
  ASSUME NEW p, NEW c, NEW g, g.ready = c.ready, g.tie = c.tie, g.lastTime = c.lastTime
  PROVE  SameHoldings(p, c, g)
<1>1. Out(p, g) = Out(p, c)
  BY DEF Out
<1>2. Held(p, g) = Held(p, c)
  BY <1>1 DEF Held
<1>3. EachOnce(p, c) => EachOnce(p, g)
  BY <1>1 DEF EachOnce
<1>4. Timely(p, c) => Timely(p, g)
  BY <1>1 DEF Timely
<1>. QED BY <1>1, <1>2, <1>3, <1>4 DEF SameHoldings

IsByTime(fresh) == \A n, m \in 1 .. Len(fresh) : n < m => Time[fresh[n]] >= Time[fresh[m]]

(* A batch newer than the last time stops the session, none of it shown.   *)
LEMMA DisorderedStops ==
  ASSUME Collected!CollectionAssumption, NEW p \in Seq(Items), NEW c \in Collections, NEW d \in SUBSET Items,
         NEW e \in SUBSET Items, EachOnce(p, c), Exact(p, c, d), Timely(p, c),
         c.sourceCalls <= MaxSourceCalls, NEW size
  PROVE  IsEvaluated(p, c, d \cup e, size, Collected!FlushTie(Collected!Stop(c, TRUE)))
<1>. DEFINE s == Collected!Stop(c, TRUE)
            g == Collected!FlushTie(s)
<1>1. /\ s \in Collections /\ SameItems(c, s)
      /\ s.parents = c.parents /\ s.sourceCalls = c.sourceCalls /\ s.end = "stopped"
  BY StopTypes
<1>. HIDE DEF s
<1>2. /\ s.ready = c.ready /\ s.tie = c.tie /\ s.lastTime = c.lastTime
      /\ s.seen = c.seen /\ s.sourcePages = c.sourcePages /\ s.candidates = c.candidates
  BY <1>1 DEF SameItems
<1>3. SameHoldings(p, c, s)
  BY <1>2, HoldingsStay
<1>4. EachOnce(p, s) /\ Timely(p, s) /\ Held(p, s) = Held(p, c)
  BY <1>3 DEF SameHoldings
<1>5. IsFlush(p, s, g)
  BY <1>1, <1>4, FlushTieProperties
<1>. HIDE DEF g
<1>6. ClosedWell(p, g)
  <2>1. s.end # "none"
    BY <1>1
  <2>. QED BY <1>4, <1>5, <2>1, FlushIsFinished
<1>7. g \in Collections /\ SameBudget(s, g) /\ Held(p, g) = Held(p, s)
  BY <1>5 DEF IsFlush
<1>8. /\ g.parents = c.parents /\ g.end = "stopped" /\ g.seen = c.seen
      /\ g.sourcePages = c.sourcePages /\ g.candidates = c.candidates /\ g.sourceCalls = c.sourceCalls
  BY <1>1, <1>2, <1>7 DEF SameBudget
<1>9. Held(p, g) = Held(p, c)
  BY <1>4, <1>7
<1>10. Exact(p, g, d \cup e)
  BY <1>8, <1>9, ExactAlike
<1>11. c.sourceCalls <= c.sourceCalls + 1
  <2>1. c.sourceCalls \in Nat
    BY DEF Collections
  <2>. QED BY <2>1
<1>12. IsEvaluated(p, c, d \cup e, size, g)
  BY <1>6, <1>7, <1>8, <1>10, <1>11 DEF IsEvaluated
<1>. QED BY <1>12 DEF g, s

(* A batch in its order is judged whole, or the session stops.             *)
LEMMA JudgedProperties ==
  ASSUME Collected!CollectionAssumption, NEW p \in Seq(Items), NEW c \in Collections, NEW d \in SUBSET Items,
         EachOnce(p, c), Exact(p, c, d), Timely(p, c),
         c.sourceCalls <= MaxSourceCalls, c.failed => c.end = "stopped",
         NEW fresh, IsLine(fresh, Items), ToSet(fresh) \cap d = {}, sort = "new" => IsByTime(fresh),
         NEW came \in SUBSET Parents, NEW fails \in BOOLEAN
  PROVE  IsEvaluated(p, c, d \cup ToSet(fresh), Len(fresh), Collected!Judged(c, fresh, came, fails))
<1>. DEFINE g == Collected!Judged(c, fresh, came, fails)
            h == Collected!Hydrate(c, fresh, came, fails)
            j == Collected!JudgedAll(h, fresh)
            k == Collected!Closed(j)
            refused == Collected!FlushTie(Collected!Stop(c, TRUE))
            disordered == sort = "new" /\ Collected!Disordered(c, fresh)
<1>1. fresh \in Seq(Items) /\ Len(fresh) \in Nat /\ ToSet(fresh) \in SUBSET Items
  BY TimesAreNumbers DEF IsLine
<1>2. g = IF disordered THEN refused ELSE k
  BY Zenon DEF Collected!Judged
<1>3. CASE disordered
  <2>1. IsEvaluated(p, c, d \cup ToSet(fresh), Len(fresh), refused)
    BY <1>1, DisorderedStops
  <2>. HIDE DEF g, refused, disordered
  <2>2. g = refused
    BY <1>2, <1>3
  <2>3. IsEvaluated(p, c, d \cup ToSet(fresh), Len(fresh), g)
    BY <2>1, <2>2
  <2>. QED BY <2>3 DEF g
<1>4. CASE ~disordered
  <2>0. IsHydrated(c, fresh, h)
    BY <1>1, HydrateProperties
  <2>1. /\ h \in Collections /\ SameItems(c, h)
        /\ h.sourceCalls <= MaxSourceCalls
        /\ Len(fresh) <= ChunkSize => h.sourceCalls <= c.sourceCalls + 1
        /\ h.end = "stopped" \/ (h.end = c.end /\ h.failed = c.failed)
        /\ \A q \in Parents : c.parents[q] # "unasked" => h.parents[q] = c.parents[q]
        /\ h.end # "stopped" => \A i \in ToSet(fresh) : Decided(h, i)
    BY <2>0 DEF IsHydrated
  <2>. HIDE DEF h
  <2>2. /\ h.ready = c.ready /\ h.tie = c.tie /\ h.lastTime = c.lastTime
        /\ h.seen = c.seen /\ h.sourcePages = c.sourcePages /\ h.candidates = c.candidates
    BY <2>1 DEF SameItems
  <2>3. SameHoldings(p, c, h)
    BY <2>2, HoldingsStay
  <2>4. EachOnce(p, h) /\ Timely(p, h)
    BY <2>3 DEF SameHoldings
  <2>5. Exact(p, h, d)
    <3>1. ParentOf \in [Items -> Parents \cup {None}]
      BY Zenon DEF Collected!CollectionAssumption
    <3>2. h.end # "stopped" => c.end # "stopped"
      BY <2>1
    <3>. QED BY <2>1, <2>2, <3>1, <3>2, ExactStays
  <2>6. ASSUME sort = "new", fresh # << >> PROVE h.lastTime = None \/ Time[fresh[1]] <= h.lastTime
    <3>1. ~Collected!Disordered(c, fresh)
      BY <1>4, <2>6
    <3>2. ~(c.lastTime # None /\ Time[Head(fresh)] > c.lastTime)
      BY <2>6, <3>1 DEF Collected!Disordered
    <3>3. Head(fresh) = fresh[1] /\ 1 \in 1 .. Len(fresh)
      BY <1>1, <2>6, EmptySeq
    <3>4. Time[fresh[1]] \in Int
      BY <1>1, <3>3, TimesAreNumbers
    <3>5. c.lastTime \in Int \cup {None}
      BY DEF Collections
    <3>. QED BY <2>2, <3>2, <3>3, <3>4, <3>5
  <2>7. IsDue(h, d, fresh)
    BY <2>1, <2>6 DEF IsDue, IsByTime
  <2>8. j \in JudgedOf(p, h, d, fresh, Len(fresh))
    BY <2>1, <2>4, <2>5, <2>7, JudgedAllIsOf
  <2>. HIDE DEF j
  <2>9. FirstOf(fresh, Len(fresh)) = ToSet(fresh)
    <3>1. ToSet(fresh) = {fresh[n] : n \in 1 .. Len(fresh)}
      BY <1>1, TimesAreNumbers
    <3>. QED BY <3>1 DEF FirstOf
  <2>10. /\ j \in Collections /\ SameBudget(h, j) /\ EachOnce(p, j)
         /\ Exact(p, j, d \cup ToSet(fresh)) /\ Timely(p, j)
    BY <2>8, <2>9 DEF JudgedOf
  <2>11. IsClosedOf(p, j, k)
    BY <2>10, ClosedProperties
  <2>. HIDE DEF k
  <2>12. k \in Collections /\ SameBudget(j, k) /\ Held(p, k) = Held(p, j) /\ ClosedWell(p, k)
    BY <2>11 DEF IsClosedOf
  <2>13. SameBudget(h, k) /\ k.parents = j.parents /\ k.end = j.end
    BY <2>10, <2>12 DEF SameBudget
  <2>14. Exact(p, k, d \cup ToSet(fresh))
    BY <2>10, <2>12, <2>13, ExactAlike
  <2>15. /\ k.seen = c.seen /\ k.sourcePages = c.sourcePages /\ k.candidates = c.candidates
         /\ k.sourceCalls = h.sourceCalls /\ k.end = h.end /\ k.failed = h.failed
    BY <2>2, <2>13 DEF SameBudget
  <2>16. IsEvaluated(p, c, d \cup ToSet(fresh), Len(fresh), k)
    BY <2>1, <2>12, <2>14, <2>15 DEF IsEvaluated
  <2>17. g = k
    BY <1>2, <1>4
  <2>. HIDE DEF g
  <2>18. IsEvaluated(p, c, d \cup ToSet(fresh), Len(fresh), g)
    BY <2>16, <2>17
  <2>. QED BY <2>18 DEF g
<1>. QED BY <1>3, <1>4

(* So is a batch as it came, which New puts in its order first.            *)
LEMMA EvaluatedProperties ==
  ASSUME Collected!CollectionAssumption, NEW p \in Seq(Items), NEW c \in Collections, NEW d \in SUBSET Items,
         EachOnce(p, c), Exact(p, c, d), Timely(p, c),
         c.sourceCalls <= MaxSourceCalls, c.failed => c.end = "stopped",
         NEW raw, IsLine(raw, Items), ToSet(raw) \cap d = {},
         NEW came \in SUBSET Parents, NEW fails \in BOOLEAN
  PROVE  IsEvaluated(p, c, d \cup ToSet(raw), Len(raw), Collected!Evaluated(c, raw, came, fails))
<1>. DEFINE r == Collected!Arranged(raw, Collected!Newer)
            fresh == IF sort = "new" THEN r ELSE raw
            g == Collected!Evaluated(c, raw, came, fails)
<1>1. /\ IsLine(r, Items) /\ Len(r) = Len(raw) /\ ToSet(r) = ToSet(raw)
      /\ \A n, m \in 1 .. Len(r) : n < m => Time[r[n]] >= Time[r[m]]
  BY BatchByTime
<1>2. g = Collected!Judged(c, fresh, came, fails)
  BY Zenon DEF Collected!Evaluated
<1>. HIDE DEF r, g
<1>3. /\ IsLine(fresh, Items) /\ Len(fresh) = Len(raw) /\ ToSet(fresh) = ToSet(raw)
      /\ sort = "new" => IsByTime(fresh)
  BY <1>1 DEF IsByTime
<1>. HIDE DEF fresh
<1>4. ToSet(fresh) \cap d = {}
  BY <1>3
<1>5. IsEvaluated(p, c, d \cup ToSet(fresh), Len(fresh), Collected!Judged(c, fresh, came, fails))
  BY <1>3, <1>4, JudgedProperties
<1>6. IsEvaluated(p, c, d \cup ToSet(raw), Len(raw), g)
  BY <1>2, <1>3, <1>5
<1>. QED BY <1>6 DEF g
-----------------------------------------------------------------------------
(***************************************************************************)
(* What the pages show.                                                    *)
(***************************************************************************)
IsAll(pg, f) ==
  /\ f \in [0 .. Len(pg) -> Seq(Items)] /\ f[0] = << >> /\ AllOf(pg) = f[Len(pg)]
  /\ \A n \in 1 .. Len(pg) : f[n] = f[n - 1] \o pg[n].items

(* The items of the pages are a sequence of items, page by page.           *)
LEMMA AllSteps ==
  ASSUME NEW pg \in Seq(PageTypes)
  PROVE  \E f : IsAll(pg, f)
<1>. DEFINE L == Len(pg)
            Passes(f) == f = [n \in 0 .. L |-> IF n = 0 THEN << >> ELSE f[n - 1] \o pg[n].items]
            passed == CHOOSE f : Passes(f)
            W == [x \in Seq(Items) \X (1 .. L) |-> x[1] \o pg[x[2]].items]
<1>1. L \in Nat /\ \A n \in 1 .. L : pg[n] \in PageTypes
  BY LenProperties, ElementOfSeq
<1>2. \A n \in 1 .. L : pg[n].items \in Seq(Items)
  BY <1>1 DEF PageTypes
<1>3. ASSUME NEW s \in Seq(Items), NEW n \in 1 .. L
      PROVE  W[<<s, n>>] = s \o pg[n].items /\ s \o pg[n].items \in Seq(Items)
  <2>1. s \o pg[n].items \in Seq(Items)
    BY <1>2, ConcatIsFunction
  <2>. QED BY <2>1
<1>4. << >> \in Seq(Items)
  OBVIOUS
<1>5. PICK f \in [0 .. L -> Seq(Items)] : Steps(f, W, << >>, L)
  <2>1. \A s \in Seq(Items) : \A n \in 1 .. L : W[<<s, n>>] \in Seq(Items)
    BY <1>3, Zenon
  <2>. HIDE DEF W, L
  <2>. QED BY <1>1, <1>4, <2>1, StepsExist
<1>6. f = [n \in 0 .. L |-> IF n = 0 THEN << >> ELSE W[<<f[n - 1], n>>]]
  BY <1>5 DEF Steps
<1>7. ASSUME NEW n \in 0 .. L, n # 0 PROVE W[<<f[n - 1], n>>] = f[n - 1] \o pg[n].items
  <2>1. n - 1 \in 0 .. L /\ n \in 1 .. L
    BY <1>1, <1>7
  <2>2. f[n - 1] \in Seq(Items)
    BY <1>5, <2>1
  <2>. QED BY <1>3, <2>1, <2>2
<1>. HIDE DEF W
<1>8. Passes(f)
  BY <1>6, <1>7
<1>9. Passes(passed)
  <2>. HIDE DEF Passes
  <2>. QED BY <1>8, Zenon
<1>10. AllOf(pg) = passed[L]
  BY Zenon DEF AllOf
<1>. HIDE DEF passed
<1>11. \A n \in 0 .. L : passed[n] = IF n = 0 THEN << >> ELSE passed[n - 1] \o pg[n].items
  BY <1>9
<1>12. \A n \in 1 .. L : n \in 0 .. L /\ n # 0
  BY <1>1
<1>13. \A n \in 0 .. L : f[n] = IF n = 0 THEN << >> ELSE f[n - 1] \o pg[n].items
  BY <1>8
<1>14. passed[0] = << >> /\ f[0] = << >>
  <2>1. 0 \in 0 .. L
    BY <1>1
  <2>2. passed[0] = IF 0 = 0 THEN << >> ELSE passed[0 - 1] \o pg[0].items
    BY <1>11, <2>1
  <2>3. f[0] = IF 0 = 0 THEN << >> ELSE f[0 - 1] \o pg[0].items
    BY <1>13, <2>1
  <2>. QED BY <2>2, <2>3
<1>15. ASSUME NEW n \in 1 .. L, passed[n - 1] = f[n - 1] PROVE passed[n] = f[n]
  BY <1>11, <1>12, <1>13, <1>15
<1>16. \A n \in 0 .. L : passed[n] = f[n]
  <2>1. \A n \in 1 .. L : passed[n - 1] = f[n - 1] => passed[n] = f[n]
    BY <1>15
  <2>2. passed[0] = f[0]
    BY <1>14
  <2>. HIDE DEF L
  <2>. QED BY <1>1, <2>1, <2>2, SameSteps, ZenonT(40)
<1>17. AllOf(pg) = f[L]
  BY <1>1, <1>10, <1>16
<1>18. \A n \in 1 .. L : f[n] = f[n - 1] \o pg[n].items
  BY <1>12, <1>13
<1>. QED BY <1>5, <1>14, <1>17, <1>18 DEF IsAll

(* One page more adds its items at the end.                                *)
LEMMA AllAppended ==
  ASSUME NEW pg \in Seq(PageTypes), NEW page \in PageTypes
  PROVE  AllOf(pg) \in Seq(Items) /\ AllOf(Append(pg, page)) = AllOf(pg) \o page.items
<1>. DEFINE L == Len(pg)
            qg == Append(pg, page)
<1>1. L \in Nat /\ qg \in Seq(PageTypes) /\ Len(qg) = L + 1
      /\ qg[L + 1] = page /\ \A n \in 1 .. L : qg[n] = pg[n]
  BY LenProperties, AppendProperties
<1>. HIDE DEF qg
<1>2. PICK f : IsAll(pg, f)
  BY AllSteps
<1>3. PICK g : IsAll(qg, g)
  BY <1>1, AllSteps
<1>4. /\ f \in [0 .. L -> Seq(Items)] /\ f[0] = << >> /\ AllOf(pg) = f[L]
      /\ \A n \in 1 .. L : f[n] = f[n - 1] \o pg[n].items
  BY <1>2 DEF IsAll
<1>5. /\ g[0] = << >> /\ AllOf(qg) = g[L + 1]
      /\ \A n \in 1 .. L + 1 : g[n] = g[n - 1] \o qg[n].items
  BY <1>1, <1>3 DEF IsAll
<1>6. (\A n \in 1 .. L : n \in 1 .. L + 1) /\ L + 1 \in 1 .. L + 1 /\ (L + 1) - 1 = L /\ L \in 0 .. L
  BY <1>1
<1>7. ASSUME NEW n \in 1 .. L, f[n - 1] = g[n - 1] PROVE f[n] = g[n]
  BY <1>1, <1>4, <1>5, <1>6, <1>7
<1>8. \A n \in 0 .. L : f[n] = g[n]
  <2>1. f[0] = g[0]
    BY <1>4, <1>5
  <2>2. \A n \in 1 .. L : f[n - 1] = g[n - 1] => f[n] = g[n]
    BY <1>7
  <2>3. L \in Nat
    BY <1>1
  <2>. HIDE DEF L
  <2>. QED BY <2>1, <2>2, <2>3, SameSteps, ZenonT(40)
<1>9. f[L] = g[L] /\ f[L] \in Seq(Items)
  BY <1>4, <1>6, <1>8
<1>10. g[L + 1] = g[L] \o page.items
  BY <1>1, <1>5, <1>6
<1>. QED BY <1>4, <1>5, <1>9, <1>10 DEF qg

(* Without pages nothing is shown.                                         *)
LEMMA NothingShown ==
  AllOf(<< >>) = << >> /\ << >> \in Seq(PageTypes)
<1>1. << >> \in Seq(PageTypes) /\ Len(<< >>) = 0
  OBVIOUS
<1>2. PICK f : IsAll(<< >>, f)
  BY <1>1, AllSteps
<1>3. f[0] = << >> /\ AllOf(<< >>) = f[0]
  BY <1>1, <1>2 DEF IsAll
<1>. QED BY <1>1, <1>3

(* It is what the properties speak of.                                     *)
LEMMA ShownIsAll ==
  Collected!Shown = AllOf(pages)
BY Zenon DEF Collected!Shown, AllOf

(* The invariant of the next state, in terms of the order of this one.     *)
LEMMA HoldsNext ==
  ASSUME sort' = sort,
         Holds(AllOf(pages'), collection', step', requests', pending', pages', given')
  PROVE  CollectionIInv'
<1>1. TypesHold(collection, step, requests, pending, pages, given)'
  BY DEF Holds, TypesHold, Collections
<1>2. EachOnce(AllOf(pages), collection)'
  BY DEF Holds, OutHolds, EachOnce, Out
<1>3. Exact(AllOf(pages), collection, collection.seen \ WaitingIn(step, pending))'
  BY DEF Holds, OutHolds, Exact, Held, Out, Decided, Collected!VerdictOf, WaitingIn
<1>4. collection'.end = "none" => Timely(AllOf(pages), collection)'
  BY DEF Holds, OutHolds, Timely, Out, Chronological
<1>5. Finished(AllOf(pages), collection)'
  BY DEF Holds, OutHolds, Finished, Out, Chronological
<1>6. OutHolds(AllOf(pages), collection, collection.seen \ WaitingIn(step, pending))'
  BY <1>2, <1>3, <1>4, <1>5 DEF Holds, OutHolds
<1>7. PendingHolds(collection, step, pending, pages)'
  BY DEF Holds, PendingHolds, Collected!CompleteSet
<1>8. WholeHolds(AllOf(pages), collection, step, requests, pages)'
  BY DEF Holds, WholeHolds, Collected!CompleteSet, BestFirst, Collected!Best, Out
<1>9. GivenHolds(collection, given)' /\ LabelsHold(collection, step, pages)' /\ LimitsHold(collection)'
  BY DEF Holds, GivenHolds, LabelsHold, LimitsHold
<1>. QED BY <1>1, <1>6, <1>7, <1>8, <1>9 DEF CollectionIInv, Holds
-----------------------------------------------------------------------------
(***************************************************************************)
(* A source page                                                           *)
(***************************************************************************)
SameWork(c, g) ==
  /\ g.ready = c.ready /\ g.tie = c.tie /\ g.lastTime = c.lastTime /\ g.parents = c.parents
  /\ g.seen = c.seen /\ g.candidates = c.candidates
  /\ g.sourcePages = c.sourcePages /\ g.sourceCalls = c.sourceCalls
IsEnded(c, g) ==
  /\ g \in Collections /\ SameWork(c, g)
  /\ g.end = "none" => c.end = "none"
  /\ g.end # "stopped" => c.end # "stopped"
  /\ g.failed => g.end = "stopped"

(* A stopped session has ended so.                                         *)
LEMMA StopEnds ==
  ASSUME NEW c \in Collections, NEW f \in BOOLEAN
  PROVE  IsEnded(c, Collected!Stop(c, f))
<1>. DEFINE g == Collected!Stop(c, f)
<1>1. g \in Collections /\ SameItems(c, g)
      /\ g.parents = c.parents /\ g.sourceCalls = c.sourceCalls /\ g.end = "stopped"
  BY StopTypes
<1>. HIDE DEF g
<1>2. IsEnded(c, g)
  BY <1>1 DEF IsEnded, SameWork, SameItems
<1>. QED BY <1>2 DEF g

(* How the cursor of a page ends a session.                                *)
LEMMA ContinuedEnds ==
  ASSUME NEW c \in Collections, c.failed => c.end = "stopped", NEW after \in Cursors \cup {None}
  PROVE  /\ IsEnded(c, Collected!Continued(c, after))
         /\ Collected!Continued(c, after).end = "none" => sort # "name"  \/ c.end # "none"
<1>. DEFINE g == Collected!Continued(c, after)
            last == [c EXCEPT !.end = "exhausted"]
            refused == Collected!Stop(c, TRUE)
            follows == [c EXCEPT !.cursors = @ \cup {after}]
            Ended == after = None \/ sort = "name"
<1>1. /\ c.end # "none" => g = c
      /\ c.end = "none" /\ Ended => g = last
      /\ c.end = "none" /\ ~Ended => g = IF after \in c.cursors THEN refused ELSE follows
  <2>1. g = CASE c.end # "none" -> c
              [] c.end = "none" /\ Ended -> last
              [] c.end = "none" /\ after # None /\ sort # "name" -> IF after \in c.cursors THEN refused ELSE follows
    BY Zenon DEF Collected!Continued
  <2>. HIDE DEF g, last, refused, follows
  <2>. QED BY <2>1
<1>. HIDE DEF g
<1>2. IsEnded(c, c)
  BY DEF IsEnded, SameWork
<1>3. c.end = "none" => IsEnded(c, last) /\ last.end = "exhausted"
  BY DEF IsEnded, SameWork, Collections, CollectionEnds
<1>4. IsEnded(c, refused)
  BY StopEnds
<1>5. c.end = "none" /\ ~Ended => IsEnded(c, follows)
  BY DEF IsEnded, SameWork, Collections
<1>6. refused.end = "stopped"
  BY DEF Collected!Stop, Collections
<1>7. IsEnded(c, g)
  <2>. HIDE DEF last, refused, follows, Ended
  <2>. QED BY <1>1, <1>2, <1>3, <1>4, <1>5
<1>8. g.end = "none" => sort # "name" \/ c.end # "none"
  <2>1. c.end = "none" /\ Ended => g.end = "exhausted"
    BY <1>1, <1>3
  <2>. QED BY <2>1
<1>. QED BY <1>7, <1>8 DEF g

(* A session within its bounds goes on; any other has ended.               *)
LEMMA BoundedEnds ==
  ASSUME NEW c \in Collections, c.failed => c.end = "stopped"
  PROVE  /\ IsEnded(c, Collected!Bounded(c))
         /\ Collected!Bounded(c).end = "none" => ~(c.sourcePages >= Collected!PageBudget)
<1>. DEFINE g == Collected!Bounded(c)
            stopped == Collected!Stop(c, FALSE)
            Over == \/ c.sourcePages >= Collected!PageBudget
                    \/ c.candidates >= MaxCandidates
                    \/ c.sourceCalls >= MaxSourceCalls
<1>1. g = IF c.end = "none" /\ Over THEN stopped ELSE c
  BY Zenon DEF Collected!Bounded
<1>2. IsEnded(c, stopped) /\ stopped.end = "stopped"
  BY StopEnds, Zenon DEF Collected!Stop, Collections
<1>3. IsEnded(c, c)
  BY DEF IsEnded, SameWork
<1>. HIDE DEF g, stopped
<1>. QED BY <1>1, <1>2, <1>3 DEF g

(* What a source page makes of a collection, before its items are judged.  *)
IsCharged(c, b, e) ==
  /\ e \in Collections
  /\ e.ready = c.ready /\ e.tie = c.tie /\ e.lastTime = c.lastTime /\ e.parents = c.parents
  /\ e.seen = b.seen /\ e.candidates = b.candidates
  /\ e.sourcePages = c.sourcePages + 1 /\ e.sourceCalls = c.sourceCalls + 1
  /\ e.failed => e.end = "stopped"
  /\ e.end # "stopped" => ~b.full
  /\ e.end = "none" => ~(e.sourcePages >= Collected!PageBudget) /\ sort # "name"

(* A call and a page are paid for, whatever came.                          *)
LEMMA ChargedProperties ==
  ASSUME NEW c \in Collections, c.end = "none", ~c.failed, NEW b, b.seen \in SUBSET Items,
         b.candidates \in Nat, b.bytes \in Nat, b.full \in BOOLEAN, NEW after \in Cursors \cup {None}
  PROVE  IsCharged(c, b, Collected!Bounded(Collected!Continued(Collected!Charged(Collected!Called(c), b), after)))
<1>. DEFINE h == Collected!Charged(Collected!Called(c), b)
            g == Collected!Continued(h, after)
            e == Collected!Bounded(g)
<1>1. c.sourcePages \in Nat /\ c.sourceCalls \in Nat
  BY DEF Collections
<1>2. c.sourcePages + 1 \in Nat /\ c.sourceCalls + 1 \in Nat
  BY <1>1
<1>3. Collected!Called(c) = [c EXCEPT !.sourcePages = c.sourcePages + 1, !.sourceCalls = c.sourceCalls + 1]
  BY DEF Collected!Called
<1>4. h = [[c EXCEPT !.sourcePages = c.sourcePages + 1, !.sourceCalls = c.sourceCalls + 1]
             EXCEPT !.candidates = b.candidates, !.bytes = b.bytes, !.seen = b.seen,
                    !.end = IF b.full THEN "stopped" ELSE @]
  BY <1>3 DEF Collected!Charged
<1>. HIDE DEF h
<1>5. /\ h \in Collections
      /\ h.ready = c.ready /\ h.tie = c.tie /\ h.lastTime = c.lastTime /\ h.parents = c.parents
      /\ h.seen = b.seen /\ h.candidates = b.candidates
      /\ h.sourcePages = c.sourcePages + 1 /\ h.sourceCalls = c.sourceCalls + 1 /\ h.failed = c.failed
      /\ h.end = IF b.full THEN "stopped" ELSE "none"
  BY <1>2, <1>4 DEF Collections, CollectionEnds
<1>6. IsEnded(h, g) /\ (g.end = "none" => sort # "name" \/ h.end # "none")
  BY <1>5, ContinuedEnds
<1>. HIDE DEF g
<1>7. g \in Collections /\ (g.failed => g.end = "stopped")
  BY <1>6 DEF IsEnded
<1>8. IsEnded(g, e) /\ (e.end = "none" => ~(g.sourcePages >= Collected!PageBudget))
  BY <1>7, BoundedEnds
<1>. HIDE DEF e
<1>9. /\ e \in Collections /\ SameWork(g, e) /\ SameWork(h, g)
      /\ e.end = "none" => g.end = "none" /\ h.end = "none"
      /\ e.end # "stopped" => h.end # "stopped"
      /\ e.failed => e.end = "stopped"
  BY <1>6, <1>8 DEF IsEnded
<1>10. /\ e.ready = c.ready /\ e.tie = c.tie /\ e.lastTime = c.lastTime /\ e.parents = c.parents
       /\ e.seen = b.seen /\ e.candidates = b.candidates
       /\ e.sourcePages = c.sourcePages + 1 /\ e.sourceCalls = c.sourceCalls + 1 /\ e.sourcePages = g.sourcePages
  BY <1>5, <1>9 DEF SameWork
<1>11. e.end # "stopped" => ~b.full
  BY <1>5, <1>9
<1>12. e.end = "none" => ~(e.sourcePages >= Collected!PageBudget) /\ sort # "name"
  BY <1>6, <1>8, <1>9, <1>10
<1>13. IsCharged(c, b, e)
  BY <1>9, <1>10, <1>11, <1>12 DEF IsCharged
<1>. QED BY <1>13 DEF e, g, h
-----------------------------------------------------------------------------
(***************************************************************************)
(* advance: the source pages.                                              *)
(***************************************************************************)
LEMMA LimitsAreNumbers ==
  ASSUME Collected!CollectionAssumption
  PROVE  /\ MaxPages \in Nat /\ MaxSourcePages \in Nat /\ MaxSourceCalls \in Nat /\ MaxCandidates \in Nat
         /\ MaxPages <= MaxSourcePages /\ 2 * MaxSourcePages <= MaxSourceCalls
         /\ BatchLimit \in Nat /\ ChunkSize \in Nat /\ BatchLimit <= ChunkSize /\ Limit \in Nat /\ Limit # 0
BY DEF Collected!CollectionAssumption

(* A page that may be fetched is one more of all that there may be.        *)
IsOneMore(c, e) ==
  /\ e.sourcePages <= MaxSourcePages
  /\ e.sourceCalls + 1 <= MaxSourceCalls /\ e.sourceCalls + 1 <= 2 * e.sourcePages
  /\ e.end = "none" => e.sourcePages < MaxSourcePages /\ (Collected!CompleteSet => e.sourcePages < MaxPages)

(* A page of the source leaves the budgets within their limits.            *)
LEMMA OneMorePage ==
  ASSUME Collected!CollectionAssumption, NEW c \in Collections, LimitsHold(c), c.end = "none",
         NEW b, NEW e, IsCharged(c, b, e)
  PROVE  IsOneMore(c, e)
<1>1. /\ MaxPages \in Nat /\ MaxSourcePages \in Nat /\ MaxSourceCalls \in Nat
      /\ MaxPages <= MaxSourcePages /\ 2 * MaxSourcePages <= MaxSourceCalls
  BY LimitsAreNumbers
<1>2. c.sourcePages \in Nat /\ c.sourceCalls \in Nat
  BY DEF Collections
<1>3. c.sourceCalls <= 2 * c.sourcePages /\ c.sourcePages < MaxSourcePages
  BY DEF LimitsHold
<1>4. /\ e.sourcePages = c.sourcePages + 1 /\ e.sourceCalls = c.sourceCalls + 1
      /\ e.end = "none" => ~(e.sourcePages >= Collected!PageBudget) /\ sort # "name"
  BY DEF IsCharged
<1>5. /\ e.sourcePages <= MaxSourcePages
      /\ e.sourceCalls + 1 <= MaxSourceCalls /\ e.sourceCalls + 1 <= 2 * e.sourcePages
  BY <1>1, <1>2, <1>3, <1>4
<1>6. ASSUME e.end = "none"
      PROVE  e.sourcePages < MaxSourcePages /\ (Collected!CompleteSet => e.sourcePages < MaxPages)
  <2>1. ~(e.sourcePages >= Collected!PageBudget) /\ sort # "name"
    BY <1>4, <1>6
  <2>2. e.sourcePages \in Nat
    BY <1>2, <1>4
  <2>3. Collected!PageBudget = IF sort = "top" THEN MaxPages ELSE MaxSourcePages
    BY DEF Collected!PageBudget
  <2>4. CASE sort = "top"
    <3>1. e.sourcePages < MaxPages
      BY <1>1, <2>1, <2>2, <2>3, <2>4
    <3>. QED BY <1>1, <2>2, <3>1
  <2>5. CASE sort # "top"
    <3>1. e.sourcePages < MaxSourcePages
      BY <1>1, <2>1, <2>2, <2>3, <2>5
    <3>2. ~Collected!CompleteSet
      BY <2>1, <2>5 DEF Collected!CompleteSet
    <3>. QED BY <3>1, <3>2
  <2>. QED BY <2>4, <2>5
<1>. QED BY <1>5, <1>6 DEF IsOneMore

(* What the items of a page add to those that were seen.                   *)
IsBatch(c, items, b) ==
  /\ IsLine(b.batch, Items) /\ ToSet(b.batch) \cap c.seen = {} /\ b.seen = c.seen \cup ToSet(b.batch)
  /\ Len(b.batch) <= Len(items) /\ b.seen \subseteq c.seen \cup ToSet(items)
  /\ ~b.full => b.seen = c.seen \cup ToSet(items)
  /\ b.candidates \in Nat /\ b.candidates <= MaxCandidates /\ b.bytes \in Nat
  /\ b.full \in BOOLEAN /\ b.seen \in SUBSET Items

(* What is counted of a page are items of it, each new.                    *)
LEMMA CountedIsBatch ==
  ASSUME Collected!CollectionAssumption, NEW c \in Collections, c.candidates <= MaxCandidates,
         NEW items \in Seq(Items)
  PROVE  IsBatch(c, items, Collected!Counted(c, items))
<1>. DEFINE b == Collected!Counted(c, items)
<1>1. b \in CountedOf(c, items, Len(items))
  BY CountedIsOf
<1>. HIDE DEF b
<1>2. ToSet(items) = FirstOf(items, Len(items))
  BY TimesAreNumbers DEF FirstOf
<1>3. MaxCandidates \in Nat
  BY LimitsAreNumbers
<1>4. /\ b \in CountStates /\ IsLine(b.batch, Items) /\ ToSet(b.batch) \cap c.seen = {}
      /\ b.seen = c.seen \cup ToSet(b.batch) /\ Len(b.batch) <= Len(items)
      /\ b.seen \subseteq c.seen \cup ToSet(items)
      /\ ~b.full => b.seen = c.seen \cup ToSet(items)
  BY <1>1, <1>2 DEF CountedOf
<1>5. b.candidates \in 0 .. MaxCandidates /\ b.bytes \in Nat /\ b.full \in BOOLEAN /\ b.seen \in SUBSET Items
  BY <1>4 DEF CountStates
<1>6. b.candidates \in Nat /\ b.candidates <= MaxCandidates
  BY <1>3, <1>5
<1>7. IsBatch(c, items, b)
  BY <1>4, <1>5, <1>6 DEF IsBatch
<1>. QED BY <1>7 DEF b

(* Nothing was published as complete while the session goes on.            *)
LEMMA LabelsStay ==
  ASSUME NEW c, NEW e, NEW pg, LabelsHold(c, "fetching", pg)
  PROVE  LabelsHold(e, "fetching", pg)
BY DEF LabelsHold

(* A session that needs all items only collects them.                      *)
LEMMA FetchWhole ==
  ASSUME Collected!CollectionAssumption, Collected!CompleteSet,
         NEW p, NEW c, NEW rq, NEW pd, NEW pg, NEW gv, Holds(p, c, "fetching", rq, pd, pg, gv), c.end = "none",
         NEW items \in Seq(Items), NEW b, IsBatch(c, items, b), NEW e, IsCharged(c, b, e)
  PROVE  Holds(p, e, "fetching", rq + 1, pd \o b.batch, pg, gv \cup ToSet(items))
<1>. DEFINE qd == pd \o b.batch
            hv == gv \cup ToSet(items)
            judged == c.seen \ ToSet(pd)
<1>1. /\ c \in Collections /\ rq \in Nat /\ pd \in Seq(Items) /\ pg \in Seq(PageTypes) /\ gv \in SUBSET Items
      /\ EachOnce(p, c) /\ Exact(p, c, judged) /\ Timely(p, c)
      /\ IsLine(pd, Items) /\ ToSet(pd) \subseteq c.seen
      /\ pg = << >> /\ c.sourcePages = rq /\ c.ready = << >> /\ (sort = "top" => BestFirst(Out(p, c)))
      /\ c.seen = gv
      /\ LabelsHold(c, "fetching", pg) /\ LimitsHold(c)
  BY DEF Holds, TypesHold, OutHolds, PendingHolds, WholeHolds, GivenHolds, WaitingIn
<1>2. /\ IsLine(b.batch, Items) /\ ToSet(b.batch) \cap c.seen = {} /\ b.seen = c.seen \cup ToSet(b.batch)
      /\ b.seen \subseteq c.seen \cup ToSet(items)
      /\ ~b.full => b.seen = c.seen \cup ToSet(items)
      /\ b.candidates <= MaxCandidates
  BY DEF IsBatch
<1>3. /\ e \in Collections
      /\ e.ready = c.ready /\ e.tie = c.tie /\ e.lastTime = c.lastTime /\ e.parents = c.parents
      /\ e.seen = b.seen /\ e.candidates = b.candidates
      /\ e.sourcePages = c.sourcePages + 1 /\ e.sourceCalls = c.sourceCalls + 1
      /\ e.failed => e.end = "stopped"
      /\ e.end # "stopped" => ~b.full
  BY DEF IsCharged
<1>4. IsOneMore(c, e)
  BY <1>1, OneMorePage
<1>5. SameHoldings(p, c, e)
  BY <1>3, HoldingsStay
<1>6. Out(p, e) = Out(p, c) /\ Held(p, e) = Held(p, c) /\ EachOnce(p, e) /\ Timely(p, e)
  BY <1>1, <1>5 DEF SameHoldings
<1>7. ToSet(pd) \cap ToSet(b.batch) = {}
  BY <1>1, <1>2
<1>8. IsLine(qd, Items) /\ ToSet(qd) = ToSet(pd) \cup ToSet(b.batch)
  BY <1>1, <1>2, <1>7, LinesJoined
<1>. HIDE DEF qd
<1>9. e.seen \ ToSet(qd) = judged
  BY <1>1, <1>2, <1>3, <1>8
<1>10. Exact(p, e, judged)
  <2>1. e.end # "stopped" => c.end # "stopped"
    OBVIOUS
  <2>. HIDE DEF judged
  <2>. QED BY <1>1, <1>3, <1>6, <2>1, ExactAlike
<1>11. ToSet(items) \in SUBSET Items
  BY TimesAreNumbers
<1>12. TypesHold(e, "fetching", rq + 1, qd, pg, hv)
  <2>1. rq + 1 \in Nat /\ qd \in Seq(Items)
    BY <1>1, <1>8 DEF IsLine
  <2>. QED BY <1>1, <1>3, <1>11, <2>1 DEF TypesHold
<1>13. Finished(p, e)
  <2>1. sort # "new" /\ e.tie = << >>
    BY <1>6 DEF EachOnce, Collected!CompleteSet
  <2>. QED BY <2>1 DEF Finished
<1>14. OutHolds(p, e, e.seen \ ToSet(qd))
  BY <1>3, <1>6, <1>9, <1>10, <1>13 DEF OutHolds
<1>15. PendingHolds(e, "fetching", qd, pg)
  <2>1. ToSet(qd) \subseteq e.seen
    BY <1>1, <1>2, <1>3, <1>8
  <2>. QED BY <1>1, <1>8, <2>1 DEF PendingHolds
<1>16. WholeHolds(p, e, "fetching", rq + 1, pg)
  <2>1. e.end = "none" => e.sourcePages < MaxPages
    BY <1>4 DEF IsOneMore
  <2>2. e.sourcePages = rq + 1 /\ e.ready = << >> /\ (sort = "top" => BestFirst(Out(p, e)))
    BY <1>1, <1>3, <1>6
  <2>. QED BY <1>1, <2>1, <2>2 DEF WholeHolds
<1>17. GivenHolds(e, hv)
  BY <1>1, <1>2, <1>3 DEF GivenHolds
<1>18. LabelsHold(e, "fetching", pg)
  BY <1>1, LabelsStay
<1>19. LimitsHold(e)
  <2>1. e.sourcePages \in Nat /\ e.sourceCalls \in Nat /\ MaxSourceCalls \in Nat
    BY <1>3, LimitsAreNumbers DEF Collections
  <2>2. /\ e.sourcePages <= MaxSourcePages
        /\ e.sourceCalls + 1 <= MaxSourceCalls /\ e.sourceCalls + 1 <= 2 * e.sourcePages
        /\ e.end = "none" => e.sourcePages < MaxSourcePages
    BY <1>4 DEF IsOneMore
  <2>3. e.sourceCalls <= MaxSourceCalls /\ e.sourceCalls <= 2 * e.sourcePages
    BY <2>1, <2>2
  <2>. QED BY <1>2, <1>3, <2>2, <2>3 DEF LimitsHold
<1>20. WaitingIn("fetching", qd) = ToSet(qd)
  BY DEF WaitingIn
<1>21. Holds(p, e, "fetching", rq + 1, qd, pg, hv)
  BY <1>12, <1>14, <1>15, <1>16, <1>17, <1>18, <1>19, <1>20 DEF Holds
<1>. QED BY <1>21 DEF qd

(* Any other session judges them at once.                                  *)
LEMMA FetchJudged ==
  ASSUME Collected!CollectionAssumption, ~Collected!CompleteSet,
         NEW p \in Seq(Items), NEW c, NEW rq, NEW pd, NEW pg, NEW gv,
         Holds(p, c, "fetching", rq, pd, pg, gv), c.end = "none",
         NEW items \in Seq(Items), Len(items) <= BatchLimit, NEW b, IsBatch(c, items, b),
         NEW e, IsCharged(c, b, e), NEW came \in SUBSET Parents, NEW fails \in BOOLEAN
  PROVE  Holds(p, Collected!Evaluated(e, b.batch, came, fails), "fetching", rq + 1, pd, pg, gv \cup ToSet(items))
<1>. DEFINE g == Collected!Evaluated(e, b.batch, came, fails)
            hv == gv \cup ToSet(items)
            judged == c.seen \cup ToSet(b.batch)
<1>1. /\ c \in Collections /\ rq \in Nat /\ pd \in Seq(Items) /\ pg \in Seq(PageTypes) /\ gv \in SUBSET Items
      /\ EachOnce(p, c) /\ Exact(p, c, c.seen \ ToSet(pd)) /\ Timely(p, c)
      /\ IsLine(pd, Items) /\ pd = << >>
      /\ c.seen = gv
      /\ LabelsHold(c, "fetching", pg) /\ LimitsHold(c)
  BY DEF Holds, TypesHold, OutHolds, PendingHolds, GivenHolds, WaitingIn
<1>2. /\ IsLine(b.batch, Items) /\ ToSet(b.batch) \cap c.seen = {} /\ b.seen = c.seen \cup ToSet(b.batch)
      /\ Len(b.batch) <= Len(items) /\ b.seen \subseteq c.seen \cup ToSet(items)
      /\ ~b.full => b.seen = c.seen \cup ToSet(items)
      /\ b.candidates <= MaxCandidates
  BY DEF IsBatch
<1>3. /\ e \in Collections
      /\ e.ready = c.ready /\ e.tie = c.tie /\ e.lastTime = c.lastTime /\ e.parents = c.parents
      /\ e.seen = b.seen /\ e.candidates = b.candidates
      /\ e.sourcePages = c.sourcePages + 1 /\ e.sourceCalls = c.sourceCalls + 1
      /\ e.failed => e.end = "stopped"
      /\ e.end # "stopped" => ~b.full
  BY DEF IsCharged
<1>4. /\ e.sourcePages <= MaxSourcePages
      /\ e.sourceCalls + 1 <= MaxSourceCalls /\ e.sourceCalls + 1 <= 2 * e.sourcePages
      /\ e.end = "none" => e.sourcePages < MaxSourcePages
  BY <1>1, OneMorePage DEF IsOneMore
<1>5. ToSet(<< >>) = {}
  BY DEF ToSet
<1>6. c.seen \ ToSet(pd) = c.seen /\ c.seen \in SUBSET Items
  BY <1>1, <1>5 DEF Collections
<1>7. SameHoldings(p, c, e)
  BY <1>3, HoldingsStay
<1>8. Held(p, e) = Held(p, c) /\ EachOnce(p, e) /\ Timely(p, e)
  BY <1>1, <1>7 DEF SameHoldings
<1>9. Exact(p, e, c.seen)
  <2>1. Exact(p, c, c.seen)
    BY <1>1, <1>6
  <2>2. e.end # "stopped" => c.end # "stopped"
    OBVIOUS
  <2>. QED BY <1>3, <1>8, <2>1, <2>2, ExactAlike
<1>10. e.sourceCalls <= MaxSourceCalls /\ e.sourceCalls \in Nat /\ MaxSourceCalls \in Nat /\ e.sourcePages \in Nat
  <2>1. e.sourceCalls \in Nat /\ MaxSourceCalls \in Nat /\ e.sourcePages \in Nat
    BY <1>3, LimitsAreNumbers DEF Collections
  <2>. QED BY <1>4, <2>1
<1>11. Len(b.batch) <= ChunkSize
  <2>1. Len(items) \in Nat /\ Len(b.batch) \in Nat
    BY <1>2, LenProperties DEF IsLine
  <2>2. BatchLimit \in Nat /\ ChunkSize \in Nat /\ BatchLimit <= ChunkSize
    BY LimitsAreNumbers
  <2>. QED BY <1>2, <2>1, <2>2
<1>12. IsEvaluated(p, e, judged, Len(b.batch), g)
  BY <1>2, <1>3, <1>6, <1>8, <1>9, <1>10, EvaluatedProperties
<1>. HIDE DEF g
<1>13. /\ g \in Collections /\ g.seen = e.seen /\ g.sourcePages = e.sourcePages /\ g.candidates = e.candidates
       /\ g.sourceCalls <= MaxSourceCalls /\ g.sourceCalls <= e.sourceCalls + 1
       /\ g.end = "stopped" \/ (g.end = e.end /\ g.failed = e.failed)
       /\ Exact(p, g, judged) /\ EachOnce(p, g) /\ (g.end = "none" => Timely(p, g)) /\ Finished(p, g)
  BY <1>11, <1>12 DEF IsEvaluated, ClosedWell
<1>14. WaitingIn("fetching", pd) = {} /\ g.seen \ {} = judged
  BY <1>1, <1>2, <1>3, <1>5, <1>13 DEF WaitingIn
<1>15. OutHolds(p, g, g.seen \ WaitingIn("fetching", pd))
  BY <1>3, <1>13, <1>14 DEF OutHolds
<1>16. ToSet(items) \in SUBSET Items
  BY TimesAreNumbers
<1>17. TypesHold(g, "fetching", rq + 1, pd, pg, hv)
  <2>1. rq + 1 \in Nat
    BY <1>1
  <2>. QED BY <1>1, <1>13, <1>16, <2>1 DEF TypesHold
<1>18. PendingHolds(g, "fetching", pd, pg)
  BY <1>1, <1>5 DEF PendingHolds
<1>19. WholeHolds(p, g, "fetching", rq + 1, pg)
  BY DEF WholeHolds
<1>20. GivenHolds(g, hv)
  <2>1. g.end # "stopped" => ~b.full
    BY <1>3, <1>13
  <2>. QED BY <1>1, <1>2, <1>3, <1>13, <2>1 DEF GivenHolds
<1>21. LabelsHold(g, "fetching", pg)
  BY <1>1, LabelsStay
<1>22. LimitsHold(g)
  <2>1. g.sourceCalls \in Nat
    BY <1>13 DEF Collections
  <2>2. e.end = "none" => e.sourcePages < MaxSourcePages
    BY <1>4
  <2>3. g.sourceCalls <= 2 * g.sourcePages
    BY <1>4, <1>10, <1>13, <2>1
  <2>4. g.end = "none" => g.sourcePages < MaxSourcePages
    BY <1>13, <2>2
  <2>5. g.sourcePages <= MaxSourcePages /\ g.candidates <= MaxCandidates
    BY <1>2, <1>3, <1>4, <1>13
  <2>. QED BY <1>13, <2>3, <2>4, <2>5 DEF LimitsHold
<1>23. Holds(p, g, "fetching", rq + 1, pd, pg, hv)
  BY <1>15, <1>17, <1>18, <1>19, <1>20, <1>21, <1>22 DEF Holds
<1>. QED BY <1>23 DEF g

(* The source failed: what was put out stays, and nothing follows it.      *)
LEMMA BeforeIsLine ==
  ASSUME NEW p \in Seq(Items), NEW q \in Seq(Items), IsLine(p \o q, Items)
  PROVE  /\ IsLine(p, Items) /\ ToSet(p) \subseteq ToSet(p \o q)
         /\ Chronological(p \o q) => Chronological(p)
         /\ BestFirst(p \o q) => BestFirst(p)
<1>. DEFINE r == p \o q
<1>1. r \in Seq(Items) /\ \A i, j \in 1 .. Len(r) : r[i] = r[j] => i = j
  BY DEF IsLine
<1>2. \A i \in 1 .. Len(p) : i \in 1 .. Len(r) /\ r[i] = p[i]
  BY ConcatIsFunction
<1>3. /\ Len(p) \in Nat /\ DOMAIN p = 1 .. Len(p) /\ Len(r) \in Nat /\ DOMAIN r = 1 .. Len(r)
  BY <1>1, LenProperties
<1>. HIDE DEF r
<1>4. IsLine(p, Items)
  BY <1>1, <1>2 DEF IsLine
<1>5. ToSet(p) \subseteq ToSet(r)
  BY <1>2, <1>3 DEF ToSet
<1>6. Chronological(r) => Chronological(p)
  BY <1>2 DEF Chronological
<1>7. BestFirst(r) => BestFirst(p)
  BY <1>2 DEF BestFirst
<1>. QED BY <1>4, <1>5, <1>6, <1>7 DEF r

(* An error page shows nothing and leaves nothing to show.                 *)
LEMMA FailHolds ==
  ASSUME Collected!CollectionAssumption, NEW p \in Seq(Items), NEW c, NEW rq, NEW pd, NEW pg, NEW gv,
         Holds(p, c, "fetching", rq, pd, pg, gv), NEW qg \in Seq(PageTypes), NEW page,
         qg = Append(pg, page), page.label = "error"
  PROVE  Holds(p, [c EXCEPT !.end = "stopped", !.ready = << >>, !.tie = << >>], "idle", rq, pd, qg, gv)
<1>. DEFINE g == [c EXCEPT !.end = "stopped", !.ready = << >>, !.tie = << >>]
<1>1. /\ c \in Collections /\ rq \in Nat /\ pd \in Seq(Items) /\ pg \in Seq(PageTypes) /\ gv \in SUBSET Items
      /\ EachOnce(p, c) /\ Exact(p, c, c.seen \ ToSet(pd))
      /\ IsLine(pd, Items) /\ ToSet(pd) \subseteq c.seen
      /\ c.seen \subseteq gv
      /\ LabelsHold(c, "fetching", pg) /\ LimitsHold(c)
      /\ Collected!CompleteSet /\ sort = "top" => BestFirst(Out(p, c))
  BY DEF Holds, TypesHold, OutHolds, PendingHolds, WholeHolds, GivenHolds, WaitingIn
<1>2. << >> \in Seq(Items)
  OBVIOUS
<1>3. /\ g \in Collections /\ g.ready = << >> /\ g.tie = << >> /\ g.end = "stopped" /\ g.seen = c.seen
      /\ g.parents = c.parents /\ g.sourceCalls = c.sourceCalls /\ g.sourcePages = c.sourcePages
      /\ g.candidates = c.candidates
  BY <1>1, <1>2 DEF Collections, CollectionEnds
<1>. HIDE DEF g
<1>4. c.ready \in Seq(Items)
  BY <1>1 DEF Collections
<1>5. IsLine(p \o c.ready, Items)
  BY <1>1 DEF EachOnce, Out
<1>6. /\ IsLine(p, Items) /\ ToSet(p) \subseteq ToSet(p \o c.ready)
      /\ BestFirst(p \o c.ready) => BestFirst(p)
  BY <1>4, <1>5, BeforeIsLine
<1>7. p \o << >> = p /\ ToSet(<< >>) = {} /\ IsLine(<< >>, Items)
  BY NothingFollows
<1>8. Out(p, g) = p /\ Held(p, g) = ToSet(p) /\ Held(p, g) \subseteq Held(p, c)
  BY <1>3, <1>6, <1>7 DEF Out, Held
<1>9. EachOnce(p, g)
  BY <1>3, <1>6, <1>7, <1>8 DEF EachOnce
<1>10. Exact(p, g, g.seen)
  <2>1. Held(p, c) \subseteq c.seen /\ \A i \in Held(p, c) : Collected!VerdictOf(c, i) = "true"
    BY <1>1 DEF Exact
  <2>2. \A i : Collected!VerdictOf(g, i) = Collected!VerdictOf(c, i)
    BY <1>3, SameVerdicts
  <2>3. Held(p, g) \subseteq g.seen /\ \A i \in Held(p, g) : Collected!VerdictOf(g, i) = "true"
    BY <1>3, <1>8, <2>1, <2>2
  <2>. QED BY <1>3, <2>3 DEF Exact
<1>11. sort = "new" => Chronological(p)
  <2>1. sort = "new" => Chronological(Out(p, c))
    BY DEF Holds, OutHolds, Timely, Finished
  <2>. QED BY <1>4, <1>5, <2>1, BeforeIsLine DEF Out
<1>12. WaitingIn("idle", pd) = {} /\ g.seen \ {} = g.seen
  BY DEF WaitingIn
<1>13. OutHolds(p, g, g.seen \ WaitingIn("idle", pd))
  BY <1>3, <1>8, <1>9, <1>10, <1>11, <1>12 DEF OutHolds, Finished
<1>14. Len(pg) \in Nat /\ Len(qg) = Len(pg) + 1 /\ (\A n \in 1 .. Len(pg) : qg[n] = pg[n]) /\ qg[Len(pg) + 1] = page
  BY <1>1, LenProperties, AppendProperties
<1>15. LabelsHold(g, "idle", qg)
  <2>. SUFFICES ASSUME NEW n \in 1 .. Len(qg) PROVE qg[n].label # "selected_sources_exhausted"
    BY DEF LabelsHold
  <2>1. CASE n \in 1 .. Len(pg)
    <3>1. pg[n].label # "selected_sources_exhausted"
      BY <1>1, <2>1 DEF LabelsHold
    <3>. QED BY <1>14, <2>1, <3>1
  <2>2. CASE n \notin 1 .. Len(pg)
    <3>1. n = Len(pg) + 1
      BY <1>14, <2>2
    <3>. QED BY <1>14, <3>1
  <2>. QED BY <2>1, <2>2
<1>16. qg # << >>
  <2>1. Len(qg) # 0 /\ Len(<< >>) = 0
    BY <1>14
  <2>. QED BY <2>1
<1>17. WholeHolds(p, g, "idle", rq, qg)
  <2>1. Collected!CompleteSet /\ sort = "top" => BestFirst(Out(p, g))
    BY <1>1, <1>6, <1>8 DEF Out
  <2>. QED BY <1>3, <1>16, <2>1 DEF WholeHolds
<1>18. TypesHold(g, "idle", rq, pd, qg, gv)
  BY <1>1, <1>3 DEF TypesHold
<1>19. PendingHolds(g, "idle", pd, qg)
  BY <1>1, <1>3 DEF PendingHolds
<1>20. GivenHolds(g, gv)
  BY <1>1, <1>3 DEF GivenHolds
<1>21. LimitsHold(g)
  BY <1>1, <1>3 DEF LimitsHold
<1>22. Holds(p, g, "idle", rq, pd, qg, gv)
  BY <1>13, <1>15, <1>17, <1>18, <1>19, <1>20, <1>21 DEF Holds
<1>. QED BY <1>22 DEF g

(* What was published before is not said to be all.                        *)
LEMMA StopsHolds ==
  ASSUME Collected!CollectionAssumption, NEW p \in Seq(Items), NEW c, NEW rq, NEW pd, NEW pg, NEW gv,
         Holds(p, c, "fetching", rq, pd, pg, gv), c.end = "none"
  PROVE  Holds(p, Collected!FlushTie(Collected!Stop(Collected!Called(c), TRUE)), "fetching", rq + 1, pd, pg, gv)
<1>. DEFINE e == Collected!Called(c)
            s == Collected!Stop(e, TRUE)
            g == Collected!FlushTie(s)
            judged == c.seen \ ToSet(pd)
<1>1. /\ c \in Collections /\ rq \in Nat /\ pd \in Seq(Items) /\ pg \in Seq(PageTypes) /\ gv \in SUBSET Items
      /\ EachOnce(p, c) /\ Exact(p, c, judged) /\ Timely(p, c)
      /\ IsLine(pd, Items) /\ ToSet(pd) \subseteq c.seen
      /\ pd # << >> => Collected!CompleteSet /\ pg = << >>
      /\ c.seen \subseteq gv
      /\ LabelsHold(c, "fetching", pg) /\ LimitsHold(c)
      /\ Collected!CompleteSet => c.ready = << >>
      /\ Collected!CompleteSet /\ sort = "top" => BestFirst(Out(p, c))
  BY DEF Holds, TypesHold, OutHolds, PendingHolds, WholeHolds, GivenHolds, WaitingIn
<1>2. c.sourcePages \in Nat /\ c.sourceCalls \in Nat
  BY <1>1 DEF Collections
<1>3. c.sourcePages + 1 \in Nat /\ c.sourceCalls + 1 \in Nat
  BY <1>2
<1>4. e = [c EXCEPT !.sourcePages = c.sourcePages + 1, !.sourceCalls = c.sourceCalls + 1]
  BY DEF Collected!Called
<1>. HIDE DEF e
<1>5. /\ e \in Collections
      /\ e.ready = c.ready /\ e.tie = c.tie /\ e.lastTime = c.lastTime /\ e.parents = c.parents
      /\ e.seen = c.seen /\ e.candidates = c.candidates
      /\ e.sourcePages = c.sourcePages + 1 /\ e.sourceCalls = c.sourceCalls + 1
  BY <1>1, <1>3, <1>4 DEF Collections
<1>6. IsEnded(e, s) /\ s.end = "stopped"
  BY <1>5, StopEnds, StopTypes
<1>. HIDE DEF s
<1>7. /\ s \in Collections
      /\ s.ready = c.ready /\ s.tie = c.tie /\ s.lastTime = c.lastTime /\ s.parents = c.parents
      /\ s.seen = c.seen /\ s.candidates = c.candidates
      /\ s.sourcePages = c.sourcePages + 1 /\ s.sourceCalls = c.sourceCalls + 1
  BY <1>5, <1>6 DEF IsEnded, SameWork
<1>8. SameHoldings(p, c, s)
  BY <1>7, HoldingsStay
<1>9. Out(p, s) = Out(p, c) /\ Held(p, s) = Held(p, c) /\ EachOnce(p, s) /\ Timely(p, s)
  BY <1>1, <1>8 DEF SameHoldings
<1>10. IsFlush(p, s, g)
  BY <1>7, <1>9, FlushTieProperties
<1>. HIDE DEF g
<1>11. /\ g \in Collections /\ SameBudget(s, g) /\ g.tie = << >> /\ EachOnce(p, g) /\ Held(p, g) = Held(p, s)
       /\ s.tie = << >> => g.ready = s.ready
  BY <1>10 DEF IsFlush
<1>12. ClosedWell(p, g)
  <2>1. s.end # "none"
    BY <1>6
  <2>. QED BY <1>9, <1>10, <2>1, FlushIsFinished
<1>13. /\ g.parents = c.parents /\ g.end = "stopped" /\ g.seen = c.seen /\ g.candidates = c.candidates
       /\ g.sourcePages = c.sourcePages + 1 /\ g.sourceCalls = c.sourceCalls + 1
  BY <1>6, <1>7, <1>11 DEF SameBudget
<1>14. Exact(p, g, judged)
  <2>1. Held(p, g) = Held(p, c)
    BY <1>9, <1>11
  <2>. HIDE DEF judged
  <2>. QED BY <1>1, <1>13, <2>1, ExactAlike
<1>15. OutHolds(p, g, judged)
  BY <1>11, <1>12, <1>13, <1>14 DEF OutHolds, ClosedWell
<1>16. WaitingIn("fetching", pd) = ToSet(pd)
  BY DEF WaitingIn
<1>17. TypesHold(g, "fetching", rq + 1, pd, pg, gv)
  <2>1. rq + 1 \in Nat
    BY <1>1
  <2>. QED BY <1>1, <1>11, <2>1 DEF TypesHold
<1>18. PendingHolds(g, "fetching", pd, pg)
  BY <1>1, <1>13 DEF PendingHolds
<1>19. WholeHolds(p, g, "fetching", rq + 1, pg)
  <2>. SUFFICES ASSUME Collected!CompleteSet
                PROVE  g.ready = << >> /\ (sort = "top" => BestFirst(Out(p, g)))
    BY <1>13 DEF WholeHolds
  <2>1. c.tie = << >>
    BY <1>1 DEF EachOnce, Collected!CompleteSet
  <2>2. g.ready = c.ready
    BY <1>7, <1>11, <2>1
  <2>3. Out(p, g) = Out(p, c)
    BY <2>2 DEF Out
  <2>. QED BY <1>1, <2>2, <2>3
<1>20. GivenHolds(g, gv)
  BY <1>1, <1>13 DEF GivenHolds
<1>21. LabelsHold(g, "fetching", pg)
  BY <1>1, LabelsStay
<1>22. LimitsHold(g)
  <2>1. c.sourceCalls <= 2 * c.sourcePages /\ c.sourcePages < MaxSourcePages /\ c.candidates <= MaxCandidates
    BY <1>1 DEF LimitsHold
  <2>2. MaxSourcePages \in Nat /\ MaxSourceCalls \in Nat /\ 2 * MaxSourcePages <= MaxSourceCalls
    BY LimitsAreNumbers
  <2>3. c.sourceCalls + 1 <= MaxSourceCalls /\ c.sourcePages + 1 <= MaxSourcePages
    BY <1>2, <2>1, <2>2
  <2>. QED BY <1>13, <2>1, <2>3 DEF LimitsHold
<1>23. Holds(p, g, "fetching", rq + 1, pd, pg, gv)
  BY <1>13, <1>15, <1>16, <1>17, <1>18, <1>19, <1>20, <1>21, <1>22 DEF Holds
<1>. QED BY <1>23 DEF g, s, e

(* An advance begins.                                                      *)
LEMMA BeginHolds ==
  ASSUME NEW p, NEW c, NEW rq, NEW pd, NEW pg, NEW gv, Holds(p, c, "idle", rq, pd, pg, gv),
         pg # << >> => pg[Len(pg)].more
  PROVE  Holds(p, c, "fetching", 0, << >>, pg, gv)
<1>1. << >> \in Seq(Items) /\ ToSet(<< >>) = {} /\ IsLine(<< >>, Items)
  <2>1. << >> \in Seq(Items)
    OBVIOUS
  <2>. QED BY <2>1, NothingFollows
<1>2. /\ TypesHold(c, "idle", rq, pd, pg, gv) /\ OutHolds(p, c, c.seen \ WaitingIn("idle", pd))
      /\ WholeHolds(p, c, "idle", rq, pg)
      /\ GivenHolds(c, gv) /\ LabelsHold(c, "idle", pg) /\ LimitsHold(c)
  BY DEF Holds
<1>3. WaitingIn("idle", pd) = {} /\ WaitingIn("fetching", << >>) = {}
  BY <1>1 DEF WaitingIn
<1>4. TypesHold(c, "fetching", 0, << >>, pg, gv)
  BY <1>1, <1>2 DEF TypesHold
<1>5. PendingHolds(c, "fetching", << >>, pg)
  BY <1>1 DEF PendingHolds
<1>6. WholeHolds(p, c, "fetching", 0, pg)
  BY <1>2 DEF WholeHolds
<1>7. LabelsHold(c, "fetching", pg)
  <2>. SUFFICES ASSUME NEW n \in 1 .. Len(pg), pg[n].label = "selected_sources_exhausted" PROVE FALSE
    BY DEF LabelsHold
  <2>1. n = Len(pg) /\ ~pg[n].more
    BY <1>2 DEF LabelsHold
  <2>2. pg # << >>
    BY <2>1
  <2>. QED BY <2>1, <2>2
<1>. QED BY <1>2, <1>3, <1>4, <1>5, <1>6, <1>7 DEF Holds
-----------------------------------------------------------------------------
(***************************************************************************)
(* advance: the page.                                                      *)
(***************************************************************************)
LEMMA ClosedAgain ==
  ASSUME Collected!CollectionAssumption, NEW p \in Seq(Items), NEW c \in Collections,
         EachOnce(p, c), Finished(p, c), c.end = "none" => Timely(p, c)
  PROVE  IsClosedOf(p, c, Collected!Closed(c))
<1>. DEFINE g == Collected!Closed(c)
            f == Collected!FlushTie(c)
<1>1. CASE c.end = "none"
  BY <1>1, ClosedProperties
<1>2. CASE c.end # "none"
  <2>1. IsFlush(p, c, f)
    BY FlushTieProperties
  <2>2. g = f
    BY <1>2 DEF Collected!Closed
  <2>. HIDE DEF g, f
  <2>3. c.tie = << >> /\ (sort = "new" => Chronological(Out(p, c)))
    BY <1>2 DEF Finished
  <2>4. /\ g \in Collections /\ SameBudget(c, g) /\ g.tie = << >> /\ g.ready = c.ready
        /\ EachOnce(p, g) /\ Held(p, g) = Held(p, c)
    BY <2>1, <2>2, <2>3 DEF IsFlush
  <2>5. Out(p, g) = Out(p, c) /\ g.end = c.end
    BY <2>4 DEF Out, SameBudget
  <2>6. ClosedWell(p, g)
    BY <1>2, <2>3, <2>4, <2>5 DEF ClosedWell, Finished
  <2>7. IsClosedOf(p, c, g)
    BY <2>4, <2>6 DEF IsClosedOf
  <2>. QED BY <2>7 DEF g
<1>. QED BY <1>1, <1>2

(* What is ready is sorted.                                                *)
IsSortedOf(c, s) ==
  /\ s \in Collections /\ SameBudget(c, s) /\ s.tie = << >>
  /\ EachOnce(<< >>, s) /\ Held(<< >>, s) = Held(<< >>, c)
  /\ Out(<< >>, s) = s.ready /\ BestFirst(s.ready)

(* Sorting moves what is ready and leaves everything else.                 *)
LEMMA SortedProperties ==
  ASSUME Collected!CollectionAssumption, NEW c \in Collections, EachOnce(<< >>, c), Collected!CompleteSet
  PROVE  IsSortedOf(c, Collected!Sorted(c))
<1>. DEFINE r == Collected!Arranged(c.ready, Collected!Best)
            s == Collected!Sorted(c)
<1>1. c.ready \in Seq(Items) /\ c.tie = << >> /\ sort # "new"
  BY DEF Collections, EachOnce, Collected!CompleteSet
<1>2. \A t \in Seq(Items) : << >> \o t = t
  BY ConcatSimplifications
<1>3. Out(<< >>, c) = c.ready
  BY <1>1, <1>2 DEF Out
<1>4. IsLine(c.ready, Items)
  BY <1>3 DEF EachOnce
<1>5. IsLine(r, Items) /\ ToSet(r) = ToSet(c.ready) /\ BestFirst(r)
  BY <1>4, WholeByBest
<1>6. s = [c EXCEPT !.ready = r]
  BY DEF Collected!Sorted
<1>. HIDE DEF s, r
<1>7. r \in Seq(Items)
  BY <1>5 DEF IsLine
<1>8. s \in Collections /\ SameBudget(c, s) /\ s.tie = << >> /\ s.ready = r
  BY <1>1, <1>6, <1>7 DEF Collections, SameBudget
<1>9. Out(<< >>, s) = r
  BY <1>2, <1>7, <1>8 DEF Out
<1>10. ToSet(<< >>) = {} /\ IsLine(<< >>, Items)
  <2>1. << >> \in Seq(Items)
    OBVIOUS
  <2>. QED BY <2>1, NothingFollows
<1>11. EachOnce(<< >>, s)
  BY <1>5, <1>8, <1>9, <1>10 DEF EachOnce
<1>12. Held(<< >>, s) = Held(<< >>, c)
  BY <1>1, <1>3, <1>5, <1>8, <1>9 DEF Held
<1>13. IsSortedOf(c, s)
  BY <1>5, <1>8, <1>9, <1>11, <1>12 DEF IsSortedOf
<1>. QED BY <1>13 DEF s

(* The collection a page is cut from: all its items are judged.            *)
IsComplete(p, c, k) ==
  /\ k \in Collections /\ k.seen = c.seen /\ k.sourcePages = c.sourcePages /\ k.candidates = c.candidates
  /\ k.sourceCalls <= MaxSourceCalls
  /\ k.end = "none" => c.end = "none" /\ k.sourceCalls = c.sourceCalls
  /\ k.end # "stopped" => c.end # "stopped"
  /\ k.failed => k.end = "stopped"
  /\ Exact(p, k, c.seen) /\ ClosedWell(p, k)
  /\ Collected!CompleteSet => k.end # "none" /\ (sort = "top" => BestFirst(Out(p, k)))

(* Nothing is left to judge when a page is cut.                            *)
LEMMA CompleteAsItIs ==
  ASSUME Collected!CollectionAssumption, NEW p \in Seq(Items), NEW c, NEW rq, NEW pd, NEW pg, NEW gv,
         Holds(p, c, "fetching", rq, pd, pg, gv), ~(Collected!CompleteSet /\ pd # << >>),
         Collected!CompleteSet => c.end # "none"
  PROVE  IsComplete(p, c, Collected!Closed(c))
<1>. DEFINE k == Collected!Closed(c)
<1>1. /\ c \in Collections
      /\ EachOnce(p, c) /\ Exact(p, c, c.seen \ ToSet(pd)) /\ (c.end = "none" => Timely(p, c)) /\ Finished(p, c)
      /\ c.failed => c.end = "stopped"
      /\ pd = << >> /\ LimitsHold(c)
      /\ Collected!CompleteSet /\ sort = "top" => BestFirst(Out(p, c))
  BY DEF Holds, TypesHold, OutHolds, PendingHolds, WholeHolds, WaitingIn
<1>2. c.seen \ ToSet(pd) = c.seen
  BY <1>1 DEF ToSet
<1>3. IsClosedOf(p, c, k)
  BY <1>1, ClosedAgain
<1>. HIDE DEF k
<1>4. /\ k \in Collections /\ SameBudget(c, k) /\ Held(p, k) = Held(p, c)
      /\ ClosedWell(p, k) /\ (c.tie = << >> => k.ready = c.ready)
  BY <1>3 DEF IsClosedOf
<1>5. /\ k.seen = c.seen /\ k.sourcePages = c.sourcePages /\ k.candidates = c.candidates
      /\ k.sourceCalls = c.sourceCalls /\ k.end = c.end /\ k.failed = c.failed /\ k.parents = c.parents
  BY <1>4 DEF SameBudget
<1>6. Exact(p, k, c.seen)
  <2>1. Exact(p, c, c.seen) /\ Held(p, k) = Held(p, c) /\ k.parents = c.parents
    BY <1>1, <1>2, <1>4, <1>5, Zenon
  <2>2. k.end # "stopped" => c.end # "stopped" /\ c.seen = c.seen
    BY <1>5, Zenon
  <2>3. c.seen \subseteq c.seen
    OBVIOUS
  <2>. QED BY <2>1, <2>2, <2>3, ExactAlike
<1>7. Collected!CompleteSet /\ sort = "top" => BestFirst(Out(p, k))
  <2>1. Collected!CompleteSet => c.tie = << >>
    BY <1>1 DEF EachOnce, Collected!CompleteSet
  <2>. QED BY <1>1, <1>4, <2>1 DEF Out
<1>8. c.sourceCalls <= MaxSourceCalls
  BY <1>1 DEF LimitsHold
<1>9. IsComplete(p, c, k)
  BY <1>1, <1>4, <1>5, <1>6, <1>7, <1>8 DEF IsComplete
<1>. QED BY <1>9 DEF k

(* What waited for the whole source is judged and sorted.                  *)
LEMMA CompleteWhenJudged ==
  ASSUME Collected!CollectionAssumption, NEW c, NEW rq, NEW pd, NEW pg, NEW gv,
         Holds(<< >>, c, "fetching", rq, pd, pg, gv), Collected!CompleteSet, c.end # "none",
         NEW came \in SUBSET Parents, NEW fails \in BOOLEAN
  PROVE  IsComplete(<< >>, c, Collected!Closed(Collected!Sorted(Collected!Evaluated(c, pd, came, fails))))
<1>. DEFINE p == << >>
            g == Collected!Evaluated(c, pd, came, fails)
            s == Collected!Sorted(g)
            k == Collected!Closed(s)
            judged == c.seen \ ToSet(pd)
<1>1. /\ c \in Collections /\ EachOnce(p, c) /\ Exact(p, c, judged) /\ (c.failed => c.end = "stopped")
      /\ IsLine(pd, Items) /\ ToSet(pd) \subseteq c.seen /\ LimitsHold(c)
  BY DEF Holds, TypesHold, OutHolds, PendingHolds, WaitingIn
<1>2. sort # "new" /\ Timely(p, c)
  BY DEF Timely, Collected!CompleteSet
<1>3. p \in Seq(Items) /\ judged \in SUBSET Items /\ c.sourceCalls <= MaxSourceCalls
  BY <1>1 DEF Collections, LimitsHold
<1>4. ToSet(pd) \cap judged = {} /\ judged \cup ToSet(pd) = c.seen
  BY <1>1
<1>. HIDE DEF judged, p
<1>5. IsEvaluated(p, c, judged \cup ToSet(pd), Len(pd), g)
  BY <1>1, <1>2, <1>3, <1>4, EvaluatedProperties
<1>. HIDE DEF g
<1>6. /\ g \in Collections /\ g.seen = c.seen /\ g.sourcePages = c.sourcePages /\ g.candidates = c.candidates
      /\ g.sourceCalls <= MaxSourceCalls
      /\ g.end = "stopped" \/ (g.end = c.end /\ g.failed = c.failed)
      /\ Exact(p, g, c.seen) /\ EachOnce(p, g)
  BY <1>4, <1>5 DEF IsEvaluated, ClosedWell
<1>7. IsSortedOf(g, s)
  BY <1>6, SortedProperties DEF p
<1>. HIDE DEF s
<1>8. /\ s \in Collections /\ SameBudget(g, s) /\ s.tie = << >>
      /\ EachOnce(p, s) /\ Held(p, s) = Held(p, g)
      /\ Out(p, s) = s.ready /\ BestFirst(s.ready)
  BY <1>7 DEF IsSortedOf, p
<1>9. Finished(p, s) /\ Timely(p, s)
  BY <1>2, <1>8 DEF Finished, Timely
<1>10. IsClosedOf(p, s, k)
  BY <1>3, <1>8, <1>9, ClosedAgain
<1>. HIDE DEF k
<1>11. /\ k \in Collections /\ SameBudget(s, k) /\ Held(p, k) = Held(p, s)
       /\ ClosedWell(p, k) /\ k.ready = s.ready
  BY <1>8, <1>10 DEF IsClosedOf
<1>12. /\ k.seen = c.seen /\ k.sourcePages = c.sourcePages /\ k.candidates = c.candidates
       /\ k.sourceCalls = g.sourceCalls /\ k.end = g.end /\ k.failed = g.failed /\ k.parents = g.parents
  BY <1>6, <1>8, <1>11 DEF SameBudget
<1>13. Exact(p, k, c.seen)
  BY <1>6, <1>8, <1>11, <1>12, ExactAlike
<1>14. BestFirst(Out(p, k))
  BY <1>8, <1>11 DEF Out
<1>15. IsComplete(p, c, k)
  BY <1>1, <1>6, <1>11, <1>12, <1>13, <1>14 DEF IsComplete
<1>. QED BY <1>15 DEF k, s, g, p

(* What is cut off for a page.                                             *)
Cut(k, size) == [k EXCEPT !.ready = SubSeq(k.ready, size + 1, Len(k.ready))]
PageItems(k, size) == SubSeq(k.ready, 1, size)
PageCut(k, size) == Collected!Page(PageItems(k, size), Collected!GoesOn(Cut(k, size)), Collected!Label(Cut(k, size)))

IsCut(p, k, q, r) ==
  /\ r \in Collections /\ SameBudget(k, r) /\ r.tie = k.tie
  /\ Out(q, r) = Out(p, k) /\ Held(q, r) = Held(p, k) /\ (ClosedWell(p, k) => ClosedWell(q, r))

(* A page takes the first that are ready and leaves the others.            *)
LEMMA CutProperties ==
  ASSUME NEW p \in Seq(Items), NEW k \in Collections, NEW size \in 0 .. Len(k.ready)
  PROVE  PageItems(k, size) \in Seq(Items) /\ IsCut(p, k, p \o PageItems(k, size), Cut(k, size))
<1>. DEFINE front == PageItems(k, size)
            rest == SubSeq(k.ready, size + 1, Len(k.ready))
            q == p \o front
            r == Cut(k, size)
<1>1. k.ready \in Seq(Items)
  BY DEF Collections
<1>2. front \in Seq(Items) /\ rest \in Seq(Items) /\ front \o rest = k.ready
  BY <1>1, CutInTwo DEF PageItems
<1>3. r = [k EXCEPT !.ready = rest]
  BY DEF Cut
<1>. HIDE DEF r, rest, front
<1>4. /\ r \in Collections /\ SameBudget(k, r) /\ r.tie = k.tie /\ r.lastTime = k.lastTime /\ r.ready = rest
  BY <1>2, <1>3 DEF Collections, SameBudget
<1>5. \A a, b \in Seq(Items) : p \o (a \o b) = (p \o a) \o b
  BY ConcatTwice
<1>6. Out(q, r) = Out(p, k)
  BY <1>2, <1>4, <1>5 DEF Out
<1>. HIDE DEF q
<1>7. Held(q, r) = Held(p, k)
  BY <1>4, <1>6 DEF Held
<1>8. r.end = k.end
  BY <1>4 DEF SameBudget
<1>9. ClosedWell(p, k) => ClosedWell(q, r)
  BY <1>4, <1>6, <1>8 DEF ClosedWell, EachOnce, Timely, Finished
<1>10. IsCut(p, k, q, r)
  BY <1>4, <1>6, <1>7, <1>9 DEF IsCut
<1>. QED BY <1>2, <1>10 DEF q, r, front

(* The label of a page.                                                    *)
LEMMA PageTypesHold ==
  ASSUME NEW r \in Collections, NEW items \in Seq(Items)
  PROVE  LET page == Collected!Page(items, Collected!GoesOn(r), Collected!Label(r))
         IN /\ page \in PageTypes /\ page.items = items /\ page.more = Collected!GoesOn(r)
            /\ page.label = "selected_sources_exhausted" => r.ready = << >> /\ r.end = "exhausted"
<1>. DEFINE l == Collected!Label(r)
            m == Collected!GoesOn(r)
            page == Collected!Page(items, m, l)
<1>1. r.end \in {"none", "exhausted", "stopped"}
  BY DEF Collections, CollectionEnds
<1>2. l = CASE r.ready # << >> -> "buffered_results_remain"
            [] r.ready = << >> /\ r.end = "none" -> "more_results_may_exist"
            [] r.ready = << >> /\ r.end = "exhausted" -> "selected_sources_exhausted"
            [] r.ready = << >> /\ r.end = "stopped" -> "stopped_early"
  BY Zenon DEF Collected!Label
<1>. HIDE DEF l
<1>3. l \in PageLabels /\ (l = "selected_sources_exhausted" => r.ready = << >> /\ r.end = "exhausted")
  BY <1>1, <1>2 DEF PageLabels
<1>4. m \in BOOLEAN
  BY DEF Collected!GoesOn
<1>. HIDE DEF m
<1>5. page = [items |-> items, more |-> m, label |-> l]
  BY DEF Collected!Page
<1>. HIDE DEF page
<1>6. page \in PageTypes /\ page.items = items /\ page.more = m /\ page.label = l
  BY <1>3, <1>4, <1>5 DEF PageTypes
<1>. QED BY <1>3, <1>6 DEF page, l, m

(* The same is held of the pages and the collection together.              *)
LEMMA ExactMoved ==
  ASSUME NEW p, NEW c, NEW q, NEW g, NEW d, Exact(p, c, d), Held(q, g) = Held(p, c), g.parents = c.parents,
         g.end = c.end
  PROVE  Exact(q, g, d)
<1>1. \A i : Collected!VerdictOf(g, i) = Collected!VerdictOf(c, i) /\ (Decided(g, i) <=> Decided(c, i))
  BY SameVerdicts
<1>. QED BY <1>1 DEF Exact

(* The invariant after a page is cut.                                      *)
LEMMA PageHolds ==
  ASSUME Collected!CollectionAssumption, NEW p \in Seq(Items), NEW c, NEW rq, NEW pd, NEW pg, NEW gv,
         Holds(p, c, "fetching", rq, pd, pg, gv), NEW k, IsComplete(p, c, k), NEW size \in 0 .. Len(k.ready)
  PROVE  /\ PageCut(k, size) \in PageTypes /\ PageCut(k, size).items = PageItems(k, size)
         /\ PageItems(k, size) \in Seq(Items)
         /\ Holds(p \o PageItems(k, size), Cut(k, size), "idle", rq, pd, Append(pg, PageCut(k, size)), gv)
<1>. DEFINE front == PageItems(k, size)
            q == p \o front
            r == Cut(k, size)
            page == PageCut(k, size)
            qg == Append(pg, page)
<1>1. /\ c \in Collections /\ rq \in Nat /\ pd \in Seq(Items) /\ pg \in Seq(PageTypes) /\ gv \in SUBSET Items
      /\ IsLine(pd, Items) /\ ToSet(pd) \subseteq c.seen
      /\ c.seen \subseteq gv /\ (c.end # "stopped" => c.seen = gv)
      /\ LabelsHold(c, "fetching", pg) /\ LimitsHold(c)
  BY DEF Holds, TypesHold, PendingHolds, GivenHolds
<1>2. /\ k \in Collections /\ k.seen = c.seen /\ k.sourcePages = c.sourcePages /\ k.candidates = c.candidates
      /\ k.sourceCalls <= MaxSourceCalls
      /\ k.end = "none" => c.end = "none" /\ k.sourceCalls = c.sourceCalls
      /\ k.end # "stopped" => c.end # "stopped"
      /\ k.failed => k.end = "stopped"
      /\ Exact(p, k, c.seen) /\ ClosedWell(p, k)
      /\ Collected!CompleteSet => k.end # "none" /\ (sort = "top" => BestFirst(Out(p, k)))
  BY DEF IsComplete
<1>3. front \in Seq(Items) /\ IsCut(p, k, q, r)
  BY <1>2, CutProperties
<1>4. page = Collected!Page(front, Collected!GoesOn(r), Collected!Label(r))
  BY DEF PageCut
<1>. HIDE DEF q, r, front, page
<1>5. /\ r \in Collections /\ SameBudget(k, r) /\ r.tie = k.tie
      /\ Out(q, r) = Out(p, k) /\ Held(q, r) = Held(p, k) /\ ClosedWell(q, r)
  BY <1>2, <1>3 DEF IsCut
<1>6. /\ r.seen = c.seen /\ r.sourcePages = c.sourcePages /\ r.candidates = c.candidates
      /\ r.sourceCalls = k.sourceCalls /\ r.end = k.end /\ r.failed = k.failed /\ r.parents = k.parents
  BY <1>2, <1>5 DEF SameBudget
<1>7. /\ page \in PageTypes /\ page.items = front /\ page.more = Collected!GoesOn(r)
      /\ page.label = "selected_sources_exhausted" => r.ready = << >> /\ r.end = "exhausted"
  BY <1>3, <1>4, <1>5, PageTypesHold
<1>8. /\ Len(pg) \in Nat /\ qg \in Seq(PageTypes) /\ Len(qg) = Len(pg) + 1
      /\ (\A n \in 1 .. Len(pg) : qg[n] = pg[n]) /\ qg[Len(pg) + 1] = page
  BY <1>1, <1>7, LenProperties, AppendProperties
<1>. HIDE DEF qg
<1>9. qg # << >>
  <2>1. Len(qg) # 0 /\ Len(<< >>) = 0
    BY <1>8
  <2>. QED BY <2>1
<1>10. Exact(q, r, c.seen)
  BY <1>2, <1>5, <1>6, ExactMoved
<1>11. WaitingIn("idle", pd) = {} /\ r.seen \ {} = c.seen
  BY <1>6 DEF WaitingIn
<1>12. OutHolds(q, r, r.seen \ WaitingIn("idle", pd))
  BY <1>2, <1>5, <1>6, <1>10, <1>11 DEF OutHolds, ClosedWell
<1>13. TypesHold(r, "idle", rq, pd, qg, gv)
  BY <1>1, <1>5, <1>8 DEF TypesHold
<1>14. PendingHolds(r, "idle", pd, qg)
  BY <1>1, <1>6 DEF PendingHolds
<1>15. WholeHolds(q, r, "idle", rq, qg)
  BY <1>2, <1>5, <1>6, <1>9 DEF WholeHolds
<1>16. GivenHolds(r, gv)
  BY <1>1, <1>2, <1>6 DEF GivenHolds
<1>17. LabelsHold(r, "idle", qg)
  <2>. SUFFICES ASSUME NEW n \in 1 .. Len(qg), qg[n].label = "selected_sources_exhausted"
                PROVE  /\ n = Len(qg) /\ ~qg[n].more
                       /\ r.end = "exhausted" /\ r.ready = << >> /\ r.tie = << >>
    BY DEF LabelsHold
  <2>1. CASE n \in 1 .. Len(pg)
    <3>1. pg[n].label # "selected_sources_exhausted"
      BY <1>1, <2>1 DEF LabelsHold
    <3>. QED BY <1>8, <2>1, <3>1
  <2>2. CASE n \notin 1 .. Len(pg)
    <3>1. n = Len(pg) + 1 /\ n = Len(qg)
      BY <1>8, <2>2
    <3>2. qg[n] = page
      BY <1>8, <3>1
    <3>3. r.ready = << >> /\ r.end = "exhausted"
      BY <1>7, <3>2
    <3>4. r.tie = << >>
      BY <1>5, <3>3 DEF ClosedWell, Finished
    <3>5. ~Collected!GoesOn(r)
      BY <3>3, <3>4 DEF Collected!GoesOn
    <3>. QED BY <1>7, <3>1, <3>2, <3>3, <3>4, <3>5
  <2>. QED BY <2>1, <2>2
<1>18. LimitsHold(r)
  BY <1>1, <1>2, <1>6 DEF LimitsHold
<1>19. Holds(q, r, "idle", rq, pd, qg, gv)
  BY <1>12, <1>13, <1>14, <1>15, <1>16, <1>17, <1>18 DEF Holds
<1>. QED BY <1>3, <1>7, <1>19 DEF q, r, front, page, qg
-----------------------------------------------------------------------------
(* What is shown are items.                                                *)
LEMMA AllTypes ==
  ASSUME NEW pg \in Seq(PageTypes)
  PROVE  AllOf(pg) \in Seq(Items)
<1>1. PICK f : IsAll(pg, f)
  BY AllSteps
<1>2. Len(pg) \in 0 .. Len(pg)
  BY LenProperties
<1>. QED BY <1>1, <1>2 DEF IsAll

(* The invariant of a new session.                                         *)
LEMMA CollectionInitHolds ==
  ASSUME Collected!CollectionAssumption, Collected!Init
  PROVE  CollectionIInv
<1>. DEFINE c == collection
<1>1. /\ c = [ready |-> << >>, tie |-> << >>, lastTime |-> None, cursors |-> {}, seen |-> {},
              parents |-> [p \in Parents |-> "unasked"], sourcePages |-> 0, sourceCalls |-> 0,
              candidates |-> 0, bytes |-> 0, end |-> "none", failed |-> FALSE]
      /\ step = "idle" /\ requests = 0 /\ pending = << >> /\ pages = << >> /\ given = {}
  BY DEF Collected!Init
<1>2. << >> \in Seq(Items) /\ << >> \in Seq(PageTypes) /\ ToSet(<< >>) = {} /\ IsLine(<< >>, Items)
      /\ AllOf(<< >>) = << >> /\ << >> \o << >> = << >> /\ Len(<< >>) = 0
  <2>1. << >> \in Seq(Items)
    OBVIOUS
  <2>. QED BY <2>1, NothingFollows, NothingShown
<1>3. [p \in Parents |-> "unasked"] \in [Parents -> ParentStates]
  BY DEF ParentStates
<1>4. c \in Collections
  BY <1>1, <1>2, <1>3 DEF Collections, CollectionEnds
<1>5. /\ c.ready = << >> /\ c.tie = << >> /\ c.lastTime = None /\ c.seen = {} /\ c.end = "none" /\ c.failed = FALSE
      /\ c.sourcePages = 0 /\ c.sourceCalls = 0 /\ c.candidates = 0
  BY <1>1
<1>. HIDE DEF c
<1>6. Out(<< >>, c) = << >> /\ Held(<< >>, c) = {}
  BY <1>2, <1>5 DEF Out, Held
<1>7. EachOnce(<< >>, c) /\ Exact(<< >>, c, {})
  BY <1>2, <1>5, <1>6 DEF EachOnce, Exact
<1>8. Timely(<< >>, c) /\ Finished(<< >>, c)
  BY <1>2, <1>5, <1>6 DEF Timely, Finished, Chronological
<1>9. OutHolds(<< >>, c, {})
  BY <1>5, <1>7, <1>8 DEF OutHolds
<1>10. TypesHold(c, "idle", 0, << >>, << >>, {})
  BY <1>2, <1>4 DEF TypesHold
<1>11. PendingHolds(c, "idle", << >>, << >>) /\ GivenHolds(c, {})
  BY <1>2, <1>5 DEF PendingHolds, GivenHolds
<1>12. /\ MaxPages \in Nat \ {0} /\ MaxSourcePages \in Nat \ {0}
       /\ MaxSourceCalls \in Nat /\ MaxCandidates \in Nat
  BY DEF Collected!CollectionAssumption
<1>13. 0 < MaxPages /\ 0 < MaxSourcePages /\ 0 <= MaxSourceCalls /\ 0 <= MaxCandidates /\ 0 <= MaxSourcePages
  BY <1>12
<1>14. LimitsHold(c)
  BY <1>5, <1>13 DEF LimitsHold
<1>15. WholeHolds(<< >>, c, "idle", 0, << >>)
  BY <1>2, <1>5, <1>6, <1>13 DEF WholeHolds, BestFirst
<1>16. LabelsHold(c, "idle", << >>)
  BY <1>2 DEF LabelsHold
<1>17. c.seen \ WaitingIn("idle", << >>) = {}
  BY <1>5
<1>18. Holds(<< >>, c, "idle", 0, << >>, << >>, {})
  BY <1>9, <1>10, <1>11, <1>14, <1>15, <1>16, <1>17 DEF Holds
<1>. QED BY <1>1, <1>2, <1>18 DEF CollectionIInv, c

(* A page of the source comes.                                             *)
LEMMA FetchPageHolds ==
  ASSUME Collected!CollectionAssumption, CollectionIInv, NEW items \in Collected!Batches,
         NEW after \in Cursors \cup {None}, NEW came \in SUBSET Parents, NEW fails \in BOOLEAN,
         Collected!FetchPage(items, after, came, fails)
  PROVE  CollectionIInv'
<1>. DEFINE p == AllOf(pages)
            c == collection
            b == Collected!Counted(c, items)
            e == Collected!Bounded(Collected!Continued(Collected!Charged(Collected!Called(c), b), after))
<1>1. /\ step = "fetching" /\ c.end = "none"
      /\ given' = given \cup ToSet(items) /\ requests' = requests + 1
      /\ Collected!Take(e, b.batch, came, fails)
      /\ sort' = sort /\ step' = step /\ pages' = pages
  BY DEF Collected!FetchPage, Collected!Fetching, Collected!ToSet, ToSet
<1>2. Holds(p, c, "fetching", requests, pending, pages, given)
  BY <1>1 DEF CollectionIInv
<1>3. /\ c \in Collections /\ pages \in Seq(PageTypes) /\ c.candidates <= MaxCandidates
      /\ c.failed => c.end = "stopped"
  BY <1>2 DEF Holds, TypesHold, OutHolds, LimitsHold
<1>4. p \in Seq(Items)
  BY <1>3, AllTypes
<1>5. items \in Seq(Items) /\ Len(items) <= BatchLimit
  <2>1. PICK n \in 0 .. BatchLimit : items \in [1 .. n -> Items]
    BY DEF Collected!Batches
  <2>2. n \in Nat /\ n <= BatchLimit
    BY <2>1, LimitsAreNumbers
  <2>3. items \in Seq(Items) /\ Len(items) = n
    BY <2>1, <2>2
  <2>. QED BY <2>2, <2>3
<1>6. IsBatch(c, items, b)
  BY <1>3, <1>5, CountedIsBatch
<1>. HIDE DEF b, p
<1>7. IsCharged(c, b, e)
  <2>1. b.seen \in SUBSET Items /\ b.candidates \in Nat /\ b.bytes \in Nat /\ b.full \in BOOLEAN
    BY <1>6 DEF IsBatch
  <2>. HIDE DEF c
  <2>. QED BY <1>1, <1>3, <2>1, ChargedProperties
<1>. HIDE DEF e, c
<1>8. CASE Collected!CompleteSet
  <2>1. pending' = pending \o b.batch /\ collection' = e
    BY <1>1, <1>8 DEF Collected!Take
  <2>2. Holds(p, e, "fetching", requests + 1, pending \o b.batch, pages, given \cup ToSet(items))
    BY <1>1, <1>2, <1>5, <1>6, <1>7, <1>8, FetchWhole
  <2>3. Holds(AllOf(pages'), collection', step', requests', pending', pages', given')
    BY <1>1, <2>1, <2>2 DEF p
  <2>. QED BY <1>1, <2>3, HoldsNext
<1>9. CASE ~Collected!CompleteSet
  <2>1. pending' = pending /\ collection' = Collected!Evaluated(e, b.batch, came, fails)
    BY <1>1, <1>9 DEF Collected!Take
  <2>2. Holds(p, Collected!Evaluated(e, b.batch, came, fails), "fetching", requests + 1, pending, pages,
              given \cup ToSet(items))
    BY <1>1, <1>2, <1>4, <1>5, <1>6, <1>7, <1>9, FetchJudged
  <2>3. Holds(AllOf(pages'), collection', step', requests', pending', pages', given')
    BY <1>1, <2>1, <2>2 DEF p
  <2>. QED BY <1>1, <2>3, HoldsNext
<1>. QED BY <1>8, <1>9

(* An error ends the session.                                              *)
LEMMA FailHoldsNext ==
  ASSUME Collected!CollectionAssumption, CollectionIInv, step = "fetching", Collected!Fail
  PROVE  CollectionIInv'
<1>. DEFINE p == AllOf(pages)
            page == [items |-> << >>, more |-> FALSE, label |-> "error"]
            g == [collection EXCEPT !.end = "stopped", !.ready = << >>, !.tie = << >>]
<1>1. /\ collection' = g /\ pages' = Append(pages, page) /\ step' = "idle"
      /\ sort' = sort /\ requests' = requests /\ pending' = pending /\ given' = given
  BY DEF Collected!Fail, Collected!Page
<1>2. Holds(p, collection, "fetching", requests, pending, pages, given)
  BY DEF CollectionIInv
<1>3. pages \in Seq(PageTypes)
  BY <1>2 DEF Holds, TypesHold
<1>4. page \in PageTypes /\ page.items = << >> /\ page.label = "error"
  BY DEF PageTypes, PageLabels
<1>. HIDE DEF page, g
<1>5. p \in Seq(Items) /\ AllOf(Append(pages, page)) = p \o << >>
  BY <1>3, <1>4, AllAppended
<1>6. Append(pages, page) \in Seq(PageTypes)
  BY <1>3, <1>4, AppendProperties
<1>7. p \o << >> = p
  BY <1>5, NothingFollows
<1>. HIDE DEF p
<1>8. Holds(p, g, "idle", requests, pending, Append(pages, page), given)
  BY <1>2, <1>4, <1>5, <1>6, FailHolds, Zenon DEF g
<1>9. AllOf(pages') = p
  BY <1>1, <1>5, <1>7
<1>10. Holds(AllOf(pages'), collection', step', requests', pending', pages', given')
  BY <1>1, <1>8, <1>9
<1>. QED BY <1>1, <1>10, HoldsNext

(* The source fails: what was collected may still be shown.                *)
LEMMA SourceFailsHolds ==
  ASSUME Collected!CollectionAssumption, CollectionIInv, Collected!SourceFails
  PROVE  CollectionIInv'
<1>1. step = "fetching" /\ collection.end = "none"
  BY DEF Collected!SourceFails, Collected!Fetching
<1>2. CASE Collected!Fail
  BY <1>1, <1>2, FailHoldsNext
<1>3. CASE ~Collected!Fail
  <2>. DEFINE p == AllOf(pages)
              g == Collected!FlushTie(Collected!Stop(Collected!Called(collection), TRUE))
  <2>1. /\ collection' = g /\ requests' = requests + 1
        /\ sort' = sort /\ step' = step /\ pending' = pending /\ pages' = pages /\ given' = given
    BY <1>3 DEF Collected!SourceFails
  <2>2. Holds(p, collection, "fetching", requests, pending, pages, given)
    BY <1>1 DEF CollectionIInv
  <2>3. p \in Seq(Items)
    BY <2>2, AllTypes DEF Holds, TypesHold
  <2>4. Holds(p, g, "fetching", requests + 1, pending, pages, given)
    <3>. HIDE DEF p
    <3>. QED BY <1>1, <2>2, <2>3, StopsHolds
  <2>. HIDE DEF g
  <2>5. Holds(AllOf(pages'), collection', step', requests', pending', pages', given')
    BY <1>1, <2>1, <2>4
  <2>. QED BY <2>1, <2>5, HoldsNext
<1>. QED BY <1>2, <1>3

(* A page is cut from a collection that is complete.                       *)
LEMMA BuiltFromComplete ==
  ASSUME Collected!CollectionAssumption, CollectionIInv, NEW came \in SUBSET Parents, NEW fails \in BOOLEAN,
         Collected!BuildPage(came, fails)
  PROVE  IsComplete(AllOf(pages), collection, Collected!Closed(Collected!Complete(came, fails)))
<1>. DEFINE p == AllOf(pages)
            c == collection
            k == Collected!Closed(Collected!Complete(came, fails))
            Judges == Collected!CompleteSet /\ pending # << >>
<1>1. step = "fetching" /\ ~Collected!Fetching
  BY DEF Collected!BuildPage
<1>2. Holds(p, c, "fetching", requests, pending, pages, given)
  BY <1>1 DEF CollectionIInv
<1>3. pages \in Seq(PageTypes) /\ requests \in Nat
  BY <1>2 DEF Holds, TypesHold
<1>4. p \in Seq(Items)
  BY <1>3, AllTypes
<1>5. Collected!CompleteSet => c.end # "none"
  <2>. SUFFICES ASSUME Collected!CompleteSet, c.end = "none" PROVE FALSE
    OBVIOUS
  <2>1. c.sourcePages < MaxPages /\ c.sourcePages = requests
    BY <1>2 DEF Holds, WholeHolds
  <2>2. Collected!Fetching
    BY <1>1, <2>1 DEF Collected!Fetching
  <2>. QED BY <1>1, <2>2
<1>6. IsComplete(p, c, k)
  <2>1. CASE Judges
    <3>1. k = Collected!Closed(Collected!Sorted(Collected!Evaluated(c, pending, came, fails)))
      BY <2>1 DEF Collected!Complete
    <3>2. pages = << >>
      BY <1>2, <2>1 DEF Holds, PendingHolds
    <3>3. p = << >>
      BY <3>2, NothingShown
    <3>. HIDE DEF p, k, c
    <3>4. Holds(<< >>, c, "fetching", requests, pending, pages, given)
      BY <1>2, <3>3
    <3>5. IsComplete(<< >>, c, Collected!Closed(Collected!Sorted(Collected!Evaluated(c, pending, came, fails))))
      BY <1>5, <2>1, <3>4, CompleteWhenJudged
    <3>. QED BY <3>1, <3>3, <3>5
  <2>2. CASE ~Judges
    <3>1. k = Collected!Closed(c)
      BY <2>2 DEF Collected!Complete
    <3>. HIDE DEF p, k, c
    <3>2. IsComplete(p, c, Collected!Closed(c))
      BY <1>2, <1>4, <1>5, <2>2, CompleteAsItIs
    <3>. QED BY <3>1, <3>2
  <2>. QED BY <2>1, <2>2
<1>. QED BY <1>6

(* A page is cut of what is ready, after what waited is judged.            *)
LEMMA BuildPageHolds ==
  ASSUME Collected!CollectionAssumption, CollectionIInv, NEW came \in SUBSET Parents, NEW fails \in BOOLEAN,
         Collected!BuildPage(came, fails)
  PROVE  CollectionIInv'
<1>. DEFINE p == AllOf(pages)
            c == collection
            k == Collected!Closed(Collected!Complete(came, fails))
            size == IF Limit < Len(k.ready) THEN Limit ELSE Len(k.ready)
            page == PageCut(k, size)
<1>1. /\ step = "fetching" /\ Collected!PageOf(k)
      /\ sort' = sort /\ step' = "idle" /\ requests' = requests /\ pending' = pending /\ given' = given
  BY DEF Collected!BuildPage
<1>2. Holds(p, c, "fetching", requests, pending, pages, given)
  BY <1>1 DEF CollectionIInv
<1>3. pages \in Seq(PageTypes) /\ requests \in Nat
  BY <1>2 DEF Holds, TypesHold
<1>4. p \in Seq(Items)
  BY <1>3, AllTypes
<1>5. collection' = Cut(k, size) /\ pages' = Append(pages, page)
  BY <1>1 DEF Collected!PageOf, Collected!Publish, Cut, PageItems, PageCut
<1>7. IsComplete(p, c, k)
  BY BuiltFromComplete
<1>. HIDE DEF p, k, c
<1>8. size \in 0 .. Len(k.ready)
  <2>1. k.ready \in Seq(Items)
    BY <1>7 DEF IsComplete, Collections
  <2>2. Len(k.ready) \in Nat /\ Limit \in Nat
    BY <2>1, LenProperties, LimitsAreNumbers
  <2>. QED BY <2>2
<1>. HIDE DEF size
<1>9. /\ page \in PageTypes /\ page.items = PageItems(k, size) /\ PageItems(k, size) \in Seq(Items)
      /\ Holds(p \o PageItems(k, size), Cut(k, size), "idle", requests, pending, Append(pages, page), given)
  BY <1>2, <1>4, <1>7, <1>8, PageHolds
<1>. HIDE DEF page
<1>10. AllOf(Append(pages, page)) = p \o PageItems(k, size)
  BY <1>3, <1>9, AllAppended DEF p
<1>11. Holds(AllOf(pages'), collection', step', requests', pending', pages', given')
  BY <1>1, <1>5, <1>9, <1>10
<1>. QED BY <1>1, <1>11, HoldsNext

(* A request begins.                                                       *)
LEMMA BeginHoldsNext ==
  ASSUME CollectionIInv, Collected!Begin
  PROVE  CollectionIInv'
<1>1. /\ step = "idle" /\ (pages # << >> => pages[Len(pages)].more)
      /\ step' = "fetching" /\ requests' = 0 /\ pending' = << >>
      /\ sort' = sort /\ collection' = collection /\ pages' = pages /\ given' = given
  BY DEF Collected!Begin
<1>2. Holds(AllOf(pages), collection, "idle", requests, pending, pages, given)
  BY <1>1 DEF CollectionIInv
<1>3. Holds(AllOf(pages), collection, "fetching", 0, << >>, pages, given)
  BY <1>1, <1>2, BeginHolds
<1>4. Holds(AllOf(pages'), collection', step', requests', pending', pages', given')
  BY <1>1, <1>3
<1>. QED BY <1>1, <1>4, HoldsNext

(* Every step, and a stutter.                                              *)
LEMMA CollectionNextHolds ==
  ASSUME Collected!CollectionAssumption, CollectionIInv, [Collected!Next]_Collected!vars
  PROVE  CollectionIInv'
<1>1. CASE Collected!Begin
  BY <1>1, BeginHoldsNext
<1>2. CASE Collected!SourceFails
  BY <1>2, SourceFailsHolds
<1>3. ASSUME NEW came \in SUBSET Parents, NEW fails \in BOOLEAN, Collected!BuildPage(came, fails)
      PROVE  CollectionIInv'
  BY <1>3, BuildPageHolds
<1>4. ASSUME NEW came \in SUBSET Parents, NEW fails \in BOOLEAN, NEW items \in Collected!Batches,
             NEW after \in Cursors \cup {None}, Collected!FetchPage(items, after, came, fails)
      PROVE  CollectionIInv'
  BY <1>4, FetchPageHolds
<1>5. CASE UNCHANGED Collected!vars
  <2>1. /\ sort' = sort /\ collection' = collection /\ step' = step /\ requests' = requests
        /\ pending' = pending /\ pages' = pages /\ given' = given
    BY <1>5 DEF Collected!vars
  <2>2. Holds(AllOf(pages'), collection', step', requests', pending', pages', given')
    BY <2>1 DEF CollectionIInv
  <2>. QED BY <2>1, <2>2, HoldsNext
<1>. QED BY <1>1, <1>2, <1>3, <1>4, <1>5 DEF Collected!Next

(* What the invariant says of the pages.                                   *)
LEMMA OrderHolds ==
  ASSUME CollectionIInv
  PROVE  SessionsKeepTheirOrder
<1>. DEFINE p == AllOf(pages)
            all == p \o collection.ready
<1>1. /\ collection \in Collections /\ pages \in Seq(PageTypes)
      /\ collection.end = "none" => Timely(p, collection)
      /\ Finished(p, collection)
      /\ Collected!CompleteSet /\ sort = "top" => BestFirst(Out(p, collection))
  BY DEF CollectionIInv, Holds, TypesHold, OutHolds, WholeHolds
<1>2. p \in Seq(Items) /\ collection.ready \in Seq(Items)
  BY <1>1, AllTypes DEF Collections
<1>3. all \in Seq(Items) /\ Out(p, collection) = all
  BY <1>2, ConcatIsFunction DEF Out
<1>4. DOMAIN all = 1 .. Len(all)
  BY <1>3, LenProperties
<1>5. sort = "new" => Chronological(all)
  BY <1>1, <1>3 DEF Timely, Finished
<1>6. sort = "top" => BestFirst(all)
  BY <1>1, <1>3 DEF Collected!CompleteSet
<1>7. Collected!Shown \o collection.ready = all
  BY ShownIsAll
<1>. HIDE DEF all
<1>8. Collected!NewIsChronological
  <2>1. sort = "new" =>
          \A i, j \in DOMAIN all : i < j =>
            Time[all[i]] > Time[all[j]] \/ (Time[all[i]] = Time[all[j]] /\ all[i] < all[j])
    BY <1>4, <1>5 DEF Chronological
  <2>. QED BY <1>7, <2>1 DEF Collected!NewIsChronological
<1>9. Collected!TopIsOneCollection
  <2>1. sort = "top" => \A i, j \in DOMAIN all : i < j => Collected!Best(all[i], all[j])
    BY <1>4, <1>6 DEF BestFirst
  <2>. QED BY <1>7, <2>1 DEF Collected!TopIsOneCollection
<1>. QED BY <1>8, <1>9 DEF SessionsKeepTheirOrder

(* A page is as long as asked while the buffer holds enough.               *)
PagesFit == \A n \in 1 .. Len(pages) : Collected!Fits(pages[n])

LEMMA CutFits ==
  ASSUME Collected!CollectionAssumption, NEW k \in Collections,
         NEW size, size = IF Limit < Len(k.ready) THEN Limit ELSE Len(k.ready)
  PROVE  Collected!Fits(PageCut(k, size))
<1>. DEFINE rest == SubSeq(k.ready, size + 1, Len(k.ready))
            page == PageCut(k, size)
<1>1. Limit \in Nat \ {0} /\ Len(k.ready) \in Nat /\ k.ready \in Seq(Items)
  BY DEF Collected!CollectionAssumption, Collections
<1>2. size \in 0 .. Len(k.ready) /\ size <= Limit /\ (size # Limit => size = Len(k.ready))
  BY <1>1
<1>3. Len(PageItems(k, size)) = size
  BY <1>1, <1>2 DEF PageItems
<1>4. page.items = PageItems(k, size) /\ page.label = Collected!Label(Cut(k, size))
  BY DEF PageCut, Collected!Page
<1>5. ASSUME page.label = "buffered_results_remain" PROVE size = Limit
  <2>. DEFINE r == Cut(k, size)
              l == Collected!Label(r)
  <2>1. r.ready = rest /\ r.end \in {"none", "exhausted", "stopped"}
    BY DEF Cut, Collections, CollectionEnds
  <2>2. l = CASE r.ready # << >> -> "buffered_results_remain"
              [] r.ready = << >> /\ r.end = "none" -> "more_results_may_exist"
              [] r.ready = << >> /\ r.end = "exhausted" -> "selected_sources_exhausted"
              [] r.ready = << >> /\ r.end = "stopped" -> "stopped_early"
    BY Zenon DEF Collected!Label
  <2>3. l = "buffered_results_remain"
    BY <1>4, <1>5
  <2>. HIDE DEF l, r
  <2>4. rest # << >>
    BY <2>1, <2>2, <2>3
  <2>5. size = Len(k.ready) => rest = << >>
    <3>. SUFFICES ASSUME size = Len(k.ready) PROVE rest = << >>
      OBVIOUS
    <3>1. Len(rest) = 0 /\ rest \in Seq(Items)
      BY <1>1, <1>2
    <3>. HIDE DEF rest
    <3>. QED BY <3>1, EmptySeq
  <2>. QED BY <1>2, <2>4, <2>5
<1>. QED BY <1>1, <1>2, <1>3, <1>4, <1>5 DEF Collected!Fits

LEMMA PagesFitStep ==
  ASSUME Collected!CollectionAssumption, CollectionIInv, PagesFit, [Collected!Next]_Collected!vars
  PROVE  PagesFit'
<1>1. pages \in Seq(PageTypes) /\ collection \in Collections /\ Limit \in Nat \ {0}
  BY DEF CollectionIInv, Holds, TypesHold, Collected!CollectionAssumption
<1>2. ASSUME NEW page, pages' = Append(pages, page), Collected!Fits(page) PROVE PagesFit'
  BY <1>1, <1>2 DEF PagesFit
<1>3. CASE pages' = pages
  BY <1>3 DEF PagesFit
<1>4. CASE Collected!SourceFails
  <2>1. CASE Collected!Fail
    <3>1. Collected!Fits(Collected!Page(<< >>, FALSE, "error"))
      BY <1>1 DEF Collected!Fits, Collected!Page
    <3>. QED BY <1>2, <2>1, <3>1 DEF Collected!Fail
  <2>2. CASE pages' = pages
    BY <1>3, <2>2
  <2>. QED BY <1>4, <2>1, <2>2 DEF Collected!SourceFails
<1>5. ASSUME NEW came \in SUBSET Parents, NEW fails \in BOOLEAN, Collected!BuildPage(came, fails)
      PROVE  PagesFit'
  <2>. DEFINE k == Collected!Closed(Collected!Complete(came, fails))
              size == IF Limit < Len(k.ready) THEN Limit ELSE Len(k.ready)
  <2>1. pages' = Append(pages, PageCut(k, size))
    BY <1>5 DEF Collected!BuildPage, Collected!PageOf, Collected!Publish, Cut, PageItems, PageCut
  <2>2. k \in Collections
    BY <1>5, BuiltFromComplete DEF IsComplete
  <2>. HIDE DEF k
  <2>3. Collected!Fits(PageCut(k, size))
    BY <2>2, CutFits
  <2>. QED BY <1>2, <2>1, <2>3
<1>6. ASSUME NEW came \in SUBSET Parents, NEW fails \in BOOLEAN, NEW items \in Collected!Batches,
             NEW after \in Cursors \cup {None}, Collected!FetchPage(items, after, came, fails)
      PROVE  PagesFit'
  BY <1>3, <1>6 DEF Collected!FetchPage
<1>7. CASE Collected!Begin \/ UNCHANGED Collected!vars
  BY <1>3, <1>7 DEF Collected!Begin, Collected!vars
<1>. QED BY <1>4, <1>5, <1>6, <1>7 DEF Collected!Next

(* The invariant gives the exactness of the pages.                         *)
LEMMA ExactnessHolds ==
  ASSUME CollectionIInv, PagesFit
  PROVE  PagesAreExact
<1>. DEFINE p == AllOf(pages)
            c == collection
<1>1. /\ c \in Collections /\ pages \in Seq(PageTypes) /\ given \in SUBSET Items
      /\ EachOnce(p, c) /\ Exact(p, c, c.seen \ WaitingIn(step, pending))
      /\ GivenHolds(c, given) /\ LabelsHold(c, step, pages) /\ LimitsHold(c)
  BY DEF CollectionIInv, Holds, TypesHold, OutHolds
<1>2. p \in Seq(Items) /\ c.ready \in Seq(Items) /\ DOMAIN pages = 1 .. Len(pages) /\ Len(p) \in Nat
  BY <1>1, AllTypes, LenProperties DEF Collections
<1>3. IsLine(p \o c.ready, Items)
  BY <1>1 DEF EachOnce, Out
<1>. HIDE DEF p, c
<1>4. IsLine(p, Items) /\ ToSet(p) \subseteq ToSet(p \o c.ready)
  BY <1>2, <1>3, BeforeIsLine
<1>5. ToSet(p) \subseteq Held(p, c)
  BY <1>4 DEF Held, Out
<1>6. \A i : Collected!Matches(i) <=> Collected!VerdictOf(c, i) = "true"
  BY DEF Collected!Matches, c
<1>7. \A i \in Held(p, c) : Collected!VerdictOf(c, i) = "true"
  BY <1>1 DEF Exact
<1>8. Collected!Shown = p
  BY ShownIsAll DEF p
<1>9. Collected!ToSet(p) = ToSet(p)
  BY Zenon DEF Collected!ToSet, ToSet
<1>10. Collected!ExhaustedIsComplete
  <2>1. ASSUME NEW n \in 1 .. Len(pages), pages[n].label = "selected_sources_exhausted"
        PROVE  {i \in given : Collected!Matches(i)} = ToSet(p)
    <3>1. step = "idle" /\ c.end = "exhausted" /\ c.ready = << >> /\ c.tie = << >>
      BY <1>1, <2>1 DEF LabelsHold
    <3>2. p \o << >> = p /\ ToSet(<< >>) = {}
      BY <1>2, NothingFollows
    <3>3. Held(p, c) = ToSet(p)
      BY <3>1, <3>2 DEF Held, Out
    <3>4. WaitingIn(step, pending) = {} /\ c.seen = given
      BY <1>1, <3>1 DEF WaitingIn, GivenHolds
    <3>5. Held(p, c) \subseteq given /\ \A i \in given : Collected!VerdictOf(c, i) = "true" => i \in Held(p, c)
      BY <1>1, <3>1, <3>4 DEF Exact
    <3>. QED BY <1>6, <1>7, <3>3, <3>5
  <2>. QED BY <1>2, <1>8, <1>9, <2>1 DEF Collected!ExhaustedIsComplete
<1>11. Collected!PagesShowMatches
  <2>1. DOMAIN p = 1 .. Len(p)
    BY <1>2, LenProperties
  <2>2. Collected!IsInjective(p)
    BY <1>4, <2>1 DEF Collected!IsInjective, IsLine
  <2>3. \A i \in ToSet(p) : Collected!Matches(i)
    BY <1>5, <1>6, <1>7
  <2>4. \A n \in DOMAIN pages : Collected!Fits(pages[n])
    BY <1>2 DEF PagesFit
  <2>. QED BY <1>8, <1>9, <2>2, <2>3, <2>4 DEF Collected!PagesShowMatches
<1>12. Collected!WithinLimits
  BY <1>1 DEF Collected!WithinLimits, LimitsHold, c
<1>. QED BY <1>10, <1>11, <1>12 DEF PagesAreExact, Collected!PagesAreExact

(* A search of New goes back in time page by page, and one of Top shows    *)
(* one ranking, whatever the source gives and however its pages are cut.   *)
THEOREM SessionsHoldTheirOrder == Collected!Spec => []SessionsKeepTheirOrder
<1>1. Collected!Init => CollectionIInv
  BY ProcessesAssumption, CollectionInitHolds
<1>2. CollectionIInv /\ [Collected!Next]_Collected!vars => CollectionIInv'
  BY ProcessesAssumption, CollectionNextHolds
<1>3. CollectionIInv => SessionsKeepTheirOrder
  BY OrderHolds
<1>. QED BY <1>1, <1>2, <1>3, PTL DEF Collected!Spec

(* A session shows matches, none twice, as many on a page as asked while   *)
(* there are more, all of them before it says so, and stays within its     *)
(* budgets, whatever they are.                                             *)
THEOREM PagesHoldWhatMatches == Collected!Spec => []PagesAreExact
<1>1. Collected!Init => CollectionIInv
  BY ProcessesAssumption, CollectionInitHolds
<1>2. CollectionIInv /\ [Collected!Next]_Collected!vars => CollectionIInv'
  BY ProcessesAssumption, CollectionNextHolds
<1>3. Collected!Init => PagesFit
  <2>. SUFFICES ASSUME Collected!Init PROVE PagesFit
    OBVIOUS
  <2>1. pages = << >> /\ Len(pages) = 0
    BY DEF Collected!Init
  <2>. QED BY <2>1 DEF PagesFit
<1>4. CollectionIInv /\ PagesFit /\ [Collected!Next]_Collected!vars => PagesFit'
  BY ProcessesAssumption, PagesFitStep
<1>5. CollectionIInv /\ PagesFit => PagesAreExact
  BY ExactnessHolds
<1>. QED BY <1>1, <1>2, <1>3, <1>4, <1>5, PTL DEF Collected!Spec

(***************************************************************************)
(* A call of the service, for any arguments, communities, answers of       *)
(* Reddit and content policy: what is marked does not leave it, a search   *)
(* among comments is exact, no permit is kept.  The invariant relates the  *)
(* steps that are still to come to what was fetched so far.                *)
(***************************************************************************)
ServiceSteps ==
  Service!Arguments \cup
  {"subreddit", "safe", "over_18", "listing", "two_listings", "post", "thing", "page", "trophies", "filter", "first",
   "nonempty", "description", "shown_post", "gate", "graphql", "ids", "hydrate"}

Comes(s, what) == \E n \in 1 .. Len(s) : s[n] = what
Later(s, n, what) == \E m \in n + 1 .. Len(s) : s[m] = what

(* How the steps of an operation follow each other: what is listed is      *)
(* filtered later, a single thing is looked at, comments follow a post     *)
(* that was looked at, and the gate is for comments only.                  *)
Successor(a, b) ==
  /\ b = "nonempty" => a = "post"
  /\ b = "options" => a = "first"
  /\ b = "gate" => a = "shown_post"
  /\ b = "graphql" => a \in {"options", "gate"}
  /\ a = "gate" => b = "graphql"
  /\ b # "subreddit"
InOrder(s) ==
  /\ \A n \in 1 .. Len(s) :
       /\ s[n] \in {"listing", "two_listings"} => Later(s, n, "filter")
       /\ s[n] \in {"post", "thing"} => Later(s, n, "first")
       /\ s[n] = "page" => ~Later(s, n, "safe")
       /\ s[n] = "gate" => n # Len(s)
       /\ s[n] \in {"ids", "hydrate"} => \A m \in n + 1 .. Len(s) : s[m] = "hydrate"
       /\ s[n] = "graphql" => \A m \in n + 1 .. Len(s) : s[m] = "first"
  /\ \A n, m \in 1 .. Len(s) : m = n + 1 => Successor(s[n], s[m])
  /\ \A n, m \in 1 .. Len(s) : m = n + 2 /\ s[m] = "options" => s[n] = "nonempty"

(* What was fetched is free of marks, or is looked at in a later step.     *)
Unmarked(l) == \A n \in 1 .. Len(l.children) : ~l.children[n]
Sifted(s, f) ==
  \/ Unmarked(f[1]) /\ Unmarked(f[2])
  \/ Comes(s, "filter")
  \/ Comes(s, "first") /\ Len(f[1].children) <= 1 /\ Unmarked(f[2])

(* What carries no mark comes after every community was found safe.        *)
Vouched(s, done, vo) ==
  done \cap {"page", "ids"} # {} \/ Comes(s, "page") \/ Comes(s, "ids") =>
    vo = Len(scope) \/ (Comes(s, "safe") /\ done \cap {"page", "ids"} = {})

(* Comments come after their post was found to be without a mark.          *)
PostIsSafe(f) == Len(f[1].children) = 1 /\ ~f[1].children[1]
PostSeen(s, done, f) ==
  /\ "comments" \in done => PostIsSafe(f) /\ \A n \in 1 .. Len(s) : s[n] = "first"
  /\ Len(s) > 0 =>
       /\ s[1] = "nonempty" => Len(f[1].children) <= 1
       /\ s[1] = "first" /\ Len(s) > 1 /\ s[2] = "options" => Len(f[1].children) = 1
       /\ s[1] \in {"options", "gate", "graphql"} => PostIsSafe(f)

Listed(l) == l.children \in Seq(BOOLEAN) /\ l.dist \in {None, Len(l.children)}
StepsHold(s) == s \in Seq(ServiceSteps) /\ InOrder(s)
FoundHolds(f) == DOMAIN f = 1 .. 2 /\ Listed(f[1]) /\ Listed(f[2])
ScopeHolds(s, done) ==
  scope # << >> /\ ~Service!ValidScope(scope) => done = {} /\ Len(s) > 0 /\ s[1] = "subreddit"
GateHolds(s, g) == g = "mine" => Len(s) > 0 /\ s[1] = "graphql"
PolicyHolds(s, done, vo, f) == ~allow => Sifted(s, f) /\ Vouched(s, done, vo) /\ PostSeen(s, done, f)
SearchHolds(ii, h) ==
  /\ ii \in Seq(Range(ii))
  /\ \A c \in h : c \in UNION Comments /\ c.post = "this" /\ (allow \/ ~c.adult)

Awaits(s, done, vo, f, ii, h, g) ==
  /\ StepsHold(s) /\ FoundHolds(f) /\ ScopeHolds(s, done) /\ GateHolds(s, g)
  /\ PolicyHolds(s, done, vo, f) /\ SearchHolds(ii, h)

ServiceIInv ==
  IF serviceResult = None THEN Awaits(todo, calls, vouched, found, ids, hydrated, gate) ELSE ServiceIsSafe

(* What is left of the steps after the first.                              *)
HeadOf(h, r) ==
  /\ h \in {"listing", "two_listings"} => Comes(r, "filter")
  /\ h \in {"post", "thing"} => Comes(r, "first")
  /\ h = "page" => ~Comes(r, "safe")
  /\ h = "gate" => Len(r) > 0
  /\ h \in {"ids", "hydrate"} => \A m \in 1 .. Len(r) : r[m] = "hydrate"
  /\ h = "graphql" => \A m \in 1 .. Len(r) : r[m] = "first"
  /\ Len(r) > 0 => Successor(h, r[1])
  /\ Len(r) > 1 /\ r[2] = "options" => h = "nonempty"
IsRest(s, r) ==
  /\ r \in Seq(ServiceSteps) /\ Len(r) \in Nat /\ Len(s) = Len(r) + 1 /\ \A n \in 1 .. Len(r) : r[n] = s[n + 1]
  /\ InOrder(r) /\ HeadOf(s[1], r)
  /\ \A what : Comes(s, what) <=> what = s[1] \/ Comes(r, what)

(* The steps that are left keep their order.                               *)
LEMMA RestInOrder ==
  ASSUME NEW s \in Seq(ServiceSteps), s # << >>, InOrder(s)
  PROVE  Head(s) = s[1] /\ IsRest(s, Tail(s))
<1>. DEFINE r == Tail(s)
            L == Len(s)
            M == Len(r)
<1>1. /\ L \in Nat /\ L > 0 /\ Head(s) = s[1]
      /\ r \in Seq(ServiceSteps) /\ M = L - 1 /\ \A n \in 1 .. M : r[n] = s[n + 1]
  BY HeadTailProperties, LenProperties, EmptySeq
<1>. HIDE DEF r
<1>2. /\ M \in Nat /\ L = M + 1 /\ \A n \in 1 .. M : n + 1 \in 1 .. L
      /\ \A n \in 2 .. L : n - 1 \in 1 .. M /\ r[n - 1] = s[n]
  <2>1. M \in Nat /\ L = M + 1 /\ \A n \in 1 .. M : n + 1 \in 1 .. L
    BY <1>1
  <2>2. \A n \in 2 .. L : n - 1 \in 1 .. M /\ (n - 1) + 1 = n
    BY <2>1
  <2>. QED BY <1>1, <2>1, <2>2
<1>3. \A what : \A n \in 1 .. M : Later(s, n + 1, what) <=> Later(r, n, what)
  <2>. SUFFICES ASSUME NEW what, NEW n \in 1 .. M PROVE Later(s, n + 1, what) <=> Later(r, n, what)
    OBVIOUS
  <2>1. ASSUME Later(r, n, what) PROVE Later(s, n + 1, what)
    <3>1. PICK m \in n + 1 .. M : r[m] = what
      BY <2>1 DEF Later
    <3>2. m \in 1 .. M /\ m + 1 \in (n + 1) + 1 .. L
      BY <1>2, <3>1
    <3>. QED BY <1>1, <3>1, <3>2 DEF Later
  <2>2. ASSUME Later(s, n + 1, what) PROVE Later(r, n, what)
    <3>1. PICK m \in (n + 1) + 1 .. L : s[m] = what
      BY <2>2 DEF Later
    <3>2. m \in 2 .. L /\ m - 1 \in n + 1 .. M
      BY <1>2, <3>1
    <3>. QED BY <1>2, <3>1, <3>2 DEF Later
  <2>. QED BY <2>1, <2>2
<1>4. \A what : Later(s, 1, what) <=> Comes(r, what)
  <2>. SUFFICES ASSUME NEW what PROVE Later(s, 1, what) <=> Comes(r, what)
    OBVIOUS
  <2>1. ASSUME NEW n \in 1 .. M PROVE n + 1 \in 1 + 1 .. L /\ s[n + 1] = r[n]
    BY <1>1, <1>2
  <2>2. ASSUME NEW n \in 1 + 1 .. L PROVE n - 1 \in 1 .. M /\ s[n] = r[n - 1]
    BY <1>2
  <2>. QED BY <2>1, <2>2 DEF Later, Comes
<1>5. \A what : Comes(s, what) <=> what = s[1] \/ Comes(r, what)
  <2>. SUFFICES ASSUME NEW what PROVE Comes(s, what) <=> what = s[1] \/ Comes(r, what)
    OBVIOUS
  <2>1. 1 \in 1 .. L /\ \A n \in 1 .. L : n = 1 \/ n \in 2 .. L
    BY <1>1
  <2>. QED BY <1>1, <1>2, <2>1 DEF Comes
<1>6. InOrder(r)
  <2>1. ASSUME NEW n \in 1 .. M
        PROVE  /\ r[n] \in {"listing", "two_listings"} => Later(r, n, "filter")
               /\ r[n] \in {"post", "thing"} => Later(r, n, "first")
               /\ r[n] = "page" => ~Later(r, n, "safe")
               /\ r[n] = "gate" => n # M
               /\ r[n] \in {"ids", "hydrate"} => \A m \in n + 1 .. M : r[m] = "hydrate"
               /\ r[n] = "graphql" => \A m \in n + 1 .. M : r[m] = "first"
    <3>1. n + 1 \in 1 .. L /\ r[n] = s[n + 1]
      BY <1>1, <1>2
    <3>2. /\ r[n] \in {"listing", "two_listings"} => Later(s, n + 1, "filter")
          /\ r[n] \in {"post", "thing"} => Later(s, n + 1, "first")
          /\ r[n] = "page" => ~Later(s, n + 1, "safe")
          /\ r[n] = "gate" => n + 1 # L
          /\ r[n] \in {"ids", "hydrate"} => \A m \in (n + 1) + 1 .. L : s[m] = "hydrate"
          /\ r[n] = "graphql" => \A m \in (n + 1) + 1 .. L : s[m] = "first"
      BY <3>1 DEF InOrder
    <3>3. \A m \in n + 1 .. M : m \in 1 .. M /\ m + 1 \in (n + 1) + 1 .. L /\ r[m] = s[m + 1]
      BY <1>1, <1>2
    <3>4. n = M => n + 1 = L
      BY <1>2
    <3>5. \A what : Later(s, n + 1, what) <=> Later(r, n, what)
      BY <1>3
    <3>6. /\ r[n] \in {"listing", "two_listings"} => Later(r, n, "filter")
          /\ r[n] \in {"post", "thing"} => Later(r, n, "first")
          /\ r[n] = "page" => ~Later(r, n, "safe")
      BY <3>2, <3>5
    <3>7. /\ r[n] = "gate" => n # M
          /\ r[n] \in {"ids", "hydrate"} => \A m \in n + 1 .. M : r[m] = "hydrate"
          /\ r[n] = "graphql" => \A m \in n + 1 .. M : r[m] = "first"
      BY <3>2, <3>3, <3>4
    <3>. QED BY <3>6, <3>7
  <2>2. ASSUME NEW n \in 1 .. M, NEW m \in 1 .. M, m = n + 1 PROVE Successor(r[n], r[m])
    <3>1. n + 1 \in 1 .. L /\ m + 1 \in 1 .. L /\ m + 1 = (n + 1) + 1
      BY <1>2, <2>2
    <3>2. Successor(s[n + 1], s[m + 1])
      BY <3>1 DEF InOrder
    <3>. QED BY <1>1, <3>2
  <2>3. ASSUME NEW n \in 1 .. M, NEW m \in 1 .. M, m = n + 2, r[m] = "options" PROVE r[n] = "nonempty"
    <3>1. n + 1 \in 1 .. L /\ m + 1 \in 1 .. L /\ m + 1 = (n + 1) + 2
      BY <1>2, <2>3
    <3>2. s[m + 1] = "options"
      BY <1>1, <2>3
    <3>3. s[n + 1] = "nonempty"
      BY <3>1, <3>2 DEF InOrder
    <3>. QED BY <1>1, <3>3
  <2>. QED BY <2>1, <2>2, <2>3 DEF InOrder
<1>7. HeadOf(s[1], r)
  <2>1. 1 \in 1 .. L
    BY <1>1
  <2>2. /\ s[1] \in {"listing", "two_listings"} => Later(s, 1, "filter")
        /\ s[1] \in {"post", "thing"} => Later(s, 1, "first")
        /\ s[1] = "page" => ~Later(s, 1, "safe")
        /\ s[1] = "gate" => 1 # L
        /\ s[1] \in {"ids", "hydrate"} => \A m \in 1 + 1 .. L : s[m] = "hydrate"
        /\ s[1] = "graphql" => \A m \in 1 + 1 .. L : s[m] = "first"
    BY <2>1 DEF InOrder
  <2>3. \A m \in 1 .. Len(r) : m + 1 \in 1 + 1 .. L /\ r[m] = s[m + 1]
    BY <1>1, <1>2
  <2>4. ASSUME Len(r) > 0 PROVE Successor(s[1], r[1])
    <3>1. 2 \in 1 .. L /\ 2 = 1 + 1 /\ 1 \in 1 .. Len(r) /\ r[1] = s[2]
      BY <1>1, <1>2, <2>4
    <3>. QED BY <2>1, <3>1 DEF InOrder
  <2>5. ASSUME Len(r) > 1, r[2] = "options" PROVE s[1] = "nonempty"
    <3>1. 3 \in 1 .. L /\ 3 = 1 + 2 /\ 2 \in 1 .. Len(r) /\ r[2] = s[3]
      BY <1>1, <1>2, <2>5
    <3>. QED BY <2>1, <2>5, <3>1 DEF InOrder
  <2>6. L # 1 => Len(r) > 0
    BY <1>2
  <2>7. /\ s[1] \in {"listing", "two_listings"} => Comes(r, "filter")
        /\ s[1] \in {"post", "thing"} => Comes(r, "first")
        /\ s[1] = "page" => ~Comes(r, "safe")
    BY <1>4, <2>2
  <2>8. /\ s[1] = "gate" => Len(r) > 0
        /\ s[1] \in {"ids", "hydrate"} => \A m \in 1 .. Len(r) : r[m] = "hydrate"
        /\ s[1] = "graphql" => \A m \in 1 .. Len(r) : r[m] = "first"
    BY <2>2, <2>3, <2>6
  <2>9. /\ Len(r) > 0 => Successor(s[1], r[1])
        /\ Len(r) > 1 /\ r[2] = "options" => s[1] = "nonempty"
    BY <2>4, <2>5
  <2>. HIDE DEF L
  <2>. QED BY <2>7, <2>8, <2>9 DEF HeadOf
<1>8. IsRest(s, r)
  <2>1. /\ r \in Seq(ServiceSteps) /\ Len(r) \in Nat /\ Len(s) = Len(r) + 1
        /\ \A n \in 1 .. Len(r) : r[n] = s[n + 1]
    BY <1>1, <1>2
  <2>. QED BY <2>1, <1>5, <1>6, <1>7, Zenon DEF IsRest
<1>. QED BY <1>1, <1>8 DEF r

(* One step after another, from what was fetched, f, to q.                 *)
Finders == {"listing", "two_listings", "post", "thing", "filter", "shown_post"}
Unmarking(h, f) ==
  /\ h = "post" => Len(f[1].children) <= 1
  /\ ~allow /\ h = "shown_post" => PostIsSafe(f)
Looking(h, f) ==
  /\ h = "nonempty" => Len(f[1].children) # 0
  /\ ~allow /\ h = "first" => Len(f[1].children) = 0 \/ ~f[1].children[1]
Turn(h, done, vo, f, g, e, vp, q, gp) ==
  /\ h = "subreddit" => scope = << >> \/ Service!ValidScope(scope)
  /\ e \cap {"page", "ids"} # {} => done \cap {"page", "ids"} # {} \/ h \in {"page", "ids"}
  /\ "comments" \in e => "comments" \in done \/ h = "graphql"
  /\ IF h = "safe" THEN allow \/ vp = Len(scope) ELSE vp = vo
  /\ q = f \/ h \in Finders
  /\ Unmarking(h, q) /\ Looking(h, f)
  /\ gp = "mine" => h = "gate" \/ (g = "mine" /\ h # "graphql")

(* What carries no mark comes after the communities were looked at.        *)
LEMMA VouchedRest ==
  ASSUME NEW s, NEW r, IsRest(s, r), NEW done, NEW e, NEW vo, NEW vp,
         Vouched(s, done, vo),
         e \cap {"page", "ids"} # {} => done \cap {"page", "ids"} # {} \/ s[1] \in {"page", "ids"},
         IF s[1] = "safe" THEN vp = Len(scope) ELSE vp = vo
  PROVE  Vouched(r, e, vp)
<1>1. SUFFICES ASSUME e \cap {"page", "ids"} # {} \/ Comes(r, "page") \/ Comes(r, "ids")
               PROVE  vp = Len(scope) \/ (Comes(r, "safe") /\ e \cap {"page", "ids"} = {})
  BY DEF Vouched
<1>2. \A what : Comes(s, what) <=> what = s[1] \/ Comes(r, what)
  BY DEF IsRest
<1>3. CASE s[1] = "safe"
  BY <1>3
<1>4. CASE s[1] # "safe"
  <2>1. /\ Comes(s, "page") <=> "page" = s[1] \/ Comes(r, "page")
        /\ Comes(s, "ids") <=> "ids" = s[1] \/ Comes(r, "ids")
        /\ Comes(s, "safe") <=> Comes(r, "safe")
    BY <1>2, <1>4
  <2>2. done \cap {"page", "ids"} # {} \/ Comes(s, "page") \/ Comes(s, "ids")
    BY <1>1, <2>1
  <2>3. vo = Len(scope) \/ (Comes(s, "safe") /\ done \cap {"page", "ids"} = {})
    BY <2>2 DEF Vouched
  <2>4. s[1] \in {"page", "ids"} => ~Comes(r, "safe")
    <3>1. s[1] = "page" => ~Comes(r, "safe")
      BY DEF IsRest, HeadOf
    <3>2. ASSUME s[1] = "ids" PROVE ~Comes(r, "safe")
      <4>1. \A m \in 1 .. Len(r) : r[m] = "hydrate"
        BY <3>2 DEF IsRest, HeadOf
      <4>. QED BY <4>1 DEF Comes
    <3>. QED BY <3>1, <3>2
  <2>. QED BY <1>4, <2>1, <2>3, <2>4
<1>. QED BY <1>3, <1>4

(* A post is looked at before its comments are asked for.                  *)
LEMMA PostSeenRest ==
  ASSUME NEW s, NEW r, IsRest(s, r), NEW done, NEW e, NEW f, FoundHolds(f), NEW q, FoundHolds(q), ~allow,
         PostSeen(s, done, f),
         "comments" \in e => "comments" \in done \/ s[1] = "graphql",
         q = f \/ s[1] \in Finders, Unmarking(s[1], q), Looking(s[1], f)
  PROVE  PostSeen(r, e, q)
<1>1. /\ Len(s) > 0 /\ 1 \in 1 .. Len(s) /\ Len(r) \in Nat /\ HeadOf(s[1], r)
      /\ Len(s) > 1 <=> Len(r) > 0
      /\ \A n \in 1 .. Len(r) : n + 1 \in 1 .. Len(s) /\ r[n] = s[n + 1]
  BY DEF IsRest
<1>2. ASSUME "comments" \in e PROVE PostIsSafe(q) /\ \A n \in 1 .. Len(r) : r[n] = "first"
  <2>1. CASE "comments" \in done
    <3>1. PostIsSafe(f) /\ \A n \in 1 .. Len(s) : s[n] = "first"
      BY <2>1 DEF PostSeen
    <3>2. s[1] = "first"
      BY <1>1, <3>1
    <3>3. q = f
      BY <3>2 DEF Finders
    <3>. QED BY <1>1, <3>1, <3>3
  <2>2. CASE s[1] = "graphql"
    <3>1. PostIsSafe(f)
      BY <1>1, <2>2 DEF PostSeen
    <3>2. q = f
      BY <2>2 DEF Finders
    <3>3. \A n \in 1 .. Len(r) : r[n] = "first"
      BY <1>1, <2>2 DEF HeadOf
    <3>. QED BY <3>1, <3>2, <3>3
  <2>. QED BY <1>2, <2>1, <2>2
<1>3. ASSUME Len(r) > 0
      PROVE  /\ r[1] = "nonempty" => Len(q[1].children) <= 1
             /\ r[1] = "first" /\ Len(r) > 1 /\ r[2] = "options" => Len(q[1].children) = 1
             /\ r[1] \in {"options", "gate", "graphql"} => PostIsSafe(q)
  <2>1. Successor(s[1], r[1]) /\ s[2] = r[1] /\ Len(s) > 1
    <3>1. 1 \in 1 .. Len(r) /\ 1 + 1 = 2
      BY <1>1, <1>3
    <3>. QED BY <1>1, <1>3, <3>1 DEF HeadOf
  <2>2. Len(f[1].children) \in Nat
    BY LenProperties DEF FoundHolds, Listed
  <2>3. ASSUME r[1] = "nonempty" PROVE Len(q[1].children) <= 1
    BY <2>1, <2>3 DEF Successor, Unmarking
  <2>4. ASSUME r[1] = "first", Len(r) > 1, r[2] = "options" PROVE Len(q[1].children) = 1
    <3>1. s[1] = "nonempty"
      BY <1>1, <2>4 DEF HeadOf
    <3>2. q = f /\ Len(f[1].children) # 0
      BY <3>1 DEF Finders, Looking
    <3>3. Len(f[1].children) <= 1
      BY <1>1, <3>1 DEF PostSeen
    <3>. DEFINE L == Len(f[1].children)
    <3>4. L \in Nat /\ L # 0 /\ L <= 1
      BY <2>2, <3>2, <3>3
    <3>. HIDE DEF L
    <3>5. L = 1
      BY <3>4
    <3>. QED BY <3>2, <3>5 DEF L
  <2>5. ASSUME r[1] = "options" PROVE PostIsSafe(q)
    <3>1. s[1] = "first" /\ s[2] = "options"
      BY <2>1, <2>5 DEF Successor
    <3>2. q = f /\ (Len(f[1].children) = 0 \/ ~f[1].children[1])
      BY <3>1 DEF Finders, Looking
    <3>3. Len(f[1].children) = 1
      BY <1>1, <2>1, <3>1 DEF PostSeen
    <3>. QED BY <3>2, <3>3 DEF PostIsSafe
  <2>6. ASSUME r[1] = "gate" PROVE PostIsSafe(q)
    BY <2>1, <2>6 DEF Successor, Unmarking
  <2>7. ASSUME r[1] = "graphql" PROVE PostIsSafe(q)
    <3>1. s[1] \in {"options", "gate"}
      BY <2>1, <2>7 DEF Successor
    <3>2. q = f
      BY <3>1 DEF Finders
    <3>. QED BY <1>1, <3>1, <3>2 DEF PostSeen
  <2>. QED BY <2>3, <2>4, <2>5, <2>6, <2>7
<1>. QED BY <1>2, <1>3 DEF PostSeen

(* A step that fetches nothing: it does not make a mark, and the one that  *)
(* looks at a single thing is passed only by one without.                  *)
LEMMA SiftedRest ==
  ASSUME NEW s, NEW r, IsRest(s, r), NEW f, FoundHolds(f), Sifted(s, f),
         s[1] # "filter", s[1] = "first" => Len(f[1].children) = 0 \/ ~f[1].children[1]
  PROVE  Sifted(r, f)
<1>1. \A what : Comes(s, what) <=> what = s[1] \/ Comes(r, what)
  BY DEF IsRest
<1>2. CASE Unmarked(f[1]) /\ Unmarked(f[2])
  BY <1>2 DEF Sifted
<1>3. CASE Comes(s, "filter")
  <2>1. Comes(r, "filter")
    BY <1>1, <1>3
  <2>. QED BY <2>1 DEF Sifted
<1>4. CASE Comes(s, "first") /\ Len(f[1].children) <= 1 /\ Unmarked(f[2])
  <2>1. CASE Comes(r, "first")
    BY <1>4, <2>1 DEF Sifted
  <2>2. CASE s[1] = "first"
    <3>1. Len(f[1].children) \in Nat
      BY LenProperties DEF FoundHolds, Listed
    <3>2. ASSUME NEW n \in 1 .. Len(f[1].children) PROVE ~f[1].children[n]
      <4>. DEFINE L == Len(f[1].children)
      <4>1. L \in Nat /\ L <= 1 /\ n \in 1 .. L
        BY <1>4, <3>1
      <4>2. L = 0 \/ ~f[1].children[1]
        BY <2>2
      <4>. HIDE DEF L
      <4>3. n = 1 /\ L # 0
        BY <4>1
      <4>. QED BY <4>2, <4>3
    <3>3. Unmarked(f[1])
      BY <3>2 DEF Unmarked
    <3>. QED BY <1>4, <3>3 DEF Sifted
  <2>. QED BY <1>1, <1>4, <2>1, <2>2
<1>. QED BY <1>2, <1>3, <1>4 DEF Sifted

(* So what a call awaits holds after the step as it did before.            *)
LEMMA RestAwaits ==
  ASSUME NEW s, NEW r, IsRest(s, r), NEW done, NEW vo, NEW f, NEW ii, NEW h, NEW g,
         Awaits(s, done, vo, f, ii, h, g),
         NEW e, NEW vp, NEW q, NEW gp, NEW jj, Turn(s[1], done, vo, f, g, e, vp, q, gp),
         FoundHolds(q), ~allow => Sifted(r, q), jj \in Seq(Range(jj))
  PROVE  Awaits(r, e, vp, q, jj, h, gp)
<1>1. StepsHold(r)
  BY DEF IsRest, StepsHold
<1>2. ScopeHolds(r, e)
  <2>1. Len(s) > 0
    BY DEF IsRest
  <2>. QED BY <2>1 DEF Awaits, ScopeHolds, Turn
<1>3. GateHolds(r, gp)
  <2>. SUFFICES ASSUME gp = "mine" PROVE Len(r) > 0 /\ r[1] = "graphql"
    BY DEF GateHolds
  <2>1. s[1] = "gate"
    BY DEF Turn, Awaits, GateHolds
  <2>2. Len(r) > 0 /\ Successor(s[1], r[1])
    BY <2>1 DEF IsRest, HeadOf
  <2>. QED BY <2>1, <2>2 DEF Successor
<1>4. ASSUME ~allow PROVE Vouched(r, e, vp)
  <2>1. Vouched(s, done, vo)
    BY <1>4 DEF Awaits, PolicyHolds
  <2>. QED BY <1>4, <2>1, VouchedRest DEF Turn
<1>5. ASSUME ~allow PROVE PostSeen(r, e, q)
  <2>1. PostSeen(s, done, f) /\ FoundHolds(f)
    BY <1>5 DEF Awaits, PolicyHolds
  <2>. QED BY <1>5, <2>1, PostSeenRest DEF Turn
<1>6. SearchHolds(jj, h)
  BY DEF Awaits, SearchHolds
<1>. QED BY <1>1, <1>2, <1>3, <1>4, <1>5, <1>6 DEF Awaits, PolicyHolds

(* What is unchanged by a call: its policy and its communities.            *)
LEMMA StillAwaits ==
  ASSUME allow' = allow, scope' = scope, serviceResult' = None,
         Awaits(todo', calls', vouched', found', ids', hydrated', gate')
  PROVE  ServiceIInv'
<1>1. StepsHold(todo)' /\ FoundHolds(found)' /\ GateHolds(todo, gate)'
  <2>1. StepsHold(todo')
    BY DEF Awaits
  <2>2. FoundHolds(found')
    BY DEF Awaits
  <2>3. GateHolds(todo', gate')
    BY DEF Awaits
  <2>. QED BY <2>1, <2>2, <2>3
<1>2. ScopeHolds(todo, calls)'
  <2>1. ScopeHolds(todo', calls')
    BY DEF Awaits
  <2>. QED BY <2>1 DEF ScopeHolds
<1>3. PolicyHolds(todo, calls, vouched, found)'
  <2>1. PolicyHolds(todo', calls', vouched', found')
    BY DEF Awaits
  <2>2. ASSUME ~allow' PROVE Vouched(todo, calls, vouched)'
    <3>1. Vouched(todo', calls', vouched')
      BY <2>1, <2>2 DEF PolicyHolds
    <3>. QED BY <3>1 DEF Vouched
  <2>3. ASSUME ~allow' PROVE Sifted(todo, found)' /\ PostSeen(todo, calls, found)'
    BY <2>1, <2>3 DEF PolicyHolds
  <2>. QED BY <2>2, <2>3 DEF PolicyHolds
<1>4. SearchHolds(ids, hydrated)'
  <2>1. SearchHolds(ids', hydrated')
    BY DEF Awaits
  <2>. QED BY <2>1 DEF SearchHolds
<1>. QED BY <1>1, <1>2, <1>3, <1>4 DEF ServiceIInv, Awaits

(* A call that was awaiting its first step goes on with the others.        *)
InCall == Awaits(todo, calls, vouched, found, ids, hydrated, gate) /\ serviceResult = None
LEMMA StepPassed ==
  ASSUME InCall, todo # << >>, allow' = allow, scope' = scope, Service!Proceed, hydrated' = hydrated,
         Turn(todo[1], calls, vouched, found, gate, calls', vouched', found', gate'), FoundHolds(found'),
         IsRest(todo, Tail(todo)) /\ ~allow => Sifted(Tail(todo), found'), ids' \in Seq(Range(ids'))
  PROVE  ServiceIInv'
<1>1. IsRest(todo, Tail(todo))
  BY RestInOrder DEF InCall, Awaits, StepsHold
<1>2. Awaits(Tail(todo), calls', vouched', found', ids', hydrated, gate')
  BY <1>1, RestAwaits DEF InCall
<1>3. Awaits(todo', calls', vouched', found', ids', hydrated', gate')
  BY <1>2 DEF Service!Proceed
<1>. QED BY <1>3, StillAwaits DEF InCall, Service!Proceed

(* After the communities were looked at they are well formed.              *)
LEMMA ScopeIsFine ==
  ASSUME InCall, todo # << >> => todo[1] # "subreddit"
  PROVE  scope = << >> \/ Service!ValidScope(scope)
<1>1. Len(todo) > 0 => todo # << >>
  BY EmptySeq DEF InCall, Awaits, StepsHold
<1>. QED BY <1>1 DEF InCall, Awaits, ScopeHolds

(* A call that fails returns nothing.                                      *)
LEMMA CallFails ==
  ASSUME Service!ServiceAssumption, NEW code \in Service!Codes, Service!Fail(code), allow' = allow, scope' = scope,
         scope # << >> /\ ~Service!ValidScope(scope) => calls' = {}, gate' # "mine"
  PROVE  ServiceIInv'
<1>1. serviceResult' = [ok |-> FALSE, code |-> code]
  BY DEF Service!Fail
<1>2. serviceResult' # None
  <2>1. [ok |-> FALSE, code |-> code] \in [ok : BOOLEAN, code : Service!Codes]
    OBVIOUS
  <2>2. None \notin [ok : BOOLEAN, code : Service!Codes]
    BY DEF Service!ServiceAssumption
  <2>. QED BY <1>1, <2>1, <2>2, Zenon
<1>3. ~serviceResult'.ok
  BY <1>1
<1>4. Service!ArgumentsCount'
  BY <1>3 DEF Service!ArgumentsCount, Service!Succeeded, Service!ValidScope, Service!ValidName, Service!ValidId36,
              Service!Ranges
<1>5. Service!NothingMarked' /\ Service!SearchIsExact'
  BY <1>3 DEF Service!NothingMarked, Service!SearchIsExact, Service!Succeeded
<1>. QED BY <1>2, <1>4, <1>5 DEF ServiceIInv, ServiceIsSafe, Service!ServiceIsSafe

(* A step that fails leaves no community and no permit behind.             *)
LEMMA StepFails ==
  ASSUME Service!ServiceAssumption, InCall, todo # << >>, NEW code \in Service!Codes, Service!Fail(code),
         allow' = allow, scope' = scope, IF todo[1] = "subreddit" THEN calls' = calls ELSE TRUE,
         (gate' = gate /\ todo[1] # "graphql") \/ Service!Leave
  PROVE  ServiceIInv'
<1>1. ASSUME scope # << >> /\ ~Service!ValidScope(scope) PROVE calls' = {}
  <2>1. todo[1] = "subreddit"
    BY <1>1, ScopeIsFine
  <2>. QED BY <1>1, <2>1 DEF InCall, Awaits, ScopeHolds
<1>2. gate' # "mine"
  BY DEF InCall, Awaits, GateHolds, Service!Leave
<1>. QED BY <1>1, <1>2, CallFails

(* What a call returns, if it does: nothing marked, of safe communities.   *)
Final(s, e) ==
  /\ \A what \in {"filter", "first", "safe"} : ~Comes(s, what)
  /\ e \cap {"page", "ids"} # {} => calls \cap {"page", "ids"} # {} \/ Comes(s, "ids")
  /\ "comments" \in e => "comments" \in calls
  /\ s # << >> => s[1] # "subreddit"
Hydrated(c) == c \in UNION Comments /\ c.post = "this" /\ (allow \/ ~c.adult)
Answers(comments) ==
  \/ comments = << >>
  \/ /\ comments = [i \in DOMAIN ids |-> comments[i]]
     /\ \A i \in DOMAIN ids : Hydrated(comments[i]) /\ comments[i].name = ids[i]

(* A listing without a mark, and a post without one.                       *)
LEMMA UnmarkedRange ==
  ASSUME NEW l, Listed(l), Unmarked(l)
  PROVE  TRUE \notin Range(l.children)
<1>1. DOMAIN l.children = 1 .. Len(l.children)
  BY LenProperties DEF Listed
<1>. QED BY <1>1 DEF Unmarked, Range

LEMMA SafePost ==
  ASSUME NEW f, FoundHolds(f), PostIsSafe(f)
  PROVE  f[1].children = <<FALSE>>
<1>. DEFINE c == f[1].children
            one == <<FALSE>>
<1>1. c \in Seq(BOOLEAN) /\ Len(c) = 1 /\ ~c[1]
  BY DEF FoundHolds, Listed, PostIsSafe
<1>2. one \in Seq(BOOLEAN) /\ Len(one) = 1 /\ one[1] = FALSE
  OBVIOUS
<1>. HIDE DEF c, one
<1>3. c[1] \in BOOLEAN
  BY <1>1, ElementOfSeq
<1>4. \A i \in 1 .. Len(c) : i = 1
  BY <1>1
<1>5. c[1] = one[1]
  BY <1>1, <1>2, <1>3
<1>6. \A i \in 1 .. Len(c) : c[i] = one[i]
  BY <1>4, <1>5
<1>7. c = one
  BY <1>1, <1>2, <1>6, SeqEqual
<1>. QED BY <1>7 DEF c, one

(* No mark is in what a call returns,                                      *)
LEMMA NothingMarkedReturned ==
  ASSUME InCall, Final(todo, calls'), UNCHANGED <<allow, scope, vouched, found>>,
         NEW comments, Answers(comments), comments # << >> => ids' = ids,
         serviceResult' = [ok |-> TRUE, comments |-> comments]
  PROVE  Service!NothingMarked'
<1>. SUFFICES ASSUME ~allow PROVE Service!NothingMarked'
  BY DEF Service!NothingMarked
<1>1. serviceResult'.comments = comments
  OBVIOUS
<1>2. FoundHolds(found) /\ Sifted(todo, found) /\ Vouched(todo, calls, vouched) /\ PostSeen(todo, calls, found)
  BY DEF InCall, Awaits, PolicyHolds
<1>3. \A l \in Range(found) : TRUE \notin Range(l.children)
  <2>0. ~Comes(todo, "filter") /\ ~Comes(todo, "first")
    BY DEF Final
  <2>1. Unmarked(found[1]) /\ Unmarked(found[2])
    BY <1>2, <2>0 DEF Sifted
  <2>2. Listed(found[1]) /\ Listed(found[2]) /\ DOMAIN found = 1 .. 2
    BY <1>2 DEF FoundHolds
  <2>3. TRUE \notin Range(found[1].children) /\ TRUE \notin Range(found[2].children)
    BY <2>1, <2>2, UnmarkedRange
  <2>4. \A l \in Range(found) : l = found[1] \/ l = found[2]
    BY <2>2 DEF Range
  <2>. QED BY <2>3, <2>4
<1>4. calls' \cap {"page", "ids"} # {} => vouched = Len(scope)
  BY <1>2 DEF Final, Vouched
<1>5. "comments" \in calls' => found[1].children = <<FALSE>>
  BY <1>2, SafePost DEF Final, PostSeen
<1>6. \A i \in DOMAIN comments : ~comments[i].adult
  <2>1. CASE comments = << >>
    BY <2>1
  <2>2. CASE comments # << >>
    BY <2>2 DEF Answers, Hydrated
  <2>. QED BY <2>1, <2>2
<1>7. /\ \A l \in Range(found)' : TRUE \notin Range(l.children)
      /\ calls' \cap {"page", "ids"} # {} => vouched' = Len(scope')
      /\ "comments" \in calls' => found[1]'.children = <<FALSE>>
  BY <1>3, <1>4, <1>5 DEF Range
<1>. QED BY <1>1, <1>6, <1>7 DEF Service!NothingMarked, Range, Service!Range

(* what a search returns is of its page,                                   *)
LEMMA SearchReturned ==
  ASSUME InCall, UNCHANGED <<allow, scope, vouched, found>>,
         NEW comments, Answers(comments), comments # << >> => ids' = ids,
         serviceResult' = [ok |-> TRUE, comments |-> comments]
  PROVE  Service!SearchIsExact' /\ comments \in Seq(UNION Comments)
<1>1. serviceResult'.comments = comments
  OBVIOUS
<1>2. CASE comments = << >>
  BY <1>1, <1>2 DEF Service!SearchIsExact
<1>3. CASE comments # << >>
  <2>1. /\ comments = [i \in DOMAIN ids |-> comments[i]]
        /\ \A i \in DOMAIN ids : Hydrated(comments[i]) /\ comments[i].name = ids[i]
    BY <1>3 DEF Answers
  <2>2. ids \in Seq(Range(ids))
    BY DEF InCall, Awaits, SearchHolds
  <2>3. Len(ids) \in Nat /\ DOMAIN ids = 1 .. Len(ids) /\ ids = [i \in DOMAIN ids |-> ids[i]]
    BY <2>2, LenProperties
  <2>4. DOMAIN comments = DOMAIN ids
    BY <2>1
  <2>5. [i \in DOMAIN comments |-> comments[i].name] = ids'
    BY <1>3, <2>1, <2>3, <2>4
  <2>6. \A i \in DOMAIN comments : comments[i].post = "this"
    BY <2>1, <2>4 DEF Hydrated
  <2>7. comments \in [1 .. Len(ids) -> UNION Comments]
    BY <2>1, <2>3 DEF Hydrated
  <2>8. comments \in Seq(UNION Comments)
    BY <2>3, <2>7
  <2>. QED BY <1>1, <2>5, <2>6, <2>8 DEF Service!SearchIsExact
<1>. QED BY <1>2, <1>3

(* and so the call is safe.                                                *)
LEMMA CallReturns ==
  ASSUME Service!ServiceAssumption, InCall, Final(todo, calls'), UNCHANGED <<allow, scope, vouched, found>>,
         NEW comments, Answers(comments), comments # << >> => ids' = ids,
         serviceResult' = [ok |-> TRUE, comments |-> comments], gate' # "mine"
  PROVE  ServiceIInv'
<1>1. Service!NothingMarked' /\ Service!SearchIsExact' /\ comments \in Seq(UNION Comments)
  BY NothingMarkedReturned, SearchReturned
<1>2. serviceResult' # None
  <2>1. [ok |-> TRUE, comments |-> comments] \in [ok : BOOLEAN, comments : Seq(UNION Comments)]
    BY <1>1
  <2>2. None \notin [ok : BOOLEAN, comments : Seq(UNION Comments)]
    BY DEF Service!ServiceAssumption
  <2>. QED BY <2>1, <2>2, Zenon
<1>3. scope = << >> \/ Service!ValidScope(scope)
  BY ScopeIsFine DEF Final
<1>4. \A l \in Range(found) : l.dist \in {None, Len(l.children)}
  BY DEF InCall, Awaits, FoundHolds, Listed, Range
<1>5. Service!ArgumentsCount'
  <2>1. scope' = << >> \/ Service!ValidScope(scope)'
    BY <1>3 DEF Service!ValidScope, Service!ValidName, Service!ValidId36, Service!Ranges
  <2>2. \A l \in Range(found)' : l.dist \in {None, Len(l.children)}
    BY <1>4 DEF Range
  <2>. QED BY <2>1, <2>2 DEF Service!ArgumentsCount, Range, Service!Range
<1>. QED BY <1>1, <1>2, <1>5 DEF ServiceIInv, ServiceIsSafe, Service!ServiceIsSafe

(* What the policy keeps of a listing is a listing, without what is        *)
(* marked.                                                                 *)
LEMMA KeptIsListed ==
  ASSUME NEW l, Listed(l)
  PROVE  /\ Listed(Service!Kept(l)) /\ (~allow => Unmarked(Service!Kept(l)))
         /\ Len(Service!Kept(l).children) \in Nat /\ Len(l.children) \in Nat
         /\ Len(Service!Kept(l).children) <= Len(l.children)
<1>. DEFINE s == l.children
            K == {i \in DOMAIN s : ~s[i]}
            r == Picked(s, K)
<1>1. s \in Seq(BOOLEAN) /\ DOMAIN s = 1 .. Len(s) /\ Len(s) \in Nat
  BY LenProperties DEF Listed
<1>2. K \in SUBSET Nat /\ IsFiniteSet(K) /\ Cardinality(K) <= Len(s)
  <2>1. K \subseteq 1 .. Len(s) /\ IsFiniteSet(1 .. Len(s)) /\ Cardinality(1 .. Len(s)) = Len(s)
    BY <1>1, FS_Interval
  <2>2. K \subseteq Nat
    BY <2>1
  <2>. QED BY <2>1, <2>2, FS_Subset
<1>. HIDE DEF K, s
<1>3. r \in Seq({s[k] : k \in K}) /\ Len(r) = Cardinality(K) /\ Cardinality(K) \in Nat
  BY <1>2, PickedProperties
<1>. HIDE DEF r
<1>4. \A k \in K : s[k] = FALSE
  <2>1. \A k \in K : k \in 1 .. Len(s) /\ ~s[k]
    BY <1>1 DEF K
  <2>. QED BY <1>1, <2>1, ElementOfSeq
<1>5. r \in Seq({FALSE})
  <2>1. {s[k] : k \in K} \subseteq {FALSE}
    BY <1>4
  <2>. QED BY <1>3, <2>1, SeqMonotonic
<1>6. r \in Seq(BOOLEAN) /\ \A n \in 1 .. Len(r) : r[n] = FALSE
  <2>1. \A n \in 1 .. Len(r) : r[n] \in {FALSE}
    BY <1>5, ElementOfSeq
  <2>2. {FALSE} \subseteq BOOLEAN
    OBVIOUS
  <2>. QED BY <1>5, <2>1, <2>2, SeqMonotonic
<1>7. Service!Picked(s, K) = r
  BY DEF r, Picked, Nth, Service!Picked, Service!Nth, Cardinality, Service!Cardinality
<1>8. CASE allow
  <2>1. Service!Kept(l) = l
    BY <1>8 DEF Service!Kept
  <2>. QED BY <1>1, <1>8, <2>1 DEF s
<1>9. CASE ~allow
  <2>1. Service!Kept(l) = [children |-> r, dist |-> IF l.dist = None THEN None ELSE Len(r)]
    BY <1>7, <1>9 DEF Service!Kept, s, K
  <2>2. Service!Kept(l).children = r /\ Service!Kept(l).dist \in {None, Len(r)}
    BY <2>1
  <2>3. Listed(Service!Kept(l)) /\ Unmarked(Service!Kept(l))
    BY <1>6, <2>2 DEF Listed, Unmarked
  <2>. QED BY <1>1, <1>2, <1>3, <2>2, <2>3 DEF s
<1>. QED BY <1>8, <1>9

(* The names on a page, each once, are a sequence.                         *)
LEMMA DistinctIsSequence ==
  ASSUME NEW s, s \in Seq(Service!Range(s))
  PROVE  Service!Distinct(s) \in Seq(Range(Service!Distinct(s)))
<1>. DEFINE K == {i \in DOMAIN s : \A j \in DOMAIN s : j < i => s[j] # s[i]}
            r == Picked(s, K)
<1>1. DOMAIN s = 1 .. Len(s) /\ Len(s) \in Nat
  BY LenProperties
<1>2. K \in SUBSET Nat /\ IsFiniteSet(K)
  <2>1. K \subseteq 1 .. Len(s) /\ IsFiniteSet(1 .. Len(s))
    BY <1>1, FS_Interval
  <2>2. K \subseteq Nat
    BY <2>1
  <2>. QED BY <2>1, <2>2, FS_Subset
<1>3. Service!Distinct(s) = r
  BY DEF Service!Distinct, Picked, Nth, Service!Picked, Service!Nth, Cardinality, Service!Cardinality
<1>. HIDE DEF K
<1>4. r \in Seq({s[k] : k \in K})
  BY <1>2, PickedProperties
<1>. HIDE DEF r
<1>5. Len(r) \in Nat /\ r \in [1 .. Len(r) -> {s[k] : k \in K}]
  BY <1>4, LenProperties
<1>6. r \in [1 .. Len(r) -> Range(r)]
  BY <1>5 DEF Range
<1>7. r \in Seq(Range(r))
  BY <1>5, <1>6
<1>. QED BY <1>3, <1>7

(* A listing of Reddit, and none.                                          *)
LEMMA ListingsAreListed ==
  ASSUME Service!ServiceAssumption
  PROVE  /\ \A l \in Listings : Listed(l)
         /\ Listed(Service!Empty) /\ Unmarked(Service!Empty) /\ Len(Service!Empty.children) = 0
<1>1. \A l \in Listings : Listed(l)
  BY DEF Service!ServiceAssumption, Listed
<1>2. Service!Empty.children = << >> /\ Service!Empty.dist = None
  BY DEF Service!Empty
<1>3. << >> \in Seq(BOOLEAN) /\ Len(<< >>) = 0
  BY EmptySeq
<1>. QED BY <1>1, <1>2, <1>3 DEF Listed, Unmarked

(* The step a call is at is the first of those to come.                    *)
LEMMA AtStep ==
  ASSUME InCall, NEW h, Service!Step(h)
  PROVE  todo # << >> /\ Head(todo) = h /\ todo[1] = h /\ IsRest(todo, Tail(todo))
BY RestInOrder DEF InCall, Awaits, StepsHold, Service!Step

(* A step that fetches nothing and is passed.                              *)
Asks(h, done, e) ==
  /\ e \cap {"page", "ids"} # {} => done \cap {"page", "ids"} # {} \/ h \in {"page", "ids"}
  /\ "comments" \in e => "comments" \in done \/ h = "graphql"
LEMMA Passes ==
  ASSUME InCall, NEW h, Service!Step(h), Service!Proceed, UNCHANGED <<allow, scope, vouched, found, hydrated>>,
         h = "safe" => allow \/ vouched = Len(scope), h = "subreddit" => Service!ValidScope(scope),
         h \notin {"post", "filter"}, h = "shown_post" => allow, Looking(h, found),
         Asks(h, calls, calls'), gate' = "mine" => h = "gate" \/ (gate = "mine" /\ h # "graphql"),
         ids' \in Seq(Range(ids'))
  PROVE  ServiceIInv'
<1>1. todo # << >> /\ todo[1] = h /\ IsRest(todo, Tail(todo))
  BY AtStep
<1>2. h = "subreddit" => scope = << >> \/ Service!ValidScope(scope)
  OBVIOUS
<1>3. Unmarking(h, found')
  BY DEF Unmarking
<1>4. Turn(h, calls, vouched, found, gate, calls', vouched', found', gate')
  BY <1>2, <1>3 DEF Turn, Asks
<1>5. FoundHolds(found')
  BY DEF InCall, Awaits
<1>6. ASSUME ~allow PROVE Sifted(Tail(todo), found')
  <2>1. Sifted(todo, found) /\ FoundHolds(found)
    BY <1>6 DEF InCall, Awaits, PolicyHolds
  <2>2. h = "first" => Len(found[1].children) = 0 \/ ~found[1].children[1]
    BY <1>6 DEF Looking
  <2>3. Sifted(Tail(todo), found)
    BY <1>1, <2>1, <2>2, SiftedRest
  <2>. QED BY <2>3
<1>. QED BY <1>1, <1>4, <1>5, <1>6, StepPassed

(* A step that is not passed yet.                                          *)
LEMMA Stays ==
  ASSUME InCall, UNCHANGED <<allow, scope, todo, found, ids, serviceResult>>,
         calls' \cap {"page", "ids", "comments"} = calls \cap {"page", "ids", "comments"},
         calls' = calls \/ (todo # << >> /\ todo[1] # "subreddit"),
         vouched' = vouched \/ vouched # Len(scope), gate' \in {gate, "free", "other"},
         \A c \in hydrated' : Hydrated(c)
  PROVE  ServiceIInv'
<1>1. StepsHold(todo') /\ FoundHolds(found')
  BY DEF InCall, Awaits
<1>2. ScopeHolds(todo', calls')
  <2>1. CASE calls' = calls
    BY <2>1 DEF InCall, Awaits, ScopeHolds
  <2>2. CASE todo # << >> /\ todo[1] # "subreddit"
    <3>1. scope = << >> \/ Service!ValidScope(scope)
      BY <2>2, ScopeIsFine
    <3>. QED BY <3>1 DEF ScopeHolds
  <2>. QED BY <2>1, <2>2
<1>3. GateHolds(todo', gate')
  BY DEF InCall, Awaits, GateHolds
<1>4. PolicyHolds(todo', calls', vouched', found')
  <2>. SUFFICES ASSUME ~allow
                PROVE  Sifted(todo, found) /\ Vouched(todo, calls', vouched') /\ PostSeen(todo, calls', found)
    BY DEF PolicyHolds
  <2>1. Sifted(todo, found) /\ Vouched(todo, calls, vouched) /\ PostSeen(todo, calls, found)
    BY DEF InCall, Awaits, PolicyHolds
  <2>2. (calls' \cap {"page", "ids"} = calls \cap {"page", "ids"}) /\ ("comments" \in calls' <=> "comments" \in calls)
    OBVIOUS
  <2>3. Vouched(todo, calls', vouched')
    BY <2>1, <2>2 DEF Vouched
  <2>4. PostSeen(todo, calls', found)
    BY <2>1, <2>2 DEF PostSeen
  <2>. QED BY <2>1, <2>3, <2>4
<1>5. SearchHolds(ids', hydrated')
  BY DEF InCall, Awaits, SearchHolds, Hydrated
<1>6. Awaits(todo', calls', vouched', found', ids', hydrated', gate')
  BY <1>1, <1>2, <1>3, <1>4, <1>5 DEF Awaits
<1>. QED BY <1>6, StillAwaits DEF InCall

(* Every step of a call, one after the other.                              *)
LEMMA ScopeChecked ==
  ASSUME Service!ServiceAssumption, InCall, Service!CheckScope
  PROVE  ServiceIInv'
<1>1. /\ Service!Step("subreddit") /\ Service!Continue(~Service!Valid("subreddit", scope), "invalid")
      /\ UNCHANGED <<allow, scope, calls, vouched, found, ids, hydrated, gate>>
  BY DEF Service!CheckScope, Service!arguments, Service!search
<1>2. Service!Valid("subreddit", scope) = Service!ValidScope(scope)
  BY DEF Service!Valid
<1>3. todo # << >> /\ todo[1] = "subreddit"
  BY <1>1, AtStep
<1>4. CASE Service!ValidScope(scope)
  <2>1. Service!Proceed
    BY <1>1, <1>2, <1>4 DEF Service!Continue
  <2>2. ids' \in Seq(Range(ids'))
    BY <1>1 DEF InCall, Awaits, SearchHolds
  <2>. QED BY <1>1, <1>4, <2>1, <2>2, Passes DEF Looking, Asks
<1>5. CASE ~Service!ValidScope(scope)
  <2>1. Service!Fail("invalid")
    BY <1>1, <1>2, <1>5 DEF Service!Continue
  <2>. QED BY <1>1, <1>3, <2>1, StepFails DEF Service!Codes
<1>. QED BY <1>4, <1>5

(* A step that looks at an argument or at what was fetched, and may refuse.*)
Looks(h, passes, code) ==
  /\ Service!Step(h) /\ Service!Continue(~passes, code)
  /\ code \in Service!Codes
  /\ UNCHANGED <<allow, scope, calls, vouched, found, ids, hydrated>>
LEMMA LooksAndGoesOn ==
  ASSUME Service!ServiceAssumption, InCall, NEW h, NEW passes \in BOOLEAN, NEW code, Looks(h, passes, code),
         h \notin {"subreddit", "safe", "post", "filter", "shown_post", "graphql"},
         gate' = gate \/ Service!Leave, passes => Looking(h, found)
  PROVE  ServiceIInv'
<1>1. todo # << >> /\ todo[1] = h
  BY AtStep DEF Looks
<1>2. gate' = "mine" => gate = "mine"
  BY DEF Service!Leave
<1>3. CASE passes
  <2>1. Service!Proceed
    BY <1>3 DEF Looks, Service!Continue
  <2>2. ids' \in Seq(Range(ids'))
    BY DEF InCall, Awaits, SearchHolds, Looks
  <2>3. Service!Step(h) /\ UNCHANGED <<allow, scope, calls, vouched, found, hydrated>>
    BY DEF Looks
  <2>4. Asks(h, calls, calls')
    BY <2>3 DEF Asks
  <2>. QED BY <1>2, <1>3, <2>1, <2>2, <2>3, <2>4, Passes
<1>4. CASE ~passes
  <2>1. Service!Fail(code) /\ code \in Service!Codes /\ UNCHANGED <<allow, scope, calls>>
    BY <1>4 DEF Looks, Service!Continue
  <2>2. (gate' = gate /\ todo[1] # "graphql") \/ Service!Leave
    BY <1>1
  <2>. QED BY <1>1, <2>1, <2>2, StepFails
<1>. QED BY <1>3, <1>4

(* An argument, the wish for adult content, a single thing, a post.        *)
LEMMA ArgumentLooked ==
  ASSUME Service!ServiceAssumption, InCall, Service!Validate
  PROVE  ServiceIInv'
<1>1. PICK a \in DOMAIN Inputs : \E x \in Inputs[a] : Service!Step(a) /\ Service!Continue(~Service!Valid(a, x), "invalid")
  BY DEF Service!Validate
<1>2. PICK x \in Inputs[a] : Service!Step(a) /\ Service!Continue(~Service!Valid(a, x), "invalid")
  BY <1>1
<1>3. Service!Leave /\ UNCHANGED <<allow, scope, calls, vouched, found, ids, hydrated>>
  BY DEF Service!Validate, Service!arguments, Service!search
<1>4. a \in Service!Arguments
  BY DEF Service!ServiceAssumption
<1>. DEFINE passes == IF Service!Valid(a, x) THEN TRUE ELSE FALSE
<1>5. passes \in BOOLEAN /\ (~passes <=> ~Service!Valid(a, x))
  OBVIOUS
<1>. HIDE DEF passes
<1>6. Looks(a, passes, "invalid")
  BY <1>2, <1>3, <1>5 DEF Looks, Service!Continue, Service!Codes
<1>7. a \notin {"subreddit", "safe", "post", "filter", "shown_post", "graphql"} /\ Looking(a, found)
  BY <1>4 DEF Service!Arguments, Looking
<1>. QED BY <1>3, <1>5, <1>6, <1>7, LooksAndGoesOn

LEMMA AdultLooked ==
  ASSUME Service!ServiceAssumption, InCall, Service!Over18
  PROVE  ServiceIInv'
<1>. DEFINE passes == IF ~allow /\ wants = "on" THEN FALSE ELSE TRUE
<1>1. Looks("over_18", passes, "blocked") /\ passes \in BOOLEAN /\ gate' = gate
  BY DEF Service!Over18, Looks, Service!Continue, Service!Codes, Service!search
<1>. HIDE DEF passes
<1>2. Looking("over_18", found)
  BY DEF Looking
<1>. QED BY <1>1, <1>2, LooksAndGoesOn

LEMMA FirstLooked ==
  ASSUME Service!ServiceAssumption, InCall, Service!First
  PROVE  ServiceIInv'
<1>. DEFINE passes == IF ~allow /\ found[1].children # << >> /\ found[1].children[1] THEN FALSE ELSE TRUE
<1>1. Looks("first", passes, "blocked") /\ passes \in BOOLEAN /\ gate' = gate
  BY DEF Service!First, Looks, Service!Continue, Service!Codes, Service!search, Service!arguments
<1>2. passes => Looking("first", found)
  <2>1. Len(<< >>) = 0
    BY EmptySeq
  <2>. QED BY <2>1 DEF Looking
<1>. HIDE DEF passes
<1>. QED BY <1>1, <1>2, LooksAndGoesOn

LEMMA NonemptyLooked ==
  ASSUME Service!ServiceAssumption, InCall, Service!Nonempty
  PROVE  ServiceIInv'
<1>. DEFINE passes == IF found[1].children = << >> THEN FALSE ELSE TRUE
<1>1. Looks("nonempty", passes, "invalid_comments") /\ passes \in BOOLEAN /\ gate' = gate
  BY DEF Service!Nonempty, Looks, Service!Continue, Service!Codes, Service!search, Service!arguments
<1>2. passes => Looking("nonempty", found)
  <2>1. found[1].children \in Seq(BOOLEAN)
    BY DEF InCall, Awaits, FoundHolds, Listed
  <2>2. found[1].children # << >> => Len(found[1].children) # 0
    BY <2>1, EmptySeq
  <2>. QED BY <2>2 DEF Looking
<1>. HIDE DEF passes
<1>. QED BY <1>1, <1>2, LooksAndGoesOn

LEMMA DescriptionLooked ==
  ASSUME Service!ServiceAssumption, InCall, Service!Description
  PROVE  ServiceIInv'
<1>1. PICK missing \in BOOLEAN : Service!Continue(missing, "parse")
  BY DEF Service!Description
<1>. DEFINE passes == ~missing
<1>2. Looks("description", passes, "parse") /\ passes \in BOOLEAN /\ gate' = gate
  BY <1>1 DEF Service!Description, Looks, Service!Continue, Service!Codes, Service!search, Service!arguments
<1>. HIDE DEF passes
<1>3. Looking("description", found)
  BY DEF Looking
<1>. QED BY <1>2, <1>3, LooksAndGoesOn

(* The communities, one at a time.                                         *)
LEMMA CommunitiesLooked ==
  ASSUME Service!ServiceAssumption, InCall, Service!Safe
  PROVE  ServiceIInv'
<1>1. Service!Step("safe") /\ UNCHANGED <<allow, scope, found, ids, hydrated, gate>>
  BY DEF Service!Safe, Service!arguments, Service!search
<1>2. todo # << >> /\ todo[1] = "safe"
  BY <1>1, AtStep
<1>3. CASE allow \/ vouched = Len(scope)
  <2>1. Service!Proceed /\ UNCHANGED <<calls, vouched>>
    BY <1>3 DEF Service!Safe, Service!Communities
  <2>2. ids' \in Seq(Range(ids'))
    BY <1>1 DEF InCall, Awaits, SearchHolds
  <2>3. Looking("safe", found) /\ Asks("safe", calls, calls')
    BY <2>1 DEF Looking, Asks
  <2>. QED BY <1>1, <1>3, <2>1, <2>2, <2>3, Passes
<1>4. CASE ~(allow \/ vouched = Len(scope))
  <2>1. PICK adult \in BOOLEAN : IF adult THEN Service!Fail("blocked") ELSE UNCHANGED <<todo, serviceResult>>
    BY <1>4 DEF Service!Safe, Service!Communities
  <2>2. calls' = calls \cup {"about"}
    BY <1>4 DEF Service!Safe, Service!Communities
  <2>3. CASE adult
    <3>1. Service!Fail("blocked")
      BY <2>1, <2>3
    <3>. QED BY <1>1, <1>2, <3>1, StepFails DEF Service!Codes
  <2>4. CASE ~adult
    <3>1. UNCHANGED <<todo, serviceResult>>
      BY <2>1, <2>4
    <3>2. \A c \in hydrated' : Hydrated(c)
      BY <1>1 DEF InCall, Awaits, SearchHolds, Hydrated
    <3>3. calls' \cap {"page", "ids", "comments"} = calls \cap {"page", "ids", "comments"}
      BY <2>2
    <3>. QED BY <1>1, <1>2, <1>4, <3>1, <3>2, <3>3, Stays
  <2>. QED BY <2>3, <2>4
<1>. QED BY <1>3, <1>4

(* What is fetched is looked at later.                                     *)
LEMMA ListingFetched ==
  ASSUME Service!ServiceAssumption, InCall, NEW h \in {"listing", "two_listings", "post", "thing"}, Service!Step(h),
         NEW l \in Listings, NEW m, Listed(m), Service!Fetched(<<l, m>>), calls' = calls \cup {h},
         UNCHANGED <<allow, scope, vouched, ids, hydrated, gate>>,
         h \in {"post", "thing"} => Len(l.children) <= 1 /\ Unmarked(m)
  PROVE  ServiceIInv'
<1>1. todo # << >> /\ todo[1] = h /\ IsRest(todo, Tail(todo))
  BY AtStep
<1>2. found' = <<l, m>> /\ found'[1] = l /\ found'[2] = m /\ Service!Proceed
  BY DEF Service!Fetched
<1>3. FoundHolds(found')
  BY <1>2, ListingsAreListed DEF FoundHolds
<1>4. Sifted(Tail(todo), found')
  <2>1. CASE h \in {"listing", "two_listings"}
    <3>1. Comes(Tail(todo), "filter")
      BY <1>1, <2>1 DEF IsRest, HeadOf
    <3>. QED BY <3>1 DEF Sifted
  <2>2. CASE h \in {"post", "thing"}
    <3>1. Comes(Tail(todo), "first")
      BY <1>1, <2>2 DEF IsRest, HeadOf
    <3>. QED BY <1>2, <2>2, <3>1 DEF Sifted
  <2>. QED BY <2>1, <2>2
<1>5. Unmarking(h, found') /\ Looking(h, found)
  BY <1>2 DEF Unmarking, Looking
<1>6. Turn(h, calls, vouched, found, gate, calls', vouched', found', gate')
  BY <1>5 DEF Turn, Finders
<1>7. ids' \in Seq(Range(ids'))
  BY DEF InCall, Awaits, SearchHolds
<1>. QED BY <1>1, <1>2, <1>3, <1>4, <1>6, <1>7, StepPassed

(* Each of the answers of Reddit.                                          *)
LEMMA AnswerFetched ==
  ASSUME Service!ServiceAssumption, InCall, Service!Fetch
  PROVE  ServiceIInv'
<1>. DEFINE Rest == /\ calls' = calls \cup {Head(todo)}
                    /\ UNCHANGED <<allow, scope, vouched, ids, hydrated, gate>>
<1>1. Rest
  BY DEF Service!Fetch, Service!arguments, Service!search
<1>2. Listed(Service!Empty) /\ Unmarked(Service!Empty) /\ \A l \in Listings : Listed(l)
  BY ListingsAreListed
<1>3. CASE Service!Step("listing") /\ \E l \in Listings : Service!Fetched(<<l, Service!Empty>>)
  <2>1. PICK l \in Listings : Service!Fetched(<<l, Service!Empty>>)
    BY <1>3
  <2>2. Head(todo) = "listing"
    BY <1>3, AtStep
  <2>. QED BY <1>1, <1>2, <1>3, <2>1, <2>2, ListingFetched
<1>4. CASE Service!Step("two_listings") /\ \E l, m \in Listings : Service!Fetched(<<l, m>>)
  <2>1. PICK l \in Listings, m \in Listings : Service!Fetched(<<l, m>>)
    BY <1>4
  <2>2. Head(todo) = "two_listings"
    BY <1>4, AtStep
  <2>. QED BY <1>1, <1>2, <1>4, <2>1, <2>2, ListingFetched
<1>5. CASE Service!Step("post") /\ \E l \in Listings : Service!Single(l) /\ Service!Fetched(<<l, Service!Empty>>)
  <2>1. PICK l \in Listings : Service!Single(l) /\ Service!Fetched(<<l, Service!Empty>>)
    BY <1>5
  <2>2. Head(todo) = "post"
    BY <1>5, AtStep
  <2>3. Len(l.children) <= 1
    BY <2>1 DEF Service!Single
  <2>. QED BY <1>1, <1>2, <1>5, <2>1, <2>2, <2>3, ListingFetched
<1>6. CASE Service!Step("thing") /\ \E l \in Listings : Len(l.children) = 1 /\ Service!Fetched(<<l, Service!Empty>>)
  <2>1. PICK l \in Listings : Len(l.children) = 1 /\ Service!Fetched(<<l, Service!Empty>>)
    BY <1>6
  <2>2. Head(todo) = "thing"
    BY <1>6, AtStep
  <2>3. Len(l.children) <= 1
    BY <2>1
  <2>. QED BY <1>1, <1>2, <1>6, <2>1, <2>2, <2>3, ListingFetched
<1>7. ASSUME NEW h \in {"page", "trophies"}, Service!Step(h), Service!Fetched(found) PROVE ServiceIInv'
  <2>1. Head(todo) = h
    BY <1>7, AtStep
  <2>2. Service!Proceed /\ found' = found
    BY <1>7 DEF Service!Fetched
  <2>3. Looking(h, found) /\ Asks(h, calls, calls')
    BY <1>1, <1>7, <2>1 DEF Looking, Asks
  <2>4. ids' \in Seq(Range(ids'))
    BY <1>1 DEF InCall, Awaits, SearchHolds
  <2>5. h \notin {"safe", "subreddit", "post", "filter", "shown_post", "graphql"}
    OBVIOUS
  <2>6. UNCHANGED <<allow, scope, vouched, found, hydrated>> /\ gate' = gate
    BY <1>1, <2>2
  <2>. HIDE DEF Rest
  <2>. QED BY <1>7, <2>2, <2>3, <2>4, <2>5, <2>6, Passes
<1>8. \/ Service!Step("listing") /\ \E l \in Listings : Service!Fetched(<<l, Service!Empty>>)
      \/ Service!Step("two_listings") /\ \E l, m \in Listings : Service!Fetched(<<l, m>>)
      \/ Service!Step("post") /\ \E l \in Listings : Service!Single(l) /\ Service!Fetched(<<l, Service!Empty>>)
      \/ Service!Step("thing") /\ \E l \in Listings : Len(l.children) = 1 /\ Service!Fetched(<<l, Service!Empty>>)
      \/ Service!Step("page") /\ Service!Fetched(found)
      \/ Service!Step("trophies") /\ Service!Fetched(found)
  BY DEF Service!Fetch
<1>9. ASSUME (Service!Step("page") /\ Service!Fetched(found)) \/ (Service!Step("trophies") /\ Service!Fetched(found))
      PROVE  ServiceIInv'
  BY <1>7, <1>9
<1>. QED BY <1>3, <1>4, <1>5, <1>6, <1>8, <1>9

(* An answer that is not what was asked for.                               *)
LEMMA FetchRefused ==
  ASSUME Service!ServiceAssumption, InCall, Service!FetchFails
  PROVE  ServiceIInv'
<1>1. PICK h \in {"safe", "listing", "two_listings", "post", "thing", "page", "trophies", "graphql", "ids", "hydrate",
                  "shown_post"} : Service!Step(h)
  BY DEF Service!FetchFails
<1>2. Service!Fail("failed") /\ Service!Leave /\ UNCHANGED <<allow, scope>>
  BY DEF Service!FetchFails, Service!arguments
<1>3. todo # << >> /\ todo[1] # "subreddit"
  BY <1>1, AtStep
<1>. QED BY <1>2, <1>3, StepFails DEF Service!Codes

(* The policy leaves out what is marked.                                   *)
LEMMA ListingFiltered ==
  ASSUME Service!ServiceAssumption, InCall, Service!Filter
  PROVE  ServiceIInv'
<1>1. /\ Service!Step("filter") /\ Service!Proceed /\ UNCHANGED <<allow, scope, calls, vouched, ids, hydrated, gate>>
      /\ found' = <<Service!Kept(found[1]), Service!Kept(found[2])>>
  BY DEF Service!Filter, Service!arguments, Service!search
<1>2. todo # << >> /\ todo[1] = "filter"
  BY <1>1, AtStep
<1>3. Listed(found[1]) /\ Listed(found[2])
  BY DEF InCall, Awaits, FoundHolds
<1>4. found'[1] = Service!Kept(found[1]) /\ found'[2] = Service!Kept(found[2]) /\ DOMAIN found' = 1 .. 2
  BY <1>1
<1>5. FoundHolds(found') /\ (~allow => Sifted(Tail(todo), found'))
  BY <1>3, <1>4, KeptIsListed DEF FoundHolds, Sifted
<1>6. Unmarking("filter", found') /\ Looking("filter", found)
  BY DEF Unmarking, Looking
<1>7. Turn("filter", calls, vouched, found, gate, calls', vouched', found', gate')
  BY <1>1, <1>6 DEF Turn, Finders
<1>8. ids' \in Seq(Range(ids'))
  BY <1>1 DEF InCall, Awaits, SearchHolds
<1>. QED BY <1>1, <1>2, <1>5, <1>7, <1>8, StepPassed

(* The post of the comments to come is looked up, and must be shown.       *)
LEMMA PostLooked ==
  ASSUME Service!ServiceAssumption, InCall, Service!ShownPost
  PROVE  ServiceIInv'
<1>1. Service!Step("shown_post") /\ UNCHANGED <<allow, scope, vouched, ids, hydrated, gate>>
  BY DEF Service!ShownPost, Service!arguments, Service!search
<1>2. todo # << >> /\ todo[1] = "shown_post"
  BY <1>1, AtStep
<1>3. ids' \in Seq(Range(ids'))
  BY <1>1 DEF InCall, Awaits, SearchHolds
<1>4. CASE allow
  <2>1. Service!Proceed /\ UNCHANGED <<calls, found>>
    BY <1>4 DEF Service!ShownPost
  <2>2. Looking("shown_post", found) /\ Asks("shown_post", calls, calls')
    BY <2>1 DEF Looking, Asks
  <2>. QED BY <1>1, <1>3, <1>4, <2>1, <2>2, Passes
<1>5. CASE ~allow
  <2>1. PICK l \in Listings :
          /\ Service!Single(l) /\ found' = <<Service!Kept(l), Service!Empty>>
          /\ Service!Continue(Service!Kept(l).children = << >>, "blocked")
          /\ calls' = calls \cup {"posts_by_id"}
    BY <1>5 DEF Service!ShownPost
  <2>. DEFINE kept == Service!Kept(l)
  <2>2. /\ Listed(kept) /\ Unmarked(kept) /\ Len(kept.children) \in Nat /\ Len(kept.children) <= 1
        /\ Listed(Service!Empty) /\ Unmarked(Service!Empty)
    <3>1. Listed(l) /\ Listed(Service!Empty) /\ Unmarked(Service!Empty)
      BY ListingsAreListed
    <3>2. /\ Listed(kept) /\ Unmarked(kept)
          /\ Len(kept.children) \in Nat /\ Len(l.children) \in Nat /\ Len(kept.children) <= Len(l.children)
      BY <1>5, <3>1, KeptIsListed
    <3>3. Len(l.children) <= 1
      BY <2>1 DEF Service!Single
    <3>. HIDE DEF kept
    <3>. QED BY <3>1, <3>2, <3>3
  <2>3. found' = <<kept, Service!Empty>> /\ Service!Continue(kept.children = << >>, "blocked")
    BY <2>1
  <2>. HIDE DEF kept
  <2>4. CASE kept.children = << >>
    <3>1. Service!Fail("blocked")
      BY <2>3, <2>4 DEF Service!Continue
    <3>. QED BY <1>1, <1>2, <3>1, StepFails DEF Service!Codes
  <2>5. CASE kept.children # << >>
    <3>1. Service!Proceed
      BY <2>3, <2>5 DEF Service!Continue
    <3>2. found'[1] = kept /\ found'[2] = Service!Empty /\ DOMAIN found' = 1 .. 2
      BY <2>3
    <3>3. FoundHolds(found') /\ Sifted(Tail(todo), found')
      BY <2>2, <3>2 DEF FoundHolds, Sifted
    <3>4. Len(kept.children) = 1
      <4>1. Len(kept.children) # 0
        BY <2>2, <2>5, EmptySeq DEF Listed
      <4>. DEFINE L == Len(kept.children)
      <4>2. L \in Nat /\ L <= 1 /\ L # 0
        BY <2>2, <4>1
      <4>. HIDE DEF L
      <4>3. L = 1
        BY <4>2
      <4>. QED BY <4>3 DEF L
    <3>5. ~kept.children[1]
      BY <2>2, <3>4 DEF Unmarked
    <3>6. Unmarking("shown_post", found') /\ Looking("shown_post", found)
      BY <3>2, <3>4, <3>5 DEF Unmarking, Looking, PostIsSafe
    <3>7. Turn("shown_post", calls, vouched, found, gate, calls', vouched', found', gate')
      BY <1>1, <2>1, <3>6 DEF Turn, Finders
    <3>. QED BY <1>1, <1>2, <1>3, <3>1, <3>3, <3>7, StepPassed
  <2>. QED BY <2>4, <2>5
<1>. QED BY <1>4, <1>5

(* The permit is taken to ask for comments, and goes back with them.       *)
LEMMA GateTaken ==
  ASSUME Service!ServiceAssumption, InCall, Service!TakeGate
  PROVE  ServiceIInv'
<1>1. /\ Service!Step("gate") /\ Service!Proceed /\ UNCHANGED <<allow, scope, calls, vouched, found, ids, hydrated>>
  BY DEF Service!TakeGate, Service!arguments, Service!search
<1>2. ids' \in Seq(Range(ids'))
  BY <1>1 DEF InCall, Awaits, SearchHolds
<1>3. Looking("gate", found) /\ Asks("gate", calls, calls')
  BY <1>1 DEF Looking, Asks
<1>. QED BY <1>1, <1>2, <1>3, Passes

LEMMA GateOfOthers ==
  ASSUME Service!ServiceAssumption, InCall, Service!OthersGate
  PROVE  ServiceIInv'
<1>1. UNCHANGED <<allow, scope, todo, calls, vouched, found, ids, hydrated, serviceResult>> /\ gate' \in {"free", "other"}
  BY DEF Service!OthersGate, Service!arguments, Service!search
<1>2. \A c \in hydrated' : Hydrated(c)
  BY <1>1 DEF InCall, Awaits, SearchHolds, Hydrated
<1>3. calls' \cap {"page", "ids", "comments"} = calls \cap {"page", "ids", "comments"}
  BY <1>1
<1>. QED BY <1>1, <1>2, <1>3, Stays

LEMMA CommentsFetched ==
  ASSUME Service!ServiceAssumption, InCall, Service!FetchComments
  PROVE  ServiceIInv'
<1>1. /\ Service!Step("graphql") /\ Service!Proceed /\ Service!Leave /\ calls' = calls \cup {"comments"}
      /\ UNCHANGED <<allow, scope, vouched, found, ids, hydrated>>
  BY DEF Service!FetchComments, Service!arguments, Service!search
<1>2. ids' \in Seq(Range(ids'))
  BY <1>1 DEF InCall, Awaits, SearchHolds
<1>3. Looking("graphql", found) /\ Asks("graphql", calls, calls')
  BY <1>1 DEF Looking, Asks
<1>4. gate' # "mine"
  BY <1>1 DEF Service!Leave
<1>. QED BY <1>1, <1>2, <1>3, <1>4, Passes

(* The names come last: only the comments of the names follow.             *)
LEMMA SearchIsLast ==
  ASSUME InCall, NEW h \in {"ids", "hydrate"}, Service!Step(h)
  PROVE  \A what : Comes(todo, what) => what \in {h, "hydrate"}
<1>1. todo[1] = h /\ IsRest(todo, Tail(todo))
  BY AtStep
<1>2. \A m \in 1 .. Len(Tail(todo)) : Tail(todo)[m] = "hydrate"
  BY <1>1 DEF IsRest, HeadOf
<1>3. \A what : Comes(todo, what) <=> what = h \/ Comes(Tail(todo), what)
  BY <1>1 DEF IsRest
<1>4. \A what : Comes(Tail(todo), what) => what = "hydrate"
  BY <1>2 DEF Comes
<1>. QED BY <1>3, <1>4

(* The names on a page of the search,                                      *)
LEMMA NamesFetched ==
  ASSUME Service!ServiceAssumption, InCall, Service!FetchIds
  PROVE  ServiceIInv'
<1>1. Service!Step("ids") /\ calls' = calls \cup {"ids"} /\ UNCHANGED <<allow, scope, vouched, found, hydrated, gate>>
  BY DEF Service!FetchIds, Service!arguments
<1>2. PICK cards \in Cards :
        /\ ids' = Service!Distinct(cards)
        /\ IF cards = << >> THEN serviceResult' = [ok |-> TRUE, comments |-> << >>] /\ todo' = << >> ELSE Service!Proceed
  BY DEF Service!FetchIds
<1>3. todo # << >> /\ todo[1] = "ids"
  BY <1>1, AtStep
<1>4. cards \in Seq(Service!Range(cards)) 
  BY DEF Service!ServiceAssumption
<1>5. ids' \in Seq(Range(ids'))
  BY <1>2, <1>4, DistinctIsSequence
<1>6. CASE cards # << >>
  <2>1. Service!Proceed
    BY <1>2, <1>6
  <2>2. Looking("ids", found) /\ Asks("ids", calls, calls')
    BY <1>1 DEF Looking, Asks
  <2>. QED BY <1>1, <1>5, <2>1, <2>2, Passes
<1>7. CASE cards = << >>
  <2>1. serviceResult' = [ok |-> TRUE, comments |-> << >>]
    BY <1>2, <1>7
  <2>2. gate' # "mine"
    BY <1>1, <1>3 DEF InCall, Awaits, GateHolds
  <2>3. Final(todo, calls')
    <3>1. \A what \in {"filter", "first", "safe"} : ~Comes(todo, what)
      BY <1>1, SearchIsLast
    <3>2. Comes(todo, "ids")
      BY <1>1, AtStep DEF IsRest
    <3>. QED BY <1>1, <1>3, <3>1, <3>2 DEF Final
  <2>. DEFINE none == << >>
  <2>4. Answers(none) /\ serviceResult' = [ok |-> TRUE, comments |-> none] /\ (none # << >> => ids' = ids)
    BY <2>1 DEF Answers
  <2>. HIDE DEF none
  <2>. QED BY <1>1, <2>2, <2>3, <2>4, CallReturns
<1>. QED BY <1>6, <1>7

(* and the comments of the names, a batch at a time.                       *)
LEMMA BatchFetched ==
  ASSUME Service!ServiceAssumption, InCall, Service!Hydrate
  PROVE  ServiceIInv'
<1>1. Service!Step("hydrate") /\ calls' = calls \cup {"info"} /\ UNCHANGED <<allow, scope, vouched, found, ids, gate>>
  BY DEF Service!Hydrate, Service!arguments
<1>2. todo # << >> /\ todo[1] = "hydrate"
  BY <1>1, AtStep
<1>3. PICK comments \in Comments :
        LET shown == {c \in comments : allow \/ ~c.adult}
        IN /\ hydrated' = {c \in hydrated : ~Service!Named(shown, c.name)} \cup shown
           /\ IF \E c \in shown : c.post # "this" THEN Service!Fail("invalid_search")
              ELSE IF batch' > Len(ids) THEN Service!Answered(hydrated')
              ELSE UNCHANGED <<todo, serviceResult>>
  BY DEF Service!Hydrate
<1>. DEFINE shown == {c \in comments : allow \/ ~c.adult}
<1>4. /\ hydrated' \subseteq hydrated \cup shown
      /\ IF \E c \in shown : c.post # "this" THEN Service!Fail("invalid_search")
         ELSE IF batch' > Len(ids) THEN Service!Answered(hydrated')
         ELSE UNCHANGED <<todo, serviceResult>>
  BY <1>3
<1>5. \A c \in shown : c \in UNION Comments /\ (allow \/ ~c.adult)
  OBVIOUS
<1>. HIDE DEF shown
<1>6. ASSUME Service!Fail("invalid_search") PROVE ServiceIInv'
  BY <1>1, <1>2, <1>6, StepFails DEF Service!Codes
<1>7. CASE ~ \E c \in shown : c.post # "this"
  <2>1. \A c \in hydrated' : Hydrated(c)
    <3>1. \A c \in hydrated : Hydrated(c)
      BY DEF InCall, Awaits, SearchHolds, Hydrated
    <3>2. \A c \in shown : Hydrated(c)
      BY <1>5, <1>7 DEF Hydrated
    <3>. QED BY <1>4, <3>1, <3>2
  <2>2. CASE Service!Answered(hydrated')
    <3>. DEFINE answers == [i \in DOMAIN ids |-> CHOOSE c \in hydrated' : c.name = ids[i]]
    <3>1. CASE \A i \in DOMAIN ids : Service!Named(hydrated', ids[i])
      <4>1. serviceResult' = [ok |-> TRUE, comments |-> answers]
        BY <2>2, <3>1 DEF Service!Answered
      <4>2. ASSUME NEW i \in DOMAIN ids PROVE answers[i] \in hydrated' /\ answers[i].name = ids[i]
        <5>1. \E c \in hydrated' : c.name = ids[i]
          BY <3>1 DEF Service!Named
        <5>2. answers[i] = CHOOSE c \in hydrated' : c.name = ids[i]
          OBVIOUS
        <5>. HIDE DEF answers
        <5>. QED BY <5>1, <5>2
      <4>3. answers = [i \in DOMAIN ids |-> answers[i]]
        OBVIOUS
      <4>. HIDE DEF answers
      <4>4. Answers(answers)
        BY <2>1, <4>2, <4>3 DEF Answers
      <4>5. Final(todo, calls')
        <5>1. \A what \in {"filter", "first", "safe"} : ~Comes(todo, what)
          BY <1>1, SearchIsLast
        <5>. QED BY <1>1, <1>2, <5>1 DEF Final
      <4>6. gate' # "mine"
        BY <1>1, <1>2 DEF InCall, Awaits, GateHolds
      <4>. QED BY <1>1, <4>1, <4>4, <4>5, <4>6, CallReturns
    <3>2. CASE ~ \A i \in DOMAIN ids : Service!Named(hydrated', ids[i])
      <4>1. Service!Fail("invalid_search")
        BY <2>2, <3>2 DEF Service!Answered
      <4>. QED BY <1>6, <4>1
    <3>. QED BY <3>1, <3>2
  <2>3. CASE UNCHANGED <<todo, serviceResult>>
    <3>1. calls' \cap {"page", "ids", "comments"} = calls \cap {"page", "ids", "comments"}
      BY <1>1
    <3>. QED BY <1>1, <1>2, <2>1, <2>3, <3>1, Stays
  <2>. QED BY <1>4, <1>7, <2>2, <2>3
<1>. QED BY <1>4, <1>6, <1>7

(* Nothing is left to do.                                                  *)
LEMMA CallIsOver ==
  ASSUME Service!ServiceAssumption, InCall, Service!Return
  PROVE  ServiceIInv'
<1>1. /\ todo = << >> /\ Service!Leave /\ UNCHANGED <<allow, scope, calls, vouched, found, ids>>
      /\ serviceResult' = [ok |-> TRUE, comments |-> << >>]
  BY DEF Service!Return, Service!arguments, Service!search
<1>2. gate' # "mine"
  BY <1>1 DEF Service!Leave
<1>3. Final(todo, calls')
  <2>1. \A what : ~Comes(todo, what)
    BY <1>1, EmptySeq DEF Comes
  <2>. QED BY <1>1, <2>1 DEF Final
<1>. DEFINE none == << >>
<1>4. Answers(none) /\ serviceResult' = [ok |-> TRUE, comments |-> none] /\ (none # << >> => ids' = ids)
  BY <1>1 DEF Answers
<1>. HIDE DEF none
<1>. QED BY <1>1, <1>2, <1>3, <1>4, CallReturns

(* What a call holds while nothing happens.                                *)
LEMMA ServiceStays ==
  ASSUME ServiceIInv, UNCHANGED Service!vars
  PROVE  ServiceIInv'
<1>1. UNCHANGED <<allow, scope, todo, calls, vouched, found, ids, hydrated, gate, serviceResult>>
  BY DEF Service!vars
<1>2. CASE serviceResult = None
  <2>1. InCall
    BY <1>2 DEF ServiceIInv, InCall
  <2>2. Awaits(todo', calls', vouched', found', ids', hydrated', gate') /\ serviceResult' = None
    BY <1>1, <2>1 DEF InCall
  <2>. QED BY <1>1, <2>2, StillAwaits
<1>3. CASE serviceResult # None
  <2>1. Service!NothingMarked /\ Service!SearchIsExact /\ Service!ArgumentsCount
    BY <1>3 DEF ServiceIInv, ServiceIsSafe, Service!ServiceIsSafe
  <2>2. Service!NothingMarked'
    BY <1>1, <2>1 DEF Service!NothingMarked, Service!Succeeded, Service!Range
  <2>3. Service!SearchIsExact'
    BY <1>1, <2>1 DEF Service!SearchIsExact, Service!Succeeded
  <2>4. Service!ArgumentsCount'
    BY <1>1, <2>1
    DEF Service!ArgumentsCount, Service!Succeeded, Service!Range, Service!ValidScope, Service!ValidName,
        Service!ValidId36, Service!Ranges
  <2>. QED BY <1>1, <1>3, <2>2, <2>3, <2>4 DEF ServiceIInv, ServiceIsSafe, Service!ServiceIsSafe
<1>. QED BY <1>2, <1>3

(* Every step keeps what holds of a call.                                  *)
LEMMA ServiceStep ==
  ASSUME Service!ServiceAssumption, ServiceIInv, [Service!Next]_Service!vars
  PROVE  ServiceIInv'
<1>1. CASE UNCHANGED Service!vars
  BY <1>1, ServiceStays
<1>2. CASE Service!Next
  <2>1. serviceResult = None
    BY <1>2 DEF Service!Next, Service!CheckScope, Service!Validate, Service!Safe, Service!Over18, Service!Fetch,
                Service!FetchFails, Service!Filter, Service!First, Service!Nonempty, Service!Description, Service!ShownPost,
                Service!TakeGate, Service!OthersGate, Service!FetchComments, Service!FetchIds, Service!Hydrate,
                Service!Return, Service!Step, Service!Running
  <2>2. InCall
    BY <2>1 DEF ServiceIInv, InCall
  <2>3. CASE Service!CheckScope
    BY <2>2, <2>3, ScopeChecked
  <2>4. CASE Service!Validate
    BY <2>2, <2>4, ArgumentLooked
  <2>5. CASE Service!Safe
    BY <2>2, <2>5, CommunitiesLooked
  <2>6. CASE Service!Over18
    BY <2>2, <2>6, AdultLooked
  <2>7. CASE Service!Fetch
    BY <2>2, <2>7, AnswerFetched
  <2>8. CASE Service!FetchFails
    BY <2>2, <2>8, FetchRefused
  <2>9. CASE Service!Filter
    BY <2>2, <2>9, ListingFiltered
  <2>10. CASE Service!First
    BY <2>2, <2>10, FirstLooked
  <2>11. CASE Service!Nonempty
    BY <2>2, <2>11, NonemptyLooked
  <2>12. CASE Service!Description
    BY <2>2, <2>12, DescriptionLooked
  <2>13. CASE Service!ShownPost
    BY <2>2, <2>13, PostLooked
  <2>14. CASE Service!TakeGate
    BY <2>2, <2>14, GateTaken
  <2>15. CASE Service!OthersGate
    BY <2>2, <2>15, GateOfOthers
  <2>16. CASE Service!FetchComments
    BY <2>2, <2>16, CommentsFetched
  <2>17. CASE Service!FetchIds
    BY <2>2, <2>17, NamesFetched
  <2>18. CASE Service!Hydrate
    BY <2>2, <2>18, BatchFetched
  <2>19. CASE Service!Return
    BY <2>2, <2>19, CallIsOver
  <2>. QED BY <1>2, <2>3, <2>4, <2>5, <2>6, <2>7, <2>8, <2>9, <2>10, <2>11, <2>12, <2>13, <2>14, <2>15,
           <2>16, <2>17, <2>18, <2>19
           DEF Service!Next
<1>. QED BY <1>1, <1>2

(* Every operation is such a sequence of steps.                            *)
Starts(s) ==
  /\ StepsHold(s) /\ Len(s) > 0 /\ s[1] \notin {"first", "options", "gate", "graphql"}
  /\ Comes(s, "subreddit") => s[1] = "subreddit"
  /\ Comes(s, "page") \/ Comes(s, "ids") => Comes(s, "safe")

LEMMA OperationsStart ==
  ASSUME NEW s \in Service!Operations
  PROVE  Starts(s)
<1>. USE DEF Starts, StepsHold, InOrder, Successor, Later, Comes
<1>1. CASE s = Service!front_page_posts
  <2>1. /\ s \in Seq(ServiceSteps) /\ Len(s) = 3 /\ s[1] = "listing_query" /\ s[2] = "listing"
        /\ s[3] = "filter"
    BY <1>1 DEF Service!front_page_posts, ServiceSteps, Service!Arguments
  <2>. QED BY <2>1
<1>2. CASE s = Service!all_posts
  <2>1. /\ s \in Seq(ServiceSteps) /\ Len(s) = 4 /\ s[1] = "sort" /\ s[2] = "listing_query" /\ s[3] = "listing"
        /\ s[4] = "filter"
    BY <1>2 DEF Service!all_posts, ServiceSteps, Service!Arguments
  <2>. QED BY <2>1
<1>3. CASE s = Service!recent_ql_comments
  <2>1. /\ s \in Seq(ServiceSteps) /\ Len(s) = 4 /\ s[1] = "subreddit" /\ s[2] = "listing_query"
        /\ s[3] = "listing" /\ s[4] = "filter"
    BY <1>3 DEF Service!recent_ql_comments, ServiceSteps, Service!Arguments
  <2>. QED BY <2>1
<1>4. CASE s = Service!subreddit_posts
  <2>1. /\ s \in Seq(ServiceSteps) /\ Len(s) = 6 /\ s[1] = "subreddit" /\ s[2] = "safe" /\ s[3] = "sort"
        /\ s[4] = "listing_query" /\ s[5] = "listing" /\ s[6] = "filter"
    BY <1>4 DEF Service!subreddit_posts, ServiceSteps, Service!Arguments
  <2>. QED BY <2>1
<1>5. CASE s = Service!feed_posts
  <2>1. /\ s \in Seq(ServiceSteps) /\ Len(s) = 5 /\ s[1] = "subreddit" /\ s[2] = "sort"
        /\ s[3] = "listing_query" /\ s[4] = "listing" /\ s[5] = "filter"
    BY <1>5 DEF Service!feed_posts, ServiceSteps, Service!Arguments
  <2>. QED BY <2>1
<1>6. CASE s = Service!posts_by_id
  <2>1. /\ s \in Seq(ServiceSteps) /\ Len(s) = 3 /\ s[1] = "names" /\ s[2] = "listing" /\ s[3] = "filter"
    BY <1>6 DEF Service!posts_by_id, ServiceSteps, Service!Arguments
  <2>. QED BY <2>1
<1>7. CASE s = Service!post_duplicates
  <2>1. /\ s \in Seq(ServiceSteps) /\ Len(s) = 6 /\ s[1] = "article" /\ s[2] = "listing_query" /\ s[3] = "sr"
        /\ s[4] = "two_listings" /\ s[5] = "first" /\ s[6] = "filter"
    BY <1>7 DEF Service!post_duplicates, ServiceSteps, Service!Arguments
  <2>. QED BY <2>1
<1>8. CASE s = Service!subreddit_about
  <2>1. /\ s \in Seq(ServiceSteps) /\ Len(s) = 3 /\ s[1] = "subreddit" /\ s[2] = "thing" /\ s[3] = "first"
    BY <1>8 DEF Service!subreddit_about, ServiceSteps, Service!Arguments
  <2>. QED BY <2>1
<1>9. CASE s = Service!user_about
  <2>1. /\ s \in Seq(ServiceSteps) /\ Len(s) = 3 /\ s[1] = "username" /\ s[2] = "thing" /\ s[3] = "first"
    BY <1>9 DEF Service!user_about, ServiceSteps, Service!Arguments
  <2>. QED BY <2>1
<1>10. CASE s = Service!subreddits
  <2>1. /\ s \in Seq(ServiceSteps) /\ Len(s) = 3 /\ s[1] = "listing_query" /\ s[2] = "listing"
        /\ s[3] = "filter"
    BY <1>10 DEF Service!subreddits, ServiceSteps, Service!Arguments
  <2>. QED BY <2>1
<1>11. CASE s = Service!search_subreddits
  <2>1. /\ s \in Seq(ServiceSteps) /\ Len(s) = 4 /\ s[1] = "subreddit_query" /\ s[2] = "over_18"
        /\ s[3] = "listing" /\ s[4] = "filter"
    BY <1>11 DEF Service!search_subreddits, ServiceSteps, Service!Arguments
  <2>. QED BY <2>1
<1>12. CASE s = Service!subreddit_sidebar
  <2>1. /\ s \in Seq(ServiceSteps) /\ Len(s) = 4 /\ s[1] = "subreddit" /\ s[2] = "thing" /\ s[3] = "first"
        /\ s[4] = "description"
    BY <1>12 DEF Service!subreddit_sidebar, ServiceSteps, Service!Arguments
  <2>. QED BY <2>1
<1>13. CASE s = Service!subreddit_rules
  <2>1. /\ s \in Seq(ServiceSteps) /\ Len(s) = 3 /\ s[1] = "subreddit" /\ s[2] = "safe" /\ s[3] = "page"
    BY <1>13 DEF Service!subreddit_rules, ServiceSteps, Service!Arguments
  <2>. QED BY <2>1
<1>14. CASE s = Service!graphql_comments
  <2>1. /\ s \in Seq(ServiceSteps) /\ Len(s) = 6 /\ s[1] = "article" /\ s[2] = "post" /\ s[3] = "nonempty"
        /\ s[4] = "first" /\ s[5] = "options" /\ s[6] = "graphql"
    BY <1>14 DEF Service!graphql_comments, ServiceSteps,
                   Service!Arguments
  <2>. QED BY <2>1
<1>15. CASE s = Service!post_comments
  <2>1. /\ s \in Seq(ServiceSteps) /\ Len(s) = 9 /\ s[1] = "article" /\ s[2] = "comment_query"
        /\ s[3] = "article" /\ s[4] = "post" /\ s[5] = "nonempty" /\ s[6] = "first" /\ s[7] = "options"
        /\ s[8] = "graphql" /\ s[9] = "first"
    BY <1>15 DEF Service!post_comments, Service!graphql_comments, ServiceSteps,
                   Service!Arguments
  <2>. QED BY <2>1
<1>16. CASE s = Service!subreddit_post_comments
  <2>1. /\ s \in Seq(ServiceSteps) /\ Len(s) = 10 /\ s[1] = "subreddit" /\ s[2] = "article"
        /\ s[3] = "comment_query" /\ s[4] = "article" /\ s[5] = "post" /\ s[6] = "nonempty" /\ s[7] = "first"
        /\ s[8] = "options" /\ s[9] = "graphql" /\ s[10] = "first"
    BY <1>16 DEF Service!subreddit_post_comments, Service!post_comments, Service!graphql_comments, ServiceSteps,
                   Service!Arguments
  <2>. QED BY <2>1
<1>17. CASE s = Service!more_children
  <2>1. /\ s \in Seq(ServiceSteps) /\ Len(s) = 4 /\ s[1] = "children" /\ s[2] = "shown_post" /\ s[3] = "gate"
        /\ s[4] = "graphql"
    BY <1>17 DEF Service!more_children, ServiceSteps, Service!Arguments
  <2>. QED BY <2>1
<1>18. CASE s = Service!search_listing
  <2>1. /\ s \in Seq(ServiceSteps) /\ Len(s) = 4 /\ s[1] = "search_query" /\ s[2] = "over_18"
        /\ s[3] = "listing" /\ s[4] = "filter"
    BY <1>18 DEF Service!search_listing, ServiceSteps, Service!Arguments
  <2>. QED BY <2>1
<1>19. CASE s = Service!search_subreddit
  <2>1. /\ s \in Seq(ServiceSteps) /\ Len(s) = 6 /\ s[1] = "subreddit" /\ s[2] = "safe" /\ s[3] = "search_query"
        /\ s[4] = "over_18" /\ s[5] = "listing" /\ s[6] = "filter"
    BY <1>19 DEF Service!search_subreddit, Service!search_listing, ServiceSteps, Service!Arguments
  <2>. QED BY <2>1
<1>20. CASE s = Service!info_listing
  <2>1. /\ s \in Seq(ServiceSteps) /\ Len(s) = 3 /\ s[1] = "info_query" /\ s[2] = "listing" /\ s[3] = "filter"
    BY <1>20 DEF Service!info_listing, ServiceSteps, Service!Arguments
  <2>. QED BY <2>1
<1>21. CASE s = Service!subreddit_info
  <2>1. /\ s \in Seq(ServiceSteps) /\ Len(s) = 5 /\ s[1] = "subreddit" /\ s[2] = "safe" /\ s[3] = "info_query"
        /\ s[4] = "listing" /\ s[5] = "filter"
    BY <1>21 DEF Service!subreddit_info, Service!info_listing, ServiceSteps, Service!Arguments
  <2>. QED BY <2>1
<1>22. CASE s = Service!user_listing
  <2>1. /\ s \in Seq(ServiceSteps) /\ Len(s) = 4 /\ s[1] = "username" /\ s[2] = "history_query"
        /\ s[3] = "listing" /\ s[4] = "filter"
    BY <1>22 DEF Service!user_listing, ServiceSteps, Service!Arguments
  <2>. QED BY <2>1
<1>23. CASE s = Service!user_trophies
  <2>1. /\ s \in Seq(ServiceSteps) /\ Len(s) = 2 /\ s[1] = "username" /\ s[2] = "trophies"
    BY <1>23 DEF Service!user_trophies, ServiceSteps, Service!Arguments
  <2>. QED BY <2>1
<1>24. CASE s = Service!users
  <2>1. /\ s \in Seq(ServiceSteps) /\ Len(s) = 3 /\ s[1] = "listing_query" /\ s[2] = "listing"
        /\ s[3] = "filter"
    BY <1>24 DEF Service!users, ServiceSteps, Service!Arguments
  <2>. QED BY <2>1
<1>25. CASE s = Service!search_users
  <2>1. /\ s \in Seq(ServiceSteps) /\ Len(s) = 3 /\ s[1] = "subreddit_query" /\ s[2] = "listing"
        /\ s[3] = "filter"
    BY <1>25 DEF Service!search_users, ServiceSteps, Service!Arguments
  <2>. QED BY <2>1
<1>26. CASE s = Service!wiki_pages
  <2>1. /\ s \in Seq(ServiceSteps) /\ Len(s) = 3 /\ s[1] = "subreddit" /\ s[2] = "safe" /\ s[3] = "page"
    BY <1>26 DEF Service!wiki_pages, ServiceSteps, Service!Arguments
  <2>. QED BY <2>1
<1>27. CASE s = Service!wiki_page
  <2>1. /\ s \in Seq(ServiceSteps) /\ Len(s) = 5 /\ s[1] = "subreddit" /\ s[2] = "safe" /\ s[3] = "page_name"
        /\ s[4] = "wiki_query" /\ s[5] = "page"
    BY <1>27 DEF Service!wiki_page, ServiceSteps, Service!Arguments
  <2>. QED BY <2>1
<1>28. CASE s = Service!wiki_revisions
  <2>1. /\ s \in Seq(ServiceSteps) /\ Len(s) = 5 /\ s[1] = "subreddit" /\ s[2] = "safe"
        /\ s[3] = "revision_query" /\ s[4] = "page_name" /\ s[5] = "page"
    BY <1>28 DEF Service!wiki_revisions, ServiceSteps, Service!Arguments
  <2>. QED BY <2>1
<1>29. CASE s = Service!wiki_discussions
  <2>1. /\ s \in Seq(ServiceSteps) /\ Len(s) = 6 /\ s[1] = "subreddit" /\ s[2] = "safe"
        /\ s[3] = "listing_query" /\ s[4] = "page_name" /\ s[5] = "listing" /\ s[6] = "filter"
    BY <1>29 DEF Service!wiki_discussions, ServiceSteps, Service!Arguments
  <2>. QED BY <2>1
<1>30. CASE s = Service!search_post_comments
  <2>1. /\ s \in Seq(ServiceSteps) /\ Len(s) = 6 /\ s[1] = "subreddit" /\ s[2] = "safe" /\ s[3] = "article"
        /\ s[4] = "q" /\ s[5] = "ids" /\ s[6] = "hydrate"
    BY <1>30 DEF Service!search_post_comments, ServiceSteps, Service!Arguments
  <2>. QED BY <2>1
<1>. QED BY <1>1, <1>2, <1>3, <1>4, <1>5, <1>6, <1>7, <1>8, <1>9, <1>10, <1>11, <1>12, <1>13, <1>14, <1>15,
            <1>16, <1>17, <1>18, <1>19, <1>20, <1>21, <1>22, <1>23, <1>24, <1>25, <1>26, <1>27, <1>28, <1>29, <1>30
         DEF Service!Operations

(* A call begins with an operation.                                        *)
LEMMA ServiceBegins ==
  ASSUME Service!ServiceAssumption, Service!Init
  PROVE  ServiceIInv
<1>1. /\ todo \in Service!Operations /\ scope \in IF "subreddit" \in Service!Range(todo) THEN Scopes ELSE {<< >>}
      /\ calls = {} /\ vouched = 0 /\ found = <<Service!Empty, Service!Empty>> /\ ids = << >> /\ hydrated = {}
      /\ gate = "free" /\ serviceResult = None
  BY DEF Service!Init
<1>2. Starts(todo)
  BY <1>1, OperationsStart
<1>3. todo \in Seq(ServiceSteps) /\ DOMAIN todo = 1 .. Len(todo)
  BY <1>2, LenProperties DEF Starts, StepsHold
<1>4. /\ found[1] = Service!Empty /\ found[2] = Service!Empty /\ DOMAIN found = 1 .. 2
      /\ Listed(Service!Empty) /\ Unmarked(Service!Empty) /\ Len(Service!Empty.children) = 0
  BY <1>1, ListingsAreListed
<1>5. ScopeHolds(todo, calls)
  <2>. SUFFICES ASSUME scope # << >> PROVE Len(todo) > 0 /\ todo[1] = "subreddit"
    BY <1>1 DEF ScopeHolds
  <2>1. "subreddit" \in Service!Range(todo)
    BY <1>1
  <2>2. Comes(todo, "subreddit")
    BY <1>3, <2>1 DEF Comes, Service!Range
  <2>. QED BY <1>2, <2>2 DEF Starts
<1>6. PolicyHolds(todo, calls, vouched, found)
  <2>1. Sifted(todo, found)
    BY <1>4 DEF Sifted
  <2>2. Vouched(todo, calls, vouched)
    BY <1>1, <1>2 DEF Vouched, Starts
  <2>3. PostSeen(todo, calls, found)
    <3>1. Len(found[1].children) <= 1
      BY <1>4
    <3>. QED BY <1>1, <1>2, <3>1 DEF PostSeen, Starts
  <2>. QED BY <2>1, <2>2, <2>3 DEF PolicyHolds
<1>7. GateHolds(todo, gate) /\ SearchHolds(ids, hydrated)
  BY <1>1, EmptySeq DEF GateHolds, SearchHolds
<1>8. StepsHold(todo) /\ FoundHolds(found)
  BY <1>2, <1>4 DEF Starts, FoundHolds
<1>9. Awaits(todo, calls, vouched, found, ids, hydrated, gate)
  BY <1>5, <1>6, <1>7, <1>8 DEF Awaits
<1>. QED BY <1>1, <1>9 DEF ServiceIInv

(* Whatever the communities, the arguments and the answers of Reddit, and  *)
(* whatever it marks between two of them: a call that leaves adult content *)
(* out returns none, in no operation of the service (service/reddit.rs and *)
(* content.rs); a search among comments is exact, and no permit is kept.   *)
THEOREM ServiceHolds == Service!Spec => []ServiceIsSafe
<1>1. Service!Init => ServiceIInv
  BY ProcessesAssumption, ServiceBegins
<1>2. ServiceIInv /\ [Service!Next]_Service!vars => ServiceIInv'
  BY ProcessesAssumption, ServiceStep
<1>3. ASSUME ServiceIInv PROVE ServiceIsSafe
  <2>1. ASSUME serviceResult = None PROVE ServiceIsSafe
    BY <2>1 DEF ServiceIsSafe, Service!ServiceIsSafe, Service!NothingMarked, Service!SearchIsExact,
                Service!ArgumentsCount, Service!Succeeded
  <2>. QED BY <1>3, <2>1 DEF ServiceIInv
<1>. QED BY <1>1, <1>2, <1>3, PTL DEF Service!Spec
=============================================================================
