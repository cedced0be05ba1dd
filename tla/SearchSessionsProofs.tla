------------------------ MODULE SearchSessionsProofs ------------------------
(* Theorems about SearchSessions, for any clients, sessions, items, page   *)
(* sizes, budgets and gates.                                               *)
EXTENDS SearchSessions, DataLemmas

Pages == [items : Seq(Items), more : BOOLEAN, failed : BOOLEAN]

Collections ==
  [complete : BOOLEAN, pages : Seq(Pages), ready : Seq(Items), seen : SUBSET Items,
   fetched : Nat, ended : BOOLEAN, inFlight : BOOLEAN]

Calls ==
  [at : {"idle", "locking", "advancing", "registering"}, of : Sessions \cup {None},
   index : Nat, first : BOOLEAN, requests : Nat, permit : BOOLEAN]

TypeInv ==
  /\ session \in [Sessions -> Collections]
  /\ lock \in [Sessions -> Clients \cup {None}]
  /\ call \in [Clients -> Calls]
  /\ dropped \subseteq Sessions
  /\ \A c \in Clients : call[c].at # "idle" => call[c].of \in Sessions
-----------------------------------------------------------------------------
(***************************************************************************)
(* What the operators return.                                              *)
(***************************************************************************)
LEMMA Bounds ==
  /\ Limit \in Nat \ {0} /\ MaxPages \in Nat \ {0} /\ GateSize \in Nat \ {0}
  /\ MaxSourcePages \in Nat /\ MaxPages <= MaxSourcePages
BY SearchAssumption

LEMMA SetToSeqType ==
  ASSUME NEW S, IsFiniteSet(S)
  PROVE  SetToSeq(S) \in Seq(S) /\ Range(SetToSeq(S)) = S
<1>. DEFINE n == Cardinality(S)
<1>1. n \in Nat /\ ExistsBijection(1 .. n, S)
  BY FS_CardinalityType
<1>2. PICK f \in [1 .. n -> S] : IsInjective(f)
  BY <1>1 DEF ExistsBijection, Bijection, Injection
<1>3. SetToSeq(S) \in [1 .. n -> S] /\ IsInjective(SetToSeq(S))
  BY <1>2 DEF SetToSeq
<1>4. SetToSeq(S) \in Seq(S)
  BY <1>1, <1>3, SeqDef
<1>5. Range(SetToSeq(S)) = S
  <2>. DEFINE g == SetToSeq(S)
  <2>1. g \in Surjection(1 .. n, Range(g))
    BY <1>3 DEF Surjection, Range
  <2>2. g \in Bijection(1 .. n, Range(g))
    BY <1>3, <2>1 DEF Bijection, Injection, Surjection
  <2>3. Cardinality(Range(g)) = n
    BY <1>1, <2>2, FS_CountingElements DEF ExistsBijection
  <2>4. Range(g) \subseteq S
    BY <1>3 DEF Range
  <2>. QED BY <2>3, <2>4, FS_Subset
<1>. QED BY <1>4, <1>5

LEMMA PageType ==
  ASSUME NEW items \in Seq(Items), NEW more \in BOOLEAN
  PROVE  Page(items, more) \in Pages
BY DEF Page, Pages

LEMMA RangeOfAppend ==
  ASSUME NEW S, NEW q \in Seq(S), NEW e \in S
  PROVE  Range(Append(q, e)) = Range(q) \cup {e}
<1>. DEFINE a == Append(q, e)
            n == Len(q)
<1>1. /\ a \in Seq(S) /\ Len(a) = n + 1 /\ n \in Nat
      /\ \A i \in 1 .. n : a[i] = q[i]
      /\ a[n + 1] = e
  BY AppendProperties, LenProperties
<1>2. DOMAIN q = 1 .. n /\ DOMAIN a = 1 .. n + 1
  BY <1>1, LenProperties
<1>. HIDE DEF a, n
<1>3. ASSUME NEW x \in Range(a) PROVE x \in Range(q) \cup {e}
  <2>1. PICK i \in 1 .. n + 1 : x = a[i]
    BY <1>2 DEF Range
  <2>2. i \in 1 .. n \/ i = n + 1
    BY <1>1
  <2>. QED BY <1>1, <1>2, <2>1, <2>2 DEF Range
<1>4. ASSUME NEW x \in Range(q) PROVE x \in Range(a)
  <2>1. PICK i \in 1 .. n : x = q[i]
    BY <1>2 DEF Range
  <2>2. i \in 1 .. n + 1 /\ x = a[i]
    BY <1>1, <2>1
  <2>. QED BY <1>2, <2>2 DEF Range
<1>5. e \in Range(a)
  <2>1. n + 1 \in 1 .. n + 1
    BY <1>1
  <2>. QED BY <1>1, <1>2, <2>1 DEF Range
<1>. QED BY <1>3, <1>4, <1>5 DEF a

LEMMA FailureType == Failure \in Pages /\ Failure.failed /\ ~Failure.more
<1>1. << >> \in Seq(Items)
  BY EmptySeq
<1>. QED BY <1>1 DEF Failure, Pages

LEMMA NewCollectionType ==
  ASSUME NEW b \in BOOLEAN
  PROVE  /\ NewCollection(b) \in Collections
         /\ NewCollection(b).fetched = 0
         /\ NewCollection(b).ready = << >>
         /\ NewCollection(b).pages = << >>
         /\ ~NewCollection(b).inFlight
<1>1. << >> \in Seq(Pages) /\ << >> \in Seq(Items)
  BY EmptySeq
<1>2. NewCollection(b) \in Collections
  BY <1>1 DEF NewCollection, Collections
<1>. QED BY <1>2 DEF NewCollection

LEMMA IdleType ==
  /\ Idle \in Calls /\ Idle.at = "idle" /\ Idle.of = None /\ ~Idle.permit
  /\ Idle.requests = 0 /\ Idle.index = 0
BY DEF Idle, Calls

LEMMA PublishType ==
  ASSUME NEW k \in Collections, NEW page \in Pages
  PROVE  /\ Publish(k, page) \in Collections
         /\ ~Publish(k, page).inFlight
         /\ Publish(k, page).pages = Append(k.pages, page)
         /\ Publish(k, page).fetched = k.fetched
         /\ Publish(k, page).complete = k.complete
         /\ Publish(k, page).seen = k.seen
         /\ Publish(k, page).ended = (k.ended \/ page.failed)
         /\ ~page.failed => Publish(k, page).ready = k.ready
<1>1. Append(k.pages, page) \in Seq(Pages)
  BY AppendProperties DEF Collections
<1>2. << >> \in Seq(Items)
  BY EmptySeq
<1>3. page.failed \in BOOLEAN /\ k.ended \in BOOLEAN
  BY DEF Pages, Collections
<1>4. CASE ~page.failed
  <2>. DEFINE p == [k EXCEPT !.inFlight = FALSE, !.pages = Append(@, page)]
  <2>1. /\ p \in Collections
        /\ ~p.inFlight /\ p.pages = Append(k.pages, page) /\ p.fetched = k.fetched
        /\ p.complete = k.complete /\ p.seen = k.seen /\ p.ended = k.ended
        /\ p.ready = k.ready
    BY <1>1 DEF Collections
  <2>2. Publish(k, page) = p
    BY <1>4 DEF Publish
  <2>. HIDE DEF p
  <2>. QED BY <1>3, <1>4, <2>1, <2>2
<1>5. CASE page.failed
  <2>. DEFINE p == [k EXCEPT !.inFlight = FALSE, !.pages = Append(@, page),
                             !.ended = TRUE, !.ready = << >>]
  <2>1. /\ p \in Collections
        /\ ~p.inFlight /\ p.pages = Append(k.pages, page) /\ p.fetched = k.fetched
        /\ p.complete = k.complete /\ p.seen = k.seen /\ p.ended
    BY <1>1, <1>2 DEF Collections
  <2>2. Publish(k, page) = p
    BY <1>5 DEF Publish
  <2>. HIDE DEF p
  <2>. QED BY <1>3, <1>5, <2>1, <2>2
<1>. QED BY <1>4, <1>5

LEMMA FetchedType ==
  ASSUME NEW k \in Collections, NEW batch \in SUBSET Items, NEW last \in BOOLEAN
  PROVE  /\ Fetched(k, batch, last) \in Collections
         /\ Fetched(k, batch, last).fetched = k.fetched + 1
         /\ Fetched(k, batch, last).seen = k.seen \cup batch
         /\ Range(Fetched(k, batch, last).ready) = Range(k.ready) \cup (batch \ k.seen)
         /\ Fetched(k, batch, last).pages = k.pages
         /\ Fetched(k, batch, last).inFlight = k.inFlight
         /\ Fetched(k, batch, last).complete = k.complete
         /\ k.complete /\ k.fetched + 1 >= MaxPages => Fetched(k, batch, last).ended
<1>. DEFINE fresh == Fresh(k, batch)
            ready == k.ready \o SetToSeq(fresh)
            j == [k EXCEPT !.fetched = @ + 1, !.seen = @ \cup batch,
                           !.ready = @ \o SetToSeq(fresh), !.ended = last]
<1>1. fresh \subseteq Items /\ IsFiniteSet(fresh) /\ fresh = batch \ k.seen
  BY SearchAssumption, FS_Subset DEF Fresh
<1>2. SetToSeq(fresh) \in Seq(Items) /\ Range(SetToSeq(fresh)) = fresh
  BY <1>1, SetToSeqType, SeqMonotonic
<1>3. k.ready \in Seq(Items)
  BY DEF Collections
<1>4. ready \in Seq(Items) /\ Range(ready) = Range(k.ready) \cup fresh
  BY <1>2, <1>3, ConcatProperties, RangeConcatenation
<1>. HIDE DEF fresh
<1>5. j \in Collections
  <2>1. k.fetched + 1 \in Nat /\ k.seen \cup batch \in SUBSET Items
    BY DEF Collections
  <2>. DEFINE r == ready
              g == k.fetched + 1
              t == k.seen \cup batch
  <2>2. j = [k EXCEPT !.fetched = g, !.seen = t, !.ready = r, !.ended = last]
    OBVIOUS
  <2>3. r \in Seq(Items) /\ g \in Nat /\ t \in SUBSET Items
    BY <1>4, <2>1
  <2>. HIDE DEF r, g, t
  <2>. QED BY <2>2, <2>3 DEF Collections
<1>6. /\ j.fetched = k.fetched + 1 /\ j.seen = k.seen \cup batch /\ j.ready = ready
      /\ j.pages = k.pages /\ j.inFlight = k.inFlight /\ j.complete = k.complete
  BY DEF Collections
<1>. DEFINE f == [j EXCEPT !.ended = @ \/ j.fetched >= PageBudget(j.complete)]
<1>7. Fetched(k, batch, last) = f
  BY DEF Fetched, Bounded, fresh
<1>. HIDE DEF j, ready
<1>8. /\ f \in Collections
      /\ f.fetched = j.fetched /\ f.seen = j.seen /\ f.ready = j.ready
      /\ f.pages = j.pages /\ f.inFlight = j.inFlight /\ f.complete = j.complete
      /\ f.ended = (j.ended \/ j.fetched >= PageBudget(j.complete))
  BY <1>5, Bounds DEF Collections, PageBudget
<1>. HIDE DEF f
<1>9. k.complete /\ k.fetched + 1 >= MaxPages => f.ended
  BY <1>6, <1>8 DEF PageBudget
<1>. QED BY <1>1, <1>4, <1>6, <1>7, <1>8, <1>9
-----------------------------------------------------------------------------
(***************************************************************************)
(* The invariant.  Whoever advances a session holds its lock, marked it as *)
(* in flight, and is about to publish the page that was asked for; it may  *)
(* call the source only with a permit.                                     *)
(***************************************************************************)
CallInv(c) ==
  LET r == call[c]
      k == session[r.of]
  IN /\ r.permit => r.at = "advancing"
     /\ r.at = "locking" => r.requests = 0
     /\ r.at = "advancing" =>
          /\ lock[r.of] = c
          /\ k.inFlight
          /\ r.index = Len(k.pages)
          /\ r.requests <= k.fetched
          /\ ~r.permit => k.ended \/ (~k.complete /\ ~(Len(k.ready) < Limit))

Closed(k) == k.pages # << >> /\ ~Last(k.pages).more

(* A complete set is discovered by one call or by none: a session that may *)
(* go on has found nothing yet.  A dropped one is never advanced again.    *)
SessionInv(s) ==
  LET k == session[s] IN
    /\ lock[s] # None => call[lock[s]].at = "advancing" /\ call[lock[s]].of = s
    /\ k.complete /\ k.fetched >= MaxPages => k.ended
    /\ k.complete /\ ~k.ended /\ ~k.inFlight => k.fetched = 0 /\ k.ready = << >>
    /\ s \in dropped => lock[s] = None /\ (k.inFlight \/ Closed(k))

GateInv == Cardinality(PermitHolders) <= GateSize

IInv ==
  /\ TypeInv
  /\ \A c \in Clients : CallInv(c)
  /\ \A s \in Sessions : SessionInv(s)
  /\ GateInv

LEMMA InitIInv == Init => IInv
<1>. SUFFICES ASSUME Init PROVE IInv
  OBVIOUS
<1>1. TypeInv
  BY IdleType, NewCollectionType DEF Init, TypeInv
<1>2. \A c \in Clients : CallInv(c)
  BY IdleType DEF Init, CallInv
<1>3. \A s \in Sessions : SessionInv(s)
  <2>. SUFFICES ASSUME NEW s \in Sessions PROVE SessionInv(s)
    OBVIOUS
  <2>. DEFINE k == NewCollection(FALSE)
  <2>1. session[s] = k /\ lock[s] = None /\ s \notin dropped
    BY DEF Init
  <2>2. k.fetched = 0 /\ k.ready = << >> /\ ~(k.fetched >= MaxPages)
    BY Bounds DEF NewCollection
  <2>. HIDE DEF k
  <2>. QED BY <2>1, <2>2 DEF SessionInv
<1>4. PermitHolders = {}
  BY IdleType DEF Init, PermitHolders
<1>5. GateInv
  BY <1>4, FS_EmptySet, Bounds DEF GateInv
<1>. QED BY <1>1, <1>2, <1>3, <1>5 DEF IInv

(* A step of c concerns its call and the session s only.                   *)
Touches(c, s) ==
  /\ call' \in [Clients -> Calls]
  /\ call'[c].at # "idle" => call'[c].of \in Sessions
  /\ \A d \in Clients : d # c => call'[d] = call[d]
  /\ session' \in [Sessions -> Collections]
  /\ lock' \in [Sessions -> Clients \cup {None}]
  /\ dropped' \subseteq Sessions
  /\ \A t \in Sessions : t # s => session'[t] = session[t]
  /\ \A t \in Sessions : t # s => lock'[t] = lock[t]
  /\ \A t \in Sessions : t # s => (t \in dropped' => t \in dropped)

LEMMA PermitsTaken ==
  ASSUME GateInv, NEW c \in Clients,
         \A d \in Clients : d # c => call'[d] = call[d],
         call'[c].permit => call[c].permit \/ Cardinality(PermitHolders) < GateSize
  PROVE  GateInv'
<1>1. /\ IsFiniteSet(PermitHolders) /\ Cardinality(PermitHolders) \in Nat
      /\ IsFiniteSet(PermitHolders \cup {c})
      /\ Cardinality(PermitHolders \cup {c}) \in Nat
      /\ Cardinality(PermitHolders \cup {c}) <= Cardinality(PermitHolders) + 1
  <2>1. IsFiniteSet(PermitHolders)
    BY SearchAssumption, FS_Subset DEF PermitHolders
  <2>2. Cardinality(PermitHolders) \in Nat
    BY <2>1, FS_CardinalityType
  <2>3. /\ IsFiniteSet(PermitHolders \cup {c})
        /\ Cardinality(PermitHolders \cup {c}) =
             IF c \in PermitHolders THEN Cardinality(PermitHolders)
                                   ELSE Cardinality(PermitHolders) + 1
    BY <2>1, FS_AddElement
  <2>. QED BY <2>1, <2>2, <2>3
<1>2. CASE call'[c].permit => call[c].permit
  <2>1. PermitHolders' \subseteq PermitHolders
    BY <1>2 DEF PermitHolders
  <2>2. Cardinality(PermitHolders') <= Cardinality(PermitHolders)
    BY <1>1, <2>1, FS_Subset
  <2>3. Cardinality(PermitHolders') \in Nat
    BY <1>1, <2>1, FS_Subset, FS_CardinalityType
  <2>. QED BY <1>1, <2>2, <2>3, Bounds DEF GateInv
<1>3. CASE Cardinality(PermitHolders) < GateSize
  <2>1. PermitHolders' \subseteq PermitHolders \cup {c}
    BY DEF PermitHolders
  <2>2. Cardinality(PermitHolders') <= Cardinality(PermitHolders \cup {c})
    BY <1>1, <2>1, FS_Subset
  <2>3. Cardinality(PermitHolders') \in Nat
    BY <1>1, <2>1, FS_Subset, FS_CardinalityType
  <2>. QED BY <1>1, <1>3, <2>2, <2>3, Bounds DEF GateInv
<1>. QED BY <1>2, <1>3

(* So the invariant has to be shown for c and s only.                      *)
LEMMA Preserved ==
  ASSUME IInv, NEW c \in Clients, NEW s \in Sessions, Touches(c, s),
         lock[s] \in {None, c},
         call[c].at = "advancing" => call[c].of = s,
         CallInv(c)', SessionInv(s)',
         call'[c].permit => call[c].permit \/ Cardinality(PermitHolders) < GateSize
  PROVE  IInv'
<1>1. TypeInv'
  BY DEF Touches, TypeInv, IInv
<1>2. ASSUME NEW d \in Clients, d # c PROVE CallInv(d)'
  <2>1. CallInv(d) /\ call'[d] = call[d]
    BY <1>2 DEF IInv, Touches
  <2>2. CASE call[d].at # "advancing"
    BY <2>1, <2>2 DEF CallInv
  <2>3. CASE call[d].at = "advancing"
    <3>1. call[d].of \in Sessions /\ lock[call[d].of] = d
      BY <2>1, <2>3 DEF CallInv, IInv, TypeInv
    <3>2. call[d].of # s
      BY <1>2, <3>1, SearchAssumption
    <3>3. session'[call[d].of] = session[call[d].of] /\ lock'[call[d].of] = lock[call[d].of]
      BY <3>1, <3>2 DEF Touches
    <3>. QED BY <2>1, <3>3 DEF CallInv
  <2>. QED BY <2>2, <2>3
<1>3. ASSUME NEW t \in Sessions, t # s PROVE SessionInv(t)'
  <2>1. /\ SessionInv(t)
        /\ session'[t] = session[t] /\ lock'[t] = lock[t]
        /\ t \in dropped' => t \in dropped
    BY <1>3 DEF IInv, Touches
  <2>2. lock[t] # None => lock[t] \in Clients /\ lock[t] # c
    BY <1>3, <2>1 DEF SessionInv, IInv, TypeInv
  <2>3. lock[t] # None => call'[lock[t]] = call[lock[t]]
    BY <2>2 DEF Touches
  <2>. QED BY <2>1, <2>3 DEF SessionInv
<1>4. GateInv'
  BY PermitsTaken DEF IInv, Touches
<1>. QED BY <1>1, <1>2, <1>3, <1>4 DEF IInv

(* A call that does not advance a session moves alone.                     *)
LEMMA CallMoves ==
  ASSUME IInv, NEW c \in Clients, NEW r \in Calls,
         call[c].at # "advancing", call' = [call EXCEPT ![c] = r],
         r.at # "idle" => r.of \in Sessions,
         r.at # "advancing", ~r.permit, r.requests = 0,
         UNCHANGED <<session, lock, dropped>>
  PROVE  IInv'
<1>1. /\ call' \in [Clients -> Calls] /\ call'[c] = r
      /\ \A d \in Clients : d # c => call'[d] = call[d]
  BY DEF IInv, TypeInv
<1>2. TypeInv'
  BY <1>1 DEF IInv, TypeInv
<1>3. \A d \in Clients : CallInv(d)'
  <2>1. CallInv(c)'
    BY <1>1 DEF CallInv
  <2>2. ASSUME NEW d \in Clients, d # c PROVE CallInv(d)'
    BY <1>1, <2>2 DEF IInv, CallInv
  <2>. QED BY <2>1, <2>2
<1>4. ASSUME NEW s \in Sessions PROVE SessionInv(s)'
  <2>1. SessionInv(s) /\ lock' = lock /\ session' = session /\ dropped' = dropped
    BY DEF IInv
  <2>2. lock[s] # None => lock[s] \in Clients /\ lock[s] # c
    BY <2>1 DEF SessionInv, IInv, TypeInv
  <2>. QED BY <1>1, <2>1, <2>2 DEF SessionInv
<1>5. GateInv'
  BY <1>1, PermitsTaken DEF IInv
<1>. QED BY <1>2, <1>3, <1>4, <1>5 DEF IInv
-----------------------------------------------------------------------------
(***************************************************************************)
(* The actions.                                                            *)
(***************************************************************************)

(* Who advances a session holds it, and it was not dropped.                *)
LEMMA Advancing ==
  ASSUME IInv, NEW c \in Clients, call[c].at = "advancing"
  PROVE  /\ call[c].of \in Sessions /\ lock[call[c].of] = c
         /\ call[c].of \notin dropped
         /\ session[call[c].of] \in Collections /\ session[call[c].of].inFlight
         /\ Fetching(c) => call[c].permit
<1>1. call[c].of \in Sessions /\ lock[call[c].of] = c
  BY DEF IInv, CallInv, TypeInv
<1>2. call[c].of \notin dropped
  BY <1>1, SearchAssumption DEF IInv, SessionInv
<1>3. session[call[c].of] \in Collections /\ session[call[c].of].inFlight
  BY <1>1 DEF IInv, TypeInv, CallInv
<1>4. Fetching(c) => call[c].permit
  BY DEF IInv, CallInv, Fetching
<1>. QED BY <1>1, <1>2, <1>3, <1>4

LEMMA LeaveKeeps ==
  ASSUME IInv, NEW c \in Clients, call[c].at = "advancing",
         NEW k \in Collections, NEW page \in Pages, Leave(c, k, page),
         k.complete => k.ended \/ page.failed
  PROVE  IInv'
<1>0. PICK s \in Sessions : s = call[c].of
  BY Advancing
<1>. DEFINE p == Publish(k, page)
            r == [Idle EXCEPT !.at = "registering", !.of = s]
<1>1. lock[s] = c /\ s \notin dropped
  BY <1>0, Advancing
<1>2. /\ p \in Collections /\ ~p.inFlight
      /\ p.complete => p.ended
  BY PublishType
<1>3. /\ r \in Calls /\ r.at = "registering" /\ r.of = s /\ ~r.permit
  BY <1>1, IdleType DEF Calls
<1>4. \/ call' = [call EXCEPT ![c] = r]
      \/ call' = [call EXCEPT ![c] = Idle]
  BY <1>0 DEF Leave, Answer
<1>5. /\ session' = [session EXCEPT ![s] = p]
      /\ lock' = [lock EXCEPT ![s] = None]
      /\ dropped' = dropped
  BY <1>0 DEF Leave
<1>. HIDE DEF p, r
<1>6. /\ call' \in [Clients -> Calls]
      /\ \A d \in Clients : d # c => call'[d] = call[d]
      /\ call'[c].at # "idle" => call'[c].of \in Sessions
      /\ call'[c].at \notin {"advancing", "locking"} /\ ~call'[c].permit
  BY <1>1, <1>3, <1>4, IdleType DEF IInv, TypeInv
<1>7. Touches(c, s)
  BY <1>1, <1>2, <1>5, <1>6 DEF Touches, IInv, TypeInv
<1>8. CallInv(c)'
  BY <1>6 DEF CallInv
<1>9. session'[s] = p /\ lock'[s] = None
  BY <1>1, <1>5 DEF IInv, TypeInv
<1>10. SessionInv(s)'
  BY <1>1, <1>2, <1>5, <1>9 DEF SessionInv
<1>. QED BY <1>0, <1>1, <1>6, <1>7, <1>8, <1>10, Preserved

LEMMA EnterKeeps ==
  ASSUME IInv, NEW c \in Clients, EnterSession(c)
  PROVE  IInv'
<1>0. PICK s \in Sessions : s = call[c].of
  BY DEF EnterSession, IInv, TypeInv
<1>. DEFINE k == session[s]
<1>1. /\ call[c].at = "locking" /\ lock[s] = None
      /\ dropped' = dropped /\ k \in Collections
  BY <1>0 DEF EnterSession, IInv, TypeInv
<1>2. CASE Answer(c) /\ UNCHANGED <<session, lock>>
  BY <1>1, <1>2, IdleType, CallMoves DEF Answer
<1>3. CASE /\ session' = [session EXCEPT ![s] = Publish(@, Failure)]
           /\ Answer(c) /\ UNCHANGED lock
  <2>. DEFINE p == Publish(k, Failure)
  <2>1. Failure \in Pages /\ Failure.failed /\ ~Failure.more
    BY FailureType
  <2>2. p \in Collections /\ ~p.inFlight /\ p.ended /\ p.pages = Append(k.pages, Failure)
    BY <1>1, <2>1, PublishType
  <2>3. Closed(p)
    <3>1. k.pages \in Seq(Pages)
      BY <1>1 DEF Collections
    <3>2. /\ p.pages \in Seq(Pages) /\ p.pages # << >>
          /\ Len(p.pages) = Len(k.pages) + 1
          /\ p.pages[Len(k.pages) + 1] = Failure
      BY <2>1, <2>2, <3>1, AppendProperties
    <3>3. Last(p.pages) = Failure
      BY <3>2 DEF Last
    <3>. QED BY <2>1, <3>2, <3>3 DEF Closed
  <2>4. session' = [session EXCEPT ![s] = p]
    BY <1>3
  <2>. HIDE DEF p
  <2>5. /\ session' \in [Sessions -> Collections] /\ session'[s] = p
        /\ \A t \in Sessions : t # s => session'[t] = session[t]
    BY <1>1, <2>2, <2>4 DEF IInv, TypeInv
  <2>6. /\ call' \in [Clients -> Calls] /\ call'[c] = Idle
        /\ \A d \in Clients : d # c => call'[d] = call[d]
    BY <1>3, IdleType DEF Answer, IInv, TypeInv
  <2>7. Touches(c, s)
    BY <1>1, <1>3, <2>5, <2>6, IdleType DEF Touches, IInv, TypeInv
  <2>8. CallInv(c)'
    BY <2>6, IdleType DEF CallInv
  <2>9. SessionInv(s)'
    BY <1>1, <1>3, <2>2, <2>3, <2>5 DEF SessionInv
  <2>10. ~call'[c].permit
    BY <2>6, IdleType
  <2>. QED BY <1>1, <2>7, <2>8, <2>9, <2>10, Preserved
<1>4. CASE /\ Continues(s, call[c].index) /\ ~Interrupted(s)
           /\ NeedsSource(s) => ~(Cardinality(PermitHolders) >= GateSize)
           /\ session' = [session EXCEPT ![s].inFlight = TRUE]
           /\ lock' = [lock EXCEPT ![s] = c]
           /\ call' = [call EXCEPT ![c].at = "advancing", ![c].permit = NeedsSource(s)]
  <2>. DEFINE p == [k EXCEPT !.inFlight = TRUE]
              r == [call[c] EXCEPT !.at = "advancing", !.permit = NeedsSource(s)]
  <2>1. /\ p \in Collections /\ p.inFlight /\ p.pages = k.pages
        /\ p.complete = k.complete /\ p.ended = k.ended /\ p.fetched = k.fetched
        /\ p.ready = k.ready
    BY <1>1 DEF Collections
  <2>2. session' = [session EXCEPT ![s] = p]
    BY <1>1, <1>4 DEF IInv, TypeInv
  <2>3. /\ r \in Calls /\ r.at = "advancing" /\ r.of = s /\ r.index = call[c].index
        /\ r.permit = NeedsSource(s) /\ r.requests = call[c].requests
    <3>1. NeedsSource(s) \in BOOLEAN
      BY DEF NeedsSource
    <3>2. call[c] \in Calls
      BY DEF IInv, TypeInv
    <3>. DEFINE b == NeedsSource(s)
    <3>. HIDE DEF b
    <3>3. b \in BOOLEAN
      BY <3>1 DEF b
    <3>4. r = [call[c] EXCEPT !.at = "advancing", !.permit = b]
      BY DEF b
    <3>5. /\ r \in Calls /\ r.at = "advancing" /\ r.of = call[c].of
          /\ r.index = call[c].index /\ r.permit = b /\ r.requests = call[c].requests
      BY <3>2, <3>3, <3>4 DEF Calls
    <3>. QED BY <1>0, <3>5 DEF b
  <2>4. call' = [call EXCEPT ![c] = r]
    BY <1>4 DEF IInv, TypeInv
  <2>. HIDE DEF p, r
  <2>5. /\ session' \in [Sessions -> Collections] /\ session'[s] = p
        /\ \A t \in Sessions : t # s => session'[t] = session[t]
    BY <1>1, <2>1, <2>2 DEF IInv, TypeInv
  <2>6. /\ call' \in [Clients -> Calls] /\ call'[c] = r
        /\ \A d \in Clients : d # c => call'[d] = call[d]
    BY <2>3, <2>4 DEF IInv, TypeInv
  <2>7. /\ lock' \in [Sessions -> Clients \cup {None}] /\ lock'[s] = c
        /\ \A t \in Sessions : t # s => lock'[t] = lock[t]
    BY <1>1, <1>4 DEF IInv, TypeInv
  <2>8. Touches(c, s)
    BY <1>1, <2>3, <2>5, <2>6, <2>7 DEF Touches, IInv, TypeInv
  <2>9. SessionInv(s) /\ CallInv(c)
    BY <1>1 DEF IInv
  <2>10. CallInv(c)'
    <3>1. call[c].requests = 0 /\ k.fetched \in Nat
      BY <1>1, <2>9 DEF CallInv, Collections
    <3>2. call[c].index = Len(k.pages) /\ ~k.inFlight
      BY <1>4 DEF Continues, Interrupted
    <3>3. ~NeedsSource(s) => k.ended \/ (~k.complete /\ ~(Len(k.ready) < Limit))
      <4>1. k.complete /\ ~k.ended => Len(k.ready) < Limit
        BY <2>9, <3>2, EmptySeq, Bounds DEF SessionInv
      <4>. QED BY <4>1 DEF NeedsSource
    <3>. QED BY <2>1, <2>3, <2>5, <2>6, <2>7, <3>1, <3>2, <3>3 DEF CallInv
  <2>11. SessionInv(s)'
    <3>1. s \notin dropped
      BY <1>4, <2>9 DEF SessionInv, Continues, Closed, Interrupted
    <3>. QED BY <1>1, <2>1, <2>3, <2>5, <2>6, <2>7, <2>9, <3>1 DEF SessionInv
  <2>12. call'[c].permit => Cardinality(PermitHolders) < GateSize
    <3>1. Cardinality(PermitHolders) \in Nat
      BY SearchAssumption, FS_Subset, FS_CardinalityType DEF PermitHolders
    <3>. QED BY <1>4, <2>3, <2>6, <3>1, Bounds
  <2>. QED BY <1>1, <2>8, <2>10, <2>11, <2>12, Preserved
<1>. QED BY <1>0, <1>2, <1>3, <1>4 DEF EnterSession

(* A source page, or the failure of one, while c goes on advancing.        *)
LEMMA GoesOn ==
  ASSUME IInv, NEW c \in Clients, Fetching(c), NEW k \in Collections,
         session' = [session EXCEPT ![call[c].of] = k],
         call' = [call EXCEPT ![c].requests = @ + 1],
         UNCHANGED <<lock, dropped>>,
         k.fetched = session[call[c].of].fetched + 1,
         k.pages = session[call[c].of].pages, k.inFlight,
         k.complete /\ k.fetched >= MaxPages => k.ended
  PROVE  IInv'
<1>0. PICK s \in Sessions : s = call[c].of
  BY Advancing DEF Fetching
<1>. DEFINE n == call[c].requests + 1
            r == [call[c] EXCEPT !.requests = n]
<1>1. /\ call[c].at = "advancing" /\ lock[s] = c /\ s \notin dropped /\ call[c].permit
      /\ session[s] \in Collections
  BY <1>0, Advancing DEF Fetching
<1>2. /\ r \in Calls /\ r.at = "advancing" /\ r.of = call[c].of
      /\ r.index = call[c].index /\ r.permit = call[c].permit
      /\ r.requests = call[c].requests + 1
  <2>1. call[c] \in Calls /\ n \in Nat
    BY DEF IInv, TypeInv, Calls
  <2>. HIDE DEF n
  <2>2. /\ r \in Calls /\ r.at = call[c].at /\ r.of = call[c].of
        /\ r.index = call[c].index /\ r.permit = call[c].permit /\ r.requests = n
    BY <2>1 DEF Calls
  <2>. QED BY <1>1, <2>2 DEF n
<1>3. call' = [call EXCEPT ![c] = r]
  BY DEF IInv, TypeInv
<1>. HIDE DEF r
<1>4. /\ call' \in [Clients -> Calls] /\ call'[c] = r
      /\ \A d \in Clients : d # c => call'[d] = call[d]
  BY <1>2, <1>3 DEF IInv, TypeInv
<1>5. /\ session' \in [Sessions -> Collections] /\ session'[s] = k
      /\ \A t \in Sessions : t # s => session'[t] = session[t]
  BY <1>0 DEF IInv, TypeInv
<1>6. Touches(c, s)
  BY <1>0, <1>2, <1>4, <1>5 DEF Touches, IInv, TypeInv
<1>7. CallInv(c)'
  <2>1. CallInv(c) /\ call[c].requests \in Nat /\ session[s].fetched \in Nat
    BY <1>1 DEF IInv, TypeInv, Calls, Collections
  <2>2. r.requests <= k.fetched /\ r.index = Len(k.pages)
    BY <1>0, <1>1, <1>2, <2>1 DEF CallInv
  <2>. QED BY <1>0, <1>1, <1>2, <1>4, <1>5, <2>2 DEF CallInv
<1>8. SessionInv(s)'
  BY <1>0, <1>1, <1>2, <1>4, <1>5 DEF SessionInv
<1>. QED BY <1>0, <1>1, <1>2, <1>4, <1>6, <1>7, <1>8, Preserved

LEMMA FetchPageKeeps ==
  ASSUME IInv, NEW c \in Clients, NEW batch \in SUBSET Items, NEW last \in BOOLEAN,
         FetchPage(c, batch, last)
  PROVE  IInv'
<1>0. PICK s \in Sessions : s = call[c].of
  BY Advancing DEF FetchPage, Fetching
<1>1. PICK k \in Collections : k = session[s] /\ k.inFlight
  BY <1>0, Advancing DEF FetchPage, Fetching
<1>. DEFINE f == Fetched(k, batch, last)
<1>2. session' = [session EXCEPT ![s] = f]
  BY <1>0, <1>1 DEF FetchPage
<1>3. /\ f \in Collections /\ f.fetched = k.fetched + 1 /\ f.pages = k.pages
      /\ f.inFlight /\ f.complete = k.complete
      /\ k.complete /\ k.fetched + 1 >= MaxPages => f.ended
  BY <1>1, FetchedType
<1>. HIDE DEF f
<1>4. /\ Fetching(c)
      /\ call' = [call EXCEPT ![c].requests = @ + 1]
      /\ UNCHANGED <<lock, dropped>>
  BY DEF FetchPage
<1>. QED BY <1>0, <1>1, <1>2, <1>3, <1>4, GoesOn

LEMMA FetchFailsKeeps ==
  ASSUME IInv, NEW c \in Clients, FetchFails(c)
  PROVE  IInv'
<1>. DEFINE k == session[call[c].of]
            n == k.fetched + 1
            f == [k EXCEPT !.fetched = n, !.ended = TRUE]
<1>1. call[c].at = "advancing" /\ k \in Collections /\ k.inFlight /\ call[c].of \in Sessions
  BY Advancing DEF FetchFails, Fetching
<1>2. CASE Leave(c, k, Failure)
  BY <1>1, <1>2, FailureType, LeaveKeeps
<1>3. CASE /\ session' = [session EXCEPT ![call[c].of].fetched = @ + 1,
                                         ![call[c].of].ended = TRUE]
           /\ call' = [call EXCEPT ![c].requests = @ + 1]
           /\ UNCHANGED <<lock, dropped>>
  <2>1. /\ f \in Collections /\ f.fetched = k.fetched + 1 /\ f.pages = k.pages
        /\ f.inFlight /\ f.ended
    <3>1. n \in Nat
      BY <1>1 DEF Collections
    <3>. HIDE DEF n
    <3>2. /\ f \in Collections /\ f.fetched = n /\ f.pages = k.pages
          /\ f.inFlight /\ f.ended
      BY <1>1, <3>1 DEF Collections
    <3>. QED BY <3>2 DEF n
  <2>2. session' = [session EXCEPT ![call[c].of] = f]
    BY <1>1, <1>3 DEF IInv, TypeInv
  <2>. HIDE DEF f
  <2>3. Fetching(c)
    BY DEF FetchFails
  <2>. QED BY <1>3, <2>1, <2>2, <2>3, GoesOn
<1>. QED BY <1>2, <1>3 DEF FetchFails

(* What a page takes from the items that are ready, and what it leaves.    *)
LEMMA Split ==
  ASSUME NEW ready \in Seq(Items), NEW size \in 0 .. Len(ready)
  PROVE  /\ SubSeq(ready, 1, size) \in Seq(Items)
         /\ SubSeq(ready, size + 1, Len(ready)) \in Seq(Items)
         /\ Range(ready) = Range(SubSeq(ready, 1, size))
                             \cup Range(SubSeq(ready, size + 1, Len(ready)))
<1>. DEFINE n == Len(ready)
            front == SubSeq(ready, 1, size)
            rest == SubSeq(ready, size + 1, n)
<1>1. n \in Nat /\ size \in Nat /\ size <= n /\ \A i \in 1 .. n : ready[i] \in Items
  BY LenProperties, ElementOfSeq
<1>2. /\ front \in Seq(Items) /\ Len(front) = size
      /\ \A i \in 1 .. size : front[i] = ready[i]
  <2>1. \A i \in 1 .. size : ready[i] \in Items
    BY <1>1
  <2>. QED BY <1>1, <2>1, SubSeqProperties
<1>3. /\ rest \in Seq(Items) /\ Len(rest) = n - size
      /\ \A i \in 1 .. n - size : rest[i] = ready[size + i]
  <2>1. \A i \in size + 1 .. n : ready[i] \in Items
    BY <1>1
  <2>2. size + 1 \in Int /\ n \in Int
    BY <1>1
  <2>3. /\ rest \in Seq(Items)
        /\ Len(rest) = IF size + 1 <= n THEN n - (size + 1) + 1 ELSE 0
        /\ \A i \in 1 .. n - (size + 1) + 1 : rest[i] = ready[size + 1 + i - 1]
    BY <2>1, <2>2, SubSeqProperties
  <2>. QED BY <1>1, <2>3
<1>4. Range(ready) = Range(front) \cup Range(rest)
  <2>. HIDE DEF front, rest, n
  <2>1. /\ DOMAIN ready = 1 .. n /\ DOMAIN front = 1 .. size /\ DOMAIN rest = 1 .. n - size
    BY <1>2, <1>3, LenProperties DEF n
  <2>2. ASSUME NEW x \in Range(ready) PROVE x \in Range(front) \cup Range(rest)
    <3>1. PICK i \in 1 .. n : x = ready[i]
      BY <2>1 DEF Range
    <3>2. CASE i <= size
      BY <1>1, <1>2, <2>1, <3>1, <3>2 DEF Range
    <3>3. CASE i > size
      <4>1. i - size \in 1 .. n - size /\ rest[i - size] = ready[i]
        BY <1>1, <1>3, <3>1, <3>3
      <4>. QED BY <2>1, <3>1, <4>1 DEF Range
    <3>. QED BY <1>1, <3>1, <3>2, <3>3
  <2>3. ASSUME NEW x \in Range(front) PROVE x \in Range(ready)
    BY <1>1, <1>2, <2>1 DEF Range
  <2>4. ASSUME NEW x \in Range(rest) PROVE x \in Range(ready)
    <3>1. PICK i \in 1 .. n - size : x = rest[i]
      BY <2>1 DEF Range
    <3>2. size + i \in 1 .. n /\ x = ready[size + i]
      BY <1>1, <1>3, <3>1
    <3>. QED BY <2>1, <3>2 DEF Range
  <2>. QED BY <2>2, <2>3, <2>4
<1>. QED BY <1>2, <1>3, <1>4

LEMMA BuildPageKeeps ==
  ASSUME IInv, NEW c \in Clients, BuildPage(c)
  PROVE  IInv'
<1>. DEFINE k == session[call[c].of]
            n == Len(k.ready)
            size == IF Limit < n THEN Limit ELSE n
            front == SubSeq(k.ready, 1, size)
            rest == SubSeq(k.ready, size + 1, n)
            j == [k EXCEPT !.ready = rest]
            page == Page(front, More(k, rest))
<1>1. call[c].at = "advancing" /\ k \in Collections /\ ~Fetching(c)
  BY Advancing DEF BuildPage
<1>2. k.ready \in Seq(Items) /\ size \in 0 .. n
  BY <1>1, LenProperties, Bounds DEF Collections
<1>3. front \in Seq(Items) /\ rest \in Seq(Items)
  BY <1>2, Split
<1>4. page \in Pages
  BY <1>3, PageType DEF More
<1>5. Leave(c, j, page)
  BY DEF BuildPage
<1>6. k.complete => k.ended
  <2>1. CallInv(c) /\ SessionInv(call[c].of) /\ call[c].requests \in Nat
    BY <1>1, Advancing DEF IInv, TypeInv, Calls
  <2>2. k.complete /\ ~k.ended => call[c].requests >= MaxPages
    BY <1>1, <2>1, Bounds DEF Fetching
  <2>3. call[c].requests <= k.fetched /\ k.fetched \in Nat
    BY <1>1, <2>1 DEF CallInv, Collections
  <2>. QED BY <2>1, <2>2, <2>3, Bounds DEF SessionInv
<1>. HIDE DEF rest, page
<1>7. j \in Collections /\ j.complete = k.complete /\ j.ended = k.ended
  BY <1>1, <1>3 DEF Collections
<1>. HIDE DEF j
<1>. QED BY <1>1, <1>4, <1>5, <1>6, <1>7, LeaveKeeps

LEMMA DeadlineKeeps ==
  ASSUME IInv, NEW c \in Clients, Deadline(c)
  PROVE  IInv'
<1>1. CASE call[c].at = "locking" /\ Answer(c) /\ UNCHANGED <<session, lock, dropped>>
  BY <1>1, IdleType, CallMoves DEF Answer
<1>2. CASE AtAwait(c) /\ Leave(c, session[call[c].of], Failure)
  <2>1. call[c].at = "advancing" /\ session[call[c].of] \in Collections
    BY <1>2, Advancing DEF AtAwait
  <2>. QED BY <1>2, <2>1, FailureType, LeaveKeeps
<1>. QED BY <1>1, <1>2 DEF Deadline

LEMMA DropKeeps ==
  ASSUME IInv, NEW c \in Clients, Drop(c)
  PROVE  IInv'
<1>1. CASE call[c].at # "advancing"
  <2>1. \A s \in Sessions : lock[s] # c
    BY <1>1, SearchAssumption DEF IInv, SessionInv
  <2>2. UNCHANGED <<session, lock, dropped>>
    <3>1. LockReleased(c) = lock
      BY <2>1 DEF LockReleased, IInv, TypeInv
    <3>2. {s \in Sessions : lock[s] = c} = {}
      BY <2>1
    <3>. QED BY <3>1, <3>2 DEF Drop
  <2>. QED BY <1>1, <2>2, IdleType, CallMoves DEF Drop, Answer
<1>2. CASE call[c].at = "advancing"
  <2>0. PICK s \in Sessions : s = call[c].of
    BY <1>2, Advancing
  <2>1. lock[s] = c /\ session[s].inFlight
    BY <1>2, <2>0, Advancing
  <2>2. \A t \in Sessions : lock[t] = c => t = s
    BY <2>0, SearchAssumption DEF IInv, SessionInv
  <2>3. /\ session' = session
        /\ lock' \in [Sessions -> Clients \cup {None}] /\ lock'[s] = None
        /\ \A t \in Sessions : t # s => lock'[t] = lock[t]
    BY <2>1, <2>2 DEF Drop, LockReleased, IInv, TypeInv
  <2>4. dropped' = dropped \cup {s}
    BY <2>1, <2>2 DEF Drop
  <2>5. /\ call' \in [Clients -> Calls] /\ call'[c] = Idle
        /\ \A d \in Clients : d # c => call'[d] = call[d]
    BY IdleType DEF Drop, Answer, IInv, TypeInv
  <2>6. Touches(c, s)
    BY <2>3, <2>4, <2>5, IdleType DEF Touches, IInv, TypeInv
  <2>7. CallInv(c)'
    BY <2>5, IdleType DEF CallInv
  <2>8. SessionInv(s)'
    BY <2>1, <2>3 DEF SessionInv, IInv
  <2>9. ~call'[c].permit
    BY <2>5, IdleType
  <2>. QED BY <2>0, <2>1, <2>6, <2>7, <2>8, <2>9, Preserved
<1>. QED BY <1>1, <1>2

LEMMA BeginSearchKeeps ==
  ASSUME IInv, NEW c \in Clients, NEW s \in Sessions, NEW b \in BOOLEAN,
         BeginSearch(c, s, b)
  PROVE  IInv'
<1>. DEFINE k == NewCollection(b)
            r == [Idle EXCEPT !.at = "locking", !.of = s, !.first = TRUE]
<1>1. call[c].at = "idle" /\ Free(s)
  BY DEF BeginSearch
<1>2. lock[s] = None
  BY <1>1 DEF Free, IInv, SessionInv, TypeInv
<1>3. k \in Collections /\ k.fetched = 0 /\ k.ready = << >> /\ ~(k.fetched >= MaxPages)
  BY NewCollectionType, Bounds
<1>4. r \in Calls /\ r.at = "locking" /\ r.of = s /\ ~r.permit /\ r.requests = 0
  BY IdleType DEF Calls
<1>5. /\ session' = [session EXCEPT ![s] = k] /\ call' = [call EXCEPT ![c] = r]
      /\ dropped' = dropped \ {s} /\ lock' = lock
  BY DEF BeginSearch
<1>. HIDE DEF k, r
<1>6. /\ call' \in [Clients -> Calls] /\ call'[c] = r
      /\ \A d \in Clients : d # c => call'[d] = call[d]
  BY <1>4, <1>5 DEF IInv, TypeInv
<1>7. /\ session' \in [Sessions -> Collections] /\ session'[s] = k
      /\ \A t \in Sessions : t # s => session'[t] = session[t]
  BY <1>3, <1>5 DEF IInv, TypeInv
<1>8. Touches(c, s)
  BY <1>4, <1>5, <1>6, <1>7 DEF Touches, IInv, TypeInv
<1>9. CallInv(c)'
  BY <1>4, <1>6 DEF CallInv
<1>10. SessionInv(s)'
  BY <1>2, <1>3, <1>5, <1>7 DEF SessionInv
<1>. QED BY <1>1, <1>2, <1>4, <1>6, <1>8, <1>9, <1>10, Preserved

LEMMA NextIInv == IInv /\ [Next]_vars => IInv'
<1>. SUFFICES ASSUME IInv, [Next]_vars PROVE IInv'
  OBVIOUS
<1>1. ASSUME NEW c \in Clients, NEW s \in Sessions, NEW i \in 0 .. MaxSourcePages,
             BeginPage(c, s, i)
      PROVE  IInv'
  <2>. DEFINE r == [Idle EXCEPT !.at = "locking", !.of = s, !.index = i]
  <2>1. r \in Calls /\ r.at = "locking" /\ r.of = s /\ ~r.permit /\ r.requests = 0
    <3>1. i \in Nat
      BY Bounds
    <3>. QED BY <3>1, IdleType DEF Calls
  <2>2. /\ call[c].at = "idle" /\ call' = [call EXCEPT ![c] = r]
        /\ UNCHANGED <<session, lock, dropped>>
    BY <1>1 DEF BeginPage
  <2>. HIDE DEF r
  <2>. QED BY <2>1, <2>2, CallMoves
<1>2. ASSUME NEW c \in Clients, Register(c) PROVE IInv'
  <2>1. /\ call[c].at = "registering" /\ call' = [call EXCEPT ![c] = Idle]
        /\ UNCHANGED <<session, lock, dropped>>
    BY <1>2 DEF Register, Answer
  <2>. QED BY <2>1, IdleType, CallMoves
<1>3. CASE UNCHANGED <<session, lock, call, dropped>>
  <2>1. TypeInv'
    BY <1>3 DEF IInv, TypeInv
  <2>2. \A c \in Clients : CallInv(c)'
    BY <1>3 DEF IInv, CallInv
  <2>3. \A s \in Sessions : SessionInv(s)'
    BY <1>3 DEF IInv, SessionInv
  <2>4. PermitHolders' = PermitHolders
    BY <1>3 DEF PermitHolders
  <2>. QED BY <2>1, <2>2, <2>3, <2>4 DEF IInv, GateInv
<1>4. ASSUME NEW c \in Clients, Step(c) PROVE IInv'
  BY <1>2, <1>4, EnterKeeps, FetchPageKeeps, FetchFailsKeeps, BuildPageKeeps,
     DeadlineKeeps DEF Step
<1>5. ASSUME NEW s \in Sessions, Expire(s) PROVE IInv'
  BY <1>3, <1>5 DEF Expire
<1>6. CASE UNCHANGED vars
  BY <1>3, <1>6 DEF vars
<1>. QED BY <1>1, <1>4, <1>5, <1>6, BeginSearchKeeps, DropKeeps DEF Next

(* Every call, lock and collection keeps its type.                         *)
THEOREM TypeCorrect == Spec => []TypeInv
<1>1. IInv => TypeInv
  BY DEF IInv
<1>. QED BY <1>1, InitIInv, NextIInv, PTL DEF Spec

(* The source is called by no more calls at a time than there are permits, *)
(* although the need for one is judged before the first await only: a      *)
(* session that seemed not to need the source never does (engine/session.rs *)
(* execute_before).                                                        *)
THEOREM GateHolds == Spec => []CallsWithinGate
<1>1. IInv => CallsWithinGate
  <2>. SUFFICES ASSUME IInv PROVE CallsWithinGate
    OBVIOUS
  <2>. DEFINE fetching == {c \in Clients : Fetching(c)}
  <2>1. fetching \subseteq PermitHolders
    BY Advancing DEF PermitHolders, Fetching
  <2>2. IsFiniteSet(PermitHolders) /\ IsFiniteSet(fetching)
    BY SearchAssumption, FS_Subset DEF PermitHolders
  <2>3. /\ Cardinality(fetching) \in Nat /\ Cardinality(PermitHolders) \in Nat
        /\ Cardinality(fetching) <= Cardinality(PermitHolders)
    BY <2>1, <2>2, FS_Subset, FS_CardinalityType
  <2>. QED BY <2>3, Bounds DEF IInv, GateInv, CallsWithinGate
<1>. QED BY <1>1, InitIInv, NextIInv, PTL DEF Spec

(* The page a call publishes is the one its cursor asked for: the lock is  *)
(* held from the check of the index to the push of the page.               *)
THEOREM PagesAreInOrder == Spec => []AdvancesItsPage
<1>1. IInv => AdvancesItsPage
  BY DEF IInv, CallInv, AdvancesItsPage
<1>. QED BY <1>1, InitIInv, NextIInv, PTL DEF Spec
-----------------------------------------------------------------------------
(***************************************************************************)
(* Dropped calls.  Nobody holds the lock of a session whose call was       *)
(* dropped, and nobody takes it: the next call ends the session.           *)
(***************************************************************************)
Untouched(s) ==
  /\ session'[s].fetched = session[s].fetched
  /\ \A page \in Range(session'[s].pages) \ Range(session[s].pages) : page.items = << >>

LEMMA OthersUntouched ==
  ASSUME NEW s, session'[s] = session[s]
  PROVE  Untouched(s)
BY DEF Untouched

LEMMA AdvancingElsewhere ==
  ASSUME IInv, NEW c \in Clients, call[c].at = "advancing", NEW s \in dropped
  PROVE  call[c].of # s
BY Advancing

LEMMA EnterSpares ==
  ASSUME IInv, NEW c \in Clients, EnterSession(c), NEW s \in Sessions
  PROVE  Untouched(s)
<1>. DEFINE t == call[c].of
            k == session[t]
<1>1. t \in Sessions /\ k \in Collections /\ session \in [Sessions -> Collections]
  BY DEF EnterSession, IInv, TypeInv
<1>2. CASE session' = session
  BY <1>2, OthersUntouched
<1>3. CASE session' = [session EXCEPT ![t] = Publish(@, Failure)]
  <2>1. CASE s # t
    BY <1>1, <1>3, <2>1, OthersUntouched
  <2>2. CASE s = t
    <3>. DEFINE p == Publish(k, Failure)
    <3>1. session'[s] = p
      BY <1>1, <1>3, <2>2
    <3>2. p.fetched = k.fetched /\ p.pages = Append(k.pages, Failure)
      BY <1>1, FailureType, PublishType
    <3>. HIDE DEF p
    <3>3. k.pages \in Seq(Pages)
      BY <1>1 DEF Collections
    <3>4. \A page \in Range(p.pages) \ Range(k.pages) : page = Failure
      BY <3>2, <3>3, FailureType, RangeOfAppend
    <3>. QED BY <2>2, <3>1, <3>2, <3>4 DEF Untouched, Failure
  <2>. QED BY <2>1, <2>2
<1>4. CASE session' = [session EXCEPT ![t].inFlight = TRUE]
  <2>1. /\ session'[s].fetched = session[s].fetched
        /\ session'[s].pages = session[s].pages
    BY <1>1, <1>4 DEF Collections
  <2>. QED BY <2>1 DEF Untouched
<1>. QED BY <1>2, <1>3, <1>4 DEF EnterSession

LEMMA NextSpares ==
  ASSUME IInv, [Next]_vars, NEW s \in dropped, ~Free(s)
  PROVE  Untouched(s)
<1>0. s \in Sessions /\ session \in [Sessions -> Collections]
  BY DEF IInv, TypeInv
<1>1. CASE session' = session
  BY <1>1, OthersUntouched
<1>2. ASSUME NEW c \in Clients, EnterSession(c) PROVE Untouched(s)
  BY <1>0, <1>2, EnterSpares
<1>3. ASSUME NEW c \in Clients, call[c].at = "advancing",
             NEW k, session' = [session EXCEPT ![call[c].of] = k]
      PROVE  Untouched(s)
  BY <1>0, <1>3, AdvancingElsewhere, OthersUntouched
<1>4. ASSUME NEW c \in Clients, NEW k, NEW page, call[c].at = "advancing",
             Leave(c, k, page)
      PROVE  Untouched(s)
  BY <1>3, <1>4 DEF Leave
<1>5. ASSUME NEW c \in Clients, NEW batch \in SUBSET Items, NEW last \in BOOLEAN,
             FetchPage(c, batch, last)
      PROVE  Untouched(s)
  <2>1. /\ call[c].at = "advancing"
        /\ session' = [session EXCEPT ![call[c].of] =
                         Fetched(session[call[c].of], batch, last)]
    BY <1>5 DEF FetchPage, Fetching
  <2>. QED BY <1>3, <2>1
<1>6. ASSUME NEW c \in Clients, FetchFails(c) PROVE Untouched(s)
  <2>1. call[c].at = "advancing"
    BY <1>6 DEF FetchFails, Fetching
  <2>2. CASE Leave(c, session[call[c].of], Failure)
    BY <1>4, <2>1, <2>2
  <2>3. CASE session' = [session EXCEPT ![call[c].of].fetched = @ + 1,
                                        ![call[c].of].ended = TRUE]
    BY <1>0, <2>1, <2>3, AdvancingElsewhere, OthersUntouched
  <2>. QED BY <1>6, <2>2, <2>3 DEF FetchFails
<1>7. ASSUME NEW c \in Clients, BuildPage(c) PROVE Untouched(s)
  BY <1>4, <1>7 DEF BuildPage
<1>8. ASSUME NEW c \in Clients, Deadline(c) PROVE Untouched(s)
  BY <1>1, <1>4, <1>8 DEF Deadline, AtAwait
<1>9. ASSUME NEW c \in Clients, NEW t \in Sessions, NEW b \in BOOLEAN,
             BeginSearch(c, t, b)
      PROVE  Untouched(s)
  BY <1>0, <1>9, OthersUntouched DEF BeginSearch
<1>10. ASSUME NEW c \in Clients, Step(c) PROVE Untouched(s)
  BY <1>1, <1>2, <1>5, <1>6, <1>7, <1>8, <1>10 DEF Step, Register
<1>. QED BY <1>1, <1>9, <1>10 DEF Next, BeginPage, Drop, Expire, vars

(* A session whose call was dropped while it advanced is not advanced by   *)
(* another one: its source is in an unknown place (engine/session.rs       *)
(* in_flight).                                                             *)
THEOREM DroppedStay == Spec => DroppedNeverRestarts
<1>1. IInv /\ [Next]_vars =>
        [\A s \in dropped : ~Free(s) =>
           /\ session'[s].fetched = session[s].fetched
           /\ \A page \in Range(session'[s].pages) \ Range(session[s].pages) :
                page.items = << >>]_vars
  BY NextSpares DEF Untouched
<1>. QED BY <1>1, InitIInv, NextIInv, PTL DEF Spec, DroppedNeverRestarts
-----------------------------------------------------------------------------
(***************************************************************************)
(* What was found is published or ready.                                   *)
(***************************************************************************)
PublishedIn(k) == UNION {Range(page.items) : page \in Range(k.pages)}
Failed(k) == \E page \in Range(k.pages) : page.failed

Kept(k) == ~Failed(k) => k.seen = PublishedIn(k) \cup Range(k.ready)

KeptInv == \A s \in Sessions : Kept(session[s])

LEMMA PublishedAfter ==
  ASSUME NEW k \in Collections, NEW page \in Pages, NEW p \in Collections,
         p.pages = Append(k.pages, page)
  PROVE  /\ PublishedIn(p) = PublishedIn(k) \cup Range(page.items)
         /\ Failed(p) <=> Failed(k) \/ page.failed
<1>1. Range(p.pages) = Range(k.pages) \cup {page}
  BY RangeOfAppend DEF Collections
<1>2. PublishedIn(p) = PublishedIn(k) \cup Range(page.items)
  BY <1>1 DEF PublishedIn
<1>3. Failed(p) <=> Failed(k) \/ page.failed
  BY <1>1 DEF Failed
<1>. QED BY <1>2, <1>3

LEMMA PublishKeeps ==
  ASSUME NEW k \in Collections, NEW page \in Pages,
         page.failed \/ Failed(k)
           \/ k.seen = PublishedIn(k) \cup Range(page.items) \cup Range(k.ready)
  PROVE  Kept(Publish(k, page))
<1>. DEFINE p == Publish(k, page)
<1>1. /\ p \in Collections /\ p.pages = Append(k.pages, page) /\ p.seen = k.seen
      /\ ~page.failed => p.ready = k.ready
  BY PublishType
<1>. HIDE DEF p
<1>2. /\ PublishedIn(p) = PublishedIn(k) \cup Range(page.items)
      /\ Failed(p) <=> Failed(k) \/ page.failed
  BY <1>1, PublishedAfter
<1>3. Kept(p)
  BY <1>1, <1>2 DEF Kept
<1>. QED BY <1>3 DEF p

LEMMA SameKept ==
  ASSUME NEW k, NEW p, Kept(k), p.pages = k.pages, p.seen = k.seen, p.ready = k.ready
  PROVE  Kept(p)
BY DEF Kept, PublishedIn, Failed

LEMMA NewKept ==
  ASSUME NEW b \in BOOLEAN
  PROVE  Kept(NewCollection(b))
<1>. DEFINE k == NewCollection(b)
<1>1. k.pages = << >> /\ k.ready = << >> /\ k.seen = {}
  BY DEF NewCollection
<1>. HIDE DEF k
<1>2. Range(<< >>) = {}
  BY DEF Range
<1>3. PublishedIn(k) = {}
  BY <1>1, <1>2 DEF PublishedIn
<1>4. Kept(k)
  BY <1>1, <1>2, <1>3 DEF Kept
<1>. QED BY <1>4 DEF k

LEMMA KeptElsewhere ==
  ASSUME IInv, KeptInv, NEW t \in Sessions, NEW k, Kept(k),
         session' = [session EXCEPT ![t] = k]
  PROVE  KeptInv'
BY DEF KeptInv, IInv, TypeInv

LEMMA LeaveKept ==
  ASSUME IInv, KeptInv, NEW c \in Clients, call[c].at = "advancing",
         NEW k \in Collections, NEW page \in Pages, Leave(c, k, page),
         page.failed \/ Failed(k)
           \/ k.seen = PublishedIn(k) \cup Range(page.items) \cup Range(k.ready)
  PROVE  KeptInv'
<1>1. /\ call[c].of \in Sessions
      /\ session' = [session EXCEPT ![call[c].of] = Publish(k, page)]
  BY Advancing DEF Leave
<1>. QED BY <1>1, PublishKeeps, KeptElsewhere

LEMMA EnterKept ==
  ASSUME IInv, KeptInv, NEW c \in Clients, EnterSession(c)
  PROVE  KeptInv'
<1>. DEFINE s == call[c].of
            k == session[s]
<1>1. s \in Sessions /\ k \in Collections /\ Kept(k)
  BY DEF EnterSession, KeptInv, IInv, TypeInv
<1>2. CASE session' = session
  BY <1>2 DEF KeptInv
<1>3. CASE session' = [session EXCEPT ![s] = Publish(@, Failure)]
  <2>1. Kept(Publish(k, Failure))
    BY <1>1, FailureType, PublishKeeps
  <2>2. session' = [session EXCEPT ![s] = Publish(k, Failure)]
    BY <1>3
  <2>. QED BY <1>1, <2>1, <2>2, KeptElsewhere
<1>4. CASE session' = [session EXCEPT ![s].inFlight = TRUE]
  <2>. DEFINE p == [k EXCEPT !.inFlight = TRUE]
  <2>1. p.pages = k.pages /\ p.seen = k.seen /\ p.ready = k.ready
    BY <1>1 DEF Collections
  <2>2. session' = [session EXCEPT ![s] = p]
    BY <1>1, <1>4 DEF IInv, TypeInv
  <2>. HIDE DEF p
  <2>3. Kept(p)
    BY <1>1, <2>1, SameKept
  <2>. QED BY <1>1, <2>2, <2>3, KeptElsewhere
<1>. QED BY <1>2, <1>3, <1>4 DEF EnterSession

LEMMA FetchKept ==
  ASSUME IInv, KeptInv, NEW c \in Clients, NEW batch \in SUBSET Items,
         NEW last \in BOOLEAN, FetchPage(c, batch, last)
  PROVE  KeptInv'
<1>0. PICK s \in Sessions : s = call[c].of
  BY Advancing DEF FetchPage, Fetching
<1>1. PICK k \in Collections : k = session[s]
  BY <1>0, Advancing DEF FetchPage, Fetching
<1>. DEFINE f == Fetched(k, batch, last)
<1>2. session' = [session EXCEPT ![s] = f]
  BY <1>0, <1>1 DEF FetchPage
<1>3. /\ f.seen = k.seen \cup batch
      /\ f.pages = k.pages
      /\ Range(f.ready) = Range(k.ready) \cup (batch \ k.seen)
  <2>1. f.seen = k.seen \cup batch
    BY DEF Fetched, Bounded, Collections
  <2>2. f.pages = k.pages
    BY <1>1, FetchedType
  <2>3. Range(f.ready) = Range(k.ready) \cup (batch \ k.seen)
    BY <1>1, FetchedType
  <2>. QED BY <2>1, <2>2, <2>3
<1>. HIDE DEF f
<1>4. Kept(k)
  BY <1>1 DEF KeptInv
<1>5. PublishedIn(f) = PublishedIn(k) /\ (Failed(f) <=> Failed(k))
  BY <1>3 DEF PublishedIn, Failed
<1>6. Kept(f)
  BY <1>3, <1>4, <1>5 DEF Kept
<1>. QED BY <1>2, <1>6, KeptElsewhere

LEMMA FetchFailsKept ==
  ASSUME IInv, KeptInv, NEW c \in Clients, FetchFails(c)
  PROVE  KeptInv'
<1>. DEFINE s == call[c].of
            k == session[s]
            n == k.fetched + 1
            f == [k EXCEPT !.fetched = n, !.ended = TRUE]
<1>1. call[c].at = "advancing" /\ k \in Collections /\ s \in Sessions
  BY Advancing DEF FetchFails, Fetching
<1>2. CASE Leave(c, k, Failure)
  BY <1>1, <1>2, FailureType, LeaveKept
<1>3. CASE session' = [session EXCEPT ![s].fetched = @ + 1, ![s].ended = TRUE]
  <2>1. Kept(k) /\ session' = [session EXCEPT ![s] = f]
    BY <1>1, <1>3 DEF KeptInv, IInv, TypeInv
  <2>. HIDE DEF n
  <2>2. f.pages = k.pages /\ f.seen = k.seen /\ f.ready = k.ready
    BY <1>1 DEF Collections
  <2>. HIDE DEF f
  <2>. QED BY <1>1, <2>1, <2>2, SameKept, KeptElsewhere
<1>. QED BY <1>2, <1>3 DEF FetchFails

LEMMA BuildKept ==
  ASSUME IInv, KeptInv, NEW c \in Clients, BuildPage(c)
  PROVE  KeptInv'
<1>. DEFINE k == session[call[c].of]
            n == Len(k.ready)
            size == IF Limit < n THEN Limit ELSE n
            front == SubSeq(k.ready, 1, size)
            rest == SubSeq(k.ready, size + 1, n)
            j == [k EXCEPT !.ready = rest]
            page == Page(front, More(k, rest))
<1>1. call[c].at = "advancing" /\ k \in Collections /\ Kept(k)
  BY Advancing DEF BuildPage, KeptInv
<1>2. k.ready \in Seq(Items) /\ size \in 0 .. n
  BY <1>1, LenProperties, Bounds DEF Collections
<1>3. /\ front \in Seq(Items) /\ rest \in Seq(Items)
      /\ Range(k.ready) = Range(front) \cup Range(rest)
  BY <1>2, Split
<1>4. page \in Pages /\ page.items = front
  BY <1>3, PageType DEF More, Page
<1>5. Leave(c, j, page)
  BY DEF BuildPage
<1>. HIDE DEF front, rest, page
<1>6. j \in Collections /\ j.ready = rest /\ j.seen = k.seen /\ j.pages = k.pages
  BY <1>1, <1>3 DEF Collections
<1>. HIDE DEF j
<1>7. PublishedIn(j) = PublishedIn(k) /\ (Failed(j) <=> Failed(k))
  BY <1>6 DEF PublishedIn, Failed
<1>8. Failed(j) \/ j.seen = PublishedIn(j) \cup Range(page.items) \cup Range(j.ready)
  BY <1>1, <1>3, <1>4, <1>6, <1>7 DEF Kept
<1>. QED BY <1>1, <1>4, <1>5, <1>6, <1>8, LeaveKept

LEMMA NextKept == IInv /\ KeptInv /\ [Next]_vars => KeptInv'
<1>. SUFFICES ASSUME IInv, KeptInv, [Next]_vars PROVE KeptInv'
  OBVIOUS
<1>1. CASE session' = session
  BY <1>1 DEF KeptInv
<1>2. ASSUME NEW c \in Clients, Deadline(c) PROVE KeptInv'
  <2>1. CASE AtAwait(c) /\ Leave(c, session[call[c].of], Failure)
    <3>1. call[c].at = "advancing" /\ session[call[c].of] \in Collections
      BY <2>1, Advancing DEF AtAwait
    <3>. QED BY <2>1, <3>1, FailureType, LeaveKept
  <2>. QED BY <1>1, <1>2, <2>1 DEF Deadline
<1>3. ASSUME NEW c \in Clients, NEW s \in Sessions, NEW b \in BOOLEAN,
             BeginSearch(c, s, b)
      PROVE  KeptInv'
  <2>1. session' = [session EXCEPT ![s] = NewCollection(b)]
    BY <1>3 DEF BeginSearch
  <2>. QED BY <2>1, NewKept, KeptElsewhere
<1>4. ASSUME NEW c \in Clients, Step(c) PROVE KeptInv'
  BY <1>1, <1>2, <1>4, EnterKept, FetchKept, FetchFailsKept, BuildKept DEF Step, Register
<1>. QED BY <1>1, <1>3, <1>4 DEF Next, BeginPage, Drop, Expire, vars

(* No match is lost between the pages of a session, whatever is repeated,  *)
(* dropped or fails, as long as no page of it failed (engine/session.rs    *)
(* advance and push).                                                      *)
THEOREM MatchesAreKept == Spec => []NothingLost
<1>1. Init => KeptInv
  <2>1. Kept(NewCollection(FALSE))
    <3>1. FALSE \in BOOLEAN
      OBVIOUS
    <3>. QED BY ONLY <3>1, NewKept
  <2>. QED BY <2>1 DEF Init, KeptInv
<1>2. KeptInv => NothingLost
  BY DEF KeptInv, Kept, Failed, PublishedIn, NothingLost, Published
<1>. QED BY <1>1, <1>2, InitIInv, NextIInv, NextKept, PTL DEF Spec
-----------------------------------------------------------------------------
(***************************************************************************)
(* Nothing is published twice: what is published or ready has been seen,   *)
(* and only what has not been seen becomes ready.                          *)
(***************************************************************************)
Shown(k) == Once(k) /\ PublishedIn(k) \cup Range(k.ready) \subseteq k.seen
OnceInv == \A s \in Sessions : Shown(session[s])

LEMMA SetToSeqOnce ==
  ASSUME NEW S, IsFiniteSet(S)
  PROVE  IsInjective(SetToSeq(S))
<1>. DEFINE n == Cardinality(S)
<1>1. n \in Nat /\ ExistsBijection(1 .. n, S)
  BY FS_CardinalityType
<1>2. PICK f \in [1 .. n -> S] : IsInjective(f)
  BY <1>1 DEF ExistsBijection, Bijection, Injection
<1>. QED BY <1>2 DEF SetToSeq

LEMMA EmptyOnce == IsInjective(<< >>) /\ Range(<< >>) = {}
BY DEF IsInjective, Range

LEMMA ConcatenationOnce ==
  ASSUME NEW S, NEW s \in Seq(S), NEW t \in Seq(S), IsInjective(s), IsInjective(t),
         Range(s) \cap Range(t) = {}
  PROVE  IsInjective(s \o t)
<1>1. /\ Len(s) \in Nat /\ Len(t) \in Nat
      /\ DOMAIN s = 1 .. Len(s) /\ DOMAIN t = 1 .. Len(t)
  BY LenProperties
<1>2. /\ s \o t \in Seq(S) /\ Len(s \o t) = Len(s) + Len(t)
      /\ \A i \in 1 .. Len(s) + Len(t) :
           (s \o t)[i] = IF i <= Len(s) THEN s[i] ELSE t[i - Len(s)]
  BY ConcatProperties
<1>3. DOMAIN (s \o t) = 1 .. Len(s) + Len(t)
  BY <1>2, LenProperties
<1>. DEFINE u == s \o t
<1>. HIDE DEF u
<1>4. ASSUME NEW i \in 1 .. Len(s) + Len(t), NEW j \in 1 .. Len(s) + Len(t), u[i] = u[j]
      PROVE  i = j
  <2>1. CASE i <= Len(s) /\ j <= Len(s)
    <3>1. i \in DOMAIN s /\ j \in DOMAIN s /\ u[i] = s[i] /\ u[j] = s[j]
      BY <1>1, <1>2, <2>1 DEF u
    <3>. QED BY <1>4, <3>1 DEF IsInjective
  <2>2. CASE ~(i <= Len(s)) /\ ~(j <= Len(s))
    <3>1. /\ i - Len(s) \in DOMAIN t /\ j - Len(s) \in DOMAIN t
          /\ u[i] = t[i - Len(s)] /\ u[j] = t[j - Len(s)]
      BY <1>1, <1>2, <2>2 DEF u
    <3>2. i - Len(s) = j - Len(s)
      BY <1>4, <3>1 DEF IsInjective
    <3>. QED BY <1>1, <3>2
  <2>3. CASE i <= Len(s) /\ ~(j <= Len(s))
    <3>1. i \in DOMAIN s /\ j - Len(s) \in DOMAIN t /\ u[i] = s[i] /\ u[j] = t[j - Len(s)]
      BY <1>1, <1>2, <2>3 DEF u
    <3>. QED BY <1>4, <3>1 DEF Range
  <2>4. CASE ~(i <= Len(s)) /\ j <= Len(s)
    <3>1. j \in DOMAIN s /\ i - Len(s) \in DOMAIN t /\ u[j] = s[j] /\ u[i] = t[i - Len(s)]
      BY <1>1, <1>2, <2>4 DEF u
    <3>. QED BY <1>4, <3>1 DEF Range
  <2>. QED BY <2>1, <2>2, <2>3, <2>4
<1>. QED BY <1>3, <1>4 DEF IsInjective, u

LEMMA SplitOnce ==
  ASSUME NEW ready \in Seq(Items), NEW size \in 0 .. Len(ready), IsInjective(ready)
  PROVE  /\ IsInjective(SubSeq(ready, 1, size))
         /\ IsInjective(SubSeq(ready, size + 1, Len(ready)))
         /\ Range(SubSeq(ready, 1, size)) \cap Range(SubSeq(ready, size + 1, Len(ready))) = {}
<1>. DEFINE n == Len(ready)
            front == SubSeq(ready, 1, size)
            rest == SubSeq(ready, size + 1, n)
<1>1. /\ n \in Nat /\ size \in Nat /\ size <= n /\ DOMAIN ready = 1 .. n
      /\ \A i \in 1 .. n : ready[i] \in Items
  BY LenProperties, ElementOfSeq
<1>2. /\ DOMAIN front = 1 .. size
      /\ \A i \in 1 .. size : front[i] = ready[i]
  <2>1. \A i \in 1 .. size : ready[i] \in Items
    BY <1>1
  <2>2. front \in Seq(Items) /\ Len(front) = size /\ \A i \in 1 .. size : front[i] = ready[i]
    BY <1>1, <2>1, SubSeqProperties
  <2>. QED BY <2>2, LenProperties
<1>3. /\ DOMAIN rest = 1 .. n - size
      /\ \A i \in 1 .. n - size : rest[i] = ready[size + i]
  <2>1. \A i \in size + 1 .. n : ready[i] \in Items
    BY <1>1
  <2>2. size + 1 \in Int /\ n \in Int
    BY <1>1
  <2>3. /\ rest \in Seq(Items)
        /\ Len(rest) = IF size + 1 <= n THEN n - (size + 1) + 1 ELSE 0
        /\ \A i \in 1 .. n - (size + 1) + 1 : rest[i] = ready[size + 1 + i - 1]
    BY <2>1, <2>2, SubSeqProperties
  <2>. HIDE DEF rest, n
  <2>4. Len(rest) = n - size /\ n - (size + 1) + 1 = n - size
    BY <1>1, <2>3
  <2>5. DOMAIN rest = 1 .. n - size
    BY <2>3, <2>4, LenProperties
  <2>6. \A i \in 1 .. n - size : size + 1 + i - 1 = size + i
    BY <1>1
  <2>. QED BY <2>3, <2>4, <2>5, <2>6
<1>. HIDE DEF front, rest, n
<1>4. \A i, j \in 1 .. n : ready[i] = ready[j] => i = j
  BY <1>1 DEF IsInjective
<1>5. IsInjective(front)
  <2>1. \A i \in 1 .. size : i \in 1 .. n
    BY <1>1
  <2>. QED BY <1>2, <1>4, <2>1 DEF IsInjective
<1>6. IsInjective(rest)
  <2>1. ASSUME NEW i \in 1 .. n - size, NEW j \in 1 .. n - size, rest[i] = rest[j] PROVE i = j
    <3>1. size + i \in 1 .. n /\ size + j \in 1 .. n /\ ready[size + i] = ready[size + j]
      BY <1>1, <1>3, <2>1
    <3>2. size + i = size + j
      BY <1>4, <3>1
    <3>. QED BY <1>1, <3>2
  <2>. QED BY <1>3, <2>1 DEF IsInjective
<1>7. ASSUME NEW x \in Range(front), x \in Range(rest) PROVE FALSE
  <2>1. PICK i \in 1 .. size : x = front[i]
    BY <1>2 DEF Range
  <2>2. PICK j \in 1 .. n - size : x = rest[j]
    BY <1>3, <1>7 DEF Range
  <2>3. i \in 1 .. n /\ size + j \in 1 .. n /\ i # size + j
    BY <1>1
  <2>4. ready[i] = ready[size + j]
    BY <1>2, <1>3, <2>1, <2>2
  <2>. QED BY <1>4, <2>3, <2>4
<1>8. Range(front) \cap Range(rest) = {}
  BY <1>7
<1>. QED BY <1>5, <1>6, <1>8 DEF front, rest, n

LEMMA PublishOnce ==
  ASSUME NEW k \in Collections, Shown(k), NEW page \in Pages,
         IsInjective(page.items), Range(page.items) \subseteq k.seen,
         Range(page.items) \cap (PublishedIn(k) \cup Range(k.ready)) = {}
  PROVE  Shown(Publish(k, page))
<1>. DEFINE p == Publish(k, page)
<1>1. /\ p \in Collections /\ p.pages = Append(k.pages, page) /\ p.seen = k.seen
  BY PublishType
<1>2. p.ready = k.ready \/ p.ready = << >>
  BY DEF Publish, Collections
<1>. HIDE DEF p
<1>3. IsInjective(p.ready) /\ Range(p.ready) \subseteq Range(k.ready)
  BY <1>2, EmptyOnce DEF Shown, Once
<1>4. PublishedIn(p) = PublishedIn(k) \cup Range(page.items)
  BY <1>1, PublishedAfter
<1>5. /\ Len(k.pages) \in Nat /\ DOMAIN k.pages = 1 .. Len(k.pages)
      /\ DOMAIN p.pages = 1 .. Len(k.pages) + 1
      /\ p.pages[Len(k.pages) + 1] = page
      /\ \A i \in DOMAIN k.pages : p.pages[i] = k.pages[i]
  <2>1. k.pages \in Seq(Pages)
    BY DEF Collections
  <2>2. /\ Append(k.pages, page) \in Seq(Pages)
        /\ Len(Append(k.pages, page)) = Len(k.pages) + 1
        /\ Append(k.pages, page)[Len(k.pages) + 1] = page
        /\ \A i \in 1 .. Len(k.pages) : Append(k.pages, page)[i] = k.pages[i]
    BY <2>1, AppendProperties
  <2>. QED BY <1>1, <2>1, <2>2, LenProperties
<1>6. \A i \in DOMAIN k.pages : Range(k.pages[i].items) \subseteq PublishedIn(k)
  BY DEF PublishedIn, Range
<1>7. ASSUME NEW i \in DOMAIN p.pages
      PROVE  /\ IsInjective(p.pages[i].items)
             /\ Range(p.pages[i].items) \cap Range(p.ready) = {}
             /\ i \in DOMAIN k.pages \/ i = Len(k.pages) + 1
  <2>1. CASE i \in DOMAIN k.pages
    BY <1>3, <1>5, <2>1 DEF Shown, Once
  <2>2. CASE i = Len(k.pages) + 1
    BY <1>3, <1>5, <2>2
  <2>. QED BY <1>5, <2>1, <2>2
<1>8. ASSUME NEW i \in DOMAIN p.pages, NEW j \in DOMAIN p.pages, i # j
      PROVE  Range(p.pages[i].items) \cap Range(p.pages[j].items) = {}
  <2>1. CASE i \in DOMAIN k.pages /\ j \in DOMAIN k.pages
    BY <1>5, <1>8, <2>1 DEF Shown, Once
  <2>2. CASE i \notin DOMAIN k.pages
    BY <1>5, <1>6, <1>7, <1>8, <2>2
  <2>3. CASE j \notin DOMAIN k.pages
    BY <1>5, <1>6, <1>7, <1>8, <2>3
  <2>. QED BY <2>1, <2>2, <2>3
<1>9. Once(p)
  BY <1>3, <1>7, <1>8 DEF Once
<1>10. PublishedIn(p) \cup Range(p.ready) \subseteq p.seen
  BY <1>1, <1>3, <1>4 DEF Shown
<1>. QED BY <1>9, <1>10 DEF Shown, p

LEMMA FailureOnce ==
  ASSUME NEW k \in Collections, Shown(k)
  PROVE  Shown(Publish(k, Failure))
<1>1. Failure.items = << >> /\ Failure \in Pages
  BY FailureType DEF Failure
<1>. QED BY <1>1, EmptyOnce, PublishOnce

LEMMA SameShown ==
  ASSUME NEW k, NEW p, Shown(k), p.pages = k.pages, p.seen = k.seen, p.ready = k.ready
  PROVE  Shown(p)
BY DEF Shown, Once, PublishedIn

LEMMA NewShown ==
  ASSUME NEW b \in BOOLEAN
  PROVE  Shown(NewCollection(b))
<1>. DEFINE k == NewCollection(b)
<1>1. k.pages = << >> /\ k.ready = << >> /\ k.seen = {}
  BY DEF NewCollection
<1>. HIDE DEF k
<1>2. PublishedIn(k) = {}
  BY <1>1, EmptyOnce DEF PublishedIn
<1>3. Shown(k)
  BY <1>1, <1>2, EmptyOnce DEF Shown, Once
<1>. QED BY <1>3 DEF k

LEMMA ShownElsewhere ==
  ASSUME IInv, OnceInv, NEW t \in Sessions, NEW k, Shown(k),
         session' = [session EXCEPT ![t] = k]
  PROVE  OnceInv'
<1>1. \A s \in Sessions : session'[s] = k \/ session'[s] = session[s]
  BY DEF IInv, TypeInv
<1>. QED BY <1>1 DEF OnceInv, Shown

LEMMA EnterOnce ==
  ASSUME IInv, OnceInv, NEW c \in Clients, EnterSession(c)
  PROVE  OnceInv'
<1>. DEFINE s == call[c].of
            k == session[s]
<1>1. s \in Sessions /\ k \in Collections /\ Shown(k)
  BY DEF EnterSession, OnceInv, Shown, IInv, TypeInv
<1>2. CASE session' = session
  BY <1>2 DEF OnceInv
<1>3. CASE session' = [session EXCEPT ![s] = Publish(@, Failure)]
  <2>1. Shown(Publish(k, Failure))
    BY <1>1, FailureOnce
  <2>2. session' = [session EXCEPT ![s] = Publish(k, Failure)]
    BY <1>3
  <2>. QED BY <1>1, <2>1, <2>2, ShownElsewhere
<1>4. CASE session' = [session EXCEPT ![s].inFlight = TRUE]
  <2>. DEFINE p == [k EXCEPT !.inFlight = TRUE]
  <2>1. p.pages = k.pages /\ p.seen = k.seen /\ p.ready = k.ready
    BY <1>1 DEF Collections
  <2>2. session' = [session EXCEPT ![s] = p]
    BY <1>1, <1>4 DEF IInv, TypeInv
  <2>. HIDE DEF p
  <2>3. Shown(p)
    BY <1>1, <2>1, SameShown
  <2>. QED BY <1>1, <2>2, <2>3, ShownElsewhere
<1>. QED BY <1>2, <1>3, <1>4 DEF EnterSession

LEMMA FetchOnce ==
  ASSUME IInv, OnceInv, NEW c \in Clients, NEW batch \in SUBSET Items,
         NEW last \in BOOLEAN, FetchPage(c, batch, last)
  PROVE  OnceInv'
<1>0. PICK s \in Sessions : s = call[c].of
  BY Advancing DEF FetchPage, Fetching
<1>1. PICK k \in Collections : k = session[s]
  BY <1>0, Advancing DEF FetchPage, Fetching
<1>. DEFINE f == Fetched(k, batch, last)
            fresh == batch \ k.seen
<1>2. session' = [session EXCEPT ![s] = f]
  BY <1>0, <1>1 DEF FetchPage
<1>3. Shown(k)
  BY <1>1 DEF OnceInv, Shown
<1>4. IsFiniteSet(fresh) /\ fresh \subseteq Items
  BY SearchAssumption, FS_Subset
<1>5. /\ f.seen = k.seen \cup batch /\ f.pages = k.pages
      /\ Range(f.ready) = Range(k.ready) \cup fresh
  <2>1. f.seen = k.seen \cup batch
    BY FetchedType
  <2>2. f.pages = k.pages
    BY FetchedType
  <2>3. Range(f.ready) = Range(k.ready) \cup (batch \ k.seen)
    BY <1>1, FetchedType
  <2>. QED BY <2>1, <2>2, <2>3
<1>6. f.ready = k.ready \o SetToSeq(fresh)
  BY DEF Fetched, Bounded, Fresh, Collections
<1>. HIDE DEF f, fresh
<1>7. IsInjective(f.ready)
  <2>1. /\ k.ready \in Seq(Items) /\ SetToSeq(fresh) \in Seq(Items)
        /\ Range(SetToSeq(fresh)) = fresh
    BY <1>4, SetToSeqType, SeqMonotonic DEF Collections
  <2>2. Range(k.ready) \cap fresh = {}
    BY <1>3 DEF Shown, fresh
  <2>. QED BY <1>3, <1>4, <1>6, <2>1, <2>2, SetToSeqOnce, ConcatenationOnce DEF Shown, Once
<1>8. PublishedIn(f) = PublishedIn(k)
  BY <1>5 DEF PublishedIn
<1>9. \A i \in DOMAIN k.pages : Range(k.pages[i].items) \subseteq k.seen
  BY <1>3 DEF Shown, PublishedIn, Range
<1>10. Once(f)
  <2>1. \A i \in DOMAIN k.pages : Range(k.pages[i].items) \cap fresh = {}
    BY <1>9 DEF fresh
  <2>. QED BY <1>3, <1>5, <1>7, <2>1 DEF Shown, Once
<1>11. Shown(f)
  BY <1>3, <1>5, <1>8, <1>10 DEF Shown, fresh
<1>. QED BY <1>2, <1>11, ShownElsewhere

LEMMA FetchFailsOnce ==
  ASSUME IInv, OnceInv, NEW c \in Clients, FetchFails(c)
  PROVE  OnceInv'
<1>. DEFINE s == call[c].of
            k == session[s]
            n == k.fetched + 1
            f == [k EXCEPT !.fetched = n, !.ended = TRUE]
<1>1. k \in Collections /\ s \in Sessions /\ Shown(k)
  BY Advancing DEF FetchFails, Fetching, OnceInv, Shown
<1>2. CASE Leave(c, k, Failure)
  <2>1. session' = [session EXCEPT ![s] = Publish(k, Failure)]
    BY <1>2 DEF Leave
  <2>. QED BY <1>1, <2>1, FailureOnce, ShownElsewhere
<1>3. CASE session' = [session EXCEPT ![s].fetched = @ + 1, ![s].ended = TRUE]
  <2>1. session' = [session EXCEPT ![s] = f]
    BY <1>1, <1>3 DEF IInv, TypeInv
  <2>. HIDE DEF n
  <2>2. f.pages = k.pages /\ f.seen = k.seen /\ f.ready = k.ready
    BY <1>1 DEF Collections
  <2>. HIDE DEF f
  <2>. QED BY <1>1, <2>1, <2>2, SameShown, ShownElsewhere
<1>. QED BY <1>2, <1>3 DEF FetchFails

LEMMA BuildOnce ==
  ASSUME IInv, OnceInv, NEW c \in Clients, BuildPage(c)
  PROVE  OnceInv'
<1>. DEFINE s == call[c].of
            k == session[s]
            n == Len(k.ready)
            size == IF Limit < n THEN Limit ELSE n
            front == SubSeq(k.ready, 1, size)
            rest == SubSeq(k.ready, size + 1, n)
            j == [k EXCEPT !.ready = rest]
            page == Page(front, More(k, rest))
<1>1. s \in Sessions /\ k \in Collections /\ Shown(k)
  BY Advancing DEF BuildPage, OnceInv, Shown
<1>2. k.ready \in Seq(Items) /\ size \in 0 .. n
  BY <1>1, LenProperties, Bounds DEF Collections
<1>3. /\ front \in Seq(Items) /\ rest \in Seq(Items)
      /\ Range(k.ready) = Range(front) \cup Range(rest)
  BY <1>2, Split
<1>4. IsInjective(front) /\ IsInjective(rest) /\ Range(front) \cap Range(rest) = {}
  BY <1>1, <1>2, SplitOnce DEF Shown, Once
<1>5. page \in Pages /\ page.items = front
  BY <1>3, PageType DEF More, Page
<1>6. session' = [session EXCEPT ![s] = Publish(j, page)]
  BY DEF BuildPage, Leave
<1>. HIDE DEF front, rest, page
<1>7. j \in Collections /\ j.ready = rest /\ j.seen = k.seen /\ j.pages = k.pages
  BY <1>1, <1>3 DEF Collections
<1>. HIDE DEF j
<1>8. PublishedIn(j) = PublishedIn(k)
  BY <1>7 DEF PublishedIn
<1>9. \A i \in DOMAIN k.pages : Range(k.pages[i].items) \subseteq PublishedIn(k)
  BY DEF PublishedIn, Range
<1>10. PublishedIn(k) \cap Range(k.ready) = {}
  <2>1. ASSUME NEW x \in PublishedIn(k), x \in Range(k.ready) PROVE FALSE
    <3>1. PICK i \in DOMAIN k.pages : x \in Range(k.pages[i].items)
      BY DEF PublishedIn, Range
    <3>. QED BY <1>1, <2>1, <3>1 DEF Shown, Once
  <2>. QED BY <2>1
<1>11. Shown(j)
  BY <1>1, <1>3, <1>4, <1>7, <1>8 DEF Shown, Once
<1>12. /\ IsInjective(page.items) /\ Range(page.items) \subseteq j.seen
       /\ Range(page.items) \cap (PublishedIn(j) \cup Range(j.ready)) = {}
  BY <1>1, <1>3, <1>4, <1>5, <1>7, <1>8, <1>10 DEF Shown
<1>. QED BY <1>1, <1>5, <1>6, <1>7, <1>11, <1>12, PublishOnce, ShownElsewhere

LEMMA NextOnce == IInv /\ OnceInv /\ [Next]_vars => OnceInv'
<1>. SUFFICES ASSUME IInv, OnceInv, [Next]_vars PROVE OnceInv'
  OBVIOUS
<1>1. CASE session' = session
  BY <1>1 DEF OnceInv
<1>2. ASSUME NEW c \in Clients, Deadline(c) PROVE OnceInv'
  <2>1. CASE AtAwait(c) /\ Leave(c, session[call[c].of], Failure)
    <3>1. call[c].of \in Sessions /\ session[call[c].of] \in Collections
      BY <2>1, Advancing DEF AtAwait
    <3>2. session' = [session EXCEPT ![call[c].of] = Publish(session[call[c].of], Failure)]
      BY <2>1 DEF Leave
    <3>. QED BY <3>1, <3>2, FailureOnce, ShownElsewhere DEF OnceInv, Shown
  <2>. QED BY <1>1, <1>2, <2>1 DEF Deadline
<1>3. ASSUME NEW c \in Clients, NEW s \in Sessions, NEW b \in BOOLEAN,
             BeginSearch(c, s, b)
      PROVE  OnceInv'
  <2>1. session' = [session EXCEPT ![s] = NewCollection(b)]
    BY <1>3 DEF BeginSearch
  <2>. QED BY <2>1, NewShown, ShownElsewhere
<1>4. ASSUME NEW c \in Clients, Step(c) PROVE OnceInv'
  BY <1>1, <1>2, <1>4, EnterOnce, FetchOnce, FetchFailsOnce, BuildOnce DEF Step, Register
<1>. QED BY <1>1, <1>3, <1>4 DEF Next, BeginPage, Drop, Expire, vars

(* However often the source repeats itself, and whoever asks for the next  *)
(* page, a session publishes an item once (engine/session.rs, advance).    *)
THEOREM ItemsAppearOnce == Spec => []NoItemTwice
<1>1. Init => OnceInv
  <2>1. Shown(NewCollection(FALSE))
    <3>1. FALSE \in BOOLEAN
      OBVIOUS
    <3>. QED BY ONLY <3>1, NewShown
  <2>2. ASSUME Init PROVE \A s \in Sessions : session[s] = NewCollection(FALSE)
    BY <2>2 DEF Init
  <2>3. ASSUME Init PROVE \A s \in Sessions : Shown(session[s])
    BY <2>1, <2>2, <2>3
  <2>. QED BY <2>3 DEF OnceInv
<1>2. OnceInv => NoItemTwice
  BY DEF OnceInv, Shown, NoItemTwice
<1>. QED BY <1>1, <1>2, InitIInv, NextIInv, NextOnce, PTL DEF Spec
-----------------------------------------------------------------------------
(***************************************************************************)
(* The table.  A session that is not registered belongs to the call that   *)
(* started it, which has published nothing until it registers.             *)
(***************************************************************************)
Owns(c) == call[c].first \/ call[c].at = "registering"

OwnInv(c) ==
  /\ call[c].first => /\ call[c].at \in {"locking", "advancing"}
                      /\ session[call[c].of].pages = << >>
  /\ call[c].at = "registering" => LET pages == session[call[c].of].pages
                                   IN Len(pages) = 1 /\ pages[1].more
  /\ Owns(c) => /\ call[c].of \in Sessions
                /\ call[c].of \notin Range(entries)
                /\ \A d \in Clients : d # c => call[d].of # call[c].of

TableInv ==
  /\ IsLine(entries, Sessions)
  /\ \A c \in Clients : OwnInv(c)

(* A step of a call that leaves the table alone, and what it does not own. *)
LEMMA TableKept ==
  ASSUME TypeInv, TableInv, NEW c \in Clients, entries' = entries,
         \A d \in Clients : d # c => call'[d] = call[d],
         call'[c].of \in {None, call[c].of},
         Owns(c)' => Owns(c) /\ call'[c].of = call[c].of,
         \A t \in Sessions : t # call[c].of => session'[t] = session[t],
         call'[c].first => /\ call'[c].at \in {"locking", "advancing"}
                           /\ session'[call'[c].of].pages = << >>,
         call'[c].at = "registering" => LET pages == session'[call'[c].of].pages
                                        IN Len(pages) = 1 /\ pages[1].more
  PROVE  TableInv'
<1>1. ASSUME NEW d \in Clients, d # c PROVE OwnInv(d)'
  <2>1. OwnInv(d) /\ call'[d] = call[d] /\ (Owns(d)' <=> Owns(d))
    BY <1>1 DEF TableInv, Owns
  <2>2. CASE ~Owns(d)
    BY <2>1, <2>2 DEF OwnInv, Owns
  <2>3. CASE Owns(d)
    <3>1. call[d].of \in Sessions /\ call[d].of # call[c].of /\ call[d].of # None
      BY <1>1, <2>1, <2>3, SearchAssumption DEF OwnInv
    <3>2. session'[call[d].of] = session[call[d].of]
      BY <3>1
    <3>3. \A e \in Clients : e # d => call'[e].of # call[d].of
      BY <2>1, <2>3, <3>1 DEF OwnInv
    <3>. QED BY <2>1, <2>3, <3>2, <3>3 DEF OwnInv, Owns
  <2>. QED BY <2>2, <2>3
<1>2. OwnInv(c)'
  <2>1. OwnInv(c)
    BY DEF TableInv
  <2>2. Owns(c)' => /\ call'[c].of \in Sessions /\ call'[c].of \notin Range(entries')
                    /\ \A d \in Clients : d # c => call'[d].of # call'[c].of
    BY <2>1 DEF OwnInv
  <2>. QED BY <2>2 DEF OwnInv
<1>. QED BY <1>1, <1>2 DEF TableInv

(* A call that is over owns nothing.                                       *)
LEMMA TableAnswered ==
  ASSUME TypeInv, TableInv, NEW c \in Clients, entries' = entries, Answer(c),
         \A t \in Sessions : t # call[c].of => session'[t] = session[t]
  PROVE  TableInv'
<1>1. /\ call'[c] = Idle /\ \A d \in Clients : d # c => call'[d] = call[d]
  BY DEF Answer, TypeInv
<1>2. Idle.of = None /\ ~Idle.first /\ Idle.at = "idle"
  BY DEF Idle
<1>3. ~Owns(c)'
  BY <1>1, <1>2 DEF Owns
<1>. QED BY <1>1, <1>2, <1>3, TableKept

LEMMA LeaveTable ==
  ASSUME IInv, TableInv, NEW c \in Clients, call[c].at = "advancing",
         NEW k \in Collections, k.pages = session[call[c].of].pages,
         NEW page \in Pages, Leave(c, k, page)
  PROVE  TableInv'
<1>0. PICK s \in Sessions : s = call[c].of
  BY Advancing
<1>. DEFINE p == Publish(k, page)
            r == [Idle EXCEPT !.at = "registering", !.of = s]
<1>1. p.pages = Append(k.pages, page)
  BY PublishType
<1>2. /\ session' = [session EXCEPT ![s] = p] /\ entries' = entries
      /\ IF Registers(c, page) THEN call' = [call EXCEPT ![c] = r] ELSE Answer(c)
  BY <1>0 DEF Leave
<1>3. r.at = "registering" /\ r.of = s /\ ~r.first
  BY DEF Idle
<1>. HIDE DEF p, r
<1>4. \A t \in Sessions : t # call[c].of => session'[t] = session[t]
  BY <1>0, <1>2 DEF IInv, TypeInv
<1>5. CASE ~Registers(c, page)
  BY <1>2, <1>4, <1>5, TableAnswered DEF IInv
<1>6. CASE Registers(c, page)
  <2>1. call'[c] = r /\ \A d \in Clients : d # c => call'[d] = call[d]
    BY <1>2, <1>6 DEF IInv, TypeInv
  <2>2. call[c].first /\ page.more
    BY <1>6 DEF Registers
  <2>3. k.pages = << >>
    BY <2>2 DEF TableInv, OwnInv
  <2>4. session'[s] = p
    BY <1>2 DEF IInv, TypeInv
  <2>5. p.pages = <<page>>
    BY <1>1, <2>3
  <2>6. Len(p.pages) = 1 /\ p.pages[1].more
    BY <2>2, <2>5
  <2>. QED BY <1>0, <1>2, <1>3, <1>4, <2>1, <2>2, <2>4, <2>6, TableKept DEF Owns, IInv
<1>. QED BY <1>5, <1>6

(* A call that goes on in its session, whose pages stay.                   *)
LEMMA GoesOnTable ==
  ASSUME IInv, TableInv, NEW c \in Clients, NEW r, call' = [call EXCEPT ![c] = r],
         r.of = call[c].of, r.first = call[c].first, call[c].of \in Sessions,
         r.at = "advancing", entries' = entries,
         NEW k, k.pages = session[call[c].of].pages,
         session' = [session EXCEPT ![call[c].of] = k]
  PROVE  TableInv'
<1>1. /\ call'[c] = r /\ \A d \in Clients : d # c => call'[d] = call[d]
      /\ session'[call[c].of] = k
      /\ \A t \in Sessions : t # call[c].of => session'[t] = session[t]
  BY DEF IInv, TypeInv
<1>2. OwnInv(c)
  BY DEF TableInv
<1>. QED BY <1>1, <1>2, TableKept DEF Owns, OwnInv, IInv

LEMMA EnterTable ==
  ASSUME IInv, TableInv, NEW c \in Clients, EnterSession(c)
  PROVE  TableInv'
<1>. DEFINE s == call[c].of
            k == session[s]
<1>1. s \in Sessions /\ k \in Collections /\ call[c] \in Calls /\ entries' = entries
  BY DEF EnterSession, IInv, TypeInv
<1>2. CASE /\ Answer(c)
           /\ session' = session \/ session' = [session EXCEPT ![s] = Publish(@, Failure)]
  <2>1. \A t \in Sessions : t # s => session'[t] = session[t]
    BY <1>1, <1>2 DEF IInv, TypeInv
  <2>. QED BY <1>1, <1>2, <2>1, TableAnswered DEF IInv
<1>3. CASE /\ session' = [session EXCEPT ![s].inFlight = TRUE]
           /\ call' = [call EXCEPT ![c].at = "advancing", ![c].permit = NeedsSource(s)]
  <2>. DEFINE p == [k EXCEPT !.inFlight = TRUE]
              n == NeedsSource(s)
              r == [call[c] EXCEPT !.at = "advancing", !.permit = n]
  <2>1. session' = [session EXCEPT ![s] = p] /\ p.pages = k.pages
    BY <1>1, <1>3 DEF IInv, TypeInv, Collections
  <2>2. call' = [call EXCEPT ![c] = r]
    BY <1>3 DEF IInv, TypeInv
  <2>. HIDE DEF n
  <2>3. r.at = "advancing" /\ r.of = call[c].of /\ r.first = call[c].first
    BY <1>1 DEF Calls
  <2>. HIDE DEF p, r
  <2>. QED BY <1>1, <2>1, <2>2, <2>3, GoesOnTable
<1>. QED BY <1>2, <1>3 DEF EnterSession

LEMMA FetchTable ==
  ASSUME IInv, TableInv, NEW c \in Clients, call[c].at = "advancing", entries' = entries,
         call' = [call EXCEPT ![c].requests = @ + 1],
         NEW k, k.pages = session[call[c].of].pages,
         session' = [session EXCEPT ![call[c].of] = k]
  PROVE  TableInv'
<1>. DEFINE n == call[c].requests + 1
            r == [call[c] EXCEPT !.requests = n]
<1>1. call[c].of \in Sessions /\ call[c] \in Calls
  BY Advancing DEF IInv, TypeInv
<1>2. call' = [call EXCEPT ![c] = r]
  BY DEF IInv, TypeInv
<1>. HIDE DEF n
<1>3. r.at = "advancing" /\ r.of = call[c].of /\ r.first = call[c].first
  BY <1>1 DEF Calls
<1>. HIDE DEF r
<1>. QED BY <1>1, <1>2, <1>3, GoesOnTable

LEMMA FetchFailsTable ==
  ASSUME IInv, TableInv, NEW c \in Clients, FetchFails(c)
  PROVE  TableInv'
<1>. DEFINE s == call[c].of
            k == session[s]
            n == k.fetched + 1
            f == [k EXCEPT !.fetched = n, !.ended = TRUE]
<1>1. call[c].at = "advancing" /\ k \in Collections /\ s \in Sessions
  BY Advancing DEF FetchFails, Fetching
<1>2. CASE Leave(c, k, Failure)
  BY <1>1, <1>2, FailureType, LeaveTable
<1>3. CASE /\ session' = [session EXCEPT ![s].fetched = @ + 1, ![s].ended = TRUE]
           /\ call' = [call EXCEPT ![c].requests = @ + 1] /\ entries' = entries
  <2>1. session' = [session EXCEPT ![s] = f]
    BY <1>1, <1>3 DEF IInv, TypeInv
  <2>. HIDE DEF n
  <2>2. f.pages = k.pages
    BY <1>1 DEF Collections
  <2>. HIDE DEF f
  <2>. QED BY <1>1, <1>3, <2>1, <2>2, FetchTable
<1>. QED BY <1>2, <1>3 DEF FetchFails

LEMMA BuildTable ==
  ASSUME IInv, TableInv, NEW c \in Clients, BuildPage(c)
  PROVE  TableInv'
<1>. DEFINE k == session[call[c].of]
            n == Len(k.ready)
            size == IF Limit < n THEN Limit ELSE n
            front == SubSeq(k.ready, 1, size)
            rest == SubSeq(k.ready, size + 1, n)
            j == [k EXCEPT !.ready = rest]
            page == Page(front, More(k, rest))
<1>1. call[c].at = "advancing" /\ k \in Collections
  BY Advancing DEF BuildPage
<1>2. k.ready \in Seq(Items) /\ size \in 0 .. n
  BY <1>1, LenProperties, Bounds DEF Collections
<1>3. front \in Seq(Items) /\ rest \in Seq(Items)
  BY <1>2, Split
<1>4. page \in Pages
  BY <1>3, PageType DEF More
<1>5. Leave(c, j, page)
  BY DEF BuildPage
<1>. HIDE DEF front, rest, page
<1>6. j \in Collections /\ j.pages = k.pages
  BY <1>1, <1>3 DEF Collections
<1>. HIDE DEF j
<1>. QED BY <1>1, <1>4, <1>5, <1>6, LeaveTable

LEMMA BeginSearchTable ==
  ASSUME IInv, TableInv, NEW c \in Clients, NEW s \in Sessions, NEW b \in BOOLEAN,
         BeginSearch(c, s, b)
  PROVE  TableInv'
<1>. DEFINE r == [Idle EXCEPT !.at = "locking", !.of = s, !.first = TRUE]
<1>1. /\ session' = [session EXCEPT ![s] = NewCollection(b)] /\ entries' = entries
      /\ call' = [call EXCEPT ![c] = r] /\ Free(s)
  BY DEF BeginSearch
<1>2. r.at = "locking" /\ r.of = s /\ r.first
  BY DEF Idle
<1>. HIDE DEF r
<1>3. /\ call'[c] = r /\ \A d \in Clients : d # c => call'[d] = call[d]
      /\ session'[s] = NewCollection(b)
      /\ \A t \in Sessions : t # s => session'[t] = session[t]
  BY <1>1 DEF IInv, TypeInv
<1>4. ASSUME NEW d \in Clients, d # c PROVE OwnInv(d)'
  <2>1. OwnInv(d) /\ call'[d] = call[d] /\ call[d].of # s /\ (Owns(d)' <=> Owns(d))
    BY <1>1, <1>3, <1>4 DEF TableInv, Owns, Free
  <2>2. Owns(d) => session'[call[d].of] = session[call[d].of]
    BY <1>3, <2>1 DEF OwnInv
  <2>3. Owns(d) => \A e \in Clients : e # d => call'[e].of # call[d].of
    BY <1>2, <1>3, <2>1 DEF OwnInv
  <2>. QED BY <1>1, <2>1, <2>2, <2>3 DEF OwnInv, Owns
<1>5. OwnInv(c)'
  <2>1. NewCollection(b).pages = << >>
    BY DEF NewCollection
  <2>. QED BY <1>1, <1>2, <1>3, <2>1 DEF OwnInv, Free
<1>. QED BY <1>1, <1>4, <1>5 DEF TableInv

LEMMA BeginPageTable ==
  ASSUME IInv, TableInv, NEW c \in Clients, NEW s \in Sessions, NEW index, BeginPage(c, s, index)
  PROVE  TableInv'
<1>. DEFINE r == [Idle EXCEPT !.at = "locking", !.of = s, !.index = index]
<1>1. /\ session' = session /\ entries' = entries /\ s \in Range(entries)
      /\ call' = [call EXCEPT ![c] = r]
  BY DEF BeginPage
<1>2. r.at = "locking" /\ r.of = s /\ ~r.first
  BY DEF Idle
<1>. HIDE DEF r
<1>3. call'[c] = r /\ \A d \in Clients : d # c => call'[d] = call[d]
  BY <1>1 DEF IInv, TypeInv
<1>4. ASSUME NEW d \in Clients, d # c PROVE OwnInv(d)'
  <2>1. OwnInv(d) /\ call'[d] = call[d] /\ (Owns(d)' <=> Owns(d))
    BY <1>3, <1>4 DEF TableInv, Owns
  <2>2. Owns(d) => \A e \in Clients : e # d => call'[e].of # call[d].of
    BY <1>1, <1>2, <1>3, <2>1 DEF OwnInv
  <2>. QED BY <1>1, <2>1, <2>2 DEF OwnInv, Owns
<1>5. OwnInv(c)'
  BY <1>2, <1>3 DEF OwnInv, Owns
<1>. QED BY <1>1, <1>4, <1>5 DEF TableInv

(* The table after a registration: those that live, and the new one.       *)
LEMMA RegisterTable ==
  ASSUME IInv, TableInv, NEW c \in Clients, Register(c)
  PROVE  /\ TableInv'
         /\ \A s \in Range(entries') \ Range(entries) :
              Len(session[s].pages) = 1 /\ session[s].pages[1].more
<1>. DEFINE K == {i \in DOMAIN entries : entries[i] \notin expired}
            live == Picked(entries, K)
            s == call[c].of
<1>1. /\ entries' = Append(Evict(live), s) /\ Answer(c) /\ session' = session
      /\ call[c].at = "registering"
  BY DEF Register
<1>2. /\ s \in Sessions /\ s \notin Range(entries)
      /\ Len(session[s].pages) = 1 /\ session[s].pages[1].more
  BY <1>1 DEF TableInv, OwnInv, Owns
<1>3. IsLine(entries, Sessions) /\ DOMAIN entries = 1 .. Len(entries)
  BY LenProperties DEF TableInv, IsLine
<1>4. IsLine(live, Sessions) /\ ToSet(live) = {entries[k] : k \in K}
  <2>1. K \in SUBSET (1 .. Len(entries))
    BY <1>3
  <2>. HIDE DEF K
  <2>. QED BY <1>3, <2>1, LinePicked
<1>5. ToSet(live) \subseteq Range(entries)
  BY <1>4 DEF Range
<1>. HIDE DEF live, K
<1>6. IsLine(Evict(live), Sessions) /\ ToSet(Evict(live)) \subseteq Range(entries)
  <2>1. CASE Len(live) >= MaxEntries
    <3>1. live # << >>
      <4>1. Len(live) \in Nat /\ MaxEntries \in Nat \ {0}
        BY <1>4, LenProperties, SearchAssumption DEF IsLine
      <4>. QED BY <2>1, <4>1
    <3>. QED BY <1>4, <1>5, <2>1, <3>1, LineServed DEF Evict
  <2>2. CASE ~(Len(live) >= MaxEntries)
    BY <1>4, <1>5, <2>2 DEF Evict
  <2>. QED BY <2>1, <2>2
<1>. DEFINE e == Append(Evict(live), s)
<1>7. IsLine(e, Sessions) /\ ToSet(e) = ToSet(Evict(live)) \cup {s}
  BY <1>2, <1>6, LineJoined
<1>8. Range(entries') \subseteq Range(entries) \cup {s}
  <2>1. Range(e) = ToSet(e)
    BY DEF Range, ToSet
  <2>. QED BY <1>1, <1>6, <1>7, <2>1
<1>9. /\ call'[c] = Idle /\ \A d \in Clients : d # c => call'[d] = call[d]
  BY <1>1 DEF Answer, IInv, TypeInv
<1>10. Idle.of = None /\ ~Idle.first /\ Idle.at = "idle"
  BY DEF Idle
<1>11. ASSUME NEW d \in Clients, d # c PROVE OwnInv(d)'
  <2>1. OwnInv(d) /\ call'[d] = call[d] /\ (Owns(d)' <=> Owns(d))
    BY <1>9, <1>11 DEF TableInv, Owns
  <2>2. Owns(d) => /\ call[d].of \in Sessions /\ call[d].of # None
                   /\ call[d].of # s /\ call[d].of \notin Range(entries')
    BY <1>8, <1>11, <2>1, SearchAssumption DEF OwnInv
  <2>3. Owns(d) => \A f \in Clients : f # d => call'[f].of # call[d].of
    BY <1>9, <1>10, <2>1, <2>2 DEF OwnInv
  <2>. QED BY <1>1, <2>1, <2>2, <2>3 DEF OwnInv, Owns
<1>12. OwnInv(c)'
  BY <1>9, <1>10 DEF OwnInv, Owns
<1>13. TableInv'
  BY <1>1, <1>7, <1>11, <1>12 DEF TableInv
<1>. QED BY <1>2, <1>8, <1>13

LEMMA NextTable ==
  ASSUME IInv, TableInv, [Next]_vars
  PROVE  /\ TableInv'
         /\ \A s \in Range(entries') \ Range(entries) :
              Len(session[s].pages) = 1 /\ session[s].pages[1].more
<1>1. ASSUME NEW c \in Clients, FetchFails(c) PROVE TableInv' /\ entries' = entries
  BY <1>1, FetchFailsTable DEF FetchFails, Leave
<1>2. ASSUME NEW c \in Clients, NEW batch \in SUBSET Items, NEW last \in BOOLEAN,
             FetchPage(c, batch, last)
      PROVE  TableInv' /\ entries' = entries
  <2>1. call[c].at = "advancing"
    BY <1>2 DEF FetchPage, Fetching
  <2>2. session[call[c].of] \in Collections
    BY <2>1, Advancing
  <2>3. PICK k \in Collections : k = session[call[c].of]
    BY <2>2
  <2>4. Fetched(k, batch, last).pages = k.pages
    BY <2>3, FetchedType
  <2>5. /\ session' = [session EXCEPT ![call[c].of] = Fetched(k, batch, last)]
        /\ call' = [call EXCEPT ![c].requests = @ + 1] /\ entries' = entries
    BY <1>2, <2>3 DEF FetchPage
  <2>. QED BY <2>1, <2>3, <2>4, <2>5, FetchTable
<1>3. ASSUME NEW c \in Clients, Deadline(c) PROVE TableInv' /\ entries' = entries
  <2>1. CASE AtAwait(c) /\ Leave(c, session[call[c].of], Failure)
    <3>1. call[c].at = "advancing" /\ session[call[c].of] \in Collections
      BY <2>1, Advancing DEF AtAwait
    <3>. QED BY <2>1, <3>1, FailureType, LeaveTable DEF Leave
  <2>2. CASE Answer(c) /\ UNCHANGED <<entries, session, lock, expired, dropped>>
    BY <2>2, TableAnswered DEF IInv
  <2>. QED BY <1>3, <2>1, <2>2 DEF Deadline
<1>4. ASSUME NEW c \in Clients, Drop(c) PROVE TableInv' /\ entries' = entries
  BY <1>4, TableAnswered DEF Drop, IInv
<1>5. CASE UNCHANGED <<entries, session, call>>
  BY <1>5 DEF TableInv, OwnInv, Owns
<1>6. ASSUME NEW c \in Clients, EnterSession(c) \/ BuildPage(c) PROVE TableInv' /\ entries' = entries
  BY <1>6, EnterTable, BuildTable DEF EnterSession, BuildPage, Leave
<1>7. ASSUME NEW c \in Clients, NEW s \in Sessions, NEW b \in BOOLEAN, BeginSearch(c, s, b)
      PROVE  TableInv' /\ entries' = entries
  BY <1>7, BeginSearchTable DEF BeginSearch
<1>8. ASSUME NEW c \in Clients, NEW s \in Sessions, NEW index \in 0 .. MaxSourcePages,
             BeginPage(c, s, index)
      PROVE  TableInv' /\ entries' = entries
  BY <1>8, BeginPageTable DEF BeginPage
<1>9. CASE TableInv' /\ entries' = entries
  BY <1>9
<1>. QED BY <1>1, <1>2, <1>3, <1>4, <1>5, <1>6, <1>7, <1>8, RegisterTable
         DEF Next, Step, Expire, vars

(* The table holds nothing twice, and what enters it has just published    *)
(* its first page and can be continued: a session that was evicted does    *)
(* not come back, whoever still advances it (engine/session.rs,            *)
(* execute_before).                                                        *)
THEOREM EvictedStayAway == Spec => EvictedStayEvicted
<1>1. Init => TableInv
  <2>1. IsLine(<< >>, Sessions)
    BY EmptySeq DEF IsLine
  <2>2. ~Idle.first /\ Idle.at = "idle"
    BY DEF Idle
  <2>3. ASSUME Init, NEW c \in Clients PROVE OwnInv(c)
    <3>1. call[c] = Idle
      BY <2>3 DEF Init
    <3>. QED BY <2>2, <3>1 DEF OwnInv, Owns
  <2>4. ASSUME Init PROVE entries = << >>
    BY <2>4 DEF Init
  <2>. QED BY <2>1, <2>3, <2>4 DEF TableInv
<1>2. IInv /\ TableInv /\ [Next]_vars => TableInv'
  BY NextTable
<1>3. IInv /\ TableInv /\ [Next]_vars =>
        [/\ IsInjective(entries')
         /\ \A s \in Range(entries') \ Range(entries) :
              Len(session[s].pages) = 1 /\ session[s].pages[1].more]_vars
  <2>. SUFFICES ASSUME IInv, TableInv, [Next]_vars
                PROVE  /\ IsInjective(entries')
                       /\ \A s \in Range(entries') \ Range(entries) :
                            Len(session[s].pages) = 1 /\ session[s].pages[1].more
    OBVIOUS
  <2>1. IsLine(entries', Sessions)
    BY NextTable DEF TableInv
  <2>2. IsInjective(entries')
    BY <2>1, LenProperties DEF IsLine, IsInjective
  <2>. QED BY <2>2, NextTable
<1>. QED BY <1>1, <1>2, <1>3, InitIInv, NextIInv, PTL DEF Spec, EvictedStayEvicted
=============================================================================
