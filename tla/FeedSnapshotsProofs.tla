------------------------ MODULE FeedSnapshotsProofs ------------------------
(* Theorems about FeedSnapshots, for any clients, feeds, stripes and gate. *)
EXTENDS FeedSnapshots, TLAPS

Places == Waiting \cup {"idle", "answered", "rejected"}

Requests == [at : Places, feed : Feeds \cup {None}, cursor : Cursors \cup {None},
             failed : BOOLEAN, shown : Feeds \cup {None}]

(* What a request knows by the await it has reached.                       *)
WellPlaced ==
  \A c \in Clients :
    /\ call[c].at \in Waiting => call[c].feed \in Feeds
    /\ call[c].at \in {"checking", "storing", "heading"} => call[c].cursor \in Cursors

TypeInv ==
  /\ snapshot \in [Cursors -> Feeds \cup {None}]
  /\ head \in [Feeds -> Cursors \cup {None}]
  /\ flight \in [Stripes -> Clients \cup {None}]
  /\ call \in [Clients -> Requests]
  /\ stored \subseteq Cursors
  /\ issued \in [Cursors -> Feeds \cup {None}]
  /\ WellPlaced

LEMMA InitTypeInv == Init => TypeInv
BY FeedAssumption DEF Init, TypeInv, WellPlaced, Requests, Places, Waiting, Idle

LEMMA FlightReleasedType ==
  ASSUME TypeInv, NEW c \in Clients
  PROVE  FlightReleased(c) \in [Stripes -> Clients \cup {None}]
BY DEF TypeInv, FlightReleased

LEMMA AnswerType ==
  ASSUME TypeInv, NEW c \in Clients, NEW k \in Cursors \cup {None},
         NEW f \in Feeds \cup {None}, Answer(c, k, f)
  PROVE  /\ flight' \in [Stripes -> Clients \cup {None}]
         /\ call' \in [Clients -> Requests]
         /\ issued' \in [Cursors -> Feeds \cup {None}]
         /\ WellPlaced'
<1>1. call' \in [Clients -> Requests]
  BY DEF Answer, TypeInv, Requests, Places
<1>2. WellPlaced'
  BY DEF Answer, TypeInv, WellPlaced, Waiting, Requests
<1>. QED BY <1>1, <1>2, FlightReleasedType DEF Answer, TypeInv

LEMMA MissType ==
  ASSUME TypeInv, NEW c \in Clients, NEW b \in BOOLEAN, Miss(c, b),
         call[c].at \in Waiting
  PROVE  /\ flight' = flight
         /\ call' \in [Clients -> Requests]
         /\ issued' = issued
         /\ WellPlaced'
<1>1. call' \in [Clients -> Requests]
  BY DEF Miss, TypeInv, Requests, Places, Waiting
<1>2. WellPlaced'
  BY DEF Miss, TypeInv, WellPlaced, Waiting, Requests
<1>. QED BY <1>1, <1>2 DEF Miss, FlightOnMiss

LEMMA GoOnType ==
  ASSUME TypeInv, NEW c \in Clients, NEW a \in Waiting, GoOn(c, a),
         call[c].at \in Waiting,
         a \in {"checking", "storing", "heading"} => call[c].cursor \in Cursors
  PROVE  call' \in [Clients -> Requests] /\ WellPlaced'
<1>1. call' \in [Clients -> Requests]
  BY DEF GoOn, TypeInv, Requests, Places
<1>2. WellPlaced'
  BY DEF GoOn, TypeInv, WellPlaced, Requests
<1>. QED BY <1>1, <1>2

LEMMA PutType ==
  ASSUME TypeInv, NEW c \in Clients, Put(c), call[c].at = "storing"
  PROVE  /\ snapshot' \in [Cursors -> Feeds \cup {None}]
         /\ stored' \subseteq Cursors
BY DEF Put, TypeInv, WellPlaced, Waiting, Requests

LEMMA PutHeadType ==
  ASSUME TypeInv, NEW c \in Clients, PutHead(c), call[c].at = "heading"
  PROVE  head' \in [Feeds -> Cursors \cup {None}]
BY DEF PutHead, TypeInv, WellPlaced, Waiting, Requests

LEMMA AnsweredType ==
  ASSUME TypeInv, NEW c \in Clients, NEW r \in Requests, r.at \notin Waiting,
         call' = [call EXCEPT ![c] = r]
  PROVE  call' \in [Clients -> Requests] /\ WellPlaced'
<1>1. call' \in [Clients -> Requests]
  BY DEF TypeInv
<1>2. WellPlaced'
  BY DEF TypeInv, WellPlaced, Waiting
<1>. QED BY <1>1, <1>2

LEMMA IdleType == Idle \in Requests /\ Idle.at = "idle"
BY DEF Idle, Requests, Places

LEMMA CursorTakenType ==
  ASSUME TypeInv, NEW c \in Clients, NEW a \in Waiting, NEW k \in Cursors,
         call[c].at \in Waiting,
         call' = [call EXCEPT ![c].at = a, ![c].cursor = k]
  PROVE  call' \in [Clients -> Requests] /\ WellPlaced'
<1>. DEFINE r == [call[c] EXCEPT !.at = a, !.cursor = k]
<1>1. call[c] \in Requests /\ call[c].feed \in Feeds
  BY DEF TypeInv, WellPlaced
<1>2. r \in Requests /\ r.feed \in Feeds /\ r.cursor \in Cursors
  BY <1>1 DEF Requests, Places
<1>3. call' = [call EXCEPT ![c] = r]
  BY DEF TypeInv
<1>. HIDE DEF r
<1>4. call' \in [Clients -> Requests]
  BY <1>2, <1>3 DEF TypeInv
<1>5. WellPlaced'
  BY <1>2, <1>3 DEF TypeInv, WellPlaced
<1>. QED BY <1>4, <1>5

LEMMA NextTypeInv == TypeInv /\ [Next]_vars => TypeInv'
<1>. SUFFICES ASSUME TypeInv, [Next]_vars PROVE TypeInv'
  OBVIOUS
<1>1. ASSUME NEW c \in Clients, NEW f \in Feeds, NEW k \in Cursors, ReadPage(c, f, k)
      PROVE  TypeInv'
  <2>. DEFINE asked == [Idle EXCEPT !.at = "answered", !.feed = f, !.cursor = k]
              refused == [asked EXCEPT !.at = "rejected"]
              shown == [asked EXCEPT !.shown = snapshot[k]]
  <2>1. asked \in Requests /\ asked.at = "answered"
    BY IdleType DEF Requests, Places
  <2>2. \/ call' = [call EXCEPT ![c] = refused]
        \/ call' = [call EXCEPT ![c] = asked]
        \/ call' = [call EXCEPT ![c] = shown]
    BY <1>1 DEF ReadPage
  <2>. HIDE DEF asked
  <2>3. refused \in Requests /\ refused.at = "rejected"
    BY <2>1 DEF Requests, Places
  <2>4. shown \in Requests /\ shown.at = "answered"
    BY <2>1 DEF TypeInv, Requests
  <2>. HIDE DEF refused, shown
  <2>5. call' \in [Clients -> Requests] /\ WellPlaced'
    BY <2>1, <2>2, <2>3, <2>4, AnsweredType DEF Waiting
  <2>. QED BY <1>1, <2>5 DEF ReadPage, TypeInv
<1>2. ASSUME NEW c \in Clients, NEW f \in Feeds, BeginFirstPage(c, f) PROVE TypeInv'
  <2>1. call' \in [Clients -> Requests]
    BY <1>2 DEF BeginFirstPage, TypeInv, Requests, Places, Waiting, Idle
  <2>2. WellPlaced'
    BY <1>2 DEF BeginFirstPage, TypeInv, WellPlaced, Requests, Waiting, Idle
  <2>. QED BY <1>2, <2>1, <2>2 DEF BeginFirstPage, TypeInv
<1>3. ASSUME NEW c \in Clients, TakeFlight(c) PROVE TypeInv'
  <2>1. call' \in [Clients -> Requests] /\ WellPlaced'
    BY <1>3, GoOnType DEF TakeFlight, Waiting
  <2>2. flight' \in [Stripes -> Clients \cup {None}]
    BY <1>3 DEF TakeFlight, TypeInv
  <2>. QED BY <1>3, <2>1, <2>2 DEF TakeFlight, TypeInv
<1>4. ASSUME NEW c \in Clients, ReadHead(c) PROVE TypeInv'
  <2>. DEFINE k == head[call[c].feed]
  <2>0. call[c].feed \in Feeds /\ call[c].at \in Waiting /\ call[c].at = "reading"
    BY <1>4 DEF ReadHead, TypeInv, WellPlaced, Waiting
  <2>1. CASE Miss(c, TRUE) \/ Miss(c, FALSE)
    BY <1>4, <2>0, <2>1, MissType DEF ReadHead, TypeInv
  <2>2. CASE /\ k # None
             /\ call' = [call EXCEPT ![c].at = "checking", ![c].cursor = k]
             /\ UNCHANGED <<flight, issued>>
    <3>1. k \in Cursors
      BY <2>0, <2>2 DEF TypeInv
    <3>2. call' \in [Clients -> Requests] /\ WellPlaced'
      BY <2>0, <2>2, <3>1, CursorTakenType DEF Waiting
    <3>. QED BY <1>4, <2>2, <3>2 DEF ReadHead, TypeInv
  <2>. QED BY <1>4, <2>1, <2>2 DEF ReadHead
<1>5. ASSUME NEW c \in Clients, ReadHeadSnapshot(c) PROVE TypeInv'
  <2>0. call[c].cursor \in Cursors /\ call[c].at \in Waiting
    BY <1>5 DEF ReadHeadSnapshot, TypeInv, WellPlaced, Waiting
  <2>1. CASE Miss(c, TRUE) \/ Miss(c, FALSE)
    BY <1>5, <2>0, <2>1, MissType DEF ReadHeadSnapshot, TypeInv
  <2>2. CASE Answer(c, call[c].cursor, snapshot[call[c].cursor])
    <3>1. snapshot[call[c].cursor] \in Feeds \cup {None}
      BY <2>0 DEF TypeInv
    <3>. QED BY <1>5, <2>0, <2>2, <3>1, AnswerType DEF ReadHeadSnapshot, TypeInv
  <2>. QED BY <1>5, <2>1, <2>2 DEF ReadHeadSnapshot
<1>6. ASSUME NEW c \in Clients, EnterGate(c) PROVE TypeInv'
  BY <1>6, GoOnType DEF EnterGate, TypeInv, Waiting
<1>7. ASSUME NEW c \in Clients, BuildFails(c) PROVE TypeInv'
  BY <1>7, AnswerType DEF BuildFails, TypeInv
<1>8. ASSUME NEW c \in Clients, BuildSucceeds(c) PROVE TypeInv'
  <2>1. PICK k \in Cursors :
              /\ call' = [call EXCEPT ![c].at = "storing", ![c].cursor = k]
              /\ stored' = stored \ {k}
              /\ issued' = [issued EXCEPT ![k] = None]
    BY <1>8 DEF BuildSucceeds, NanoId
  <2>2. call' \in [Clients -> Requests] /\ WellPlaced'
    BY <1>8, <2>1, CursorTakenType DEF BuildSucceeds, Waiting
  <2>. QED BY <1>8, <2>1, <2>2 DEF BuildSucceeds, TypeInv
<1>9. ASSUME NEW c \in Clients, StoreSnapshot(c) PROVE TypeInv'
  <2>0. /\ call[c].cursor \in Cursors
        /\ call[c].feed \in Feeds
        /\ call[c].at = "storing"
        /\ call[c].at \in Waiting
    BY <1>9 DEF StoreSnapshot, TypeInv, WellPlaced, Waiting
  <2>1. CASE Put(c) /\ GoOn(c, "heading") /\ UNCHANGED <<flight, issued>>
    <3>1. call' \in [Clients -> Requests] /\ WellPlaced'
      BY <2>0, <2>1, GoOnType DEF Waiting
    <3>. QED BY <1>9, <2>0, <2>1, <3>1, PutType DEF StoreSnapshot, TypeInv
  <2>2. CASE Answer(c, None, call[c].feed) /\ UNCHANGED <<snapshot, stored>>
    BY <1>9, <2>0, <2>2, AnswerType DEF StoreSnapshot, TypeInv
  <2>. QED BY <1>9, <2>1, <2>2 DEF StoreSnapshot, CursorOfUnstored
<1>10. ASSUME NEW c \in Clients, StoreHead(c) PROVE TypeInv'
  <2>0. call[c].cursor \in Cursors /\ call[c].feed \in Feeds /\ call[c].at = "heading"
    BY <1>10 DEF StoreHead, TypeInv, WellPlaced, Waiting
  <2>1. head' \in [Feeds -> Cursors \cup {None}]
    BY <1>10, <2>0, PutHeadType DEF StoreHead, TypeInv
  <2>. QED BY <1>10, <2>0, <2>1, AnswerType DEF StoreHead, TypeInv
<1>11. ASSUME NEW c \in Clients, Drop(c) PROVE TypeInv'
  <2>1. call' \in [Clients -> Requests]
    BY <1>11 DEF Drop, TypeInv, Requests, Places, Idle
  <2>2. WellPlaced'
    BY <1>11 DEF Drop, TypeInv, WellPlaced, Requests, Waiting, Idle
  <2>3. flight' \in [Stripes -> Clients \cup {None}] /\ issued' = issued
    BY <1>11, FlightReleasedType DEF Drop
  <2>4. CASE UNCHANGED <<snapshot, head, stored>>
    BY <2>1, <2>2, <2>3, <2>4 DEF TypeInv
  <2>5. CASE call[c].at = "storing" /\ Put(c) /\ UNCHANGED head
    BY <2>1, <2>2, <2>3, <2>5, PutType DEF TypeInv
  <2>6. CASE call[c].at = "heading" /\ PutHead(c) /\ UNCHANGED <<snapshot, stored>>
    BY <2>1, <2>2, <2>3, <2>6, PutHeadType DEF TypeInv
  <2>. QED BY <1>11, <2>4, <2>5, <2>6 DEF Drop
<1>12. ASSUME NEW c \in Clients, Return(c) PROVE TypeInv'
  <2>1. call' \in [Clients -> Requests]
    BY <1>12 DEF Return, TypeInv, Requests, Places, Idle
  <2>2. WellPlaced'
    BY <1>12 DEF Return, TypeInv, WellPlaced, Requests, Waiting, Idle
  <2>. QED BY <1>12, <2>1, <2>2 DEF Return, TypeInv
<1>13. ASSUME NEW k \in Cursors, LoseSnapshot(k) PROVE TypeInv'
  BY <1>13 DEF LoseSnapshot, TypeInv, WellPlaced
<1>14. ASSUME NEW f \in Feeds, LoseHead(f) PROVE TypeInv'
  BY <1>14 DEF LoseHead, TypeInv, WellPlaced
<1>15. CASE UNCHANGED vars
  BY <1>15 DEF vars, TypeInv, WellPlaced
<1>. QED
  BY <1>1, <1>2, <1>3, <1>4, <1>5, <1>6, <1>7, <1>8, <1>9, <1>10, <1>11, <1>12,
     <1>13, <1>14, <1>15 DEF Next, FirstPage

(* Every variable keeps its type, and a request past the flight has a feed *)
(* and, where it needs one, a cursor.                                      *)
THEOREM TypeCorrect == Spec => []TypeInv
BY InitTypeInv, NextTypeInv, PTL DEF Spec
-----------------------------------------------------------------------------
(***************************************************************************)
(* Cursors.  A snapshot in the cache was stored, and so was the one whose  *)
(* head is being written: that is all a cursor is ever taken from.         *)
(***************************************************************************)
CursorInv ==
  /\ \A k \in Cursors : snapshot[k] # None => k \in stored
  /\ \A c \in Clients : call[c].at = "heading" => call[c].cursor \in stored
  /\ CursorShowsItsFeed

LEMMA InitCursorInv == Init => CursorInv
BY DEF Init, CursorInv, CursorShowsItsFeed, Idle

(* A request that changes to r, while the cache and the history stay.      *)
LEMMA CallMoves ==
  ASSUME TypeInv, CursorInv, NEW c \in Clients, NEW r \in Requests,
         call' = [call EXCEPT ![c] = r],
         r.shown \in {None, r.feed},
         r.at = "heading" => r.cursor \in stored,
         UNCHANGED <<snapshot, stored, issued>>
  PROVE  CursorInv'
BY DEF TypeInv, CursorInv, CursorShowsItsFeed

LEMMA AnswerKeepsCursors ==
  ASSUME TypeInv, CursorInv, NEW c \in Clients, NEW k \in Cursors \cup {None},
         NEW f \in {None, call[c].feed}, Answer(c, k, f),
         k = None \/ f = None \/ k \in stored,
         UNCHANGED <<snapshot, stored>>
  PROVE  CursorInv'
<1>1. \A d \in Clients : /\ call'[d].at = "heading" => call'[d].cursor \in stored
                        /\ call'[d].shown \in {None, call'[d].feed}
  <2>. TAKE d \in Clients
  <2>1. CASE d = c
    BY <2>1 DEF Answer, TypeInv, Requests
  <2>2. CASE d # c
    BY <2>2 DEF Answer, TypeInv, CursorInv, CursorShowsItsFeed
  <2>. QED BY <2>1, <2>2
<1>2. \A j \in Cursors : issued'[j] # None => j \in stored
  BY FeedAssumption DEF Answer, TypeInv, CursorInv, CursorShowsItsFeed
<1>. QED BY <1>1, <1>2 DEF CursorInv, CursorShowsItsFeed

LEMMA MissKeepsCursors ==
  ASSUME TypeInv, CursorInv, NEW c \in Clients, NEW b \in BOOLEAN, Miss(c, b),
         UNCHANGED <<snapshot, stored>>
  PROVE  CursorInv'
<1>. DEFINE r == [call[c] EXCEPT !.at = "queued", !.cursor = None, !.failed = b]
<1>0. call[c] \in Requests /\ call[c].shown \in {None, call[c].feed}
  BY DEF TypeInv, CursorInv, CursorShowsItsFeed
<1>1. r \in Requests /\ r.at = "queued" /\ r.shown \in {None, r.feed}
  BY <1>0 DEF Requests, Places, Waiting
<1>2. call' = [call EXCEPT ![c] = r] /\ issued' = issued
  BY DEF Miss
<1>. HIDE DEF r
<1>. QED BY <1>1, <1>2, CallMoves

LEMMA GoOnKeepsCursors ==
  ASSUME TypeInv, CursorInv, NEW c \in Clients, NEW a \in Waiting \ {"heading"},
         GoOn(c, a), UNCHANGED <<snapshot, stored, issued>>
  PROVE  CursorInv'
<1>. DEFINE r == [call[c] EXCEPT !.at = a]
<1>1. r \in Requests /\ r.at = a /\ r.shown \in {None, r.feed}
  BY DEF TypeInv, CursorInv, CursorShowsItsFeed, Requests, Places
<1>2. call' = [call EXCEPT ![c] = r]
  BY DEF GoOn, TypeInv
<1>. HIDE DEF r
<1>. QED BY <1>1, <1>2, CallMoves

LEMMA PutKeepsCursors ==
  ASSUME TypeInv, CursorInv, NEW c \in Clients, Put(c), call[c].at = "storing",
         NEW r \in Requests, call' = [call EXCEPT ![c] = r],
         r.shown \in {None, r.feed}, r.at = "heading" => r.cursor = call[c].cursor,
         UNCHANGED issued
  PROVE  CursorInv'
<1>1. call[c].cursor \in Cursors
  BY DEF TypeInv, WellPlaced
<1>2. \A k \in Cursors : snapshot'[k] # None => k \in stored'
  BY <1>1 DEF Put, TypeInv, CursorInv
<1>3. \A d \in Clients : /\ call'[d].at = "heading" => call'[d].cursor \in stored'
                        /\ call'[d].shown \in {None, call'[d].feed}
  BY DEF Put, TypeInv, CursorInv, CursorShowsItsFeed
<1>4. \A k \in Cursors : issued'[k] # None => k \in stored'
  BY DEF Put, CursorInv, CursorShowsItsFeed
<1>. QED BY <1>2, <1>3, <1>4 DEF CursorInv, CursorShowsItsFeed

LEMMA NextCursorInv == TypeInv /\ CursorInv /\ [Next]_vars => CursorInv'
<1>. SUFFICES ASSUME TypeInv, CursorInv, [Next]_vars PROVE CursorInv'
  OBVIOUS
<1>1. ASSUME NEW c \in Clients, NEW f \in Feeds, NEW k \in Cursors, ReadPage(c, f, k)
      PROVE  CursorInv'
  <2>. DEFINE asked == [Idle EXCEPT !.at = "answered", !.feed = f, !.cursor = k]
              refused == [asked EXCEPT !.at = "rejected"]
              shown == [asked EXCEPT !.shown = snapshot[k]]
  <2>1. /\ asked \in Requests
        /\ asked.at = "answered" /\ asked.shown = None /\ asked.feed = f
    BY IdleType DEF Idle, Requests, Places
  <2>2. \/ call' = [call EXCEPT ![c] = refused]
        \/ call' = [call EXCEPT ![c] = asked]
        \/ snapshot[k] = f /\ call' = [call EXCEPT ![c] = shown]
    BY <1>1 DEF ReadPage, Finds
  <2>. HIDE DEF asked
  <2>3. refused \in Requests /\ refused.at = "rejected" /\ refused.shown = None
    BY <2>1 DEF Requests, Places
  <2>4. /\ shown \in Requests
        /\ shown.at = "answered" /\ shown.shown = snapshot[k] /\ shown.feed = f
    BY <2>1 DEF TypeInv, Requests
  <2>. HIDE DEF refused, shown
  <2>5. UNCHANGED <<snapshot, stored, issued>>
    BY <1>1 DEF ReadPage
  <2>. QED BY <2>1, <2>2, <2>3, <2>4, <2>5, CallMoves
<1>2. ASSUME NEW c \in Clients, NEW f \in Feeds, BeginFirstPage(c, f) PROVE CursorInv'
  <2>. DEFINE r == [Idle EXCEPT !.at = "locking", !.feed = f]
  <2>1. r \in Requests /\ r.at = "locking" /\ r.shown = None
    BY IdleType DEF Idle, Requests, Places, Waiting
  <2>2. call' = [call EXCEPT ![c] = r] /\ UNCHANGED <<snapshot, stored, issued>>
    BY <1>2 DEF BeginFirstPage
  <2>. HIDE DEF r
  <2>. QED BY <2>1, <2>2, CallMoves
<1>3. ASSUME NEW c \in Clients, TakeFlight(c) PROVE CursorInv'
  BY <1>3, GoOnKeepsCursors DEF TakeFlight, Waiting
<1>4. ASSUME NEW c \in Clients, ReadHead(c) PROVE CursorInv'
  <2>. DEFINE k == head[call[c].feed]
              r == [call[c] EXCEPT !.at = "checking", !.cursor = k]
  <2>1. UNCHANGED <<snapshot, stored>>
    BY <1>4 DEF ReadHead
  <2>2. CASE Miss(c, TRUE) \/ Miss(c, FALSE)
    BY <2>1, <2>2, MissKeepsCursors
  <2>3. CASE /\ call' = [call EXCEPT ![c].at = "checking", ![c].cursor = k]
             /\ UNCHANGED <<flight, issued>>
    <3>1. call[c].feed \in Feeds
      BY <1>4 DEF ReadHead, TypeInv, WellPlaced, Waiting
    <3>2. k \in Cursors \cup {None}
      BY <3>1 DEF TypeInv
    <3>. HIDE DEF k
    <3>3. r \in Requests /\ r.at = "checking" /\ r.shown \in {None, r.feed}
      BY <3>2 DEF TypeInv, CursorInv, CursorShowsItsFeed, Requests, Places, Waiting
    <3>4. call' = [call EXCEPT ![c] = r]
      BY <2>3 DEF TypeInv
    <3>. HIDE DEF r
    <3>. QED BY <2>1, <2>3, <3>3, <3>4, CallMoves
  <2>. QED BY <1>4, <2>2, <2>3 DEF ReadHead
<1>5. ASSUME NEW c \in Clients, ReadHeadSnapshot(c) PROVE CursorInv'
  <2>0. call[c].cursor \in Cursors /\ call[c].feed \in Feeds
    BY <1>5 DEF ReadHeadSnapshot, TypeInv, WellPlaced, Waiting
  <2>1. UNCHANGED <<snapshot, stored>>
    BY <1>5 DEF ReadHeadSnapshot
  <2>2. CASE Miss(c, TRUE) \/ Miss(c, FALSE)
    BY <2>1, <2>2, MissKeepsCursors
  <2>3. CASE /\ Finds(call[c].feed, call[c].cursor)
             /\ Answer(c, call[c].cursor, snapshot[call[c].cursor])
    <3>1. /\ snapshot[call[c].cursor] = call[c].feed
          /\ call[c].cursor \in stored
      BY <2>0, <2>3, FeedAssumption DEF Finds, CursorInv
    <3>. QED BY <2>0, <2>1, <2>3, <3>1, AnswerKeepsCursors
  <2>. QED BY <1>5, <2>2, <2>3 DEF ReadHeadSnapshot
<1>6. ASSUME NEW c \in Clients, EnterGate(c) PROVE CursorInv'
  BY <1>6, GoOnKeepsCursors DEF EnterGate, Waiting
<1>7. ASSUME NEW c \in Clients, BuildFails(c) PROVE CursorInv'
  BY <1>7, AnswerKeepsCursors DEF BuildFails
<1>8. ASSUME NEW c \in Clients, BuildSucceeds(c) PROVE CursorInv'
  <2>1. PICK n \in Cursors :
              /\ Unused(n)
              /\ call' = [call EXCEPT ![c].at = "storing", ![c].cursor = n]
              /\ stored' = stored \ {n}
              /\ issued' = [issued EXCEPT ![n] = None]
    BY <1>8 DEF BuildSucceeds, NanoId
  <2>2. snapshot' = snapshot
    BY <1>8 DEF BuildSucceeds
  <2>3. \A d \in Clients : d # c => call'[d] = call[d]
    BY <2>1 DEF TypeInv
  <2>4. /\ call'[c].at = "storing"
        /\ call'[c].shown \in {None, call'[c].feed}
    <3>. DEFINE r == [call[c] EXCEPT !.at = "storing", !.cursor = n]
    <3>1. call[c] \in Requests /\ call[c].shown \in {None, call[c].feed}
      BY DEF TypeInv, CursorInv, CursorShowsItsFeed
    <3>2. r.at = "storing" /\ r.shown \in {None, r.feed}
      BY <3>1 DEF Requests
    <3>3. call'[c] = r
      BY <2>1 DEF TypeInv
    <3>. QED BY <3>2, <3>3
  <2>5. \A d \in Clients : call[d].cursor # n
    BY <2>1 DEF Unused
  <2>6. \A d \in Clients : /\ call'[d].at = "heading" => call'[d].cursor \in stored'
                          /\ call'[d].shown \in {None, call'[d].feed}
    <3>. TAKE d \in Clients
    <3>1. CASE d = c
      BY <2>4, <3>1
    <3>2. CASE d # c
      <4>1. call[d].at = "heading" => call[d].cursor \in stored \ {n}
        BY <2>5 DEF CursorInv
      <4>. QED BY <2>1, <2>3, <3>2, <4>1 DEF CursorInv, CursorShowsItsFeed
    <3>. QED BY <3>1, <3>2
  <2>7. stored' = stored \ {n} /\ snapshot[n] = None
    BY <2>1 DEF Unused
  <2>8. \A k \in Cursors : snapshot'[k] # None => k \in stored'
    BY <2>2, <2>7 DEF CursorInv
  <2>9. \A k \in Cursors : issued'[k] # None => k \in stored'
    <3>. TAKE k \in Cursors
    <3>1. issued'[k] = IF k = n THEN None ELSE issued[k]
      BY <2>1 DEF TypeInv
    <3>. QED BY <2>7, <3>1 DEF CursorInv, CursorShowsItsFeed
  <2>. QED BY <2>6, <2>8, <2>9 DEF CursorInv, CursorShowsItsFeed
<1>9. ASSUME NEW c \in Clients, StoreSnapshot(c) PROVE CursorInv'
  <2>0. call[c].feed \in Feeds /\ call[c].at = "storing"
    BY <1>9 DEF StoreSnapshot, TypeInv, WellPlaced, Waiting
  <2>1. CASE Put(c) /\ GoOn(c, "heading") /\ UNCHANGED <<flight, issued>>
    <3>. DEFINE r == [call[c] EXCEPT !.at = "heading"]
    <3>1. /\ r \in Requests /\ r.shown \in {None, r.feed}
          /\ r.cursor = call[c].cursor
      BY DEF TypeInv, CursorInv, CursorShowsItsFeed, Requests, Places, Waiting
    <3>2. call' = [call EXCEPT ![c] = r]
      BY <2>1 DEF GoOn, TypeInv
    <3>. HIDE DEF r
    <3>. QED BY <2>0, <2>1, <3>1, <3>2, PutKeepsCursors
  <2>2. CASE Answer(c, None, call[c].feed) /\ UNCHANGED <<snapshot, stored>>
    BY <2>0, <2>2, AnswerKeepsCursors
  <2>. QED BY <1>9, <2>1, <2>2 DEF StoreSnapshot, CursorOfUnstored
<1>10. ASSUME NEW c \in Clients, StoreHead(c) PROVE CursorInv'
  <2>1. call[c].cursor \in Cursors /\ call[c].cursor \in stored
    BY <1>10 DEF StoreHead, TypeInv, WellPlaced, CursorInv
  <2>. QED BY <1>10, <2>1, AnswerKeepsCursors DEF StoreHead
<1>11. ASSUME NEW c \in Clients, Drop(c) PROVE CursorInv'
  <2>1. /\ call' = [call EXCEPT ![c] = Idle]
        /\ UNCHANGED issued
    BY <1>11 DEF Drop
  <2>2. Idle \in Requests /\ Idle.at = "idle" /\ Idle.shown = None
    BY IdleType DEF Idle
  <2>3. CASE UNCHANGED <<snapshot, stored>>
    BY <2>1, <2>2, <2>3, CallMoves
  <2>4. CASE call[c].at = "storing" /\ Put(c)
    BY <2>1, <2>2, <2>4, PutKeepsCursors
  <2>. QED BY <1>11, <2>3, <2>4 DEF Drop
<1>12. ASSUME NEW c \in Clients, Return(c) PROVE CursorInv'
  <2>1. /\ call' = [call EXCEPT ![c] = Idle]
        /\ UNCHANGED <<snapshot, stored, issued>>
    BY <1>12 DEF Return
  <2>2. Idle \in Requests /\ Idle.at = "idle" /\ Idle.shown = None
    BY IdleType DEF Idle
  <2>. QED BY <2>1, <2>2, CallMoves
<1>13. ASSUME NEW k \in Cursors, LoseSnapshot(k) PROVE CursorInv'
  BY <1>13 DEF LoseSnapshot, TypeInv, CursorInv, CursorShowsItsFeed
<1>14. ASSUME NEW f \in Feeds, LoseHead(f) PROVE CursorInv'
  BY <1>14 DEF LoseHead, CursorInv, CursorShowsItsFeed
<1>15. CASE UNCHANGED vars
  BY <1>15 DEF vars, CursorInv, CursorShowsItsFeed
<1>. QED
  BY <1>1, <1>2, <1>3, <1>4, <1>5, <1>6, <1>7, <1>8, <1>9, <1>10, <1>11, <1>12,
     <1>13, <1>14, <1>15 DEF Next, FirstPage

(* A cursor in a caller's hands names a snapshot that was stored, and no   *)
(* answer shows the posts of another feed than the one asked for, whoever  *)
(* builds, fails, goes away or loses an entry in between (feed/mod.rs      *)
(* cached_feed).                                                           *)
THEOREM CursorsHold == Spec => []CursorShowsItsFeed
<1>1. CursorInv => CursorShowsItsFeed
  BY DEF CursorInv
<1>. QED BY <1>1, InitTypeInv, NextTypeInv, InitCursorInv, NextCursorInv, PTL DEF Spec
-----------------------------------------------------------------------------
(***************************************************************************)
(* Builds.  A request past the lock holds the flight of its feed until it  *)
(* is answered or dropped, so nothing is stored for that feed behind it.   *)
(***************************************************************************)
Holding == Waiting \ {"locking"}

Holds(c) == call[c].at \in Holding => flight[Stripe[call[c].feed]] = c

FlightInv == \A c \in Clients : Holds(c)

LEMMA InitFlightInv == Init => FlightInv
BY DEF Init, FlightInv, Holds, Holding, Waiting, Idle

(* The request of c is over and lets its flight go.                        *)
LEMMA ReleaseKeepsFlights ==
  ASSUME TypeInv, FlightInv, NEW c \in Clients, NEW r, r.at \notin Holding,
         call' = [call EXCEPT ![c] = r], flight' = FlightReleased(c)
  PROVE  FlightInv'
<1>. SUFFICES ASSUME NEW d \in Clients, call'[d].at \in Holding
     PROVE flight'[Stripe[call'[d].feed]] = d
  BY DEF FlightInv, Holds
<1>1. d # c /\ call'[d] = call[d]
  BY DEF TypeInv
<1>2. flight[Stripe[call[d].feed]] = d
  BY <1>1 DEF FlightInv, Holds
<1>3. Stripe[call[d].feed] \in Stripes
  BY <1>1 DEF TypeInv, WellPlaced, Holding, Stripes
<1>. QED BY <1>1, <1>2, <1>3 DEF FlightReleased

(* The request of c goes on with the flight it has.                        *)
LEMMA KeptFlights ==
  ASSUME TypeInv, FlightInv, NEW c \in Clients, NEW r,
         call' = [call EXCEPT ![c] = r], flight' = flight,
         r.at \in Holding => call[c].at \in Holding /\ r.feed = call[c].feed
  PROVE  FlightInv'
<1>. SUFFICES ASSUME NEW d \in Clients, call'[d].at \in Holding
     PROVE flight[Stripe[call'[d].feed]] = d
  BY DEF FlightInv, Holds
<1>1. CASE d = c
  BY <1>1 DEF TypeInv, FlightInv, Holds
<1>2. CASE d # c
  BY <1>2 DEF TypeInv, FlightInv, Holds
<1>. QED BY <1>1, <1>2

LEMMA AnswerKeepsFlights ==
  ASSUME TypeInv, FlightInv, NEW c \in Clients, NEW k, NEW f, Answer(c, k, f)
  PROVE  FlightInv'
<1>. DEFINE r == [call[c] EXCEPT !.at = "answered", !.cursor = k, !.failed = FALSE,
                                 !.shown = f]
<1>1. r.at = "answered"
  BY DEF TypeInv, Requests
<1>2. call' = [call EXCEPT ![c] = r] /\ flight' = FlightReleased(c)
  BY DEF Answer
<1>. HIDE DEF r
<1>. QED BY <1>1, <1>2, ReleaseKeepsFlights DEF Holding, Waiting

LEMMA MissKeepsFlights ==
  ASSUME TypeInv, FlightInv, NEW c \in Clients, NEW b, Miss(c, b),
         call[c].at \in Holding
  PROVE  FlightInv'
<1>. DEFINE r == [call[c] EXCEPT !.at = "queued", !.cursor = None, !.failed = b]
<1>1. r.feed = call[c].feed
  BY DEF TypeInv, Requests
<1>2. call' = [call EXCEPT ![c] = r] /\ flight' = flight
  BY DEF Miss, FlightOnMiss
<1>. HIDE DEF r
<1>. QED BY <1>1, <1>2, KeptFlights

LEMMA GoOnKeepsFlights ==
  ASSUME TypeInv, FlightInv, NEW c \in Clients, NEW a, GoOn(c, a),
         call[c].at \in Holding, flight' = flight
  PROVE  FlightInv'
<1>. DEFINE r == [call[c] EXCEPT !.at = a]
<1>1. r.feed = call[c].feed
  BY DEF TypeInv, Requests
<1>2. call' = [call EXCEPT ![c] = r]
  BY DEF GoOn, TypeInv
<1>. HIDE DEF r
<1>. QED BY <1>1, <1>2, KeptFlights

LEMMA CursorTakenKeepsFlights ==
  ASSUME TypeInv, FlightInv, NEW c \in Clients, NEW a, NEW k,
         call' = [call EXCEPT ![c].at = a, ![c].cursor = k],
         call[c].at \in Holding, flight' = flight
  PROVE  FlightInv'
<1>. DEFINE r == [call[c] EXCEPT !.at = a, !.cursor = k]
<1>1. r.feed = call[c].feed
  BY DEF TypeInv, Requests
<1>2. call' = [call EXCEPT ![c] = r]
  BY DEF TypeInv
<1>. HIDE DEF r
<1>. QED BY <1>1, <1>2, KeptFlights

LEMMA NextFlightInv == TypeInv /\ FlightInv /\ [Next]_vars => FlightInv'
<1>. SUFFICES ASSUME TypeInv, FlightInv, [Next]_vars PROVE FlightInv'
  OBVIOUS
<1>1. ASSUME NEW c \in Clients, NEW f \in Feeds, NEW k \in Cursors, ReadPage(c, f, k)
      PROVE  FlightInv'
  <2>. DEFINE asked == [Idle EXCEPT !.at = "answered", !.feed = f, !.cursor = k]
              refused == [asked EXCEPT !.at = "rejected"]
              shown == [asked EXCEPT !.shown = snapshot[k]]
  <2>1. asked \in Requests /\ asked.at = "answered"
    BY IdleType DEF Requests, Places
  <2>2. \/ call' = [call EXCEPT ![c] = refused]
        \/ call' = [call EXCEPT ![c] = asked]
        \/ call' = [call EXCEPT ![c] = shown]
    BY <1>1 DEF ReadPage
  <2>. HIDE DEF asked
  <2>3. refused.at = "rejected" /\ shown.at = "answered"
    BY <2>1 DEF Requests
  <2>. HIDE DEF refused, shown
  <2>4. flight' = flight
    BY <1>1 DEF ReadPage
  <2>. QED BY <2>1, <2>2, <2>3, <2>4, KeptFlights DEF Holding, Waiting
<1>2. ASSUME NEW c \in Clients, NEW f \in Feeds, BeginFirstPage(c, f) PROVE FlightInv'
  <2>. DEFINE r == [Idle EXCEPT !.at = "locking", !.feed = f]
  <2>1. r.at = "locking"
    BY IdleType DEF Requests
  <2>2. call' = [call EXCEPT ![c] = r] /\ flight' = flight
    BY <1>2 DEF BeginFirstPage
  <2>. HIDE DEF r
  <2>. QED BY <2>1, <2>2, KeptFlights DEF Holding
<1>3. ASSUME NEW c \in Clients, TakeFlight(c) PROVE FlightInv'
  <2>. DEFINE s == Stripe[call[c].feed]
  <2>1. s \in Stripes /\ call'[c].feed = call[c].feed
    BY <1>3 DEF TakeFlight, GoOn, TypeInv, WellPlaced, Waiting, Requests, Stripes
  <2>2. flight[s] = None /\ flight' = [flight EXCEPT ![s] = c]
    BY <1>3 DEF TakeFlight
  <2>. SUFFICES ASSUME NEW d \in Clients, call'[d].at \in Holding
       PROVE flight'[Stripe[call'[d].feed]] = d
    BY DEF FlightInv, Holds
  <2>3. CASE d = c
    BY <2>1, <2>2, <2>3 DEF TypeInv
  <2>4. CASE d # c
    <3>1. call'[d] = call[d]
      BY <1>3, <2>4 DEF TakeFlight, GoOn, TypeInv
    <3>2. flight[Stripe[call[d].feed]] = d /\ Stripe[call[d].feed] \in Stripes
      BY <3>1 DEF FlightInv, Holds, TypeInv, WellPlaced, Holding, Stripes
    <3>. QED BY <2>2, <3>1, <3>2, FeedAssumption DEF TypeInv
  <2>. QED BY <2>3, <2>4
<1>4. ASSUME NEW c \in Clients, ReadHead(c) PROVE FlightInv'
  <2>0. call[c].at \in Holding
    BY <1>4 DEF ReadHead, Holding, Waiting
  <2>1. CASE Miss(c, TRUE) \/ Miss(c, FALSE)
    BY <2>0, <2>1, MissKeepsFlights
  <2>2. CASE /\ call' = [call EXCEPT ![c].at = "checking",
                                     ![c].cursor = head[call[c].feed]]
             /\ UNCHANGED <<flight, issued>>
    BY <2>0, <2>2, CursorTakenKeepsFlights
  <2>. QED BY <1>4, <2>1, <2>2 DEF ReadHead
<1>5. ASSUME NEW c \in Clients, ReadHeadSnapshot(c) PROVE FlightInv'
  <2>0. call[c].at \in Holding
    BY <1>5 DEF ReadHeadSnapshot, Holding, Waiting
  <2>1. CASE Miss(c, TRUE) \/ Miss(c, FALSE)
    BY <2>0, <2>1, MissKeepsFlights
  <2>2. CASE Answer(c, call[c].cursor, snapshot[call[c].cursor])
    BY <2>2, AnswerKeepsFlights
  <2>. QED BY <1>5, <2>1, <2>2 DEF ReadHeadSnapshot
<1>6. ASSUME NEW c \in Clients, EnterGate(c) PROVE FlightInv'
  BY <1>6, GoOnKeepsFlights DEF EnterGate, Holding, Waiting
<1>7. ASSUME NEW c \in Clients, BuildFails(c) PROVE FlightInv'
  BY <1>7, AnswerKeepsFlights DEF BuildFails
<1>8. ASSUME NEW c \in Clients, BuildSucceeds(c) PROVE FlightInv'
  BY <1>8, CursorTakenKeepsFlights DEF BuildSucceeds, Holding, Waiting
<1>9. ASSUME NEW c \in Clients, StoreSnapshot(c) PROVE FlightInv'
  <2>0. call[c].at \in Holding
    BY <1>9 DEF StoreSnapshot, Holding, Waiting
  <2>1. CASE GoOn(c, "heading") /\ UNCHANGED <<flight, issued>>
    BY <2>0, <2>1, GoOnKeepsFlights
  <2>2. CASE Answer(c, CursorOfUnstored(c), call[c].feed)
    BY <2>2, AnswerKeepsFlights
  <2>. QED BY <1>9, <2>1, <2>2 DEF StoreSnapshot
<1>10. ASSUME NEW c \in Clients, StoreHead(c) PROVE FlightInv'
  BY <1>10, AnswerKeepsFlights DEF StoreHead
<1>11. ASSUME NEW c \in Clients, Drop(c) PROVE FlightInv'
  BY <1>11, IdleType, ReleaseKeepsFlights DEF Drop, Holding, Waiting
<1>12. ASSUME NEW c \in Clients, Return(c) PROVE FlightInv'
  BY <1>12, IdleType, KeptFlights DEF Return, Holding, Waiting
<1>13. ASSUME NEW k \in Cursors, LoseSnapshot(k) PROVE FlightInv'
  BY <1>13 DEF LoseSnapshot, FlightInv, Holds
<1>14. ASSUME NEW f \in Feeds, LoseHead(f) PROVE FlightInv'
  BY <1>14 DEF LoseHead, FlightInv, Holds
<1>15. CASE UNCHANGED vars
  BY <1>15 DEF vars, FlightInv, Holds
<1>. QED
  BY <1>1, <1>2, <1>3, <1>4, <1>5, <1>6, <1>7, <1>8, <1>9, <1>10, <1>11, <1>12,
     <1>13, <1>14, <1>15 DEF Next, FirstPage
-----------------------------------------------------------------------------
(* What the holder of a flight has learnt of the head still holds, or the  *)
(* head or its snapshot has been lost since.                               *)
Justified(c) ==
  /\ call[c].at = "checking" => head[call[c].feed] \in {None, call[c].cursor}
  /\ call[c].at \in {"queued", "building", "storing"} /\ ~call[c].failed
       => LET k == head[call[c].feed] IN k # None => ~Finds(call[c].feed, k)

BuildInv == \A c \in Clients : Justified(c)

LEMMA InitBuildInv == Init => BuildInv
BY DEF Init, BuildInv, Justified, Idle

(* Nobody else holds the flight of the same feed.                          *)
LEMMA FlightsExclude ==
  ASSUME TypeInv, FlightInv, NEW c \in Clients, NEW d \in Clients, c # d,
         call[c].at \in Holding, call[d].at \in Holding
  PROVE  call[c].feed # call[d].feed
BY DEF FlightInv, Holds

(* A step of c leaves the cache alone or stores what c has to store.       *)
OwnStore(c) ==
  \/ UNCHANGED <<snapshot, head>>
  \/ call[c].at = "storing" /\ Put(c) /\ UNCHANGED head
  \/ call[c].at = "heading" /\ PutHead(c) /\ UNCHANGED snapshot

(* What the holder of one flight stores does not concern another request.  *)
LEMMA StoresAreOwn ==
  ASSUME TypeInv, FlightInv, BuildInv,
         NEW c \in Clients, NEW d \in Clients, d # c, call'[d] = call[d],
         OwnStore(c)
  PROVE  Justified(d)'
<1>1. Justified(d)
  BY DEF BuildInv
<1>2. CASE UNCHANGED <<snapshot, head>>
  BY <1>1, <1>2 DEF Justified, Finds
<1>3. CASE call[d].at \notin {"checking", "queued", "building", "storing"}
  BY <1>3 DEF Justified
<1>4. ASSUME call[d].at \in {"checking", "queued", "building", "storing"},
             call[c].at = "storing" /\ Put(c) /\ UNCHANGED head
      PROVE  Justified(d)'
  <2>1. call[c].feed # call[d].feed
    BY <1>4, FlightsExclude DEF Holding, Waiting
  <2>2. /\ call[c].cursor \in Cursors
        /\ call[d].feed \in Feeds
        /\ head[call[d].feed] \in Cursors \cup {None}
    BY <1>4 DEF TypeInv, WellPlaced, Waiting
  <2>. QED BY <1>1, <1>4, <2>1, <2>2 DEF Put, Justified, Finds, TypeInv
<1>5. ASSUME call[d].at \in {"checking", "queued", "building", "storing"},
             call[c].at = "heading" /\ PutHead(c) /\ UNCHANGED snapshot
      PROVE  Justified(d)'
  <2>1. call[c].feed # call[d].feed
    BY <1>5, FlightsExclude DEF Holding, Waiting
  <2>2. call[d].feed \in Feeds
    BY <1>5 DEF TypeInv, WellPlaced, Waiting
  <2>3. head'[call[d].feed] = head[call[d].feed]
    BY <1>5, <2>1, <2>2 DEF PutHead, TypeInv
  <2>. QED BY <1>1, <1>5, <2>3 DEF Justified, Finds
<1>. QED BY <1>2, <1>3, <1>4, <1>5 DEF OwnStore

(* So only the request that takes a step has to be justified again.        *)
LEMMA OthersStayJustified ==
  ASSUME TypeInv, FlightInv, BuildInv, NEW c \in Clients, NEW r,
         call' = [call EXCEPT ![c] = r],
         OwnStore(c),
         Justified(c)'
  PROVE  BuildInv'
<1>. SUFFICES ASSUME NEW d \in Clients, d # c PROVE Justified(d)'
  BY DEF BuildInv
<1>1. call'[d] = call[d]
  BY DEF TypeInv
<1>. QED BY <1>1, StoresAreOwn

(* Places where nothing learnt of the head is relied on.                   *)
Settled == Places \ {"checking", "queued", "building", "storing"}

LEMMA EndKeepsBuilds ==
  ASSUME TypeInv, FlightInv, BuildInv, NEW c \in Clients, NEW r,
         r.at \in Settled,
         call' = [call EXCEPT ![c] = r],
         OwnStore(c)
  PROVE  BuildInv'
<1>1. call'[c].at = r.at
  BY DEF TypeInv
<1>2. Justified(c)'
  BY <1>1 DEF Justified, Settled
<1>. QED BY <1>2, OthersStayJustified

LEMMA AnswerKeepsBuilds ==
  ASSUME TypeInv, FlightInv, BuildInv, NEW c \in Clients, NEW k, NEW f,
         Answer(c, k, f),
         OwnStore(c)
  PROVE  BuildInv'
<1>. DEFINE r == [call[c] EXCEPT !.at = "answered", !.cursor = k, !.failed = FALSE,
                                 !.shown = f]
<1>1. r.at \in Settled
  BY DEF TypeInv, Requests, Settled, Places, Waiting
<1>2. call' = [call EXCEPT ![c] = r]
  BY DEF Answer
<1>. HIDE DEF r
<1>. QED BY <1>1, <1>2, EndKeepsBuilds

LEMMA MissKeepsBuilds ==
  ASSUME TypeInv, FlightInv, BuildInv, NEW c \in Clients, NEW b \in BOOLEAN,
         Miss(c, b), UNCHANGED <<snapshot, head>>,
         b \/ LET k == head[call[c].feed] IN k # None => ~Finds(call[c].feed, k)
  PROVE  BuildInv'
<1>. DEFINE r == [call[c] EXCEPT !.at = "queued", !.cursor = None, !.failed = b]
<1>1. r.at = "queued" /\ r.failed = b /\ r.feed = call[c].feed
  BY DEF TypeInv, Requests
<1>2. call' = [call EXCEPT ![c] = r]
  BY DEF Miss
<1>. HIDE DEF r
<1>3. call'[c] = r
  BY <1>2 DEF TypeInv
<1>4. Justified(c)'
  BY <1>1, <1>3 DEF Justified, Finds
<1>. QED BY <1>2, <1>4, OthersStayJustified DEF OwnStore

(* The build of c goes on: queued, building, storing.                      *)
LEMMA BuildGoesOn ==
  ASSUME TypeInv, FlightInv, BuildInv, NEW c \in Clients,
         NEW r \in Requests, call[c].at \in {"queued", "building"},
         r.at # "checking",
         r.feed = call[c].feed, r.failed = call[c].failed,
         call' = [call EXCEPT ![c] = r], UNCHANGED <<snapshot, head>>
  PROVE  BuildInv'
<1>1. call'[c] = r
  BY DEF TypeInv
<1>2. Justified(c)
  BY DEF BuildInv
<1>3. Justified(c)'
  BY <1>1, <1>2 DEF Justified, Finds
<1>. QED BY <1>3, OthersStayJustified DEF OwnStore

LEMMA NextBuildInv == TypeInv /\ FlightInv /\ BuildInv /\ [Next]_vars => BuildInv'
<1>. SUFFICES ASSUME TypeInv, FlightInv, BuildInv, [Next]_vars PROVE BuildInv'
  OBVIOUS
<1>1. ASSUME NEW c \in Clients, NEW f \in Feeds, NEW k \in Cursors, ReadPage(c, f, k)
      PROVE  BuildInv'
  <2>. DEFINE asked == [Idle EXCEPT !.at = "answered", !.feed = f, !.cursor = k]
              refused == [asked EXCEPT !.at = "rejected"]
              shown == [asked EXCEPT !.shown = snapshot[k]]
  <2>1. asked \in Requests /\ asked.at = "answered"
    BY IdleType DEF Requests, Places
  <2>2. \/ call' = [call EXCEPT ![c] = refused]
        \/ call' = [call EXCEPT ![c] = asked]
        \/ call' = [call EXCEPT ![c] = shown]
    BY <1>1 DEF ReadPage
  <2>. HIDE DEF asked
  <2>3. asked.at \in Settled /\ refused.at \in Settled /\ shown.at \in Settled
    BY <2>1 DEF Requests, Settled, Places, Waiting
  <2>. HIDE DEF refused, shown
  <2>4. UNCHANGED <<snapshot, head>>
    BY <1>1 DEF ReadPage
  <2>5. OwnStore(c)
    BY <2>4 DEF OwnStore
  <2>. QED BY <2>2, <2>3, <2>5, EndKeepsBuilds
<1>2. ASSUME NEW c \in Clients, NEW f \in Feeds, BeginFirstPage(c, f) PROVE BuildInv'
  <2>. DEFINE r == [Idle EXCEPT !.at = "locking", !.feed = f]
  <2>1. r.at \in Settled
    BY IdleType DEF Requests, Settled, Places, Waiting
  <2>2. call' = [call EXCEPT ![c] = r] /\ OwnStore(c)
    BY <1>2 DEF BeginFirstPage, OwnStore
  <2>. HIDE DEF r
  <2>. QED BY <2>1, <2>2, EndKeepsBuilds
<1>3. ASSUME NEW c \in Clients, TakeFlight(c) PROVE BuildInv'
  <2>. DEFINE r == [call[c] EXCEPT !.at = "reading"]
  <2>1. r.at \in Settled
    BY DEF TypeInv, Requests, Settled, Places, Waiting
  <2>2. call' = [call EXCEPT ![c] = r] /\ OwnStore(c)
    BY <1>3 DEF TakeFlight, GoOn, TypeInv, OwnStore
  <2>. HIDE DEF r
  <2>. QED BY <2>1, <2>2, EndKeepsBuilds
<1>4. ASSUME NEW c \in Clients, ReadHead(c) PROVE BuildInv'
  <2>1. UNCHANGED <<snapshot, head>>
    BY <1>4 DEF ReadHead
  <2>2. CASE Miss(c, TRUE)
    BY <2>1, <2>2, MissKeepsBuilds
  <2>3. CASE head[call[c].feed] = None /\ Miss(c, FALSE)
    BY <2>1, <2>3, MissKeepsBuilds
  <2>4. CASE call' = [call EXCEPT ![c].at = "checking", ![c].cursor = head[call[c].feed]]
    <3>. DEFINE r == [call[c] EXCEPT !.at = "checking", !.cursor = head[call[c].feed]]
    <3>1. r.at = "checking" /\ r.cursor = head[call[c].feed] /\ r.feed = call[c].feed
      BY DEF TypeInv, Requests
    <3>2. call' = [call EXCEPT ![c] = r]
      BY <2>4 DEF TypeInv
    <3>. HIDE DEF r
    <3>3. Justified(c)'
      BY <2>1, <3>1, <3>2 DEF TypeInv, Justified
    <3>. QED BY <2>1, <3>2, <3>3, OthersStayJustified DEF OwnStore
  <2>. QED BY <1>4, <2>2, <2>3, <2>4 DEF ReadHead
<1>5. ASSUME NEW c \in Clients, ReadHeadSnapshot(c) PROVE BuildInv'
  <2>1. UNCHANGED <<snapshot, head>>
    BY <1>5 DEF ReadHeadSnapshot
  <2>2. CASE Miss(c, TRUE)
    BY <2>1, <2>2, MissKeepsBuilds
  <2>3. CASE ~Finds(call[c].feed, call[c].cursor) /\ Miss(c, FALSE)
    <3>1. head[call[c].feed] \in {None, call[c].cursor}
      BY <1>5 DEF ReadHeadSnapshot, BuildInv, Justified
    <3>. QED BY <2>1, <2>3, <3>1, MissKeepsBuilds
  <2>4. CASE Answer(c, call[c].cursor, snapshot[call[c].cursor])
    BY <2>1, <2>4, AnswerKeepsBuilds DEF OwnStore
  <2>. QED BY <1>5, <2>2, <2>3, <2>4 DEF ReadHeadSnapshot
<1>6. ASSUME NEW c \in Clients, EnterGate(c) PROVE BuildInv'
  <2>. DEFINE r == [call[c] EXCEPT !.at = "building"]
  <2>1. /\ r \in Requests /\ r.at = "building"
        /\ r.feed = call[c].feed /\ r.failed = call[c].failed
    BY DEF TypeInv, Requests, Places, Waiting
  <2>2. /\ call[c].at = "queued"
        /\ call' = [call EXCEPT ![c] = r]
        /\ UNCHANGED <<snapshot, head>>
    BY <1>6 DEF EnterGate, GoOn, TypeInv
  <2>. HIDE DEF r
  <2>. QED BY <2>1, <2>2, BuildGoesOn
<1>7. ASSUME NEW c \in Clients, BuildFails(c) PROVE BuildInv'
  BY <1>7, AnswerKeepsBuilds DEF BuildFails, OwnStore
<1>8. ASSUME NEW c \in Clients, BuildSucceeds(c) PROVE BuildInv'
  <2>0. PICK n \in Cursors :
           call' = [call EXCEPT ![c].at = "storing", ![c].cursor = n]
    BY <1>8 DEF BuildSucceeds, NanoId
  <2>. DEFINE r == [call[c] EXCEPT !.at = "storing", !.cursor = n]
  <2>1. /\ r \in Requests /\ r.at = "storing"
        /\ r.feed = call[c].feed /\ r.failed = call[c].failed
    BY DEF TypeInv, Requests, Places, Waiting
  <2>2. call' = [call EXCEPT ![c] = r]
    BY <2>0 DEF TypeInv
  <2>3. call[c].at = "building" /\ UNCHANGED <<snapshot, head>>
    BY <1>8 DEF BuildSucceeds
  <2>. HIDE DEF r
  <2>. QED BY <2>1, <2>2, <2>3, BuildGoesOn
<1>9. ASSUME NEW c \in Clients, StoreSnapshot(c) PROVE BuildInv'
  <2>0. call[c].at = "storing" /\ UNCHANGED head
    BY <1>9 DEF StoreSnapshot
  <2>1. CASE Put(c) /\ GoOn(c, "heading")
    <3>. DEFINE r == [call[c] EXCEPT !.at = "heading"]
    <3>1. r.at \in Settled
      BY DEF TypeInv, Requests, Settled, Places, Waiting
    <3>2. call' = [call EXCEPT ![c] = r]
      BY <2>1 DEF GoOn, TypeInv
    <3>3. OwnStore(c)
      BY <2>0, <2>1 DEF OwnStore
    <3>. HIDE DEF r
    <3>. QED BY <3>1, <3>2, <3>3, EndKeepsBuilds
  <2>2. CASE Answer(c, CursorOfUnstored(c), call[c].feed) /\ UNCHANGED <<snapshot, stored>>
    BY <2>0, <2>2, AnswerKeepsBuilds DEF OwnStore
  <2>. QED BY <1>9, <2>1, <2>2 DEF StoreSnapshot
<1>10. ASSUME NEW c \in Clients, StoreHead(c) PROVE BuildInv'
  <2>1. OwnStore(c)
    BY <1>10 DEF StoreHead, OwnStore
  <2>. QED BY <1>10, <2>1, AnswerKeepsBuilds DEF StoreHead
<1>11. ASSUME NEW c \in Clients, Drop(c) PROVE BuildInv'
  <2>1. call' = [call EXCEPT ![c] = Idle] /\ OwnStore(c)
    BY <1>11 DEF Drop, OwnStore
  <2>2. Idle.at \in Settled
    BY IdleType DEF Settled, Places
  <2>. QED BY <2>1, <2>2, EndKeepsBuilds
<1>12. ASSUME NEW c \in Clients, Return(c) PROVE BuildInv'
  <2>1. call' = [call EXCEPT ![c] = Idle] /\ OwnStore(c)
    BY <1>12 DEF Return, OwnStore
  <2>2. Idle.at \in Settled
    BY IdleType DEF Settled, Places
  <2>. QED BY <2>1, <2>2, EndKeepsBuilds
<1>13. ASSUME NEW k \in Cursors, LoseSnapshot(k) PROVE BuildInv'
  <2>. SUFFICES ASSUME NEW d \in Clients PROVE Justified(d)'
    BY DEF BuildInv
  <2>1. Justified(d) /\ call' = call /\ head' = head
    BY <1>13 DEF LoseSnapshot, BuildInv
  <2>2. CASE call[d].at \notin {"queued", "building", "storing"}
    BY <2>1, <2>2 DEF Justified
  <2>3. CASE call[d].at \in {"queued", "building", "storing"}
    <3>1. /\ call[d].feed \in Feeds
          /\ head[call[d].feed] \in Cursors \cup {None}
      BY <2>3 DEF TypeInv, WellPlaced, Waiting
    <3>. QED BY <1>13, <2>1, <2>3, <3>1, FeedAssumption
             DEF LoseSnapshot, Justified, Finds, TypeInv
  <2>. QED BY <2>2, <2>3
<1>14. ASSUME NEW f \in Feeds, LoseHead(f) PROVE BuildInv'
  <2>. SUFFICES ASSUME NEW d \in Clients PROVE Justified(d)'
    BY DEF BuildInv
  <2>1. Justified(d) /\ call' = call /\ snapshot' = snapshot
    BY <1>14 DEF LoseHead, BuildInv
  <2>2. call[d].at \in Waiting => head'[call[d].feed] \in {None, head[call[d].feed]}
    BY <1>14 DEF LoseHead, TypeInv, WellPlaced
  <2>. QED BY <2>1, <2>2 DEF Justified, Finds, Waiting
<1>15. CASE UNCHANGED vars
  BY <1>15 DEF vars, BuildInv, Justified, Finds
<1>. QED
  BY <1>1, <1>2, <1>3, <1>4, <1>5, <1>6, <1>7, <1>8, <1>9, <1>10, <1>11, <1>12,
     <1>13, <1>14, <1>15 DEF Next, FirstPage

(* No feed is built while its head names a snapshot that can be read,      *)
(* unless reading failed: the flight is held from the look at the head to  *)
(* the end of the request (feed/mod.rs cached_feed, storage.rs Flights).   *)
THEOREM BuildsAreNeeded == Spec => []NoNeedlessBuild
<1>1. BuildInv => NoNeedlessBuild
  BY DEF BuildInv, Justified, NoNeedlessBuild
<1>. QED
  BY <1>1, InitTypeInv, NextTypeInv, InitFlightInv, NextFlightInv, InitBuildInv,
     NextBuildInv, PTL DEF Spec
=============================================================================
