------------------------- MODULE MoveRecoveryProofs -------------------------
(***************************************************************************)
(* What the move journal keeps, for any moves, length of the game and      *)
(* number of restarts.                                                     *)
(***************************************************************************)
EXTENDS MoveRecovery, TLAPS

St(p)   == intent[p].status
Working == {"staged", "post", "wait", "limited"}

\* Only the last position the journal has seen can be unresolved.
JournalShape ==
    /\ jply <= ply
    /\ \A p \in Ply :
          /\ St(p) # "none" => Ours(p) /\ intent[p].move \in Moves
          /\ St(p) \notin {"none", "CONFIRMED"} => p = jply
          /\ St(p) = "CONFIRMED" => p < jply

\* Where the bridge is in a turn, and what it has written by then.
BridgeShape ==
    /\ pc # "down" => epoch # 0
    /\ view # Unseen => view = jply
    /\ pc \in {"ready", "search"} \cup Working => view \in Ply /\ Ours(view)
    /\ pc = "staged" => St(view) = "PREPARED"
    /\ pc \in {"post", "wait", "limited"} => St(view) = "SUBMITTING"
    /\ pc \in Working => best = intent[view].move
    /\ pc = "post" => wire = {} /\ ply = view /\ sent[view] = 0

\* A request on the wire is the only one, for the position on the board.
WireShape ==
    /\ \A q \in wire : /\ q.ply = ply /\ Ours(ply) /\ ply = jply /\ q.move = intent[ply].move
                       /\ St(ply) \notin {"none", "PREPARED", "CONFIRMED"}
    /\ \A q, r \in wire : q = r

SentShape == \A p \in Ply : St(p) \in {"none", "PREPARED"} => sent[p] = 0

\* The stream lags behind the board, never behind the journal, and in order.
FeedShape ==
    /\ jover => over
    /\ \A i \in 1 .. Len(feed) :
          /\ jply <= feed[i].ply /\ feed[i].ply <= ply
          /\ jover => feed[i].over
          /\ feed[i].over => over
    /\ \A i, j \in 1 .. Len(feed) :
          i <= j => feed[i].ply <= feed[j].ply /\ (feed[i].over => feed[j].over)

IInv == /\ TypeOK /\ JournalShape /\ BridgeShape /\ WireShape /\ SentShape /\ FeedShape
        /\ OnePostPerPosition /\ JournalMatchesBoard

-----------------------------------------------------------------------------
(* What the invariant says of the journal's two queries *)

LEMMA PlyIsNat == Ply \subseteq Nat /\ Unseen \in Nat /\ \A p \in Ply : p < MaxPly
BY BoundAssumption DEF Ply, Unseen

LEMMA FirstIsLast ==
  ASSUME TypeOK, JournalShape, Pending # {}
  PROVE  jply \in Ply /\ Pending = {jply} /\ First = jply
<1>1. \A p \in Pending : p \in Ply /\ p = jply
  BY DEF Pending, Recorded, JournalShape, St
<1>2. Pending = {jply} /\ jply \in Ply
  BY <1>1
<1>3. jply \in Nat
  BY <1>2, PlyIsNat
<1> QED
  BY <1>2, <1>3 DEF First, Min

LEMMA LatestIsLast ==
  ASSUME TypeOK, JournalShape, jply \in Ply, St(jply) # "none"
  PROVE  Latest = jply
<1>1. jply \in Recorded /\ \A p \in Recorded : p \in Nat /\ p <= jply
  <2>1. \A p \in Recorded : p \in Ply /\ (p = jply \/ p < jply)
    BY DEF Recorded, JournalShape, St
  <2> QED
    BY <2>1, PlyIsNat DEF Recorded, St
<1>2. \A x \in Recorded : (\A y \in Recorded : x >= y) => x = jply
  BY <1>1
<1> QED
  BY <1>1, <1>2 DEF Latest, Max

\* A worker that holds a move holds the journal's latest one.
LEMMA WorkingOnLatest ==
  ASSUME IInv, pc \in Working
  PROVE  /\ view \in Ply /\ view = jply /\ Latest = view
         /\ best = intent[view].move /\ best \in Moves
         /\ St(view) \in {"PREPARED", "SUBMITTING"}
<1>1. view \in Ply /\ St(view) \in {"PREPARED", "SUBMITTING"} /\ best = intent[view].move
  BY DEF IInv, BridgeShape, Working
<1>2. view = jply
  BY <1>1, BoundAssumption DEF IInv, BridgeShape, Ply, Unseen
<1>3. best \in Moves
  BY <1>1 DEF IInv, JournalShape
<1>4. Latest = jply
  BY <1>1, <1>2, LatestIsLast DEF IInv
<1> QED
  BY <1>1, <1>2, <1>3, <1>4

\* An honest stream is never refused.
LEMMA HonestHead ==
  ASSUME IInv, feed # <<>>
  PROVE  /\ Head(feed) \in Snapshot /\ ~Refuses(Head(feed))
         /\ jply <= Head(feed).ply /\ Head(feed).ply <= ply
         /\ Confirms(Head(feed)) => First = jply /\ jply \in Ply /\ jply < Head(feed).ply
         /\ ~Confirms(Head(feed)) /\ Pending # {} => Head(feed).ply = jply
<1> DEFINE s == Head(feed)
<1>1. 1 \in 1 .. Len(feed) /\ s = feed[1] /\ s \in Snapshot
  BY DEF IInv, TypeOK
<1>2. jply <= s.ply /\ s.ply <= ply /\ (jover => s.over)
  BY <1>1 DEF IInv, FeedShape
<1>3. jply \in Nat /\ s.ply \in Nat /\ ply \in Nat
  BY <1>1 DEF IInv, TypeOK, Snapshot
<1> HIDE DEF s
<1>4. CASE Pending = {}
  <2>1. ~Confirms(s)
    BY <1>4 DEF Confirms
  <2> QED
    BY <1>1, <1>2, <1>3, <1>4, <2>1 DEF Refuses, s
<1>5. CASE Pending # {}
  <2>1. jply \in Ply /\ First = jply /\ jply \in Pending
    BY <1>5, FirstIsLast DEF IInv
  <2>2. Ours(jply)
    BY <2>1 DEF IInv, JournalShape, Pending, Recorded, St
  <2>3. jply < ply => intent[jply].move = played[jply]
                      /\ intent[jply].status \notin {"none", "PREPARED"}
    BY <2>1, <2>2 DEF IInv, JournalMatchesBoard
  <2>4. jply < s.ply => Confirms(s) /\ jply < ply
    BY <1>2, <1>3, <1>5, <2>1, <2>3 DEF Confirms
  <2>5. Confirms(s) => jply < s.ply
    BY <2>1 DEF Confirms
  <2>6. ~Refuses(s)
    BY <1>2, <1>3, <1>5, <2>1, <2>3, <2>4, <2>5 DEF Refuses
  <2> QED
    BY <1>1, <1>2, <1>3, <2>1, <2>4, <2>5, <2>6 DEF s
<1> QED
  BY <1>4, <1>5

-----------------------------------------------------------------------------
(* The stream *)

\* What is published keeps the stream in order.
LEMMA PublishKeepsFeed ==
  ASSUME IInv, Publish, jply' = jply, jover' = jover,
         ply' \in 0 .. MaxPly, over' \in BOOLEAN, ply <= ply', over => over'
  PROVE  FeedShape' /\ feed' \in Seq(Snapshot)
<1> DEFINE new == [ply |-> ply', over |-> over']
<1>1. new \in Snapshot
  BY DEF Snapshot
<1>2. feed \in Seq(Snapshot) /\ Len(feed) \in Nat
  BY DEF IInv, TypeOK
<1>3. jply \in Nat /\ ply \in Nat /\ ply' \in Nat /\ jply <= ply'
      /\ \A i \in 1 .. Len(feed) : feed[i].ply \in Nat /\ feed[i].ply <= ply'
  <2>1. jply \in Nat /\ ply \in Nat /\ ply' \in Nat /\ jply <= ply
    BY DEF IInv, TypeOK, JournalShape
  <2>2. \A i \in 1 .. Len(feed) : feed[i] \in Snapshot /\ feed[i].ply <= ply
    BY <1>2 DEF IInv, FeedShape
  <2>3. \A s \in Snapshot : s.ply \in Nat
    BY DEF Snapshot
  <2> QED
    BY <2>1, <2>2, <2>3
<1>4. CASE feed' = feed
  BY <1>2, <1>3, <1>4 DEF IInv, FeedShape
<1>5. CASE feed' = Append(feed, new)
  <2>1. /\ Len(feed') = Len(feed) + 1 /\ feed'[Len(feed) + 1] = new
        /\ \A i \in 1 .. Len(feed) : feed'[i] = feed[i]
        /\ feed' \in Seq(Snapshot)
    BY <1>1, <1>2, <1>5
  <2>2. new.ply = ply' /\ new.over = over'
    OBVIOUS
  <2> HIDE DEF new
  <2>3. \A i \in 1 .. Len(feed') : /\ jply <= feed'[i].ply /\ feed'[i].ply <= ply'
                                   /\ jover => feed'[i].over
                                   /\ feed'[i].over => over'
    <3> TAKE i \in 1 .. Len(feed')
    <3>1. CASE i = Len(feed) + 1
      BY <1>3, <2>1, <2>2, <3>1 DEF IInv, FeedShape
    <3>2. CASE i \in 1 .. Len(feed)
      BY <1>3, <2>1, <3>2 DEF IInv, FeedShape
    <3> QED
      BY <1>2, <2>1, <3>1, <3>2
  <2>4. \A i, j \in 1 .. Len(feed') :
          i <= j => feed'[i].ply <= feed'[j].ply /\ (feed'[i].over => feed'[j].over)
    <3> TAKE i, j \in 1 .. Len(feed')
    <3> HAVE i <= j
    <3>1. CASE j = Len(feed) + 1
      BY <2>1, <2>2, <2>3, <3>1
    <3>2. CASE j \in 1 .. Len(feed)
      <4>1. i \in 1 .. Len(feed)
        BY <1>2, <2>1, <3>2
      <4> QED
        BY <2>1, <3>2, <4>1 DEF IInv, FeedShape
    <3> QED
      BY <1>2, <2>1, <3>1, <3>2
  <2> QED
    BY <2>1, <2>3, <2>4 DEF IInv, FeedShape
<1> QED
  BY <1>4, <1>5 DEF Publish

\* A line of the stream read and accepted by the journal.
LEMMA ReadingKeepsFeed ==
  ASSUME IInv, feed # <<>>, feed' = Tail(feed), UNCHANGED <<ply, over>>,
         jply' = Head(feed).ply /\ jover' = Head(feed).over
  PROVE  FeedShape' /\ feed' \in Seq(Snapshot)
<1>1. feed \in Seq(Snapshot) /\ Len(feed) \in Nat
  BY DEF IInv, TypeOK
<1>2. /\ Len(feed') = Len(feed) - 1 /\ feed' \in Seq(Snapshot)
      /\ \A i \in 1 .. Len(feed') : feed'[i] = feed[i + 1]
      /\ Head(feed) = feed[1] /\ Len(feed) # 0
  BY <1>1
<1>3. \A i \in 1 .. Len(feed') : i + 1 \in 1 .. Len(feed) /\ 1 <= i + 1
  BY <1>1, <1>2
<1>4. 1 \in 1 .. Len(feed)
  BY <1>1, <1>2
<1>5. \A i \in 1 .. Len(feed') : /\ jply' <= feed'[i].ply /\ feed'[i].ply <= ply'
                                 /\ jover' => feed'[i].over
                                 /\ feed'[i].over => over'
  BY <1>2, <1>3, <1>4 DEF IInv, FeedShape
<1>6. \A i, j \in 1 .. Len(feed') :
        i <= j => feed'[i].ply <= feed'[j].ply /\ (feed'[i].over => feed'[j].over)
  BY <1>2, <1>3 DEF IInv, FeedShape
<1>7. jover' => over'
  BY <1>2, <1>4 DEF IInv, FeedShape
<1> QED
  BY <1>2, <1>5, <1>6, <1>7 DEF FeedShape

\* The stream opens with the whole game.
LEMMA OpeningFeed ==
  ASSUME IInv, ~over, feed' = <<[ply |-> ply, over |-> over]>>,
         UNCHANGED <<ply, over, jply, jover>>
  PROVE  FeedShape' /\ feed' \in Seq(Snapshot)
<1>1. feed' \in Seq(Snapshot) /\ Len(feed') = 1 /\ feed'[1].ply = ply /\ feed'[1].over = over
  BY DEF IInv, TypeOK, Snapshot
<1>2. \A i \in 1 .. Len(feed') : i = 1
  BY <1>1
<1>3. jply <= ply /\ ply <= ply /\ ~jover
  BY DEF IInv, TypeOK, JournalShape, FeedShape
<1> QED
  BY <1>1, <1>2, <1>3 DEF FeedShape

-----------------------------------------------------------------------------
(* The bridge *)

LEMMA InitInvariant == Init => IInv
<1> SUFFICES ASSUME Init PROVE IInv
  OBVIOUS
<1>1. TypeOK
  <2>1. 0 \in 0 .. MaxPly /\ 0 \in 0 .. MaxEpoch
    BY BoundAssumption
  <2>2. feed \in Seq(Snapshot) /\ wire \subseteq Post
    BY DEF Init
  <2> QED
    BY <2>1, <2>2 DEF Init, TypeOK, Status, Labels
<1>2. JournalShape /\ BridgeShape /\ WireShape /\ SentShape
  BY DEF Init, JournalShape, BridgeShape, WireShape, SentShape, St, Working
<1>3. FeedShape
  <2>1. Len(feed) = 0
    BY DEF Init
  <2> QED
    BY <2>1 DEF Init, FeedShape
<1>4. OnePostPerPosition /\ JournalMatchesBoard
  BY PlyIsNat DEF Init, OnePostPerPosition, JournalMatchesBoard
<1> QED
  BY <1>1, <1>2, <1>3, <1>4 DEF IInv

LEMMA KillKeeps == IInv /\ Kill => IInv'
<1> SUFFICES ASSUME IInv, Kill PROVE IInv'
  OBVIOUS
<1>1. TypeOK'
  BY DEF IInv, TypeOK, Kill, server, journal, Labels, Snapshot
<1>2. JournalShape' /\ WireShape' /\ SentShape' /\ OnePostPerPosition' /\ JournalMatchesBoard'
  BY DEF IInv, Kill, server, journal, JournalShape, WireShape, SentShape, OnePostPerPosition,
         JournalMatchesBoard, St
<1>3. BridgeShape'
  BY DEF Kill, BridgeShape, Working
<1>4. FeedShape'
  <2>1. Len(feed') = 0
    BY DEF Kill
  <2> QED
    BY <2>1 DEF IInv, Kill, server, journal, FeedShape
<1> QED
  BY <1>1, <1>2, <1>3, <1>4 DEF IInv

LEMMA LaunchKeeps == IInv /\ Launch => IInv'
<1> SUFFICES ASSUME IInv, Launch PROVE IInv'
  OBVIOUS
<1>1. TypeOK'
  BY BoundAssumption DEF IInv, TypeOK, Launch, server, network, journal, Labels
<1>2. BridgeShape'
  BY DEF IInv, TypeOK, Launch, server, network, journal, BridgeShape, Working, St
<1> QED
  BY <1>1, <1>2 DEF IInv, Launch, server, network, journal, JournalShape, WireShape, SentShape,
         FeedShape, OnePostPerPosition, JournalMatchesBoard, St

LEMMA OpenKeeps == IInv /\ Open => IInv'
<1> SUFFICES ASSUME IInv, Open PROVE IInv'
  OBVIOUS
<1>1. FeedShape' /\ feed' \in Seq(Snapshot)
  <2>1. CASE cooling
    BY <2>1 DEF IInv, TypeOK, Open, server, journal, FeedShape
  <2>2. CASE ~cooling
    BY <2>2, OpeningFeed DEF Open, server, journal
  <2> QED
    BY <2>1, <2>2
<1>2. TypeOK'
  BY <1>1 DEF IInv, TypeOK, Open, server, journal, Labels
<1>3. BridgeShape'
  BY DEF IInv, Open, server, journal, BridgeShape, Working, St
<1> QED
  BY <1>1, <1>2, <1>3 DEF IInv, Open, server, journal, JournalShape, WireShape, SentShape,
         OnePostPerPosition, JournalMatchesBoard, St

LEMMA ReceiveKeeps == IInv /\ Receive => IInv'
<1> SUFFICES ASSUME IInv, Receive PROVE IInv'
  OBVIOUS
<1> DEFINE s == Head(feed)
<1>1. /\ s \in Snapshot /\ jply <= s.ply /\ s.ply <= ply
      /\ Confirms(s) => First = jply /\ jply \in Ply /\ jply < s.ply
      /\ ~Confirms(s) /\ Pending # {} => s.ply = jply
      /\ Observe(s) /\ view' = s.ply
      /\ pc' = IF s.over THEN "closed"
               ELSE IF Ours(s.ply) /\ s.ply # view /\ s.ply < MaxPly THEN "ready" ELSE "stream"
  BY HonestHead DEF Receive
<1>2. /\ s.ply \in 0 .. MaxPly /\ s.over \in BOOLEAN /\ s.ply \in Nat
      /\ jply \in Nat /\ ply \in Nat
  BY <1>1 DEF Snapshot, IInv, TypeOK
<1>3. jply' = s.ply /\ jover' = s.over /\ UNCHANGED cooling
      /\ IF Confirms(s) THEN SetStatus(First, "CONFIRMED") ELSE UNCHANGED intent
  BY <1>1 DEF Observe
<1>4. FeedShape' /\ feed' \in Seq(Snapshot)
  BY <1>3, ReadingKeepsFeed DEF Receive, server
<1> HIDE DEF s
<1>5. intent' \in [Ply -> [status : Status, move : Moves \cup {NoMove}]]
  BY ZenonT(60), <1>1, <1>3 DEF IInv, TypeOK, SetStatus, Status
<1>6. TypeOK'
  BY <1>1, <1>2, <1>3, <1>4, <1>5 DEF IInv, TypeOK, Receive, server, Labels
<1>7. \A p \in Ply : /\ intent'[p].move = intent[p].move
                     /\ \/ Confirms(s) /\ p = jply /\ St(p)' = "CONFIRMED"
                                       /\ St(p) \notin {"none", "CONFIRMED"}
                        \/ St(p)' = St(p) /\ (Confirms(s) => p # jply)
  <2>1. Confirms(s) => jply \in Pending
    BY FirstIsLast DEF Confirms, IInv
  <2>2. CASE Confirms(s)
    <3>1. intent' = [intent EXCEPT ![jply].status = "CONFIRMED"] /\ jply \in Ply
      BY <1>1, <1>3, <2>2 DEF SetStatus
    <3>2. St(jply) \notin {"none", "CONFIRMED"}
      BY <2>1, <2>2 DEF St, Pending, Recorded
    <3> QED
      BY <2>2, <3>1, <3>2 DEF IInv, TypeOK, St
  <2>3. CASE ~Confirms(s)
    BY <1>3, <2>3 DEF St
  <2> QED
    BY <2>2, <2>3
<1>8. JournalShape'
  <2>1. jply' <= ply'
    BY <1>1, <1>3 DEF Receive, server
  <2>2. ASSUME NEW p \in Ply
        PROVE  /\ St(p)' # "none" => Ours(p) /\ intent'[p].move \in Moves
               /\ St(p)' \notin {"none", "CONFIRMED"} => p = jply'
               /\ St(p)' = "CONFIRMED" => p < jply'
    <3>1. CASE Confirms(s) /\ p = jply
      BY <1>1, <1>3, <1>7, <3>1 DEF IInv, JournalShape
    <3>2. CASE St(p)' = St(p) /\ (Confirms(s) => p # jply)
      <4>1. St(p) \notin {"none", "CONFIRMED"} => p = jply /\ s.ply = jply
        <5>1. St(p) \notin {"none", "CONFIRMED"} => p \in Pending /\ p = jply
          BY DEF Pending, Recorded, St, IInv, JournalShape
        <5> QED
          BY <1>1, <3>2, <5>1
      <4>2. St(p) = "CONFIRMED" => p < s.ply
        BY <1>1, <1>2, PlyIsNat DEF IInv, JournalShape
      <4> QED
        BY <1>3, <1>7, <3>2, <4>1, <4>2 DEF IInv, JournalShape
    <3> QED
      BY <1>7, <3>1, <3>2 DEF St
  <2> QED
    BY <2>1, <2>2 DEF JournalShape, St
<1>9. BridgeShape'
  <2>1. pc = "stream" /\ epoch' = epoch /\ pc' \notin Working /\ pc' # "search"
    BY <1>1 DEF Receive, Working
  <2>2. pc' = "ready" => view' \in Ply /\ Ours(view')
    BY <1>1, <1>2, BoundAssumption DEF Ply
  <2> QED
    BY <1>1, <1>3, <2>1, <2>2 DEF IInv, BridgeShape, Working
<1>10. WireShape' /\ SentShape'
  <2>1. wire' = wire /\ ply' = ply /\ sent' = sent
    BY DEF Receive, server
  <2>2. ASSUME NEW q \in wire
        PROVE  /\ q.ply = ply /\ Ours(ply) /\ ply = jply' /\ q.move = intent'[ply].move
               /\ intent'[ply].status \notin {"none", "PREPARED", "CONFIRMED"}
    <3>1. q.ply = ply /\ Ours(ply) /\ ply = jply /\ q.move = intent[ply].move /\ q.ply \in Ply
          /\ St(ply) \notin {"none", "PREPARED", "CONFIRMED"}
      BY DEF IInv, WireShape, TypeOK, Post
    <3>2. ~Confirms(s) /\ jply' = jply
      BY <1>1, <1>2, <1>3, <3>1
    <3> QED
      BY <1>7, <3>1, <3>2 DEF St
  <2>3. \A p \in Ply : St(p)' \in {"none", "PREPARED"} => sent'[p] = 0
    BY <1>7, <2>1 DEF IInv, SentShape
  <2> QED
    BY <2>1, <2>2, <2>3 DEF IInv, WireShape, SentShape, St
<1>11. OnePostPerPosition' /\ JournalMatchesBoard'
  <2>1. UNCHANGED <<ply, played, sent>>
    BY DEF Receive, server
  <2>2. ASSUME NEW p \in Ply, Ours(p), p < ply
        PROVE  intent'[p].move = played[p] /\ intent'[p].status \notin {"none", "PREPARED"}
    BY <1>7, <2>2 DEF IInv, JournalMatchesBoard, St
  <2>3. ASSUME NEW p \in Ply, intent'[p].status = "CONFIRMED"
        PROVE  p < ply /\ Ours(p)
    <3>1. Ours(p) /\ p < jply'
      BY <1>8, <2>3 DEF JournalShape, St
    <3> QED
      BY <1>1, <1>2, <1>3, <3>1, PlyIsNat
  <2> QED
    BY <2>1, <2>2, <2>3 DEF IInv, OnePostPerPosition, JournalMatchesBoard
<1> QED
  BY <1>4, <1>6, <1>8, <1>9, <1>10, <1>11 DEF IInv

\* A step that leaves the server, the network and the journal alone.
LEMMA QuietStep ==
  ASSUME IInv, UNCHANGED <<server, wire, feed, sent, jply, jover, intent>>,
         TypeOK', BridgeShape'
  PROVE  IInv'
BY DEF IInv, server, JournalShape, WireShape, SentShape, FeedShape, OnePostPerPosition,
       JournalMatchesBoard, St

LEMMA CheckKeeps == IInv /\ Check => IInv'
<1> SUFFICES ASSUME IInv, Check PROVE IInv'
  OBVIOUS
<1>1. TypeOK'
  BY DEF IInv, TypeOK, Check, server, network, journal, Labels
<1>2. BridgeShape'
  BY DEF IInv, Check, server, network, journal, BridgeShape, Working, St
<1> QED
  BY <1>1, <1>2, QuietStep DEF Check, network, journal

LEMMA StageKeeps == IInv /\ Stage => IInv'
<1> SUFFICES ASSUME IInv, Stage PROVE IInv'
  OBVIOUS
<1>1. CASE UNCHANGED <<intent, best>> /\ pc' = "suspended"
  <2>1. TypeOK'
    BY <1>1 DEF IInv, TypeOK, Stage, server, network, Labels
  <2>2. BridgeShape'
    BY <1>1 DEF IInv, Stage, server, network, BridgeShape, Working, St
  <2> QED
    BY <1>1, <2>1, <2>2, QuietStep DEF Stage, network
<1>2. ASSUME IsReady, intent[view].status = "none", pc' = "staged",
             NEW m \in Moves, Prepare(m), best' = m
      PROVE  IInv'
  <2>1. pc = "search" /\ UNCHANGED <<server, network, jply, jover, cooling, epoch, view>>
    BY DEF Stage
  <2>2. view \in Ply /\ Ours(view) /\ view = jply /\ Pending = {}
    BY <1>2, <2>1 DEF IInv, BridgeShape, IsReady
  <2>3. /\ intent' = [intent EXCEPT ![view] = [status |-> "PREPARED", move |-> m]]
        /\ intent' \in [Ply -> [status : Status, move : Moves \cup {NoMove}]]
        /\ intent'[view] = [status |-> "PREPARED", move |-> m]
        /\ \A p \in Ply : p # view => intent'[p] = intent[p]
        /\ \A p \in Ply : p # view => St(p) \in {"none", "CONFIRMED"}
    BY <1>2, <2>2 DEF IInv, TypeOK, Prepare, Status, Pending, Recorded, St
  <2>4. ply <= view
    <3>1. ~(view < ply)
      BY <1>2, <2>2 DEF IInv, JournalMatchesBoard
    <3> QED
      BY <2>2, <3>1, PlyIsNat DEF IInv, TypeOK
  <2>5. TypeOK'
    BY <1>2, <2>1, <2>3 DEF IInv, TypeOK, server, network, Labels
  <2>6. wire = {}
    BY <1>2, <2>2 DEF IInv, WireShape, St
  <2>7. sent[view] = 0
    BY <1>2, <2>2 DEF IInv, SentShape, St
  <2>8. JournalShape' /\ BridgeShape'
    BY <1>2, <2>1, <2>2, <2>3 DEF IInv, JournalShape, BridgeShape, St, server, network, Working
  <2>9. WireShape' /\ SentShape'
    BY <2>1, <2>3, <2>6, <2>7 DEF IInv, WireShape, SentShape, St, server, network
  <2>10. FeedShape' /\ OnePostPerPosition'
    BY <2>1 DEF IInv, FeedShape, OnePostPerPosition, server, network
  <2>11. JournalMatchesBoard'
    <3>1. \A p \in Ply : p < ply => p # view
      BY <2>2, <2>4, PlyIsNat DEF IInv, TypeOK
    <3> QED
      BY <2>1, <2>3, <3>1 DEF IInv, JournalMatchesBoard, server
  <2> QED
    BY <2>5, <2>8, <2>9, <2>10, <2>11 DEF IInv
<1> QED
  BY <1>1, <1>2 DEF Stage

LEMMA SubmitKeeps == IInv /\ Submit => IInv'
<1> SUFFICES ASSUME IInv, Submit PROVE IInv'
  OBVIOUS
<1>1. /\ view \in Ply /\ view = jply /\ Latest = view /\ best = intent[view].move
      /\ pc = "staged" /\ St(view) = "PREPARED"
      /\ UNCHANGED <<server, network, jply, jover, cooling, epoch, view, best>>
  BY WorkingOnLatest DEF Submit, Working, IInv, BridgeShape
<1>2. CASE pc' = "suspended" /\ UNCHANGED intent
  <2>1. TypeOK' /\ BridgeShape'
    BY <1>1, <1>2 DEF IInv, TypeOK, BridgeShape, server, network, Labels, Working, St
  <2> QED
    BY <1>1, <1>2, <2>1, QuietStep DEF network
<1>3. CASE SetStatus(Latest, "SUBMITTING") /\ pc' = "post"
  <2>1. /\ intent' \in [Ply -> [status : Status, move : Moves \cup {NoMove}]]
        /\ intent'[view].status = "SUBMITTING" /\ intent'[view].move = intent[view].move
        /\ \A p \in Ply : p # view => intent'[p] = intent[p]
    BY <1>1, <1>3 DEF IInv, TypeOK, SetStatus, Status
  <2>2. wire = {} /\ sent[view] = 0
    BY <1>1 DEF IInv, WireShape, SentShape
  <2>3. ply = view
    <3>1. ~(view < ply) /\ jply <= ply
      BY <1>1 DEF IInv, JournalMatchesBoard, JournalShape, BridgeShape, Working, St
    <3> QED
      BY <1>1, <3>1, PlyIsNat DEF IInv, TypeOK
  <2>4. TypeOK'
    BY <1>1, <1>3, <2>1 DEF IInv, TypeOK, server, network, Labels
  <2>5. JournalShape' /\ BridgeShape'
    BY <1>1, <1>3, <2>1, <2>2, <2>3 DEF IInv, JournalShape, BridgeShape, St, server, network, Working
  <2>6. WireShape' /\ SentShape' /\ FeedShape' /\ OnePostPerPosition'
    BY <1>1, <2>1, <2>2 DEF IInv, WireShape, SentShape, FeedShape, OnePostPerPosition, St, server, network
  <2>7. JournalMatchesBoard'
    BY <1>1, <2>1 DEF IInv, JournalMatchesBoard, server, St
  <2> QED
    BY <2>4, <2>5, <2>6, <2>7 DEF IInv
<1> QED
  BY <1>2, <1>3 DEF Submit

LEMMA SendKeeps == IInv /\ Send => IInv'
<1> SUFFICES ASSUME IInv, Send PROVE IInv'
  OBVIOUS
<1> DEFINE q == [ply |-> view, move |-> best, epoch |-> epoch]
<1>1. /\ view \in Ply /\ view = jply /\ Latest = view /\ best = intent[view].move /\ best \in Moves
      /\ pc = "post" /\ pc' = "wait" /\ St(view) = "SUBMITTING" /\ Ours(view)
      /\ wire = {} /\ ply = view /\ sent[view] = 0
      /\ UNCHANGED <<server, reply, feed, journal, epoch, view, best>>
  BY WorkingOnLatest DEF Send, Working, IInv, BridgeShape
<1>2. wire' = {q} /\ sent' = [sent EXCEPT ![view] = @ + 1]
  BY <1>1 DEF Send
<1>3. q \in Post /\ q.ply = view /\ q.move = best
  <2>1. epoch \in 1 .. MaxEpoch
    BY <1>1, BoundAssumption DEF IInv, TypeOK, BridgeShape
  <2> QED
    BY <1>1, <2>1 DEF Post
<1> HIDE DEF q
<1>4. sent' \in [Ply -> Nat] /\ sent'[view] = 1 /\ \A p \in Ply : p # view => sent'[p] = sent[p]
  BY <1>1, <1>2 DEF IInv, TypeOK
<1>5. TypeOK'
  BY <1>1, <1>2, <1>3, <1>4 DEF IInv, TypeOK, server, journal, Labels
<1>6. JournalShape' /\ BridgeShape' /\ WireShape' /\ SentShape'
  BY <1>1, <1>2, <1>3, <1>4 DEF IInv, JournalShape, BridgeShape, WireShape, SentShape, St, Working,
     server, journal
<1>7. FeedShape' /\ JournalMatchesBoard'
  BY <1>1 DEF IInv, FeedShape, JournalMatchesBoard, server, journal
<1>8. OnePostPerPosition'
  BY <1>4 DEF IInv, OnePostPerPosition
<1> QED
  BY <1>5, <1>6, <1>7, <1>8 DEF IInv

\* The outcome of the request is written; the worker goes on or is suspended.
LEMMA SettleKeeps ==
  ASSUME IInv, pc \in {"wait", "limited"}, NEW after \in {"ACK_OBSERVED", "UNKNOWN_ACK"},
         Settle(after), pc' \in {"stream", "suspended"},
         reply' \in {"none", "ok", "refused", "limited"},
         UNCHANGED <<server, wire, feed, sent, jply, jover, cooling, epoch, view, best>>
  PROVE  IInv'
<1>1. view \in Ply /\ view = jply /\ Latest = view /\ St(view) = "SUBMITTING"
  BY WorkingOnLatest DEF Working, IInv, BridgeShape
<1>2. /\ intent' \in [Ply -> [status : Status, move : Moves \cup {NoMove}]]
      /\ intent'[view].status = after /\ intent'[view].move = intent[view].move
      /\ \A p \in Ply : p # view => intent'[p] = intent[p]
  <2>1. intent' = [intent EXCEPT ![view].status = after] /\ after \in Status
    BY <1>1 DEF Settle, SetStatus, St, Status
  <2> QED
    BY <1>1, <2>1 DEF IInv, TypeOK
<1>3. TypeOK'
  BY <1>2 DEF IInv, TypeOK, server, Labels
<1>4. JournalShape' /\ BridgeShape' /\ WireShape' /\ SentShape'
  BY <1>1, <1>2 DEF IInv, JournalShape, BridgeShape, WireShape, SentShape, St, Working, server
<1>5. FeedShape' /\ OnePostPerPosition'
  BY DEF IInv, FeedShape, OnePostPerPosition, server
<1>6. JournalMatchesBoard'
  BY <1>1, <1>2 DEF IInv, JournalMatchesBoard, server, St
<1> QED
  BY <1>3, <1>4, <1>5, <1>6 DEF IInv

LEMMA AnsweredKeeps == IInv /\ Answered => IInv'
<1> SUFFICES ASSUME IInv, Answered PROVE IInv'
  OBVIOUS
<1>1. /\ pc = "wait" /\ reply' = "none" /\ intent[Latest].status = "SUBMITTING"
      /\ UNCHANGED <<server, wire, feed, sent, jply, jover, epoch, view, best>>
  BY WorkingOnLatest DEF Answered, Working, IInv, BridgeShape, St
<1>2. CASE Settle("ACK_OBSERVED") /\ UNCHANGED cooling /\ pc' = "stream"
  BY <1>1, <1>2, SettleKeeps
<1>3. CASE Settle("UNKNOWN_ACK") /\ UNCHANGED cooling /\ pc' = "suspended"
  BY <1>1, <1>3, SettleKeeps
<1>4. CASE cooling' = TRUE /\ UNCHANGED intent /\ pc' = "limited"
  <2>1. TypeOK' /\ BridgeShape'
    BY <1>1, <1>4 DEF IInv, TypeOK, BridgeShape, Working, St, server, Labels
  <2> QED
    BY <1>1, <1>4, <2>1, QuietStep
<1> QED
  BY <1>1, <1>2, <1>3, <1>4 DEF Answered

LEMMA TimedOutKeeps == IInv /\ (TimedOut \/ Limited) => IInv'
<1> SUFFICES ASSUME IInv, TimedOut \/ Limited PROVE IInv'
  OBVIOUS
<1>1. reply' \in {"none", "ok", "refused", "limited"}
  BY DEF TimedOut, Limited, network, IInv, TypeOK
<1> QED
  BY <1>1, SettleKeeps DEF TimedOut, Limited, network

LEMMA StreamBreaksKeeps == IInv /\ (StreamBreaks \/ CoolOff) => IInv'
<1> SUFFICES ASSUME IInv, StreamBreaks \/ CoolOff PROVE IInv'
  OBVIOUS
<1>1. UNCHANGED <<server, wire, reply, feed, sent, jply, jover, intent, epoch, view, best>>
      /\ cooling' \in BOOLEAN /\ (pc' = pc \/ (pc \in {"boot", "stream"} /\ pc' = "suspended"))
  BY DEF StreamBreaks, CoolOff, network, journal, bridge, IInv, TypeOK
<1>2. TypeOK'
  BY <1>1 DEF IInv, TypeOK, server, Labels
<1>3. BridgeShape'
  BY <1>1 DEF IInv, BridgeShape, Working, St, server
<1> QED
  BY <1>1, <1>2, <1>3, QuietStep

-----------------------------------------------------------------------------
(* The server and the network *)

LEMMA PlayKeeps == \A q \in wire : IInv /\ Play(q) => IInv'
<1> SUFFICES ASSUME NEW q \in wire, IInv, Play(q) PROVE IInv'
  OBVIOUS
<1>1. /\ q.ply = ply /\ ply \in Ply /\ Ours(ply) /\ ply = jply /\ q.move = intent[ply].move
      /\ St(ply) \notin {"none", "PREPARED", "CONFIRMED"} /\ q.move \in Moves
      /\ \A r \in wire : r = q
  BY DEF IInv, WireShape, TypeOK, Post
<1>2. wire' = {}
  BY <1>1 DEF Play
<1>3. /\ played' = [played EXCEPT ![ply] = q.move] /\ ply' = ply + 1 /\ over' \in BOOLEAN /\ ~over
      /\ Publish /\ UNCHANGED <<reply, sent, journal, bridge>>
  BY DEF Play
<1>4. ply \in Nat /\ ply < MaxPly
  BY <1>1, PlyIsNat
<1>5. ply' \in 0 .. MaxPly /\ ply < ply'
  BY <1>3, <1>4, BoundAssumption
<1>6. FeedShape' /\ feed' \in Seq(Snapshot)
  BY <1>3, <1>4, <1>5, PublishKeepsFeed DEF journal
<1>7. played' \in [Ply -> Moves \cup {NoMove}] /\ played'[ply] = q.move
      /\ \A p \in Ply : p # ply => played'[p] = played[p]
  BY <1>1, <1>3 DEF IInv, TypeOK
<1>9. TypeOK'
  BY <1>2, <1>3, <1>5, <1>6, <1>7 DEF IInv, TypeOK, journal, bridge
<1>10. JournalShape'
  <2>1. jply <= ply'
    BY <1>1, <1>4, <1>5
  <2> QED
    BY <1>3, <2>1 DEF IInv, JournalShape, journal, St
<1>11. BridgeShape'
  <2>1. pc # "post"
    BY DEF IInv, BridgeShape
  <2> QED
    BY <1>3, <2>1 DEF IInv, BridgeShape, journal, bridge, St, Working
<1>12. WireShape' /\ SentShape' /\ OnePostPerPosition'
  BY <1>2, <1>3 DEF IInv, WireShape, SentShape, OnePostPerPosition, journal, St
<1>13. JournalMatchesBoard'
  <2>1. ASSUME NEW p \in Ply, p < ply' PROVE p = ply \/ p < ply
    BY <1>3, <1>4, <2>1, PlyIsNat
  <2>2. \A p \in Ply : p < ply => p < ply' /\ p # ply
    BY <1>4, <1>5, PlyIsNat
  <2> QED
    BY <1>1, <1>3, <1>7, <2>1, <2>2 DEF IInv, JournalMatchesBoard, journal, St
<1> QED
  BY <1>6, <1>9, <1>10, <1>11, <1>12, <1>13 DEF IInv

LEMMA AnswerKeeps == IInv /\ (Answer \/ \E q \in wire : Lose(q)) => IInv'
<1> SUFFICES ASSUME IInv, Answer \/ \E q \in wire : Lose(q) PROVE IInv'
  OBVIOUS
<1>1. wire' \subseteq wire /\ UNCHANGED <<server, feed, sent, journal, bridge>>
  BY DEF Answer, Lose
<1>2. reply' \in {"none", "ok", "refused", "limited"}
  BY DEF Answer, Lose, IInv, TypeOK
<1>3. TypeOK'
  BY <1>1, <1>2 DEF IInv, TypeOK, server, journal, bridge
<1> QED
  BY <1>1, <1>3 DEF IInv, server, journal, bridge, JournalShape, BridgeShape, WireShape, SentShape,
     FeedShape, OnePostPerPosition, JournalMatchesBoard, St, Working

LEMMA OpponentKeeps == IInv /\ (OpponentMoves \/ GameEnds) => IInv'
<1> SUFFICES ASSUME IInv, OpponentMoves \/ GameEnds PROVE IInv'
  OBVIOUS
<1>1. /\ ~over /\ over' \in BOOLEAN /\ Publish
      /\ UNCHANGED <<played, wire, reply, sent, journal, bridge>>
      /\ \/ ply' = ply
         \/ ~Ours(ply) /\ ply < MaxPly /\ ply' = ply + 1
  BY DEF OpponentMoves, GameEnds
<1>2. ply \in Nat /\ jply \in Nat /\ ply' \in 0 .. MaxPly /\ ply <= ply'
  BY <1>1, BoundAssumption DEF IInv, TypeOK
<1>3. FeedShape' /\ feed' \in Seq(Snapshot)
  BY <1>1, <1>2, PublishKeepsFeed DEF journal
<1>4. TypeOK'
  BY <1>1, <1>2, <1>3 DEF IInv, TypeOK, journal, bridge
<1>5. \A p \in Ply : Ours(p) /\ p < ply' => p < ply
  BY <1>1, <1>2, PlyIsNat
<1>6. \A p \in Ply : p < ply => p < ply'
  BY <1>2, PlyIsNat
<1>7. JournalShape'
  <2>1. jply <= ply'
    BY <1>2 DEF IInv, JournalShape
  <2> QED
    BY <1>1, <2>1 DEF IInv, JournalShape, journal, St
<1>8. BridgeShape' /\ WireShape'
  <2>1. pc = "post" \/ wire # {} => Ours(ply)
    BY DEF IInv, BridgeShape, WireShape, Working
  <2>2. pc = "post" \/ wire # {} => ply' = ply
    BY <1>1, <2>1
  <2> QED
    BY <1>1, <2>2 DEF IInv, BridgeShape, WireShape, journal, bridge, St, Working
<1>9. SentShape' /\ OnePostPerPosition' /\ JournalMatchesBoard'
  BY <1>1, <1>5, <1>6 DEF IInv, SentShape, OnePostPerPosition, JournalMatchesBoard, journal, St
<1> QED
  BY <1>3, <1>4, <1>7, <1>8, <1>9 DEF IInv

-----------------------------------------------------------------------------
(* Theorems *)

\* Every step of the bridge, the server and the network keeps the invariant.
LEMMA NextKeeps == IInv /\ [Next]_vars => IInv'
<1> SUFFICES ASSUME IInv, [Next]_vars PROVE IInv'
  OBVIOUS
<1>1. CASE Next
  BY <1>1, KillKeeps, LaunchKeeps, OpenKeeps, ReceiveKeeps, CheckKeeps, StageKeeps,
     SubmitKeeps, SendKeeps, AnsweredKeeps, TimedOutKeeps, StreamBreaksKeeps, PlayKeeps,
     AnswerKeeps, OpponentKeeps
     DEF Next, Step
<1>2. CASE UNCHANGED vars
  BY <1>2 DEF vars, server, network, journal, bridge, IInv, TypeOK, JournalShape,
     BridgeShape, WireShape, SentShape, FeedShape, OnePostPerPosition, JournalMatchesBoard,
     St, Working
<1> QED
  BY <1>1, <1>2

\* A game that is over, of which the journal knows the end and every move,
\* stays so: nothing is staged, submitted or taken back.
LEMMA SettledStays ==
  ASSUME IInv, [Next]_vars, over, jover, jply = ply, Pending = {}
  PROVE  over' /\ jover' /\ jply' = ply' /\ Pending' = {}
<1>1. pc \notin Working
  BY WorkingOnLatest DEF Pending, Recorded, St
<1>2. ~IsReady
  BY DEF IsReady
<1>3. CASE UNCHANGED <<over, ply, jover, jply, intent>>
  BY <1>3 DEF Pending, Recorded
<1>4. CASE Receive
  <2>1. CASE UNCHANGED journal
    BY <1>3, <1>4, <2>1 DEF Receive, journal, server
  <2>2. CASE Observe(Head(feed))
    <3>1. Head(feed) = feed[1] /\ 1 \in 1 .. Len(feed)
      BY <1>4 DEF Receive, IInv, TypeOK
    <3>2. Head(feed).over /\ jply <= Head(feed).ply /\ Head(feed).ply <= ply
      BY <3>1 DEF IInv, FeedShape
    <3>3. Head(feed).ply = ply
      <4>1. Head(feed).ply \in Nat /\ ply \in Nat
        BY <1>4, HonestHead DEF Receive, Snapshot, IInv, TypeOK
      <4> QED
        BY <3>2, <4>1
    <3>4. ~Confirms(Head(feed))
      BY DEF Confirms
    <3> QED
      BY <1>3, <1>4, <2>2, <3>2, <3>3, <3>4 DEF Receive, Observe, server
  <2> QED
    BY <1>4, <2>1, <2>2 DEF Receive
<1>5. CASE Open \/ Check \/ Stage \/ Submit \/ Send \/ Answered \/ TimedOut \/ Limited
  BY <1>1, <1>2, <1>3, <1>5 DEF Open, Check, Stage, Submit, Send, Answered, TimedOut, Limited, Working,
     server, journal
<1>6. CASE Kill \/ Launch \/ StreamBreaks \/ CoolOff \/ Answer \/ \E q \in wire : Lose(q)
  BY <1>3, <1>6 DEF Kill, Launch, StreamBreaks, CoolOff, Answer, Lose, server, journal
<1>7. CASE OpponentMoves \/ GameEnds \/ \E q \in wire : Play(q)
  BY <1>7 DEF OpponentMoves, GameEnds, Play
<1>8. CASE UNCHANGED vars
  BY <1>3, <1>8 DEF vars, server, journal
<1> QED
  BY <1>4, <1>5, <1>6, <1>7, <1>8 DEF Next, Step

\* The inductive invariant, for any moves, length of the game and number of restarts.
THEOREM Invariance == Spec => []IInv
BY InitInvariant, NextKeeps, PTL DEF Spec

\* The journal, the bridge and the wire hold only what they are declared to.
THEOREM TypeCorrect == Spec => []TypeOK
BY Invariance, PTL DEF IInv

\* Whatever is lost, late or restarted, no position is submitted twice
\* (guarded_post refuses any intent that is not PREPARED).
THEOREM NoSecondSubmission == Spec => []OnePostPerPosition
BY Invariance, PTL DEF IInv

\* A move on the board was journaled for its very position, and only such a
\* move is ever confirmed.
THEOREM BoardIsJournaled == Spec => []JournalMatchesBoard
BY Invariance, PTL DEF IInv

\* MoveJournal.observe never refuses what an honest server streams.
THEOREM HonestServerAccepted == Spec => []NothingToRefuse
<1>1. IInv => NothingToRefuse
  BY HonestHead DEF NothingToRefuse
<1> QED
  BY <1>1, Invariance, PTL
=============================================================================
