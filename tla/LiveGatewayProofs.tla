-------------------------- MODULE LiveGatewayProofs --------------------------
(***************************************************************************)
(* The gateway, its row and the supervisor, for any moves, length of the   *)
(* game and number of restarts.  The bridge's half of the argument is      *)
(* MoveRecoveryProofs, whose lemmas are cited through the instance P.      *)
(***************************************************************************)
EXTENDS LiveGateway, TLAPS

P == INSTANCE MoveRecoveryProofs WITH wire <- Passing, feed <- down \o up

\* The acceptance is spent before it is sent, and only once: it is in one
\* place at most.
AcceptShape ==
    /\ Accept \in held \/ Accept \in outbound \/ (tpc = "cleared" /\ turn = Accept) =>
          row.accepted /\ asked = 0
    /\ asked <= 1 /\ (asked = 1 => row.accepted)
    /\ ~(Accept \in held /\ Accept \in outbound)
    /\ tpc = "cleared" /\ turn = Accept => Accept \notin held /\ Accept \notin outbound

\* The two halves of the stream: what the row has not seen yet, and what it
\* has recorded for the bridge to read.
StreamShape ==
    /\ \A i \in 1 .. Len(up) : up[i].ply <= ply /\ (up[i].over => over /\ up[i].ply = ply)
    /\ \A i \in 1 .. Len(down) : down[i].ply <= row.history /\ (down[i].over => witness)
    /\ down # <<>> \/ view # P!Unseen => row.full
    /\ (Reading => row.game) /\ (row.terminal => row.full)

\* A request in the gateway is for a position it has not admitted one for.
PostShape ==
    /\ \A q \in inbound \cup posts : sent[q.ply] # 0
    /\ \A q \in inbound : \A r \in posts : q.ply # r.ply

\* The game is over and everybody knows.
Proven == over /\ jover /\ jply = ply /\ P!Pending = {} /\ witness /\ pgn
FinishShape == spc = "written" \/ lease = "done" => Proven

\* The line the gateway holds back is there to be forwarded.
WriterHolds == closing => relay /\ row.terminal /\ (Reading => up # <<>>)

GInv == /\ P!IInv /\ TypeOK /\ AcceptShape /\ StreamShape /\ WriterHolds
        /\ WitnessFirst /\ PostShape /\ FinishShape

\* The steps that leave the game, the journal and the bridge alone, but for
\* the answer to a request.
GatewayStep ==
    \/ Offer \/ Withdraw \/ SeeChallenge \/ AcceptOnce \/ GameStart
    \/ Handlers \/ \E q \in inbound : Admit(q) \/ Deny(q) \/ LoseInbound(q)
    \/ CoolDown \/ ReadLine \/ ReadStale \/ WriteWitness \/ DropStream
    \/ GatewayDies \/ GatewayStarts
    \/ AcceptArrives \/ \E q \in outbound : LoseOutbound(q)
    \/ Reconcile \/ Finish \/ GiveUp \/ Mark \/ OperatorStops

\* The steps that are one of MoveRecovery's as well.
BridgeStep ==
    \/ OpenStream \/ RefuseStream \/ StreamBreaks \/ Receive \/ Send \/ Worker \/ BridgeDies
    \/ StartRun \/ Board \/ \E q \in outbound : Play(q)

-----------------------------------------------------------------------------
(* The gateway is a network MoveRecovery allows *)

\* The two instances name the same steps.
LEMMA SameAnswer == MR!Answer <=> P!Answer
BY DEF MR!Answer, P!Answer, MR!Latest, P!Latest, MR!Recorded, P!Recorded, MR!Ply, P!Ply,
       MR!Max, P!Max, MR!server, P!server, MR!journal, P!journal, MR!bridge, P!bridge

LEMMA SameStream ==
  /\ MR!Open <=> P!Open
  /\ MR!StreamBreaks <=> P!StreamBreaks
  /\ MR!Receive <=> P!Receive
  /\ MR!Kill <=> P!Kill
  /\ MR!Launch <=> P!Launch
<1>1. MR!Open <=> P!Open
  BY DEF MR!Open, P!Open, MR!server, P!server, MR!journal, P!journal
<1>2. MR!StreamBreaks <=> P!StreamBreaks
  BY DEF MR!StreamBreaks, P!StreamBreaks, MR!server, P!server, MR!network, P!network,
         MR!journal, P!journal
<1>3. MR!Receive <=> P!Receive
  BY DEF MR!Receive, P!Receive, MR!Refuses, P!Refuses, MR!Confirms, P!Confirms, MR!Observe,
         P!Observe, MR!SetStatus, P!SetStatus, MR!First, P!First, MR!Min, P!Min, MR!Pending, P!Pending,
         MR!Recorded, P!Recorded, MR!Ply, P!Ply, MR!Ours, P!Ours, MR!server, P!server,
         MR!journal, P!journal
<1>4. MR!Kill <=> P!Kill
  BY DEF MR!Kill, P!Kill, MR!Unseen, P!Unseen, MR!server, P!server, MR!journal, P!journal
<1>5. MR!Launch <=> P!Launch
  BY DEF MR!Launch, P!Launch, MR!server, P!server, MR!network, P!network, MR!journal, P!journal
<1> QED
  BY <1>1, <1>2, <1>3, <1>4, <1>5

LEMMA SameTurn ==
  /\ MR!Check <=> P!Check
  /\ MR!Stage <=> P!Stage
  /\ MR!Submit <=> P!Submit
  /\ MR!Send <=> P!Send
<1>1. MR!IsReady <=> P!IsReady
  BY DEF MR!IsReady, P!IsReady, MR!Pending, P!Pending, MR!Recorded, P!Recorded, MR!Ply, P!Ply
<1>2. MR!Latest = P!Latest
  BY DEF MR!Latest, P!Latest, MR!Max, P!Max, MR!Recorded, P!Recorded, MR!Ply, P!Ply
<1>3. MR!Check <=> P!Check
  BY <1>1 DEF MR!Check, P!Check, MR!server, P!server, MR!network, P!network, MR!journal, P!journal
<1>4. MR!Stage <=> P!Stage
  BY <1>1 DEF MR!Stage, P!Stage, MR!Prepare, P!Prepare, MR!server, P!server, MR!network, P!network
<1>5. MR!Submit <=> P!Submit
  BY <1>2 DEF MR!Submit, P!Submit, MR!SetStatus, P!SetStatus, MR!server, P!server,
              MR!network, P!network
<1>6. MR!Send <=> P!Send
  BY <1>2 DEF MR!Send, P!Send, MR!server, P!server, MR!journal, P!journal
<1> QED
  BY <1>3, <1>4, <1>5, <1>6

LEMMA SameAnswered ==
  /\ MR!Answered <=> P!Answered
  /\ MR!TimedOut <=> P!TimedOut
  /\ MR!Limited <=> P!Limited
  /\ MR!CoolOff <=> P!CoolOff
<1>1. MR!Latest = P!Latest
  BY DEF MR!Latest, P!Latest, MR!Max, P!Max, MR!Recorded, P!Recorded, MR!Ply, P!Ply
<1>2. \A after : MR!Settle(after) <=> P!Settle(after)
  BY <1>1 DEF MR!Settle, P!Settle, MR!SetStatus, P!SetStatus
<1>3. MR!Answered <=> P!Answered
  BY <1>1, <1>2 DEF MR!Answered, P!Answered, MR!server, P!server
<1>4. MR!TimedOut <=> P!TimedOut
  BY <1>2 DEF MR!TimedOut, P!TimedOut, MR!server, P!server, MR!network, P!network
<1>5. MR!Limited <=> P!Limited
  BY <1>2 DEF MR!Limited, P!Limited, MR!server, P!server, MR!network, P!network
<1>6. MR!CoolOff <=> P!CoolOff
  BY DEF MR!CoolOff, P!CoolOff, MR!server, P!server, MR!network, P!network, MR!bridge, P!bridge
<1> QED
  BY <1>3, <1>4, <1>5, <1>6

LEMMA SameBoard ==
  /\ \A q : MR!Play(q) <=> P!Play(q)
  /\ MR!OpponentMoves <=> P!OpponentMoves
  /\ MR!GameEnds <=> P!GameEnds
<1>1. MR!Publish <=> P!Publish
  BY DEF MR!Publish, P!Publish
<1> QED
  BY <1>1 DEF MR!Play, P!Play, MR!OpponentMoves, P!OpponentMoves, MR!GameEnds, P!GameEnds,
              MR!Ours, P!Ours, MR!journal, P!journal, MR!bridge, P!bridge

LEMMA SameNext == [P!Next]_(P!vars) => [MR!Next]_(MR!vars)
<1>1. \A q : MR!Lose(q) <=> P!Lose(q)
  BY DEF MR!Lose, P!Lose, MR!server, P!server, MR!journal, P!journal, MR!bridge, P!bridge
<1>2. P!Next => MR!Next
  BY <1>1, SameAnswer, SameStream, SameTurn, SameAnswered, SameBoard DEF MR!Next, P!Next, MR!Step, P!Step
<1>3. P!vars' = P!vars => MR!vars' = MR!vars
  BY DEF MR!vars, P!vars, MR!server, P!server, MR!network, P!network, MR!journal, P!journal,
         MR!bridge, P!bridge
<1> QED
  BY <1>2, <1>3

-----------------------------------------------------------------------------

\* A set of requests that holds at most one loses it, or nothing at all.
LEMMA LoseOne ==
  ASSUME P!IInv, Passing' \subseteq Passing, (down \o up)' = down \o up, UNCHANGED recovery
  PROVE  [P!Next]_(P!vars)
<1>1. \A q, r \in Passing : q = r
  BY DEF P!IInv, P!WireShape
<1>2. CASE Passing' = Passing
  BY <1>2 DEF recovery, P!vars, P!server, P!network, P!journal, P!bridge
<1>3. CASE Passing' # Passing
  <2>1. PICK q \in Passing : q \notin Passing'
    BY <1>3
  <2>2. Passing' = Passing \ {q}
    BY <1>1, <2>1
  <2>3. P!Lose(q)
    BY <2>1, <2>2 DEF P!Lose, recovery, P!server, P!journal, P!bridge
  <2> QED
    BY <2>1, <2>3 DEF P!Next
<1> QED
  BY <1>2, <1>3

\* The answer that reaches the bridge is one its request may have; without
\* it, what is not passed on is lost.
LEMMA BackSteps ==
  ASSUME P!IInv, NEW q, NEW answer, Back(q, answer),
         Passing' \subseteq Passing, (down \o up)' = down \o up
  PROVE  [P!Next]_(P!vars)
<1>1. CASE Awaited(q)
  BY <1>1, SameAnswer DEF Back, P!Next
<1>2. CASE ~Awaited(q)
  BY <1>2, LoseOne DEF Back
<1> QED
  BY <1>1, <1>2

\* A line goes from one half of the stream to the other.
LEMMA ForwardStays ==
  ASSUME up \in Seq(MR!Snapshot), down \in Seq(MR!Snapshot), up # <<>>, Forward
  PROVE  (down \o up)' = down \o up
<1>1. Append(down, Head(up)) \o Tail(up) = down \o up
  OBVIOUS
<1> QED
  BY <1>1 DEF Forward

LEMMA GatewaySteps ==
  ASSUME P!IInv, TypeOK, WriterHolds, GatewayStep
  PROVE  [P!Next]_(P!vars)
<1>1. CASE \/ Offer \/ Withdraw \/ SeeChallenge \/ GameStart \/ CoolDown \/ ReadStale \/ DropStream
           \/ GatewayStarts \/ Reconcile \/ Finish \/ GiveUp \/ Mark \/ OperatorStops
  <2>1. UNCHANGED <<recovery, network, threads>>
    BY <1>1 DEF Offer, Withdraw, SeeChallenge, GameStart, CoolDown, ReadStale, DropStream,
                GatewayStarts, Reconcile, Finish, GiveUp, Mark, OperatorStops, gateway, network
  <2> QED
    BY <2>1, LoseOne DEF network, threads, Passing
<1>2. CASE AcceptOnce \/ Transmit \/ AcceptArrives \/ GatewayDies
           \/ (\E q \in inbound : Admit(q) \/ LoseInbound(q)) \/ \E q \in outbound : LoseOutbound(q)
  <2>1. UNCHANGED <<recovery, up, down>> /\ Passing' \subseteq Passing
    BY <1>2 DEF AcceptOnce, Transmit, AcceptArrives, GatewayDies, Admit, LoseInbound,
                LoseOutbound, network, gateway, threads, Passing
  <2> QED
    BY <2>1, LoseOne
<1>3. ASSUME NEW q \in inbound, Deny(q) PROVE [P!Next]_(P!vars)
  <2>1. Passing' \subseteq Passing /\ (down \o up)' = down \o up
    BY <1>3 DEF Deny, threads, Passing
  <2> QED
    BY <1>3, <2>1, BackSteps DEF Deny
<1>4. ASSUME NEW q \in held, TakeTurn(q) PROVE [P!Next]_(P!vars)
  <2>1. (down \o up)' = down \o up
    BY <1>4 DEF TakeTurn, network
  <2>2. CASE turn' = q /\ tpc' = "cleared" /\ UNCHANGED recovery
    <3>1. Passing' \subseteq Passing
      BY <1>4, <2>2 DEF TakeTurn, network, Passing
    <3> QED
      BY <2>1, <2>2, <3>1, LoseOne
  <2>3. CASE UNCHANGED <<turn, tpc>> /\ Back(q, Refusal)
    <3>1. Passing' \subseteq Passing
      BY <1>4, <2>3 DEF TakeTurn, network, Passing
    <3> QED
      BY <2>1, <2>3, <3>1, BackSteps
  <2> QED
    BY <1>4, <2>2, <2>3 DEF TakeTurn
<1>5. ASSUME Respond PROVE [P!Next]_(P!vars)
  <2>1. (down \o up)' = down \o up /\ Passing' \subseteq Passing
    BY <1>5 DEF Respond, network, Passing
  <2> QED
    BY <1>5, <2>1, BackSteps DEF Respond
<1>6. ASSUME ReadLine \/ WriteWitness PROVE [P!Next]_(P!vars)
  <2>1. UNCHANGED <<recovery, inbound, outbound, threads>>
        /\ (UNCHANGED <<up, down>> \/ (up # <<>> /\ Forward))
    BY <1>6 DEF ReadLine, WriteWitness, WriterHolds
  <2>2. (down \o up)' = down \o up
    BY <2>1, ForwardStays DEF TypeOK
  <2> QED
    BY <2>1, <2>2, LoseOne DEF threads, Passing
<1> QED
  BY <1>1, <1>2, <1>3, <1>4, <1>5, <1>6 DEF GatewayStep, Handlers

LEMMA BridgeSteps == BridgeStep => [P!Next]_(P!vars)
<1> SUFFICES ASSUME BridgeStep PROVE [P!Next]_(P!vars)
  OBVIOUS
<1>1. CASE OpenStream \/ RefuseStream \/ StreamBreaks \/ Receive \/ BridgeDies \/ StartRun
  BY <1>1, SameStream DEF OpenStream, RefuseStream, StreamBreaks, Receive, BridgeDies, Kill, StartRun,
     P!Next, P!Step
<1>2. CASE Send \/ Worker
  BY <1>2, SameTurn, SameAnswered, SameStream DEF Send, Worker, P!Next, P!Step
<1>3. CASE Board \/ \E q \in outbound : Play(q)
  <2>1. \A q : P!Play(q) => q \in Passing
    BY DEF P!Play
  <2> QED
    BY <1>3, <2>1, SameBoard DEF Board, Play, P!Next
<1> QED
  BY <1>1, <1>2, <1>3 DEF BridgeStep

LEMMA Refines ==
  ASSUME P!IInv, TypeOK, WriterHolds, [Next]_vars
  PROVE  [P!Next]_(P!vars)
<1>1. CASE UNCHANGED vars
  BY <1>1, LoseOne DEF vars, network, gateway, threads, Passing
<1>2. CASE Reap \/ SupervisorDies
  <2>1. CASE pc = "down"
    <3>1. UNCHANGED <<recovery, network, threads>>
      BY <1>2, <2>1 DEF Reap, SupervisorDies, gateway, network
    <3> QED
      BY <3>1, LoseOne DEF network, threads, Passing
  <2>2. CASE pc # "down"
    BY <1>2, <2>2, SameStream DEF Reap, SupervisorDies, Kill, P!Next
  <2> QED
    BY <2>1, <2>2
<1>3. CASE GatewayStep
  BY <1>3, GatewaySteps
<1>4. CASE BridgeStep
  BY <1>4, BridgeSteps
<1> QED
  BY <1>1, <1>2, <1>3, <1>4 DEF Next, GatewayStep, BridgeStep

-----------------------------------------------------------------------------
(* What a step may change *)

\* A game that is over stays as it is; a request sent stays counted.
LEMMA GameMoves ==
  ASSUME P!IInv, [P!Next]_(P!vars)
  PROVE  /\ ply \in Nat /\ ply' \in Nat /\ ply <= ply' /\ (over => over' /\ ply' = ply)
         /\ \A p \in P!Ply : sent[p] # 0 => sent'[p] # 0
<1>1. ply \in Nat /\ sent \in [P!Ply -> Nat] /\ played \in [P!Ply -> Moves \cup {NoMove}]
  BY DEF P!IInv, P!TypeOK
<1>2. CASE UNCHANGED <<ply, over>>
  <2>1. CASE sent' = sent
    BY <1>1, <1>2, <2>1
  <2>2. CASE P!Send
    BY SMTT(60), <1>1, <1>2, <2>2 DEF P!Send
  <2>3. sent' = sent \/ P!Send
    BY DEF P!Next, P!Step, P!Open, P!Receive, P!Check, P!Stage, P!Submit, P!Answered, P!TimedOut,
           P!Limited, P!Kill, P!Launch, P!StreamBreaks, P!CoolOff, P!Answer, P!Play, P!Lose,
           P!OpponentMoves, P!GameEnds, P!vars, P!server, P!network, P!journal, P!bridge
  <2> QED
    BY <2>1, <2>2, <2>3
<1>3. CASE ~over /\ sent' = sent /\ ply' \in {ply, ply + 1}
  BY SMTT(60), <1>1, <1>3
<1>4. \/ UNCHANGED <<ply, over>>
      \/ ~over /\ sent' = sent /\ ply' \in {ply, ply + 1}
  BY DEF P!Next, P!Step, P!Open, P!Receive, P!Check, P!Stage, P!Submit, P!Send, P!Answered, P!TimedOut,
         P!Limited, P!Kill, P!Launch, P!StreamBreaks, P!CoolOff, P!Answer, P!Play, P!Lose,
         P!OpponentMoves, P!GameEnds, P!vars, P!server, P!network, P!journal, P!bridge
<1> QED
  BY <1>2, <1>3, <1>4

\* Only a line received moves the journal; only a stream that opens makes a
\* reader of the bridge.
LEMMA BridgeMoves ==
  ASSUME [Next]_vars
  PROVE  /\ Receive \/ (UNCHANGED <<jply, jover>> /\ view' \in {view, MR!Unseen})
         /\ OpenStream \/ (Reading' => Reading)
<1>1. CASE UNCHANGED recovery
  BY <1>1 DEF recovery, Reading
<1>2. CASE MR!Answer
  BY <1>2 DEF MR!Answer, MR!journal, MR!bridge, Reading
<1>3. CASE MR!Kill \/ MR!Launch \/ MR!StreamBreaks
  BY <1>3 DEF MR!Kill, MR!Launch, MR!StreamBreaks, MR!journal, Reading
<1>4. CASE OpenStream \/ Receive \/ Send \/ Worker
  <2>1. CASE OpenStream
    BY <2>1 DEF OpenStream, MR!Open, MR!journal
  <2>2. CASE Receive
    BY <2>2 DEF Receive, MR!Receive, Reading
  <2> QED
    BY <1>4, <2>1, <2>2 DEF Send, Worker, MR!Send, MR!Check, MR!Stage, MR!Submit,
       MR!Answered, MR!TimedOut, MR!Limited, MR!CoolOff, MR!journal, MR!bridge, Reading
<1>5. CASE Board \/ \E q \in outbound : Play(q)
  BY <1>5 DEF Board, Play, MR!Play, MR!OpponentMoves, MR!GameEnds, MR!journal, MR!bridge, Reading
<1>6. CASE GatewayStep
  <2>1. UNCHANGED recovery \/ MR!Answer
    BY <1>6 DEF GatewayStep, Handlers, Offer, Withdraw, SeeChallenge, AcceptOnce, GameStart, Transmit,
       Respond, TakeTurn, Back, Admit, Deny, LoseInbound, CoolDown, ReadLine, ReadStale,
       WriteWitness, DropStream, GatewayDies, GatewayStarts, AcceptArrives, LoseOutbound, Reconcile,
       Finish, GiveUp, Mark, OperatorStops
  <2> QED
    BY <1>1, <1>2, <2>1
<1>7. CASE RefuseStream \/ StreamBreaks \/ BridgeDies \/ StartRun \/ Reap \/ SupervisorDies
  BY <1>1, <1>3, <1>7 DEF RefuseStream, StreamBreaks, BridgeDies, StartRun, Reap, SupervisorDies, Kill
<1> QED
  BY <1>1, <1>4, <1>5, <1>6, <1>7 DEF Next, GatewayStep, vars

LEMMA InitHolds == Init => GInv
<1> SUFFICES ASSUME Init PROVE GInv
  OBVIOUS
<1>1. Passing = {} /\ down \o up = <<>> /\ MR!Init
  BY DEF Init, Passing
<1>2. P!Init
  BY <1>1 DEF MR!Init, P!Init, MR!Ply, P!Ply, MR!Unseen, P!Unseen
<1>3. P!IInv
  BY <1>2, P!InitInvariant, MoveAssumption, SideAssumption, BoundAssumption
<1>4. TypeOK
  <2>1. MR!TypeOK
    BY <1>3 DEF P!IInv, P!TypeOK, MR!TypeOK, P!Ply, MR!Ply, P!Post, MR!Post, P!Snapshot, MR!Snapshot,
                P!Status, MR!Status, P!Labels, MR!Labels, P!Unseen, MR!Unseen
  <2>2. 0 \in 0 .. MaxPly
    BY BoundAssumption
  <2>3. row \in Row
    BY <2>2 DEF Init, Row
  <2>4. up \in Seq(MR!Snapshot) /\ down \in Seq(MR!Snapshot)
    BY DEF Init
  <2> QED
    BY <2>1, <2>3, <2>4 DEF Init, TypeOK
<1>5. AcceptShape /\ WriterHolds /\ PostShape /\ FinishShape
  BY DEF Init, AcceptShape, WriterHolds, PostShape, FinishShape
<1>6. StreamShape
  <2>1. Len(up) = 0 /\ Len(down) = 0
    BY DEF Init
  <2> QED
    BY <1>2, <2>1 DEF Init, P!Init, StreamShape, Reading
<1>7. WitnessFirst
  BY <1>2 DEF Init, P!Init, WitnessFirst
<1> QED
  BY <1>3, <1>4, <1>5, <1>6, <1>7 DEF GInv

LEMMA BridgeHolds ==
  ASSUME GInv, [Next]_vars
  PROVE  P!IInv' /\ MR!TypeOK'
<1>1. P!IInv'
  BY Refines, P!NextKeeps, MoveAssumption, SideAssumption, BoundAssumption DEF GInv
<1> QED
  BY <1>1 DEF P!IInv, P!TypeOK, MR!TypeOK, P!Ply, MR!Ply, P!Post, MR!Post, P!Snapshot, MR!Snapshot,
              P!Status, MR!Status, P!Labels, MR!Labels, P!Unseen, MR!Unseen

\* What the bridge sends is a request for a move at the position on the board.
LEMMA SentIsPost ==
  ASSUME GInv, Send
  PROVE  \E q \in Post : /\ inbound' = inbound \cup {q} /\ q.ply = ply /\ q.ply \in P!Ply
                          /\ sent[q.ply] = 0 /\ sent'[q.ply] # 0 /\ inbound = {}
<1> DEFINE q == [ply |-> P!Latest, move |-> best, epoch |-> epoch]
<1>1. /\ pc = "post" /\ MR!Latest = P!Latest /\ inbound' = inbound \cup {q}
      /\ sent' = [sent EXCEPT ![P!Latest] = @ + 1]
  <2>1. MR!Latest = P!Latest
    BY DEF MR!Latest, P!Latest, MR!Max, P!Max, MR!Recorded, P!Recorded, MR!Ply, P!Ply
  <2> QED
    BY <2>1 DEF Send, MR!Send
<1>2. view \in P!Ply /\ P!Latest = view /\ best \in Moves
  BY <1>1, P!WorkingOnLatest, MoveAssumption, SideAssumption, BoundAssumption DEF GInv, P!Working
<1>3. Passing = {} /\ ply = view /\ sent[view] = 0 /\ epoch \in 1 .. MaxEpoch /\ inbound \subseteq Post
  BY <1>1, BoundAssumption DEF GInv, P!IInv, P!BridgeShape, P!TypeOK, TypeOK
<1>4. q \in Post /\ q.ply = view
  BY <1>2, <1>3 DEF Post, P!Ply
<1>5. inbound = {}
  BY <1>3, AcceptAssumption DEF Passing
<1>6. sent'[view] = 1
  BY <1>1, <1>2, <1>3 DEF GInv, P!IInv, P!TypeOK
<1> QED
  BY <1>1, <1>2, <1>3, <1>4, <1>5, <1>6

-----------------------------------------------------------------------------
(* What each group of steps leaves alone *)

requests == <<asked, inbound, held, outbound, turn, tpc, posts>>
run      == <<spc, lease, pgn, stop>>

\* The row's record of the game stays; its flags are only ever raised.
RowGrows ==
    /\ row' \in Row /\ UNCHANGED <<row.history, row.terminal, row.full>>
    /\ (row.accepted => row'.accepted) /\ (row.game => row'.game)

SameLines == UNCHANGED <<up, down, witness, closing>> /\ (closing => relay' = relay) /\ RowGrows
             /\ gw' \in BOOLEAN /\ relay' \in BOOLEAN

Quiet ==
    \/ Offer \/ Withdraw \/ SeeChallenge \/ GameStart \/ CoolDown \/ GatewayStarts \/ DropStream
    \/ RefuseStream \/ StreamBreaks \/ Worker
Requests ==
    \/ AcceptOnce \/ Handlers \/ Send \/ AcceptArrives
    \/ \E q \in inbound : Admit(q) \/ Deny(q) \/ LoseInbound(q)
    \/ \E q \in outbound : LoseOutbound(q)
Lines == OpenStream \/ ReadLine \/ ReadStale \/ WriteWitness \/ Receive \/ BridgeDies \/ Board
Supervisor ==
    \/ StartRun \/ Reconcile \/ Finish \/ GiveUp \/ Mark \/ Reap \/ SupervisorDies \/ OperatorStops

LEMMA Groups ==
  Next => Quiet \/ Requests \/ Lines \/ Supervisor \/ GatewayDies \/ \E q \in outbound : Play(q)
BY DEF Next, Quiet, Requests, Lines, Supervisor, Handlers

LEMMA QuietFrame ==
  ASSUME TypeOK, Quiet
  PROVE  UNCHANGED <<requests, run>> /\ SameLines
<1>1. row \in Row /\ gw \in BOOLEAN /\ relay \in BOOLEAN
  BY DEF TypeOK
<1>2. CASE Offer \/ Withdraw \/ StreamBreaks \/ Worker
  BY <1>1, <1>2 DEF Offer, Withdraw, StreamBreaks, Worker, requests, run, SameLines, RowGrows, network,
     gateway, threads, supervisor, lichess
<1>3. CASE SeeChallenge \/ GameStart \/ CoolDown \/ GatewayStarts
  BY <1>1, <1>3 DEF SeeChallenge, GameStart, CoolDown, GatewayStarts, Suspend, Fence, requests, run,
     SameLines, RowGrows, Row, network, threads, supervisor, lichess
<1>4. CASE DropStream \/ RefuseStream
  BY <1>1, <1>4 DEF DropStream, RefuseStream, Suspend, Fence, requests, run,
     SameLines, RowGrows, Row, network, threads, supervisor, lichess
<1> QED
  BY <1>2, <1>3, <1>4 DEF Quiet

LEMMA RequestFrame ==
  ASSUME TypeOK, Requests
  PROVE  UNCHANGED run /\ SameLines
<1>1. row \in Row /\ gw \in BOOLEAN /\ relay \in BOOLEAN
  BY DEF TypeOK
<1>2. CASE Send \/ AcceptArrives \/ Transmit \/ AcceptOnce
  BY <1>1, <1>2 DEF Send, AcceptArrives, Transmit, AcceptOnce, run, SameLines, RowGrows, Row, network,
     gateway, threads, supervisor
<1>3. CASE Respond \/ \E q \in held : TakeTurn(q)
  BY <1>1, <1>3 DEF Respond, TakeTurn, Suspend, Fence, run, SameLines, RowGrows, Row, network, supervisor
<1>4. CASE \/ \E q \in inbound : Admit(q) \/ Deny(q) \/ LoseInbound(q)
           \/ \E q \in outbound : LoseOutbound(q)
  BY <1>1, <1>4 DEF Admit, Deny, LoseInbound, LoseOutbound, Fence, run, SameLines, RowGrows, Row,
     gateway, threads, supervisor
<1> QED
  BY <1>2, <1>3, <1>4 DEF Requests, Handlers

LEMMA LineFrame == Lines => UNCHANGED <<lobby, requests, run>>
BY DEF Lines, OpenStream, ReadLine, ReadStale, WriteWitness, Receive, BridgeDies, Board, requests, run,
       lichess, network, gateway, threads, supervisor

LEMMA SupervisorFrame ==
  ASSUME Supervisor
  PROVE  /\ UNCHANGED <<lobby, requests, gw, witness, closing, relay, row>>
         /\ UNCHANGED <<up, down>> \/ Kill
BY DEF Supervisor, StartRun, Reconcile, Finish, GiveUp, Mark, Reap, SupervisorDies, OperatorStops,
       requests, lichess, network, gateway, threads

LEMMA DeathFrame ==
  ASSUME TypeOK, GatewayDies
  PROVE  UNCHANGED <<lobby, asked, inbound, outbound, posts, up, down, row, witness, run>>
BY DEF GatewayDies, lichess, network, supervisor, run

LEMMA PlayFrame ==
  ASSUME NEW q \in outbound, Play(q)
  PROVE  UNCHANGED <<lobby, asked, inbound, posts, held, turn, tpc, down, gw, row, witness, relay, closing>>
         /\ UNCHANGED run
         /\ outbound' = outbound \ {q} /\ q # Accept /\ Publish
BY DEF Play, Publish, lichess, gateway, threads, supervisor, run

-----------------------------------------------------------------------------
(* Each part of the invariant, over every step *)

LEMMA RequestTypes ==
  ASSUME GInv, [Next]_vars
  PROVE  /\ asked' \in Nat /\ inbound' \subseteq Post
         /\ held' \subseteq Post \cup {Accept} /\ outbound' \subseteq Post \cup {Accept}
         /\ turn' \in Post \cup {Accept} /\ tpc' \in {"free", "cleared", "waiting"}
         /\ posts' \subseteq Post
<1>1. TypeOK
  BY DEF GInv
<1>2. CASE UNCHANGED requests
  BY <1>1, <1>2 DEF requests, TypeOK
<1>3. CASE Requests
  <2>1. CASE Send
    BY <1>1, <2>1, SentIsPost DEF Send, TypeOK, lichess, gateway, threads
  <2>2. CASE AcceptOnce \/ AcceptArrives \/ Transmit
    BY <1>1, <2>2 DEF AcceptOnce, AcceptArrives, Transmit, TypeOK, lichess, network, gateway, threads
  <2>3. CASE Respond \/ \E q \in held : TakeTurn(q)
    BY <1>1, <2>3 DEF Respond, TakeTurn, TypeOK, lichess, network
  <2>4. CASE \/ \E q \in inbound : Admit(q) \/ Deny(q) \/ LoseInbound(q)
             \/ \E q \in outbound : LoseOutbound(q)
    BY <1>1, <2>4 DEF Admit, Deny, LoseInbound, LoseOutbound, TypeOK, lichess, gateway, threads
  <2> QED
    BY <1>3, <2>1, <2>2, <2>3, <2>4 DEF Requests, Handlers
<1>4. CASE GatewayDies
  BY <1>1, <1>4 DEF GatewayDies, TypeOK, lichess, network
<1>5. CASE \E q \in outbound : Play(q)
  BY <1>1, <1>5, PlayFrame DEF TypeOK
<1>6. UNCHANGED vars => UNCHANGED requests
  BY DEF vars, requests, lichess, network, gateway, threads
<1> QED
  BY <1>1, <1>2, <1>3, <1>4, <1>5, <1>6, Groups, QuietFrame, LineFrame, SupervisorFrame

LEMMA HeadTypes ==
  ASSUME NEW lines \in Seq(MR!Snapshot), lines # <<>>
  PROVE  Head(lines).ply \in 0 .. MaxPly /\ Head(lines).over \in BOOLEAN
<1>1. Head(lines) \in MR!Snapshot
  OBVIOUS
<1> QED
  BY <1>1 DEF MR!Snapshot

LEMMA PublishTypes ==
  ASSUME TypeOK, MR!TypeOK', Publish
  PROVE  up' \in Seq(MR!Snapshot)
<1>1. [ply |-> ply', over |-> over'] \in MR!Snapshot
  BY DEF MR!TypeOK, MR!Snapshot
<1> QED
  BY <1>1 DEF Publish, TypeOK

LEMMA LineTypes ==
  ASSUME GInv, [Next]_vars
  PROVE  /\ up' \in Seq(MR!Snapshot) /\ down' \in Seq(MR!Snapshot)
         /\ row' \in Row /\ witness' \in BOOLEAN
         /\ gw' \in BOOLEAN /\ relay' \in BOOLEAN /\ closing' \in BOOLEAN
<1>1. TypeOK /\ MR!TypeOK' /\ MR!TypeOK
  BY BridgeHolds DEF GInv, TypeOK
<1>2. CASE UNCHANGED vars
  BY <1>1, <1>2 DEF vars, network, gateway, TypeOK
<1>3. CASE SameLines
  BY <1>1, <1>3 DEF SameLines, RowGrows, TypeOK
<1>4. CASE Supervisor
  <2>1. CASE UNCHANGED <<up, down>>
    BY <1>1, <1>4, <2>1, SupervisorFrame DEF TypeOK
  <2>2. CASE Kill
    BY <1>1, <1>4, <2>2, SupervisorFrame DEF Kill, TypeOK
  <2> QED
    BY <1>4, <2>1, <2>2, SupervisorFrame
<1>5. CASE GatewayDies
  BY <1>1, <1>5 DEF GatewayDies, network, TypeOK
<1>6. CASE \E q \in outbound : Play(q)
  BY <1>1, <1>6, PlayFrame, PublishTypes DEF TypeOK
<1>7. CASE OpenStream \/ Receive \/ BridgeDies
  <2> DEFINE whole == <<[ply |-> ply, over |-> over]>>
  <2>1. whole \in Seq(MR!Snapshot)
    <3>1. [ply |-> ply, over |-> over] \in MR!Snapshot
      BY <1>1 DEF MR!TypeOK, MR!Snapshot
    <3> QED
      BY <3>1
  <2>2. CASE OpenStream
    <3>1. up' \in Seq(MR!Snapshot) /\ down' \in Seq(MR!Snapshot) /\ relay' \in BOOLEAN
      <4>1. \/ UNCHANGED <<up, down, relay>>
            \/ down' = <<>> /\ up' = whole /\ relay' = TRUE
        BY <2>2 DEF OpenStream
      <4>2. <<>> \in Seq(MR!Snapshot)
        OBVIOUS
      <4> HIDE DEF whole
      <4> QED
        BY <1>1, <2>1, <4>1, <4>2 DEF TypeOK
    <3> QED
      BY <1>1, <2>2, <3>1 DEF OpenStream, TypeOK
  <2>3. CASE Receive
    BY <1>1, <2>3 DEF Receive, gateway, TypeOK
  <2>4. CASE BridgeDies
    BY <1>1, <2>4 DEF BridgeDies, Kill, gateway, TypeOK
  <2> QED
    BY <1>7, <2>2, <2>3, <2>4
<1>8. CASE ReadLine \/ WriteWitness
  <2>1. (up # <<>> /\ Forward) \/ UNCHANGED <<up, down>>
    BY <1>8 DEF ReadLine, WriteWitness, WriterHolds, GInv
  <2>2. up' \in Seq(MR!Snapshot) /\ down' \in Seq(MR!Snapshot)
    <3>1. up \in Seq(MR!Snapshot) /\ down \in Seq(MR!Snapshot)
      BY <1>1 DEF TypeOK
    <3>2. up # <<>> => Head(up) \in MR!Snapshot /\ Tail(up) \in Seq(MR!Snapshot)
      BY <3>1
    <3>3. up # <<>> => Append(down, Head(up)) \in Seq(MR!Snapshot)
      BY <3>1, <3>2
    <3> QED
      BY <2>1, <3>1, <3>2, <3>3 DEF Forward
  <2>3. row' \in Row
    <3>1. up # <<>> => Head(up).ply \in 0 .. MaxPly /\ Head(up).over \in BOOLEAN
      BY <1>1, HeadTypes DEF TypeOK
    <3> QED
      BY <1>1, <1>8, <3>1 DEF ReadLine, WriteWitness, Record, Suspend, Row, TypeOK
  <2>4. witness' \in BOOLEAN /\ gw' \in BOOLEAN /\ relay' \in BOOLEAN /\ closing' \in BOOLEAN
    <3>1. up # <<>> => Head(up).over \in BOOLEAN
      BY <1>1, HeadTypes DEF TypeOK
    <3> QED
      BY <1>1, <1>8, <3>1 DEF ReadLine, WriteWitness, TypeOK
  <2> QED
    BY <2>2, <2>3, <2>4
<1>9. CASE ReadStale \/ Board
  <2>1. CASE ReadStale
    BY <1>1, <2>1 DEF ReadStale, network, Record, MR!Snapshot, Row, TypeOK
  <2>2. CASE Board
    BY <1>1, <2>2, PublishTypes DEF Board, Publish, gateway, TypeOK
  <2> QED
    BY <1>9, <2>1, <2>2
<1>10. Lines => OpenStream \/ Receive \/ BridgeDies \/ ReadLine \/ WriteWitness \/ ReadStale \/ Board
  BY DEF Lines
<1> QED
  BY <1>1, <1>2, <1>3, <1>4, <1>5, <1>6, <1>7, <1>8, <1>9, <1>10, Groups, QuietFrame, RequestFrame

LEMMA TypeHolds ==
  ASSUME GInv, [Next]_vars
  PROVE  TypeOK'
<1>1. TypeOK
  BY DEF GInv
<1>2. lobby' \in {"open", "offered", "withdrawn", "started"}
  <2>1. CASE Quiet
    BY <1>1, <2>1 DEF Quiet, Offer, Withdraw, SeeChallenge, GameStart, CoolDown, GatewayStarts,
       DropStream, RefuseStream, StreamBreaks, Worker, TypeOK, lichess
  <2>2. CASE Requests
    BY <1>1, <2>2 DEF Requests, AcceptOnce, Handlers, Transmit, Respond, TakeTurn, Send, AcceptArrives,
       Admit, Deny, LoseInbound, LoseOutbound, TypeOK, lichess
  <2> QED
    BY <1>1, <2>1, <2>2, Groups, LineFrame, SupervisorFrame, DeathFrame, PlayFrame
       DEF TypeOK, vars, lichess
<1>3. /\ spc' \in {"off", "running", "written", "draining"}
      /\ lease' \in {"none", "claimed", "done"} /\ pgn' \in BOOLEAN /\ stop' \in BOOLEAN
  <2>1. CASE UNCHANGED run
    BY <1>1, <2>1 DEF TypeOK, run
  <2>2. CASE Supervisor
    BY <1>1, <2>2 DEF TypeOK, Supervisor, StartRun, Reconcile, Finish, GiveUp, Mark, Reap,
       SupervisorDies, OperatorStops
  <2>3. UNCHANGED vars => UNCHANGED run
    BY DEF vars, supervisor, run
  <2> QED
    BY <1>1, <2>1, <2>2, <2>3, Groups, QuietFrame, RequestFrame, LineFrame, DeathFrame, PlayFrame
<1> QED
  BY <1>2, <1>3, BridgeHolds, RequestTypes, LineTypes DEF TypeOK

\* What a line does to the row.
LEMMA LineRow ==
  ASSUME TypeOK, Lines
  PROVE  /\ UNCHANGED <<row.accepted, row.game>> /\ (row.full => row'.full)
         /\ \/ UNCHANGED <<row.history, row.terminal, row.full>>
            \/ ReadLine /\ Recordable(Head(up)) /\ Record(Head(up))
            \/ ReadStale
<1>1. row \in Row
  BY DEF TypeOK
<1>2. CASE ReadLine \/ ReadStale
  BY <1>1, <1>2 DEF ReadLine, ReadStale, Record, Row
<1>3. CASE OpenStream \/ WriteWitness \/ Receive \/ BridgeDies \/ Board
  BY <1>1, <1>3 DEF OpenStream, WriteWitness, Suspend, Receive, BridgeDies, Board, gateway, Row
<1> QED
  BY <1>2, <1>3 DEF Lines

LEMMA AcceptHolds ==
  ASSUME GInv, [Next]_vars
  PROVE  AcceptShape'
<1>1. TypeOK /\ AcceptShape /\ asked \in Nat /\ inbound \subseteq Post /\ Accept \notin inbound
  BY AcceptAssumption DEF GInv, TypeOK
<1>2. ASSUME UNCHANGED requests, row.accepted => row'.accepted PROVE AcceptShape'
  BY <1>1, <1>2 DEF requests, AcceptShape
<1>3. ASSUME UNCHANGED asked, row.accepted => row'.accepted, Accept \in held' => Accept \in held,
             Accept \in outbound' => Accept \in outbound,
             tpc' = "cleared" /\ turn' = Accept => tpc = "cleared" /\ turn = Accept
      PROVE  AcceptShape'
  BY <1>1, <1>3 DEF AcceptShape
<1>4. CASE Quiet
  BY <1>1, <1>2, <1>4, QuietFrame DEF SameLines, RowGrows
<1>5. CASE Lines
  BY <1>1, <1>2, <1>5, LineFrame, LineRow
<1>6. CASE Supervisor
  BY <1>2, <1>6, SupervisorFrame
<1>7. CASE GatewayDies \/ \E q \in outbound : Play(q)
  BY <1>1, <1>3, <1>7, DeathFrame, PlayFrame DEF GatewayDies
<1>8. CASE Requests
  <2>1. row.accepted => row'.accepted
    BY <1>1, <1>8, RequestFrame DEF SameLines, RowGrows
  <2>2. CASE AcceptOnce
    BY <1>1, <2>1, <2>2 DEF AcceptOnce, AcceptShape, TypeOK, Row, lichess, network
  <2>3. CASE AcceptArrives
    BY <1>1, <2>1, <2>3 DEF AcceptArrives, AcceptShape, gateway, threads
  <2>4. CASE Transmit
    BY <1>1, <2>1, <2>4 DEF Transmit, AcceptShape, lichess
  <2>5. CASE \E q \in held : TakeTurn(q)
    BY <1>1, <2>1, <2>5 DEF TakeTurn, AcceptShape, lichess, network
  <2>6. CASE Respond \/ Send \/ \E q \in inbound : Admit(q) \/ Deny(q) \/ LoseInbound(q)
    BY <1>1, <1>3, <2>1, <2>6 DEF Respond, Send, Admit, Deny, LoseInbound, lichess, network, gateway, threads
  <2>7. CASE \E q \in outbound : LoseOutbound(q)
    BY <1>1, <1>3, <2>1, <2>7 DEF LoseOutbound, lichess, gateway, threads
  <2> QED
    BY <1>8, <2>2, <2>3, <2>4, <2>5, <2>6, <2>7 DEF Requests, Handlers
<1>9. CASE UNCHANGED vars
  BY <1>2, <1>9 DEF vars, requests, lichess, network, gateway, threads
<1> QED
  BY <1>4, <1>5, <1>6, <1>7, <1>8, <1>9, Groups

LEMMA PostHolds ==
  ASSUME GInv, [Next]_vars
  PROVE  PostShape'
<1>1. /\ TypeOK /\ PostShape /\ inbound \subseteq Post /\ posts \subseteq Post
      /\ \A q \in Post : q.ply \in P!Ply
      /\ \A p \in P!Ply : sent[p] # 0 => sent'[p] # 0
      /\ \A q, r \in inbound : q = r
  <2>1. TypeOK /\ PostShape /\ inbound \subseteq Post /\ posts \subseteq Post /\ P!IInv /\ WriterHolds
    BY DEF GInv, TypeOK
  <2>2. \A q \in Post : q.ply \in P!Ply
    BY DEF Post, P!Ply
  <2>3. \A p \in P!Ply : sent[p] # 0 => sent'[p] # 0
    BY <2>1, Refines, GameMoves
  <2>4. \A q, r \in inbound : q = r
    BY <2>1, AcceptAssumption DEF P!IInv, P!WireShape, Passing
  <2> QED
    BY <2>1, <2>2, <2>3, <2>4
<1>2. ASSUME inbound' \subseteq inbound, UNCHANGED posts PROVE PostShape'
  BY <1>1, <1>2 DEF PostShape
<1>3. ASSUME NEW q \in inbound, Admit(q) PROVE PostShape'
  BY <1>1, <1>3 DEF Admit, PostShape
<1>4. CASE Send
  <2>1. UNCHANGED posts
    BY <1>4 DEF Send, gateway
  <2> QED
    BY <1>1, <1>4, <2>1, SentIsPost DEF PostShape
<1>5. CASE \/ AcceptOnce \/ Handlers \/ AcceptArrives \/ \E q \in outbound : LoseOutbound(q)
           \/ \E q \in inbound : Deny(q) \/ LoseInbound(q)
  BY <1>2, <1>5 DEF AcceptOnce, Handlers, Transmit, Respond, TakeTurn, AcceptArrives, LoseOutbound, Deny,
     LoseInbound, lichess, network, gateway, threads
<1>6. UNCHANGED vars => UNCHANGED requests
  BY DEF vars, requests, lichess, network, gateway, threads
<1> QED
  BY <1>1, <1>2, <1>3, <1>4, <1>5, <1>6, Groups, QuietFrame, LineFrame, SupervisorFrame, DeathFrame, PlayFrame
     DEF Requests, requests

\* The numbers a step of the stream is about.
LEMMA Numbers ==
  ASSUME GInv
  PROVE  /\ ply \in Nat /\ jply \in Nat /\ row.history \in Nat /\ row \in Row
         /\ up \in Seq(MR!Snapshot) /\ Len(up) \in Nat /\ down \in Seq(MR!Snapshot) /\ Len(down) \in Nat
         /\ \A i \in 1 .. Len(up) : up[i].ply \in Nat /\ up[i].over \in BOOLEAN
         /\ \A i \in 1 .. Len(down) : down[i].ply \in Nat /\ down[i].over \in BOOLEAN
<1>1. /\ ply \in 0 .. MaxPly /\ jply \in 0 .. MaxPly /\ row \in Row
      /\ up \in Seq(MR!Snapshot) /\ down \in Seq(MR!Snapshot)
  BY DEF GInv, TypeOK, MR!TypeOK
<1>2. Len(up) \in Nat /\ Len(down) \in Nat
  BY <1>1
<1>3. /\ \A i \in 1 .. Len(up) : up[i] \in MR!Snapshot
      /\ \A i \in 1 .. Len(down) : down[i] \in MR!Snapshot
  BY <1>1
<1>4. row.history \in 0 .. MaxPly
  BY <1>1 DEF Row
<1> QED
  BY <1>1, <1>2, <1>3, <1>4, BoundAssumption DEF MR!Snapshot

LEMMA StepFacts ==
  ASSUME GInv, [Next]_vars
  PROVE  /\ ply' \in Nat /\ ply <= ply' /\ (over => over' /\ ply' = ply)
         /\ Receive \/ (UNCHANGED <<jply, jover>> /\ view' \in {view, P!Unseen})
         /\ OpenStream \/ (Reading' => Reading)
BY Refines, GameMoves, BridgeMoves DEF GInv, MR!Unseen, P!Unseen

\* The line that is published is of the game as it is now.
LEMMA PublishShape ==
  ASSUME GInv, [Next]_vars, Publish, ~over
  PROVE  \A i \in 1 .. Len(up') : up'[i].ply <= ply' /\ (up'[i].over => over' /\ up'[i].ply = ply')
<1>1. /\ ply \in Nat /\ ply' \in Nat /\ ply <= ply' /\ Len(up) \in Nat
      /\ \A i \in 1 .. Len(up) : up[i].ply \in Nat /\ up[i].ply <= ply /\ ~up[i].over
  BY Numbers, StepFacts DEF GInv, StreamShape
<1>2. CASE up' = up
  BY <1>1, <1>2
<1>3. CASE up' = Append(up, [ply |-> ply', over |-> over'])
  <2> DEFINE new == [ply |-> ply', over |-> over']
  <2>1. new.ply = ply' /\ new.over = over'
    OBVIOUS
  <2> HIDE DEF new
  <2>2. Len(up') = Len(up) + 1 /\ up'[Len(up) + 1] = new /\ \A i \in 1 .. Len(up) : up'[i] = up[i]
    BY <1>3, Numbers DEF new
  <2> TAKE i \in 1 .. Len(up')
  <2>3. CASE i = Len(up) + 1
    BY <1>1, <2>1, <2>2, <2>3
  <2>4. CASE i \in 1 .. Len(up)
    BY <1>1, <2>2, <2>4
  <2> QED
    BY <1>1, <2>2, <2>3, <2>4
<1> QED
  BY <1>2, <1>3 DEF Publish

\* A line forwarded leaves the rest in order.
LEMMA ForwardShape ==
  ASSUME GInv, up # <<>>, Forward
  PROVE  /\ Len(up') = Len(up) - 1 /\ \A i \in 1 .. Len(up') : up'[i] = up[i + 1] /\ i + 1 \in 1 .. Len(up)
         /\ Len(down') = Len(down) + 1 /\ down'[Len(down) + 1] = up[1] /\ Head(up) = up[1]
         /\ 1 \in 1 .. Len(up) /\ \A i \in 1 .. Len(down) : down'[i] = down[i]
<1>1. up \in Seq(MR!Snapshot) /\ down \in Seq(MR!Snapshot) /\ Len(up) \in Nat /\ Len(up) # 0
  BY Numbers
<1>2. up' = Tail(up) /\ down' = Append(down, Head(up))
  BY DEF Forward
<1> QED
  BY <1>1, <1>2

\* What a step does to the row.
LEMMA RowMoves ==
  ASSUME GInv, [Next]_vars
  PROVE  /\ (row.game => row'.game) /\ (row.full => row'.full) /\ row.history <= row'.history
         /\ row'.history \in Nat
         /\ \/ UNCHANGED <<row.history, row.terminal, row.full>>
            \/ ReadLine /\ Recordable(Head(up)) /\ Record(Head(up))
            \/ ReadStale
<1>1. TypeOK /\ row.history \in Nat /\ row \in Row
  BY Numbers DEF GInv
<1>2. /\ (row.game => row'.game) /\ (row.full => row'.full)
      /\ \/ UNCHANGED <<row.history, row.terminal, row.full>>
         \/ ReadLine /\ Recordable(Head(up)) /\ Record(Head(up))
         \/ ReadStale
  BY <1>1, Groups, QuietFrame, RequestFrame, LineFrame, LineRow, SupervisorFrame, DeathFrame, PlayFrame
     DEF SameLines, RowGrows, vars, gateway
<1>3. row'.history \in Nat
  BY TypeHolds, BoundAssumption DEF TypeOK, Row
<1>4. row.history <= row'.history
  <2>1. CASE row'.history = row.history
    BY <1>1, <2>1
  <2>2. CASE Recordable(Head(up)) /\ Record(Head(up))
    BY <1>1, <2>2 DEF Recordable, Record, Row
  <2>3. CASE ReadStale
    BY <1>1, <2>3 DEF ReadStale, Record, Row
  <2> QED
    BY <1>2, <2>1, <2>2, <2>3
<1> QED
  BY <1>2, <1>3, <1>4

\* What a step does to the two halves of the stream.
LEMMA LineMoves ==
  ASSUME GInv, [Next]_vars
  PROVE  /\ witness => witness'
         /\ \/ UNCHANGED <<up, down>>
            \/ down' = <<>> /\ up' \in {<<>>, <<[ply |-> ply, over |-> over]>>} /\ UNCHANGED <<ply, over>>
            \/ Receive /\ UNCHANGED up /\ down # <<>> /\ down' = Tail(down)
            \/ Publish /\ ~over
            \/ /\ up # <<>> /\ Forward
               /\ \/ ~Head(up).over /\ Recordable(Head(up)) /\ Record(Head(up))
                  \/ closing /\ witness' /\ UNCHANGED <<ply, over, row>>
<1>1. TypeOK /\ WriterHolds
  BY DEF GInv
<1>2. CASE Quiet \/ Requests
  BY <1>1, <1>2, QuietFrame, RequestFrame DEF SameLines
<1>3. CASE Supervisor
  <2>1. Kill => down' = <<>> /\ up' = <<>> /\ UNCHANGED <<ply, over>>
    BY DEF Kill, MR!Kill, MR!server
  <2> QED
    BY <1>3, <2>1, SupervisorFrame
<1>4. CASE GatewayDies
  BY <1>1, <1>4, DeathFrame
<1>5. CASE \E q \in outbound : Play(q)
  BY <1>5, PlayFrame DEF Play, MR!Play
<1>6. CASE OpenStream
  <2>1. UNCHANGED <<ply, over, witness>>
    BY <1>6 DEF OpenStream, MR!Open, MR!server
  <2> QED
    BY <1>6, <2>1 DEF OpenStream
<1>7. CASE ReadLine
  BY <1>7 DEF ReadLine
<1>8. CASE WriteWitness
  <2>1. UNCHANGED <<ply, over>> /\ closing
    BY <1>8 DEF WriteWitness, recovery
  <2>2. CASE Reading /\ witness' = TRUE /\ UNCHANGED row /\ Forward
    BY <1>1, <2>1, <2>2 DEF WriterHolds
  <2>3. CASE UNCHANGED <<up, down>> /\ (witness' = TRUE \/ UNCHANGED witness)
    BY <2>3
  <2> QED
    BY <1>8, <2>2, <2>3 DEF WriteWitness
<1>9. CASE ReadStale
  BY <1>9 DEF ReadStale, network
<1>10. CASE Receive
  BY <1>10 DEF Receive, gateway
<1>11. CASE BridgeDies
  BY <1>11 DEF BridgeDies, Kill, MR!Kill, MR!server, gateway
<1>12. CASE Board
  BY <1>12 DEF Board, MR!OpponentMoves, MR!GameEnds, gateway
<1>13. CASE UNCHANGED vars
  BY <1>13 DEF vars, network, gateway
<1> QED
  BY <1>2, <1>3, <1>4, <1>5, <1>6, <1>7, <1>8, <1>9, <1>10, <1>11, <1>12, <1>13, Groups DEF Lines

LEMMA StreamHolds ==
  ASSUME GInv, [Next]_vars
  PROVE  StreamShape'
<1>1. StreamShape /\ WitnessFirst /\ WriterHolds
  BY DEF GInv
<1>2. Reading' => row'.game
  BY <1>1, StepFacts, RowMoves DEF StreamShape, OpenStream, MR!Open, Reading
<1>3. down' # <<>> \/ view' # P!Unseen => row'.full
  <2>1. row.full => row'.full
    BY RowMoves
  <2>2. CASE Receive
    <3>1. down # <<>>
      BY <2>2 DEF Receive
    <3> QED
      BY <1>1, <2>1, <3>1 DEF StreamShape
  <2>3. view' # P!Unseen => Receive \/ view # P!Unseen
    BY StepFacts
  <2>4. down' # <<>> => row.full \/ row'.full
    <3>1. Recordable(Head(up)) /\ Record(Head(up)) => row'.full
      BY Numbers DEF Record, Row
    <3>2. closing => row.full
      BY <1>1 DEF WriterHolds, StreamShape
    <3> QED
      BY <1>1, <3>1, <3>2, LineMoves DEF StreamShape, Publish
  <2> QED
    BY <1>1, <2>1, <2>2, <2>3, <2>4 DEF StreamShape
<1>4. row'.terminal => row'.full
  <2>1. CASE (ReadLine /\ Record(Head(up))) \/ ReadStale
    BY <2>1, Numbers DEF ReadStale, Record, Row
  <2> QED
    BY <1>1, <2>1, RowMoves DEF StreamShape
<1>5. /\ ply \in Nat /\ ply' \in Nat /\ ply <= ply' /\ (over => over' /\ ply' = ply)
      /\ Len(up) \in Nat /\ Len(down) \in Nat /\ row.history \in Nat /\ row'.history \in Nat
      /\ row.history <= row'.history /\ (witness => witness')
      /\ \A i \in 1 .. Len(up) : up[i].ply \in Nat
      /\ \A i \in 1 .. Len(down) : down[i].ply \in Nat
  BY Numbers, StepFacts, RowMoves, LineMoves
<1>6. \A i \in 1 .. Len(up') : up'[i].ply <= ply' /\ (up'[i].over => over' /\ up'[i].ply = ply')
  <2>1. \A i \in 1 .. Len(up) : up[i].ply <= ply' /\ (up[i].over => over' /\ up[i].ply = ply')
    BY <1>1, <1>5 DEF StreamShape
  <2>2. CASE UNCHANGED up
    BY <2>1, <2>2
  <2>3. CASE up' \in {<<>>, <<[ply |-> ply, over |-> over]>>} /\ UNCHANGED <<ply, over>>
    BY <1>5, <2>3
  <2>4. CASE Publish /\ ~over
    BY <2>4, PublishShape
  <2>5. CASE up # <<>> /\ Forward
    BY <2>1, <2>5, ForwardShape
  <2> QED
    BY <2>2, <2>3, <2>4, <2>5, LineMoves
<1>7. \A i \in 1 .. Len(down') : down'[i].ply <= row'.history /\ (down'[i].over => witness')
  <2>1. \A i \in 1 .. Len(down) : down[i].ply <= row'.history /\ (down[i].over => witness')
    BY <1>1, <1>5 DEF StreamShape
  <2>2. CASE UNCHANGED down
    BY <2>1, <2>2
  <2>3. CASE down' = <<>>
    BY <2>3
  <2>4. CASE down # <<>> /\ down' = Tail(down)
    <3>1. Len(down') = Len(down) - 1 /\ \A i \in 1 .. Len(down') : down'[i] = down[i + 1]
      BY <2>4, Numbers
    <3> QED
      BY SMTT(60), <1>5, <2>1, <3>1
  <2>5. ASSUME up # <<>>, Forward,
               \/ ~Head(up).over /\ Recordable(Head(up)) /\ Record(Head(up))
               \/ closing /\ witness' /\ UNCHANGED <<ply, over, row>>
        PROVE  \A i \in 1 .. Len(down') : down'[i].ply <= row'.history /\ (down'[i].over => witness')
    <3>1. up[1].ply <= row'.history /\ (up[1].over => witness')
      <4>1. Head(up) = up[1] /\ 1 \in 1 .. Len(up)
        BY <2>5, ForwardShape
      <4>2. CASE ~Head(up).over /\ Record(Head(up))
        <5>1. row'.history = up[1].ply
          BY <4>1, <4>2, Numbers DEF Record, Row
        <5> QED
          BY <1>5, <4>1, <4>2, <5>1
      <4>3. CASE closing /\ witness' /\ UNCHANGED <<ply, over, row>>
        <5>1. row.history = ply /\ up[1].ply <= ply
          BY <1>1, <4>1, <4>3 DEF WriterHolds, WitnessFirst, StreamShape
        <5> QED
          BY <1>5, <4>1, <4>3, <5>1
      <4> QED
        BY <2>5, <4>2, <4>3
    <3>2. \A i \in 1 .. Len(down') : i = Len(down) + 1 \/ i \in 1 .. Len(down)
      BY <1>5, <2>5, ForwardShape
    <3> QED
      BY <2>1, <2>5, <3>1, <3>2, ForwardShape
  <2> QED
    BY <2>2, <2>3, <2>4, <2>5, LineMoves DEF Publish
<1> QED
  BY <1>2, <1>3, <1>4, <1>6, <1>7 DEF StreamShape

LEMMA WriterKeeps ==
  ASSUME GInv, [Next]_vars
  PROVE  WriterHolds'
<1>1. TypeOK /\ WriterHolds
  BY DEF GInv
<1>2. closing /\ Reading' => Reading /\ up # <<>>
  <2>1. CASE OpenStream
    BY <1>1, <2>1 DEF OpenStream, MR!Open, WriterHolds, Reading
  <2> QED
    BY <1>1, <2>1, StepFacts DEF WriterHolds
<1>3. ASSUME UNCHANGED <<closing, row.terminal>>, closing => relay' = relay,
             up # <<>> /\ Reading' => up' # <<>>
      PROVE  WriterHolds'
  BY <1>1, <1>2, <1>3 DEF WriterHolds
<1>4. CASE Quiet \/ Requests
  BY <1>1, <1>3, <1>4, QuietFrame, RequestFrame DEF SameLines, RowGrows
<1>5. CASE Supervisor \/ BridgeDies
  <2>1. Kill => ~Reading'
    BY DEF Kill, MR!Kill, Reading
  <2>2. BridgeDies => Kill /\ UNCHANGED <<closing, row, relay>>
    BY DEF BridgeDies, gateway
  <2> QED
    BY <1>3, <1>5, <2>1, <2>2, SupervisorFrame
<1>6. CASE Board \/ \E q \in outbound : Play(q)
  <2>1. Publish /\ UNCHANGED <<closing, row, relay>>
    BY <1>6, PlayFrame DEF Board, gateway
  <2>2. up # <<>> => up' # <<>>
    BY <2>1, Numbers DEF Publish
  <2> QED
    BY <1>3, <2>1, <2>2
<1>7. CASE Receive
  BY <1>3, <1>7 DEF Receive, gateway
<1>8. CASE OpenStream
  <2>1. closing => UNCHANGED <<up, relay>>
    BY <1>1, <1>8 DEF OpenStream, WriterHolds
  <2>2. UNCHANGED <<closing, row>>
    BY <1>8 DEF OpenStream
  <2> QED
    BY <1>1, <1>2, <2>1, <2>2 DEF WriterHolds
<1>9. CASE WriteWitness \/ GatewayDies
  BY <1>9 DEF WriteWitness, GatewayDies, WriterHolds
<1>10. CASE ReadLine
  <2>1. Record(Head(up)) => row'.terminal = Head(up).over
    BY Numbers DEF Record, Row
  <2>2. (UNCHANGED closing /\ ~closing) \/ (closing' = Head(up).over /\ Record(Head(up)))
    BY <1>10 DEF ReadLine
  <2> QED
    BY <1>10, <2>1, <2>2 DEF ReadLine, WriterHolds
<1>11. CASE ReadStale
  <2>1. UNCHANGED pc /\ ~Reading
    BY <1>11 DEF ReadStale, recovery
  <2>2. PICK s \in MR!Snapshot : Record(s) /\ closing' = s.over /\ (s.over => relay' = TRUE)
    BY <1>11 DEF ReadStale
  <2>3. row'.terminal = s.over
    BY <2>2, Numbers DEF Record, Row
  <2> QED
    BY <2>1, <2>2, <2>3 DEF WriterHolds, Reading
<1>12. CASE UNCHANGED vars
  BY <1>3, <1>12 DEF vars, gateway, network
<1> QED
  BY <1>4, <1>5, <1>6, <1>7, <1>8, <1>9, <1>10, <1>11, <1>12, Groups DEF Lines

\* The line the bridge reads is the first of those recorded.
LEMMA ReceivedFirst ==
  ASSUME GInv, Receive
  PROVE  \/ UNCHANGED <<jply, jover>>
         \/ jply' <= row.history /\ (jover' => witness)
<1>1. down # <<>> /\ Head(down \o up) = down[1] /\ 1 \in 1 .. Len(down)
  <2>1. down # <<>> /\ down \in Seq(MR!Snapshot) /\ up \in Seq(MR!Snapshot) /\ Len(down) \in Nat
    BY Numbers DEF Receive
  <2> QED
    BY <2>1
<1>2. \/ UNCHANGED <<jply, jover>>
      \/ jply' = Head(down \o up).ply /\ jover' = Head(down \o up).over
  BY DEF Receive, MR!Receive, MR!Observe, MR!journal
<1> QED
  BY <1>1, <1>2 DEF GInv, StreamShape

LEMMA WitnessHolds ==
  ASSUME GInv, [Next]_vars
  PROVE  WitnessFirst'
<1>1. TypeOK /\ WitnessFirst /\ WriterHolds /\ StreamShape
  BY DEF GInv
<1>2. /\ ply \in Nat /\ ply' \in Nat /\ ply <= ply' /\ (over => over' /\ ply' = ply)
      /\ jply \in Nat /\ row.history \in Nat /\ row'.history \in Nat
      /\ row.history <= row'.history /\ (witness => witness')
  BY Numbers, StepFacts, RowMoves, LineMoves
<1>3. (jover' => witness') /\ jply' <= row'.history
  <2>1. jply' \in Nat
    BY BridgeHolds, BoundAssumption DEF MR!TypeOK
  <2>2. \/ UNCHANGED <<jply, jover>>
        \/ jply' <= row.history /\ (jover' => witness)
    BY StepFacts, ReceivedFirst
  <2> QED
    BY <1>1, <1>2, <2>1, <2>2 DEF WitnessFirst
<1>4. /\ row'.terminal => over' /\ row'.history = ply'
      /\ row'.history <= ply' /\ (row.terminal => row'.terminal)
  <2>1. CASE UNCHANGED <<row.history, row.terminal>>
    BY <1>1, <1>2, <2>1 DEF WitnessFirst
  <2>2. CASE ReadLine /\ Recordable(Head(up)) /\ Record(Head(up))
    <3>1. /\ row'.history = Head(up).ply /\ row'.terminal = Head(up).over /\ ~row.terminal
          /\ up # <<>> /\ UNCHANGED <<ply, over>>
      BY <2>2, Numbers DEF Record, Recordable, ReadLine, Row, recovery
    <3>2. 1 \in 1 .. Len(up) /\ Head(up) = up[1]
      BY <3>1, Numbers
    <3> QED
      BY <1>1, <1>2, <3>1, <3>2 DEF StreamShape
  <2>3. CASE ReadStale
    <3>1. ~row.terminal /\ UNCHANGED <<ply, over>>
      BY <2>3 DEF ReadStale, Recordable, recovery
    <3>2. PICK s \in MR!Snapshot : Record(s) /\ s.ply <= ply /\ (s.over => over /\ s.ply = ply)
      BY <2>3 DEF ReadStale
    <3>3. row'.history = s.ply /\ row'.terminal = s.over
      BY <3>2, Numbers DEF Record, Row
    <3> QED
      BY <3>1, <3>2, <3>3
  <2> QED
    BY <2>1, <2>2, <2>3, RowMoves
<1>5. witness' => witness \/ row.terminal
  BY <1>1, Groups, QuietFrame, RequestFrame, SupervisorFrame, DeathFrame, PlayFrame
     DEF SameLines, Lines, OpenStream, ReadLine, ReadStale, WriteWitness, Receive, BridgeDies, Board,
         gateway, vars, WriterHolds
<1> QED
  BY <1>1, <1>3, <1>4, <1>5 DEF WitnessFirst

LEMMA FinishHolds ==
  ASSUME GInv, [Next]_vars
  PROVE  FinishShape'
<1>1. TypeOK /\ WitnessFirst /\ FinishShape /\ P!IInv /\ WriterHolds /\ ply \in Nat /\ jply \in Nat
      /\ row.history \in Nat
  BY Numbers DEF GInv
<1>2. pgn => pgn'
  BY <1>1, Groups, QuietFrame, RequestFrame, LineFrame, DeathFrame, PlayFrame
     DEF run, Supervisor, StartRun, Reconcile, Finish, GiveUp, Mark, Reap, SupervisorDies,
         OperatorStops, vars, supervisor
<1>3. Proven => Proven'
  <2>1. ASSUME over, jover, jply = ply, P!Pending = {}
        PROVE  over' /\ jover' /\ jply' = ply' /\ P!Pending' = {}
    BY <1>1, <2>1, Refines, P!SettledStays, MoveAssumption, SideAssumption, BoundAssumption
  <2> QED
    BY <1>2, <2>1, LineMoves DEF Proven
<1>4. CASE UNCHANGED run
  BY <1>1, <1>3, <1>4 DEF run, FinishShape
<1>5. CASE Reconcile
  <2>1. MR!Pending = P!Pending
    BY DEF MR!Pending, P!Pending, MR!Recorded, P!Recorded, MR!Ply, P!Ply
  <2>2. over /\ jply = ply
    BY <1>1, <1>5 DEF Reconcile, WitnessFirst
  <2>3. UNCHANGED <<over, jover, jply, ply, witness, intent>> /\ pgn' = TRUE
    BY <1>5 DEF Reconcile, recovery, gateway
  <2> QED
    BY <1>5, <2>1, <2>2, <2>3 DEF Reconcile, FinishShape, Proven, P!Pending, P!Recorded
<1>6. CASE Supervisor /\ ~Reconcile
  BY <1>1, <1>3, <1>6 DEF Supervisor, StartRun, Finish, GiveUp, Mark, Reap, SupervisorDies, OperatorStops,
     FinishShape, supervisor
<1>7. UNCHANGED vars => UNCHANGED run
  BY DEF vars, supervisor, run
<1> QED
  BY <1>1, <1>4, <1>5, <1>6, <1>7, Groups, QuietFrame, RequestFrame, LineFrame, DeathFrame, PlayFrame

LEMMA NextHolds == GInv /\ [Next]_vars => GInv'
BY BridgeHolds, TypeHolds, AcceptHolds, StreamHolds, WriterKeeps, WitnessHolds, PostHolds, FinishHolds
   DEF GInv

-----------------------------------------------------------------------------
(* Theorems *)

\* The inductive invariant, for any moves, length of the game, number of
\* restarts of the bridge and deaths of the three processes.
THEOREM Invariance == Spec => []GInv
BY InitHolds, NextHolds, PTL DEF Spec

\* The gateway's row, its requests and the two halves of the stream hold only
\* what they are declared to.
THEOREM TypeCorrect == Spec => []TypeOK
BY Invariance, PTL DEF GInv

\* The gateway, its restarts and its stop marker are a network the bridge's
\* own model already allows (every refusal, delay and death of
\* live_gateway.py is a lost or refused request of MoveRecovery).
THEOREM GatewayRefines == Spec => ImplementsRecovery
<1>1. Init => MR!Init
  BY DEF Init
<1>2. GInv /\ [Next]_vars => [MR!Next]_(MR!vars)
  BY Refines, SameNext DEF GInv
<1> QED
  BY <1>1, <1>2, Invariance, PTL DEF Spec, ImplementsRecovery

\* No restart of bridge or gateway accepts the challenge twice (accept_once
\* spends the row before the request is sent).
THEOREM AcceptsOnce == Spec => []AcceptedOnce
<1>1. GInv => AcceptedOnce
  BY DEF GInv, AcceptShape, AcceptedOnce
<1> QED
  BY <1>1, Invariance, PTL

\* The end of the game reaches the bridge's journal only after its witness
\* (_persist_terminal before the line is written to the bridge).
THEOREM WitnessBeforeEnd == Spec => []WitnessFirst
BY Invariance, PTL DEF GInv

\* A finished lease is of a finished game that everybody knows of, the bridge
\* by its witness.
THEOREM FinishedLeaseIsProven == Spec => []FinishedIsProven
<1>1. MR!Pending = P!Pending
  BY DEF MR!Pending, P!Pending, MR!Recorded, P!Recorded, MR!Ply, P!Ply
<1>2. GInv => FinishedIsProven
  BY <1>1 DEF GInv, FinishShape, Proven, FinishedIsProven
<1> QED
  BY <1>2, Invariance, PTL

\* move_once refuses no request of a bridge that follows its journal.
THEOREM HonestBridgeAdmitted == Spec => []HonestMoveAdmitted
<1>1. GInv => HonestMoveAdmitted
  <2> SUFFICES ASSUME GInv, NEW q \in inbound, Awaited(q), gw, Active PROVE Admits(q)
    BY DEF HonestMoveAdmitted
  <2>1. q \in Passing /\ pc = "wait" /\ q.epoch = epoch /\ ~row.terminal
    BY DEF Awaited, Active, Passing
  <2>2. q.ply = ply /\ MR!Ours(q.ply) /\ q.ply = jply /\ q.move = intent[q.ply].move
    BY <2>1 DEF GInv, P!IInv, P!WireShape, P!Ours, MR!Ours
  <2>3. row.history = q.ply
    BY <2>2, Numbers DEF GInv, WitnessFirst
  <2>4. ~jover
    BY <2>1 DEF GInv, WitnessFirst
  <2>5. view \in P!Ply /\ view = jply /\ intent[view].status = "SUBMITTING"
    BY <2>1, P!WorkingOnLatest, MoveAssumption, SideAssumption, BoundAssumption
       DEF GInv, P!IInv, P!BridgeShape, P!Working, P!St
  <2>6. intent[q.ply] = [status |-> "SUBMITTING", move |-> q.move]
    BY <2>2, <2>5 DEF GInv, P!IInv, P!TypeOK
  <2>7. row.game /\ row.full
    <3>1. view # P!Unseen
      BY <2>5, BoundAssumption DEF P!Ply, P!Unseen
    <3> QED
      BY <2>1, <3>1 DEF GInv, StreamShape, Reading
  <2>8. \A r \in posts : r.ply # q.ply
    BY DEF GInv, PostShape
  <2> QED
    BY <2>1, <2>2, <2>3, <2>4, <2>6, <2>7, <2>8 DEF Admits, JournalAgrees
<1> QED
  BY <1>1, Invariance, PTL
=============================================================================
