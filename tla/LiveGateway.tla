----------------------------- MODULE LiveGateway -----------------------------
(***************************************************************************)
(* The live canary: one game played by the bridge of MoveRecovery through  *)
(* the credential gateway (deploy/lichess/live_gateway.py, with its        *)
(* durable row in live_gateway_state.py), under the supervisor that owns   *)
(* the bridge (deploy/live_canary/supervisor.py).                          *)
(*                                                                         *)
(* The gateway stands in MoveRecovery's network: every move request and    *)
(* every line of the game stream passes through it.  Three processes keep  *)
(* a durable state each (the bridge's journal, the gateway's row, the      *)
(* supervisor's lease), each may die between two of its steps, and they    *)
(* agree only by what they read of one another's files.                    *)
(***************************************************************************)
EXTENDS Naturals, Sequences

CONSTANTS
    Moves, NoMove, Side, MaxPly, MaxEpoch,  \* of MoveRecovery
    Accept     \* the request that accepts the challenge: no move

ASSUME MoveAssumption  == NoMove \notin Moves
ASSUME SideAssumption  == Side \in {0, 1}
ASSUME BoundAssumption == MaxPly \in Nat /\ MaxEpoch \in Nat

VARIABLES
    ply, played, over, reply, sent,                  \* of MoveRecovery
    jply, jover, intent, cooling, epoch, pc, view, best,
    lobby, asked,                    \* Lichess: the challenge, accepts received
    inbound, outbound, up, down,     \* requests and stream lines under way
    gw, held, turn, tpc, relay, closing,  \* the gateway process
    row, posts, witness,             \* what it keeps
    spc, lease, pgn, stop            \* the supervisor and the stop marker

\* A move on its way to Lichess, wherever it is; the lines on their way back.
Passing == (inbound \cup held \cup outbound \cup (IF tpc = "cleared" THEN {turn} ELSE {})) \ {Accept}

MR == INSTANCE MoveRecovery WITH wire <- Passing, feed <- down \o up

Post == [ply : 0 .. MaxPly - 1, move : Moves, epoch : 1 .. MaxEpoch]
ASSUME AcceptAssumption == Accept \notin Post

recovery   == <<ply, played, over, reply, sent, jply, jover, intent, cooling, epoch, pc, view, best>>
lichess    == <<lobby, asked>>
network    == <<inbound, outbound, up, down>>
threads    == <<held, turn, tpc>>
gateway    == <<gw, threads, relay, closing, row, posts, witness>>
supervisor == <<spc, lease, pgn, stop>>
vars       == <<recovery, lichess, network, gateway, supervisor>>

Row == [challenge : BOOLEAN, accepted : BOOLEAN, game : BOOLEAN, full : BOOLEAN,
        history : 0 .. MaxPly, terminal : BOOLEAN, suspended : BOOLEAN, cooldown : BOOLEAN]

TypeOK ==
    /\ MR!TypeOK
    /\ lobby \in {"open", "offered", "withdrawn", "started"} /\ asked \in Nat
    /\ inbound \subseteq Post
    /\ held \subseteq Post \cup {Accept} /\ outbound \subseteq Post \cup {Accept}
    /\ up \in Seq(MR!Snapshot) /\ down \in Seq(MR!Snapshot)
    /\ turn \in Post \cup {Accept} /\ tpc \in {"free", "cleared", "waiting"}
    /\ gw \in BOOLEAN /\ relay \in BOOLEAN /\ closing \in BOOLEAN
    /\ row \in Row /\ posts \subseteq Post /\ witness \in BOOLEAN
    /\ spc \in {"off", "running", "written", "draining"}
    /\ lease \in {"none", "claimed", "done"} /\ pgn \in BOOLEAN /\ stop \in BOOLEAN

Init ==
    /\ lobby = "open" /\ asked = 0
    /\ inbound = {} /\ outbound = {} /\ up = <<>> /\ down = <<>>
    /\ gw = TRUE /\ held = {} /\ turn = Accept /\ tpc = "free"
    /\ relay = FALSE /\ closing = FALSE
    /\ row = [challenge |-> FALSE, accepted |-> FALSE, game |-> FALSE, full |-> FALSE,
              history |-> 0, terminal |-> FALSE, suspended |-> FALSE, cooldown |-> FALSE]
    /\ posts = {} /\ witness = FALSE
    /\ spc = "off" /\ lease = "none" /\ pgn = FALSE /\ stop = FALSE
    /\ MR!Init

-----------------------------------------------------------------------------
(* The gateway's row *)

\* require_active, and the same tests at the head of every _mutate.
Active == ~stop /\ ~row.suspended /\ ~row.terminal /\ ~row.cooldown

\* A stop marker that is found suspends the gateway for good.
Fence == row' = [row EXCEPT !.suspended = @ \/ stop]

Suspend == row' = [row EXCEPT !.suspended = TRUE]

\* _verify_bridge_journal: the bridge's journal, read in one transaction.
JournalAgrees(q) ==
    /\ q.epoch = epoch /\ jply = row.history /\ ~jover
    /\ intent[q.ply] = [status |-> "SUBMITTING", move |-> q.move]

\* move_once.
Admits(q) ==
    /\ Active /\ row.game /\ row.full
    /\ row.history = q.ply /\ MR!Ours(q.ply)
    /\ \A p \in posts : p.ply # q.ply
    /\ JournalAgrees(q)

\* The answer to a request reaches the bridge if it still waits for it; a
\* request that goes no further is lost otherwise.
Awaited(q) == q # Accept /\ pc = "wait" /\ reply = "none" /\ q.epoch = epoch
Back(q, answer) ==
    IF Awaited(q) THEN reply' = answer /\ MR!Answer
    ELSE UNCHANGED recovery

\* Any refusal is reported as a rate limit while the cooldown lasts.
Refusal == IF row.cooldown THEN "limited" ELSE "refused"

-----------------------------------------------------------------------------
(* The challenge and the start of the game *)

Offer ==
    /\ lobby = "open" /\ lobby' = "offered"
    /\ UNCHANGED <<recovery, asked, network, gateway, supervisor>>

Withdraw ==
    /\ lobby = "offered" /\ lobby' = "withdrawn"
    /\ UNCHANGED <<recovery, asked, network, gateway, supervisor>>

\* state.challenge, on a challenge event of the account stream.
SeeChallenge ==
    /\ gw /\ Active /\ lobby = "offered" /\ ~row.game
    /\ row' = [row EXCEPT !.challenge = TRUE]
    /\ UNCHANGED <<recovery, lichess, network, gw, threads, relay, closing, posts, witness, supervisor>>

\* The bridge accepts; accept_once spends the acceptance before it is sent.
AcceptOnce ==
    /\ gw /\ Active /\ pc # "down"
    /\ row.challenge /\ ~row.accepted /\ ~row.game
    /\ row' = [row EXCEPT !.accepted = TRUE] /\ held' = held \cup {Accept}
    /\ UNCHANGED <<recovery, lichess, network, gw, turn, tpc, relay, closing, posts, witness, supervisor>>

\* state.game_start, on a gameStart event; it comes again on a new stream.
GameStart ==
    /\ gw /\ Active /\ lobby = "started" /\ ~over /\ row.accepted
    /\ row' = [row EXCEPT !.game = TRUE]
    /\ UNCHANGED <<recovery, lichess, network, gw, threads, relay, closing, posts, witness, supervisor>>

-----------------------------------------------------------------------------
(* A move request in the gateway: nonstream_request *)

Admit(q) ==
    /\ gw /\ q \in inbound /\ Admits(q)
    /\ inbound' = inbound \ {q} /\ posts' = posts \cup {q} /\ held' = held \cup {q}
    /\ UNCHANGED <<recovery, lichess, outbound, up, down, gw, turn, tpc, relay, closing, row,
                   witness, supervisor>>

Deny(q) ==
    /\ gw /\ q \in inbound /\ ~Admits(q)
    /\ inbound' = inbound \ {q} /\ Fence
    /\ UNCHANGED <<lichess, outbound, up, down, gw, threads, relay, closing, posts, witness, supervisor>>
    /\ Back(q, Refusal)

\* The nonstream lock is taken and require_active asked again.
TakeTurn(q) ==
    /\ gw /\ q \in held /\ tpc = "free"
    /\ held' = held \ {q}
    /\ UNCHANGED <<lichess, network, gw, relay, closing, posts, witness, supervisor>>
    /\ \/ Active /\ turn' = q /\ tpc' = "cleared" /\ UNCHANGED <<row, recovery>>
       \/ ~Active /\ Fence /\ UNCHANGED <<turn, tpc>> /\ Back(q, Refusal)

\* session.request.
Transmit ==
    /\ gw /\ tpc = "cleared" /\ tpc' = "waiting"
    /\ outbound' = outbound \cup {turn}
    /\ UNCHANGED <<recovery, lichess, inbound, up, down, gw, held, turn, relay, closing, row, posts,
                   witness, supervisor>>

\* Lichess has done what the request asks for.
Done(q) == IF q = Accept THEN lobby = "started" ELSE q.ply < ply

\* The answer: 200, 429, or anything else, a timeout included.
RespondRetries ==               \* mutant: the request is repeated on a timeout
    /\ gw /\ tpc = "waiting"
    /\ tpc' \in {"free", "cleared"} /\ turn' = IF tpc' = "free" THEN Accept ELSE turn
    /\ UNCHANGED <<lichess, network, gw, held, relay, closing, posts, witness, supervisor>>
    /\ \/ Done(turn) /\ tpc' = "free" /\ UNCHANGED row /\ Back(turn, "ok")
       \/ UNCHANGED <<row, recovery>>
RespondWaits ==                 \* mutant: no timeout on the request
    /\ gw /\ tpc = "waiting"
    /\ tpc' = "free" /\ turn' = Accept
    /\ UNCHANGED <<lichess, network, gw, held, relay, closing, posts, witness, supervisor>>
    /\ Done(turn) /\ UNCHANGED row /\ Back(turn, "ok")
Respond ==
    /\ gw /\ tpc = "waiting"
    /\ tpc' = "free" /\ turn' = Accept
    /\ UNCHANGED <<lichess, network, gw, held, relay, closing, posts, witness, supervisor>>
    /\ \/ Done(turn) /\ UNCHANGED row /\ Back(turn, "ok")
       \/ ~Done(turn) /\ turn \notin outbound
          /\ row' = [row EXCEPT !.cooldown = TRUE] /\ Back(turn, "limited")
       \/ Suspend /\ Back(turn, Refusal)

CoolDown ==
    /\ row.cooldown /\ row' = [row EXCEPT !.cooldown = FALSE]
    /\ UNCHANGED <<recovery, lichess, network, gw, threads, relay, closing, posts, witness, supervisor>>

-----------------------------------------------------------------------------
(* The game stream in the gateway: stream_request and _on_ndjson *)

\* The worker whose stream the gateway serves still reads it.
Reading == pc \in {"stream", "ready", "search", "staged", "post", "wait", "limited"}

OpenStream ==
    /\ \/ cooling /\ UNCHANGED <<up, down, relay>>
       \/ /\ ~cooling /\ gw /\ Active /\ row.game /\ ~relay
          /\ down' = <<>> /\ up' = <<[ply |-> ply, over |-> over]>> /\ relay' = TRUE
    /\ UNCHANGED <<lichess, inbound, outbound, gw, threads, closing, row, posts, witness, supervisor>>
    /\ MR!Open

\* The gateway is down or fenced, or still serves the stream of a bridge that
\* is gone; or Lichess rate limits the stream, or refuses it.
RefuseStream ==
    /\ pc = "boot"
    /\ \/ gw /\ Active /\ ~relay
          /\ \/ row' = [row EXCEPT !.cooldown = TRUE]
             \/ Suspend
       \/ gw /\ (~Active \/ relay) /\ Fence
       \/ ~gw /\ UNCHANGED row
    /\ UNCHANGED <<lichess, network, gw, threads, relay, closing, posts, witness, supervisor>>
    /\ MR!StreamBreaks

\* The bridge finds its stream at an end, or drops it.
StreamBreaks ==
    /\ pc = "stream" /\ (relay \/ down = <<>>)
    /\ UNCHANGED <<lichess, network, gateway, supervisor>>
    /\ MR!StreamBreaks

\* game_full and game_state: the row takes the line, or refuses it.
Recordable(s) == ~row.terminal /\ ~row.suspended /\ row.history <= s.ply
Record(s) ==
    row' = [row EXCEPT !.full = TRUE, !.history = s.ply, !.terminal = s.over]

Forward == up' = Tail(up) /\ down' = Append(down, Head(up))

ReadLineForwardsFirst ==        \* mutant: the line is written before it is recorded
    /\ gw /\ relay /\ Reading /\ up # <<>> /\ ~closing
    /\ UNCHANGED <<recovery, lichess, inbound, outbound, gw, threads, posts, witness, supervisor>>
    /\ \/ Forward /\ UNCHANGED <<row, relay, closing>>
       \/ /\ Recordable(Head(up)) /\ Record(Head(up)) /\ UNCHANGED relay
          /\ closing' = Head(up).over
          /\ IF Head(up).over THEN UNCHANGED <<up, down>> ELSE Forward
ReadLineForwardsTerminal ==     \* mutant: the last line is forwarded before its witness
    /\ gw /\ relay /\ Reading /\ up # <<>> /\ ~closing
    /\ UNCHANGED <<recovery, lichess, inbound, outbound, gw, threads, posts, witness, supervisor>>
    /\ Recordable(Head(up)) /\ Record(Head(up)) /\ Forward
    /\ UNCHANGED <<relay, closing>>
ReadLine ==
    /\ gw /\ relay /\ Reading /\ up # <<>> /\ ~closing
    /\ UNCHANGED <<recovery, lichess, inbound, outbound, gw, threads, posts, witness, supervisor>>
    /\ \/ /\ Recordable(Head(up)) /\ Record(Head(up)) /\ UNCHANGED relay
          /\ closing' = Head(up).over
          /\ IF Head(up).over THEN UNCHANGED <<up, down>> ELSE Forward
       \/ /\ ~Recordable(Head(up)) /\ relay' = FALSE /\ UNCHANGED <<up, down, closing>>
          /\ row' = [row EXCEPT !.suspended = @ \/ (~row.terminal /\ Head(up).ply < row.history)]

\* A line read for a bridge that is gone is recorded all the same; the write
\* may fail.
ReadStale ==
    /\ gw /\ relay /\ ~Reading /\ ~closing /\ Recordable([ply |-> ply])
    /\ \E s \in MR!Snapshot :
          /\ row.history <= s.ply /\ s.ply <= ply /\ (s.over => over /\ s.ply = ply)
          /\ Record(s) /\ closing' = s.over
          /\ relay' \in IF s.over THEN {TRUE} ELSE BOOLEAN
    /\ UNCHANGED <<recovery, lichess, network, gw, threads, posts, witness, supervisor>>

\* _persist_terminal, for a result that names a winner or a draw; any other
\* end suspends the gateway.  Then the line is forwarded.
WriteWitness ==
    /\ gw /\ closing /\ closing' = FALSE
    /\ UNCHANGED <<recovery, lichess, inbound, outbound, gw, threads, posts, supervisor>>
    /\ \/ /\ witness' = TRUE /\ UNCHANGED row
          /\ IF Reading THEN Forward /\ UNCHANGED relay ELSE UNCHANGED <<up, down>> /\ relay' = FALSE
       \/ Suspend /\ relay' = FALSE /\ UNCHANGED <<up, down, witness>>

\* The stream ends: Lichess closes it, perhaps within a line, or a heartbeat
\* cannot be written to a bridge that is gone.
DropStream ==
    /\ gw /\ relay /\ ~closing /\ relay' = FALSE
    /\ UNCHANGED row \/ Suspend
    /\ UNCHANGED <<recovery, lichess, network, gw, threads, closing, posts, witness, supervisor>>

-----------------------------------------------------------------------------
(* The gateway process *)

GatewayDies ==
    /\ gw /\ gw' = FALSE
    /\ held' = {} /\ turn' = Accept /\ tpc' = "free" /\ relay' = FALSE /\ closing' = FALSE
    /\ UNCHANGED <<recovery, lichess, network, row, posts, witness, supervisor>>

\* authenticate before serving: a fenced gateway does not start, and a game
\* Lichess knows and the row does not suspends it.
GatewayStarts ==
    /\ ~gw
    /\ \/ /\ Active /\ ~(lobby = "started" /\ ~over /\ ~row.game)
          /\ gw' = TRUE /\ UNCHANGED row
       \/ /\ Active /\ Suspend /\ UNCHANGED gw
       \/ /\ stop /\ Fence /\ UNCHANGED gw
    /\ UNCHANGED <<recovery, lichess, network, threads, relay, closing, posts, witness, supervisor>>

-----------------------------------------------------------------------------
(* The bridge: MoveRecovery's steps, with the gateway at the other end *)

Receive ==
    /\ down # <<>> /\ down' = Tail(down)
    /\ UNCHANGED <<lichess, inbound, outbound, up, gateway, supervisor>>
    /\ MR!Receive

Send ==
    /\ pc = "post"
    /\ inbound' = inbound \cup {[ply |-> MR!Latest, move |-> best, epoch |-> epoch]}
    /\ UNCHANGED <<lichess, outbound, up, down, gateway, supervisor>>
    /\ MR!Send

Worker ==
    /\ UNCHANGED <<lichess, network, gateway, supervisor>>
    /\ \/ MR!Check \/ MR!Stage \/ MR!Submit \/ MR!Answered \/ MR!TimedOut \/ MR!Limited
       \/ MR!CoolOff

\* The process dies: nothing of its stream is left.
Kill == down' = <<>> /\ up' = <<>> /\ MR!Kill

BridgeDies ==
    /\ UNCHANGED <<lichess, inbound, outbound, gateway, supervisor>>
    /\ Kill

-----------------------------------------------------------------------------
(* Lichess and the network *)

AcceptArrives ==
    /\ Accept \in outbound /\ outbound' = outbound \ {Accept} /\ asked' = asked + 1
    /\ lobby' = IF lobby = "offered" THEN "started" ELSE lobby
    /\ UNCHANGED <<recovery, inbound, up, down, gateway, supervisor>>

\* The stream carries the new state to a reader that is there.
Publish ==
    /\ up' = IF Reading THEN Append(up, [ply |-> ply', over |-> over']) ELSE up
    /\ UNCHANGED down

Play(q) ==
    /\ q \in outbound \ {Accept} /\ outbound' = outbound \ {q}
    /\ ply' = ply + 1 /\ over' \in BOOLEAN /\ Publish
    /\ UNCHANGED <<lichess, inbound, gateway, supervisor>>
    /\ MR!Play(q)

LoseOutbound(q) ==
    /\ q \in outbound /\ outbound' = outbound \ {q}
    /\ UNCHANGED <<recovery, lichess, inbound, up, down, gateway, supervisor>>

LoseInbound(q) ==
    /\ q \in inbound /\ inbound' = inbound \ {q}
    /\ UNCHANGED <<recovery, lichess, outbound, up, down, gateway, supervisor>>

Board ==
    /\ lobby = "started" /\ ply' \in {ply, ply + 1} /\ over' \in BOOLEAN /\ Publish
    /\ UNCHANGED <<lichess, inbound, outbound, gateway, supervisor>>
    /\ MR!OpponentMoves \/ MR!GameEnds

-----------------------------------------------------------------------------
(* The supervisor *)

\* preflight, claim, SessionOwner.new_epoch and the bridge is spawned.
StartRun ==
    /\ spc = "off" /\ lease # "done" /\ spc' = "running" /\ lease' = "claimed"
    /\ UNCHANGED <<lichess, network, gateway, pgn, stop>>
    /\ MR!Launch

ReconcileUnchecked ==           \* mutant: the journal need not know the end
    /\ spc = "running" /\ ~stop /\ witness /\ jply = row.history
    /\ MR!Pending = {}
    /\ ~pgn /\ pgn' = TRUE /\ spc' = "written"
    /\ UNCHANGED <<recovery, lichess, network, gateway, lease, stop>>
\* _progress: journal and witness say the same of a game that is over.
Reconcile ==
    /\ spc = "running" /\ ~stop /\ jover /\ witness /\ jply = row.history
    /\ MR!Pending = {}
    /\ ~pgn /\ pgn' = TRUE /\ spc' = "written"
    /\ UNCHANGED <<recovery, lichess, network, gateway, lease, stop>>

Finish ==
    /\ spc = "written" /\ lease' = "done" /\ spc' = "draining"
    /\ UNCHANGED <<recovery, lichess, network, gateway, pgn, stop>>

\* The marker is seen, the bridge has gone, a check fails or the time is up.
GiveUp ==
    /\ spc = "running" /\ spc' = "draining"
    /\ UNCHANGED <<recovery, lichess, network, gateway, lease, pgn, stop>>

\* persist_stop_marker, first of all.
Mark ==
    /\ spc = "draining" /\ ~stop /\ stop' = TRUE
    /\ UNCHANGED <<recovery, lichess, network, gateway, spc, lease, pgn>>

\* stop_and_reap, while the owner's lock is still held.
Reap ==
    /\ spc = "draining" /\ stop /\ spc' = "off"
    /\ UNCHANGED <<lichess, inbound, outbound, gateway, lease, pgn, stop>>
    /\ IF pc = "down" THEN UNCHANGED <<recovery, up, down>> ELSE Kill

\* Process 1 of the namespace dies, and everything in it.
SupervisorDies ==
    /\ spc # "off" /\ spc' = "off"
    /\ UNCHANGED <<lichess, inbound, outbound, gateway, lease, pgn, stop>>
    /\ IF pc = "down" THEN UNCHANGED <<recovery, up, down>> ELSE Kill

OperatorStops ==
    /\ ~stop /\ stop' = TRUE
    /\ UNCHANGED <<recovery, lichess, network, gateway, spc, lease, pgn>>

-----------------------------------------------------------------------------

Handlers == Transmit \/ Respond \/ \E q \in held : TakeTurn(q)

Next ==
    \/ Offer \/ Withdraw \/ SeeChallenge \/ AcceptOnce \/ GameStart
    \/ Handlers \/ \E q \in inbound : Admit(q) \/ Deny(q) \/ LoseInbound(q)
    \/ CoolDown \/ OpenStream \/ RefuseStream \/ StreamBreaks
    \/ ReadLine \/ ReadStale \/ WriteWitness \/ DropStream
    \/ GatewayDies \/ GatewayStarts
    \/ Receive \/ Send \/ Worker \/ BridgeDies
    \/ AcceptArrives \/ \E q \in outbound : Play(q) \/ LoseOutbound(q)
    \/ Board
    \/ StartRun \/ Reconcile \/ Finish \/ GiveUp \/ Mark \/ Reap \/ SupervisorDies
    \/ OperatorStops

Spec == Init /\ [][Next]_vars

\* A thread of the gateway that holds a request goes on with it: the lock is
\* released by whoever holds it, and every request to Lichess has a timeout.
FairSpec == Spec /\ WF_vars(Handlers)

-----------------------------------------------------------------------------
(* Properties *)

\* To the bridge and to Lichess the gateway is a network MoveRecovery already
\* allows, whichever of the three processes dies when: no request that it
\* admits, delays, refuses or loses is repeated or changed.
ImplementsRecovery == MR!Init /\ [][MR!Next]_(MR!vars)

\* An active gateway admits every move of an honest bridge: none of the tests
\* of move_once is failed because the gateway's row lags behind the journal.
HonestMoveAdmitted ==
    \A q \in inbound : Awaited(q) /\ gw /\ Active => Admits(q)

\* The bridge learns that the game is over only from a line whose witness is
\* on disk; the witness is of the finished game, and journal and row follow
\* the board.
WitnessFirst ==
    /\ jover => witness
    /\ witness => row.terminal
    /\ row.terminal => over /\ row.history = ply
    /\ jply <= row.history /\ row.history <= ply

\* The end of a game is proven at every stage: to the bridge by the witness on
\* disk, and a lease is finished only for a game that is over, when the journal
\* knows its end, every submitted move is confirmed on the board and the
\* witness and the game's file are on disk.
FinishedIsProven ==
    /\ WitnessFirst
    /\ lease = "done" => over /\ jover /\ jply = ply /\ MR!Pending = {} /\ witness /\ pgn

\* The challenge is accepted once, over any restart of bridge and gateway.
AcceptedOnce == asked <= 1

\* Once the stop marker stands, the requests in the gateway come to an end:
\* the lock is free and nothing waits for it.
StopDrains == stop ~> held = {} /\ tpc = "free"
=============================================================================
