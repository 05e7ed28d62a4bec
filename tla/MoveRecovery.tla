---------------------------- MODULE MoveRecovery ----------------------------
(***************************************************************************)
(* One Lichess game played through the recovery adapter: the durable move  *)
(* journal (deploy/lichess/move_journal.py), the guarded transport that    *)
(* writes it around every move request (guarded_transport.py), and the     *)
(* owner that restarts the bridge under a new epoch (session_owner.py,     *)
(* run_recovery_v2.py).                                                    *)
(*                                                                         *)
(* The bridge may die between any two of its steps; what survives is the   *)
(* journal and whatever is on the wire.  A request may be lost, answered   *)
(* late or not at all, and it carries no ply: the server plays it at       *)
(* whatever position it finds.  Every history is a prefix of the one game  *)
(* the server keeps, so its length stands for it.                          *)
(***************************************************************************)
EXTENDS Naturals, Sequences, FiniteSetsExt

CONSTANTS
    Moves,     \* moves an engine may choose; each is legal everywhere
    NoMove,    \* no move: nothing chosen, or a ply of the opponent
    Side,      \* the parity of the bot's plies: 0 with White, 1 with Black
    MaxPly,    \* bound: length of the game
    MaxEpoch   \* bound: owner epochs, one per launch of the bridge

ASSUME MoveAssumption  == NoMove \notin Moves
ASSUME SideAssumption  == Side \in {0, 1}
ASSUME BoundAssumption == MaxPly \in Nat /\ MaxEpoch \in Nat

Ply     == 0 .. MaxPly - 1
Ours(p) == p % 2 = Side

VARIABLES
    ply, played, over,             \* the server's game
    wire, reply, feed, sent,       \* requests, the awaited answer, the stream
    jply, jover, intent, cooling,  \* the journal
    epoch, pc, view, best          \* the bridge

server  == <<ply, played, over>>
network == <<wire, reply, feed, sent>>
journal == <<jply, jover, intent, cooling>>
bridge  == <<epoch, pc, view, best>>
vars    == <<server, network, journal, bridge>>

Snapshot == [ply : 0 .. MaxPly, over : BOOLEAN]
Post     == [ply : Ply, move : Moves, epoch : 1 .. MaxEpoch]
Status   == {"none", "PREPARED", "SUBMITTING", "ACK_OBSERVED", "UNKNOWN_ACK", "CONFIRMED"}
Labels   == {"down", "boot", "stream", "ready", "search", "staged", "post", "wait",
             "limited", "suspended", "closed"}
Unseen   == MaxPly + 1             \* no state of the game read yet

TypeOK ==
    /\ ply \in 0 .. MaxPly /\ played \in [Ply -> Moves \cup {NoMove}] /\ over \in BOOLEAN
    /\ wire \subseteq Post /\ reply \in {"none", "ok", "refused", "limited"}
    /\ feed \in Seq(Snapshot) /\ sent \in [Ply -> Nat]
    /\ jply \in 0 .. MaxPly /\ jover \in BOOLEAN /\ cooling \in BOOLEAN
    /\ intent \in [Ply -> [status : Status, move : Moves \cup {NoMove}]]
    /\ epoch \in 0 .. MaxEpoch /\ pc \in Labels
    /\ view \in (0 .. MaxPly) \cup {Unseen} /\ best \in Moves \cup {NoMove}

Init ==
    /\ ply = 0 /\ played = [p \in Ply |-> NoMove] /\ over = FALSE
    /\ wire = {} /\ reply = "none" /\ feed = <<>> /\ sent = [p \in Ply |-> 0]
    /\ jply = 0 /\ jover = FALSE /\ cooling = FALSE
    /\ intent = [p \in Ply |-> [status |-> "none", move |-> NoMove]]
    /\ epoch = 0 /\ pc = "down" /\ view = Unseen /\ best = NoMove

-----------------------------------------------------------------------------
(* The journal's transactions *)

Recorded == {p \in Ply : intent[p].status # "none"}
Pending  == {p \in Recorded : intent[p].status # "CONFIRMED"}
First    == Min(Pending)
Latest   == Max(Recorded)

\* classify_snapshot: the pending move is in the snapshot's history.
ConfirmsUnseen(s) == Pending # {} /\ First <= s.ply     \* mutant: off by one, any move
Confirms(s) == Pending # {} /\ First < s.ply /\ played[First] = intent[First].move

\* What observe refuses: a regressed history, a finished game that is active
\* again, another move at the pending ply, and a move never submitted.
Refuses(s) ==
    \/ s.ply < jply
    \/ jover /\ ~s.over
    \/ /\ Pending # {}
       /\ \/ s.ply < First
          \/ First < s.ply /\ ~Confirms(s)
          \/ Confirms(s) /\ intent[First].status = "PREPARED"

SetStatus(p, status) == intent' = [intent EXCEPT ![p].status = status]

Observe(s) ==
    /\ jply' = s.ply /\ jover' = s.over
    /\ IF Confirms(s) THEN SetStatus(First, "CONFIRMED") ELSE UNCHANGED intent
    /\ UNCHANGED cooling

\* assert_ready, and the same tests again in prepare.
IsReady == jply = view /\ ~jover /\ Pending = {}

Prepare(m) == intent' = [intent EXCEPT ![view] = [status |-> "PREPARED", move |-> m]]

\* change_status after the request: a move already confirmed stays so, and any
\* other status than SUBMITTING raises.
SettleForgets(after) ==         \* mutant: an unacknowledged move may be retried
    SetStatus(Latest, IF after = "UNKNOWN_ACK" THEN "none" ELSE after)
Settle(after) ==
    IF intent[Latest].status = "SUBMITTING" THEN SetStatus(Latest, after) ELSE UNCHANGED intent

-----------------------------------------------------------------------------
(* The bridge: one worker plays the game *)

\* terminate_isolated_children, or any death of the process.
Kill ==
    /\ pc # "down" /\ pc' = "down"
    /\ feed' = <<>> /\ reply' = "none" /\ view' = Unseen /\ best' = NoMove
    /\ UNCHANGED <<server, wire, sent, journal, epoch>>

\* SessionOwner.new_epoch, once the old process tree is gone, and the bridge
\* is started again: its epoch is always the owner's.
Launch ==
    /\ pc = "down" /\ epoch < MaxEpoch
    /\ epoch' = epoch + 1 /\ pc' = "boot"
    /\ UNCHANGED <<server, network, journal, view, best>>

\* A worker is started for a game the server lists as active; the stream
\* opens with the whole game.
Open ==
    /\ pc = "boot"
    /\ IF cooling THEN pc' = "suspended" /\ UNCHANGED feed
       ELSE ~over /\ pc' = "stream" /\ feed' = <<[ply |-> ply, over |-> over]>>
    /\ UNCHANGED <<server, wire, reply, sent, journal, epoch, view, best>>

\* observe_state on the next line of the stream; then the worker moves if the
\* game has changed and it is the bot's turn.
Receive ==
    LET s == Head(feed) IN
    /\ pc = "stream" /\ feed # <<>>
    /\ feed' = Tail(feed)
    /\ \/ Refuses(s) /\ pc' = "suspended" /\ UNCHANGED <<journal, view>>
       \/ /\ ~Refuses(s) /\ Observe(s) /\ view' = s.ply
          /\ pc' = IF s.over THEN "closed"
                   ELSE IF Ours(s.ply) /\ s.ply # view /\ s.ply < MaxPly THEN "ready"
                   ELSE "stream"
    /\ UNCHANGED <<server, wire, reply, sent, epoch, best>>

\* require_ready, before the search.
Check ==
    /\ pc = "ready"
    /\ pc' = IF IsReady THEN "search" ELSE "suspended"
    /\ UNCHANGED <<server, network, journal, epoch, view, best>>

\* stage_move with the engine's result, or without a legal one.
Stage ==
    /\ pc = "search"
    /\ \/ /\ IsReady /\ intent[view].status = "none"
          /\ \E m \in Moves : Prepare(m) /\ best' = m
          /\ pc' = "staged"
       \/ pc' = "suspended" /\ UNCHANGED <<intent, best>>
    /\ UNCHANGED <<server, network, jply, jover, cooling, epoch, view>>

SubmitUnmarked ==               \* mutant: posts before the write
    /\ pc = "staged"
    /\ pc' = IF ~cooling /\ intent[Latest].move = best THEN "post" ELSE "suspended"
    /\ UNCHANGED <<server, network, journal, epoch, view, best>>

\* guarded_post up to its own write: the cooldown, the identical intent.
Submit ==
    /\ pc = "staged"
    /\ IF ~cooling /\ intent[Latest].move = best /\ intent[Latest].status = "PREPARED"
       THEN SetStatus(Latest, "SUBMITTING") /\ pc' = "post"
       ELSE pc' = "suspended" /\ UNCHANGED intent
    /\ UNCHANGED <<server, network, jply, jover, cooling, epoch, view, best>>

\* session.post.
Send ==
    /\ pc = "post" /\ pc' = "wait"
    /\ wire' = wire \cup {[ply |-> Latest, move |-> best, epoch |-> epoch]}
    /\ sent' = [sent EXCEPT ![Latest] = @ + 1]
    /\ UNCHANGED <<server, reply, feed, journal, epoch, view, best>>

\* guarded_post after the answer.
Answered ==
    /\ pc = "wait" /\ reply # "none" /\ reply' = "none"
    /\ \/ /\ reply = "ok" /\ Settle("ACK_OBSERVED") /\ UNCHANGED cooling
          /\ pc' = IF intent[Latest].status \in {"SUBMITTING", "CONFIRMED"}
                   THEN "stream" ELSE "suspended"
       \/ /\ reply = "refused" /\ Settle("UNKNOWN_ACK") /\ UNCHANGED cooling
          /\ pc' = "suspended"
       \/ /\ reply = "limited" /\ cooling' = TRUE /\ UNCHANGED intent
          /\ pc' = "limited"
    /\ UNCHANGED <<server, wire, feed, sent, jply, jover, epoch, view, best>>

TimedOutNever == FALSE          \* mutant: no timeout on the request

\* The request times out or its connection breaks.
TimedOut ==
    /\ pc = "wait" /\ reply = "none"
    /\ Settle("UNKNOWN_ACK") /\ pc' = "suspended"
    /\ UNCHANGED <<server, network, jply, jover, cooling, epoch, view, best>>

\* A rate limit: the status is written after the cooldown.
Limited ==
    /\ pc = "limited" /\ pc' = "suspended"
    /\ Settle("UNKNOWN_ACK")
    /\ UNCHANGED <<server, network, jply, jover, cooling, epoch, view, best>>

\* The stream is refused, or it breaks: its worker does not resume.
StreamBreaks ==
    /\ pc \in {"boot", "stream"} /\ pc' = "suspended"
    /\ UNCHANGED <<server, network, journal, epoch, view, best>>

\* The cooldown runs out.
CoolOff ==
    /\ cooling /\ cooling' = FALSE
    /\ UNCHANGED <<server, network, jply, jover, intent, bridge>>

-----------------------------------------------------------------------------
(* The server and the network *)

Publish ==
    feed' = IF pc \in {"down", "boot", "suspended", "closed"} THEN feed
            ELSE Append(feed, [ply |-> ply', over |-> over'])

\* The request the bridge waits for is answered: a success only for a move
\* that stands on the board, an error at any time, whether the request is
\* gone or not.
Answer ==
    /\ pc = "wait" /\ reply = "none"
    /\ reply' \in {"refused", "limited"} \cup (IF Latest < ply THEN {"ok"} ELSE {})
    /\ wire' \in {wire, {q \in wire : q.epoch # epoch}}
    /\ UNCHANGED <<server, feed, sent, journal, bridge>>

\* A move request arrives on the bot's turn and is played; it may end the game.
Play(q) ==
    /\ q \in wire /\ ~over /\ Ours(ply) /\ ply < MaxPly
    /\ wire' = wire \ {q}
    /\ played' = [played EXCEPT ![ply] = q.move] /\ ply' = ply + 1
    /\ over' \in BOOLEAN
    /\ Publish
    /\ UNCHANGED <<reply, sent, journal, bridge>>

\* A request that is lost, or arrives too late or at another position.
Lose(q) ==
    /\ q \in wire /\ wire' = wire \ {q}
    /\ UNCHANGED <<server, reply, feed, sent, journal, bridge>>

OpponentMoves ==
    /\ ~over /\ ~Ours(ply) /\ ply < MaxPly
    /\ ply' = ply + 1 /\ over' \in BOOLEAN
    /\ Publish
    /\ UNCHANGED <<played, wire, reply, sent, journal, bridge>>

\* Resignation, a flag, an abort.
GameEnds ==
    /\ ~over /\ over' = TRUE /\ UNCHANGED ply
    /\ Publish
    /\ UNCHANGED <<played, wire, reply, sent, journal, bridge>>

Step == Open \/ Receive \/ Check \/ Stage \/ Submit \/ Send \/ Answered \/ TimedOut \/ Limited

Next ==
    \/ Step \/ Kill \/ Launch \/ StreamBreaks \/ CoolOff
    \/ Answer \/ \E q \in wire : Play(q) \/ Lose(q)
    \/ OpponentMoves \/ GameEnds

Spec == Init /\ [][Next]_vars

\* The bridge runs; nothing else is promised.
FairSpec == Spec /\ WF_vars(Step)

-----------------------------------------------------------------------------
(* Properties *)

\* A position is submitted once: no restart, timeout or late answer sends a
\* second request for it.
OnePostPerPosition == \A p \in Ply : sent[p] <= 1

\* The journal and the server's board agree: every move the server has played
\* for the bot was journaled for that very position and marked submitted
\* before, so a request that arrives late is never played at another position;
\* and a move counts as confirmed only if it stands on the board.
JournalMatchesBoard ==
    \A p \in Ply :
        /\ Ours(p) /\ p < ply =>
              intent[p].move = played[p] /\ intent[p].status \notin {"none", "PREPARED"}
        /\ intent[p].status = "CONFIRMED" => p < ply /\ intent[p].move = played[p]

\* An honest server never gives the journal a reason to refuse its history,
\* whatever was lost or late before.
NothingToRefuse == pc = "stream" /\ feed # <<>> => ~Refuses(Head(feed))

\* A move the server has played is confirmed, unless the worker has ended.
PlayedIsConfirmed ==
    \A p \in Ply : Ours(p) /\ p < ply ~>
        \/ intent[p].status = "CONFIRMED"
        \/ pc \in {"down", "boot", "suspended", "closed"}
=============================================================================
