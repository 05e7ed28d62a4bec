----------------------------- MODULE ClockShell -----------------------------
(***************************************************************************)
(* The ONLINE half of the UCI shell: controller/uci_frontend.py together   *)
(* with the per-generation deadline object ClockSearch of                  *)
(* controller/online_time.py and the authority health of BackendManager.   *)
(*                                                                         *)
(* One `go` opens a generation.  Its answer may be written by the anchor's *)
(* stdout reader (a move), by the hard-deadline watchdog, by the command   *)
(* loop or by the failure handler (the null move).  A thread is a pair     *)
(* <<kind, generation>>; pc[t] is the label of its next step.  A step runs *)
(* up to the next lock it has to take, so everything another thread can    *)
(* see half done is a state of its own.                                    *)
(*                                                                         *)
(* Locks are not variables: each is held exactly while one thread stands   *)
(* at certain labels, and the operators StateLockFree and GateFree say so. *)
(***************************************************************************)
EXTENDS Naturals

CONSTANTS
    MaxGen,   \* bound: generations opened in one session
    MaxRefused,   \* bound: clock requests rejected in one session
    Hybrid,   \* the clocked hybrid-authority policy is configured
    Stops,    \* the GUI may send `stop` (at most one stop thread a generation)
    Measured, \* generations for which prepare_run opens a measured replay run
    Commands  \* the other commands the GUI may send besides quit

Gen == 1 .. MaxGen

ASSUME BoundAssumption == MaxGen \in Nat \ {0} /\ MaxRefused \in Nat
ASSUME ModeAssumption  == /\ Hybrid \in BOOLEAN /\ Stops \in BOOLEAN
                         /\ Measured \subseteq Gen
                         /\ Commands \subseteq {"go", "sync", "isready"}

Main   == <<"main", 0>>                 \* the command loop
Reader == <<"reader", 0>>               \* the anchor's only stdout reader
Watch(g) == <<"watch", g>>              \* ClockSearch deadline thread
Soft(g)  == <<"soft", g>>               \* soft-stop writer
UStop(g) == <<"ustop", g>>              \* user-stop writer
Ready(g) == <<"ready", g>>              \* opens readiness after measurement

Kinds  == {"watch", "soft", "ustop", "ready"}
Thread == {Main, Reader} \cup (Kinds \X Gen)

VARIABLES
    state, generation, active, postOut,            \* UciFrontend
    time, workClosed, blocked, committed,          \* ClockSearch, by generation
    finished, published, failed, dispatched,
    frozen, superseded, anchorDone,
    search, alive, reason, closing,                \* anchor process and manager
    pc, gen, tok, ret, require,                    \* threads
    answers, line,                                 \* stdout, by generation
    refused                                        \* stdout: null moves of rejected requests

shell   == <<state, generation, active, postOut>>
clock   == <<workClosed, blocked, committed, finished, published, failed>>
measure == <<dispatched, frozen, superseded, anchorDone>>
backend == <<search, alive, reason, closing>>
frame   == <<pc, gen, tok, ret>>
threads == <<frame, require>>
output  == <<answers, line, refused>>
vars    == <<shell, time, clock, measure, backend, threads, output>>

States == {"READY", "SEARCHING", "UNHEALTHY", "SHUTDOWN"}
Labels == {"idle", "off", "done", "exit", "dead",
           "fence", "go", "sync", "isready", "apply", "probe", "again",
           "prepare", "dispatch", "raised", "stop", "finish", "close",
           "complete", "decide", "seal", "enter", "write", "commit", "emitted",
           "soft", "hard", "halt", "block", "send", "ready",
           "fail", "expire", "retire", "kill", "null",
           "broken", "accounting", "unhealthy"}

ShellType ==
    /\ state \in States
    /\ generation \in 0 .. MaxGen /\ active \in 0 .. MaxGen
    /\ postOut \in 0 .. MaxGen

ClockType ==
    /\ time \in [Gen -> {"open", "soft", "hard"}]
    /\ workClosed \subseteq Gen /\ blocked \subseteq Gen
    /\ committed \subseteq Gen /\ finished \subseteq Gen
    /\ published \subseteq Gen /\ failed \subseteq Gen

MeasureType ==
    /\ dispatched \subseteq Gen /\ frozen \subseteq Gen
    /\ superseded \subseteq Gen /\ anchorDone \subseteq Gen

BackendType ==
    /\ search \in 0 .. MaxGen
    /\ alive \in BOOLEAN /\ reason \in BOOLEAN /\ closing \in BOOLEAN
    /\ require \in BOOLEAN

FrameType ==
    /\ pc \in [Thread -> Labels] /\ gen \in [Thread -> 0 .. MaxGen]
    /\ tok \in [Thread -> 0 .. MaxGen] /\ ret \in [Thread -> Labels]

OutputType ==
    /\ answers \in [Gen -> Nat]
    /\ line \in [Gen -> {"none", "anchor", "hybrid", "null"}]
    /\ refused \in 0 .. MaxRefused

\* Every variable holds a value the shell can hold.
TypeOK == ShellType /\ ClockType /\ MeasureType /\ BackendType /\ FrameType /\ OutputType

Home(t) == IF t \in {Main, Reader} THEN "idle" ELSE "done"

Init ==
    /\ state = "READY" /\ generation = 0 /\ active = 0 /\ postOut = 0
    /\ time = [g \in Gen |-> "open"]
    /\ workClosed = {} /\ blocked = {} /\ committed = {} /\ finished = {}
    /\ published = {} /\ failed = {} /\ dispatched = {} /\ frozen = {}
    /\ superseded = {} /\ anchorDone = {}
    /\ search = 0 /\ alive = TRUE /\ reason = FALSE /\ closing = FALSE
    /\ pc = [t \in Thread |-> IF t \in {Main, Reader} THEN "idle" ELSE "off"]
    /\ gen = [t \in Thread |-> t[2]]
    /\ tok = [t \in Thread |-> 0]
    /\ ret = [t \in Thread |-> Home(t)]
    /\ require = FALSE
    /\ answers = [g \in Gen |-> 0] /\ line = [g \in Gen |-> "none"] /\ refused = 0

-----------------------------------------------------------------------------
(* Locks and predicates of the code *)

\* UciFrontend._state_lock is held across a wait only by an invalidating
\* _clock_stop, which keeps it while block_authority takes the gate.
StateLockFree == \A g \in Gen : pc[UStop(g)] # "block"

\* try_publish holds _authority_gate and _lock of its clock across the write.
GateIgnored(g) == TRUE          \* mutant: the watchdog and stop skip the gate
GateFree(g) == ~ (gen[Reader] = g /\ pc[Reader] \in {"write", "commit"})

healthy         == ~reason /\ alive /\ ~closing
WorkOpen(g)     == g \notin workClosed /\ time[g] = "open"
AuthorityOpen(g) == g \notin blocked /\ time[g] # "hard"
Searching(g)    == state = "SEARCHING" /\ active = g

Goto(t, l) ==
    pc' = [pc EXCEPT ![t] = l] /\ UNCHANGED <<gen, tok, ret>>

\* Where thread t rests between commands, lines or for good.
Rest(t) ==
    /\ pc' = [pc EXCEPT ![t] = Home(t)] /\ gen' = [gen EXCEPT ![t] = t[2]]
    /\ UNCHANGED <<tok, ret>>

\* Call a procedure at label l with token k; it returns to label r.
Call(t, l, k, r) ==
    /\ pc' = [pc EXCEPT ![t] = l] /\ tok' = [tok EXCEPT ![t] = k]
    /\ ret' = [ret EXCEPT ![t] = r] /\ UNCHANGED gen

\* A procedure returns to the label its caller left in ret[t].
Return(t) ==
    /\ pc' = [pc EXCEPT ![t] = ret[t]] /\ ret' = [ret EXCEPT ![t] = Home(t)]
    /\ gen' = IF ret[t] = "raised" THEN gen ELSE [gen EXCEPT ![t] = t[2]]
    /\ tok' = [tok EXCEPT ![t] = 0]

\* Mutant: a failed request leaves the shell ready.
RetireToReady ==
    state' = "READY" /\ active' = 0 /\ postOut' = 0 /\ UNCHANGED generation

\* Leave SEARCHING for an unusable shell.
Retire ==
    /\ state' = "UNHEALTHY" /\ active' = 0 /\ postOut' = 0
    /\ UNCHANGED generation

\* One complete line of generation g reaches stdout.
Answer(g, l) ==
    /\ answers' = [answers EXCEPT ![g] = @ + 1]
    /\ line' = [line EXCEPT ![g] = l]
    /\ UNCHANGED refused

\* Mutant: readiness is announced but the generation stays active.
OpenReadinessKeepsActive(g) == UNCHANGED shell

\* The guarded part of _finish_online_generation_after_measurement.
OpenReadiness(g) ==
    IF Searching(g)
    THEN /\ state' = IF healthy THEN "READY" ELSE "UNHEALTHY"
         /\ active' = 0 /\ postOut' = 0
         /\ UNCHANGED generation
    ELSE UNCHANGED shell

-----------------------------------------------------------------------------
(* _clock_fail(gen[t]), then back to ret[t]; any thread may run it *)

FailCheck(t) ==
    /\ pc[t] = "fail" /\ StateLockFree
    /\ IF Searching(gen[t]) THEN Goto(t, "expire") ELSE Return(t)
    /\ UNCHANGED <<shell, time, clock, measure, backend, require, output>>

\* ClockSearch.fail: one terminal outcome wins under the gate.
FailClock(t) ==
    LET g == gen[t] IN
    /\ pc[t] = "expire" /\ GateFree(g)
    /\ IF g \in finished
       THEN Return(t) /\ UNCHANGED clock
       ELSE /\ Goto(t, "retire")
            /\ blocked' = blocked \cup {g} /\ workClosed' = workClosed \cup {g}
            /\ finished' = finished \cup {g} /\ failed' = failed \cup {g}
            /\ UNCHANGED <<committed, published>>
    /\ UNCHANGED <<shell, time, measure, backend, require, output>>

FailRetire(t) ==
    /\ pc[t] = "retire" /\ StateLockFree
    /\ Goto(t, "kill")
    /\ IF active = gen[t] THEN Retire ELSE UNCHANGED shell
    /\ UNCHANGED <<time, clock, measure, backend, require, output>>

\* The part of _runtime_failed(_, k) that finds no clocked generation to fail.
UnclockedFailure(k) ==
    IF state = "SHUTDOWN" \/ (state = "SEARCHING" /\ active # 0 /\ k # 0 /\ k # active)
    THEN UNCHANGED <<shell, output>>
    ELSE /\ Retire
         /\ IF state = "SEARCHING" /\ active # 0
            THEN Answer(active, "null") ELSE UNCHANGED output

\* fail_clock_search: kill the anchor and re-enter the failure handler, which
\* finds either this generation already finished or nothing to fail.
FailKill(t) ==
    /\ pc[t] = "kill" /\ StateLockFree
    /\ Goto(t, "null")
    /\ alive' = FALSE /\ reason' = TRUE
    /\ IF active = gen[t] /\ active # 0
       THEN UNCHANGED <<shell, output>> ELSE UnclockedFailure(gen[t])
    /\ UNCHANGED <<time, clock, measure, search, closing, require>>

FailWrite(t) ==
    /\ pc[t] = "null"
    /\ Return(t)
    /\ Answer(gen[t], "null")
    /\ UNCHANGED <<shell, time, clock, measure, backend, require>>

ClockFail(t) ==
    FailCheck(t) \/ FailClock(t) \/ FailRetire(t) \/ FailKill(t) \/ FailWrite(t)

-----------------------------------------------------------------------------
(* _runtime_failed(_, tok[t]), run by the command loop or by the reader *)

RuntimeFailed(t) ==
    /\ pc[t] = "broken" /\ StateLockFree
    /\ IF active # 0 /\ tok[t] \in {0, active}
       THEN /\ gen' = [gen EXCEPT ![t] = active]
            /\ pc' = [pc EXCEPT ![t] = IF active \in published THEN "accounting" ELSE "fail"]
            /\ UNCHANGED <<tok, ret>>
       ELSE Goto(t, "unhealthy")
    /\ UNCHANGED <<shell, time, clock, measure, backend, require, output>>

\* The bytes are out: the shell turns unhealthy and writes nothing more.
FailedAfterOutput(t) ==
    /\ pc[t] = "accounting" /\ StateLockFree
    /\ Return(t)
    /\ IF active = gen[t] THEN Retire ELSE UNCHANGED shell
    /\ UNCHANGED <<time, clock, measure, backend, require, output>>

FailedUnclocked(t) ==
    /\ pc[t] = "unhealthy" /\ StateLockFree
    /\ Return(t)
    /\ UnclockedFailure(tok[t])
    /\ UNCHANGED <<time, clock, measure, backend, require>>

Failure(t) == RuntimeFailed(t) \/ FailedAfterOutput(t) \/ FailedUnclocked(t)

-----------------------------------------------------------------------------
(* The command loop *)

\* Commands that first pass the post-output fence.
Command(c) ==
    /\ pc[Main] = "idle"
    /\ Call(Main, "fence", 0, c)
    /\ UNCHANGED <<shell, time, clock, measure, backend, require, output>>

\* _await_post_output_measurement: a published generation must be frozen first.
Fence ==
    LET waiting == state = "SEARCHING" /\ active # 0 /\ postOut = active IN
    /\ pc[Main] = "fence" /\ StateLockFree
    /\ waiting => active \in frozen
    /\ Return(Main)
    /\ IF waiting THEN OpenReadiness(active) ELSE UNCHANGED shell
    /\ UNCHANGED <<time, clock, measure, backend, require, output>>

\* position, setoption and ucinewgame: refused unless READY.
Sync ==
    /\ pc[Main] = "sync" /\ StateLockFree
    /\ IF state = "READY" THEN Goto(Main, "apply") ELSE Rest(Main)
    /\ UNCHANGED <<shell, time, clock, measure, backend, require, output>>

IsReady ==
    /\ pc[Main] = "isready" /\ StateLockFree
    /\ IF state = "UNHEALTHY" THEN Rest(Main) ELSE Goto(Main, "probe")
    /\ UNCHANGED <<shell, time, clock, measure, backend, require, output>>

\* The manager synchronizes the anchor: done, refused by a health check that
\* notifies nobody, or failed on the anchor itself.
Synchronize ==
    /\ pc[Main] \in {"apply", "probe"}
    /\ \/ healthy /\ Rest(Main) /\ UNCHANGED <<alive, reason>>
       \/ ~healthy /\ Goto(Main, "again") /\ UNCHANGED <<alive, reason>>
       \/ /\ Call(Main, "broken", 0, "again")
          /\ reason' = TRUE /\ alive' \in {alive, FALSE}
    /\ UNCHANGED <<shell, time, clock, measure, search, closing, require, output>>

\* `except RuntimeError`: report unless the shell already knows.
SyncRaised ==
    /\ pc[Main] = "again" /\ StateLockFree
    /\ IF state = "UNHEALTHY" THEN Rest(Main) ELSE Goto(Main, "broken")
    /\ UNCHANGED <<shell, time, clock, measure, backend, require, output>>

\* go: ignored; rejected, its position or clock having no plan, with a null move
\* that opens nothing; or a new generation with its ClockSearch and watchdog.
Go ==
    LET g == generation + 1 IN
    /\ pc[Main] = "go" /\ StateLockFree
    /\ \/ /\ state # "READY" \/ ~healthy \/ generation = MaxGen
          /\ Rest(Main)
          /\ UNCHANGED <<shell, output>>
       \/ /\ state = "READY" /\ healthy /\ refused < MaxRefused
          /\ refused' = refused + 1
          /\ Rest(Main)
          /\ UNCHANGED <<shell, answers, line>>
       \/ /\ state = "READY" /\ healthy /\ g \in Gen
          /\ state' = "SEARCHING" /\ generation' = g /\ active' = g /\ postOut' = 0
          /\ gen' = [gen EXCEPT ![Main] = g]
          /\ pc' = [pc EXCEPT ![Main] = "prepare", ![Watch(g)] = "soft"]
          /\ UNCHANGED <<tok, ret, output>>
    /\ UNCHANGED <<time, clock, measure, backend, require>>

\* After prepare_run the remaining window is checked.
Prepare ==
    LET g == gen[Main] IN
    /\ pc[Main] = "prepare"
    /\ IF WorkOpen(g)
       THEN Goto(Main, "dispatch") /\ dispatched' = dispatched \cup {g}
       ELSE Goto(Main, "fail") /\ UNCHANGED dispatched
    /\ UNCHANGED <<shell, time, clock, frozen, superseded, anchorDone, backend,
                   require, output>>

\* start_anchor_search: refused by health, started, or failed and notified.
Dispatch ==
    LET g == gen[Main] IN
    /\ pc[Main] = "dispatch"
    /\ \/ /\ ~healthy
          /\ Goto(Main, "fail")
          /\ UNCHANGED <<superseded, search, alive, reason>>
       \/ /\ healthy
          /\ superseded' = superseded \cup ({g - 1} \ (frozen \cup {0}))
          /\ \/ /\ WorkOpen(g) /\ search = 0
                /\ search' = g
                /\ Rest(Main)
                /\ UNCHANGED <<alive, reason>>
             \/ /\ IF WorkOpen(g) /\ search = 0
                   THEN alive' = FALSE ELSE UNCHANGED alive
                /\ reason' = TRUE
                /\ Call(Main, "broken", g, "raised")
                /\ UNCHANGED search
    /\ UNCHANGED <<shell, time, clock, dispatched, frozen, anchorDone, closing,
                   require, output>>

DispatchRaised ==
    /\ pc[Main] = "raised"
    /\ Goto(Main, "fail")
    /\ UNCHANGED <<shell, time, clock, measure, backend, require, output>>

\* stop: revoke before waiting for the frontend state.
Stop ==
    LET g == generation IN
    /\ Stops /\ pc[Main] = "idle" /\ g # 0
    /\ pc[UStop(g)] = "off" /\ GateFree(g)
    /\ workClosed' = workClosed \cup {g}
    /\ IF g \in committed \/ g \in finished
       THEN UNCHANGED <<blocked, frame>>
       ELSE blocked' = blocked \cup {g} /\ Goto(Main, "stop")
    /\ UNCHANGED <<shell, time, committed, finished, published, failed, measure, backend,
                   require, output>>

StopSpawn ==
    /\ pc[Main] = "stop" /\ StateLockFree
    /\ IF active # 0 /\ generation \notin finished
       THEN /\ pc' = [pc EXCEPT ![Main] = "idle", ![UStop(active)] = "halt"]
            /\ UNCHANGED <<gen, tok, ret>>
       ELSE Rest(Main)
    /\ UNCHANGED <<shell, time, clock, measure, backend, require, output>>

\* quit, or the end of the input stream.
Quit ==
    /\ pc[Main] = "idle" /\ StateLockFree
    /\ state' = "SHUTDOWN" /\ active' = 0
    /\ Goto(Main, "finish")
    /\ UNCHANGED <<generation, postOut, time, clock, measure, backend,
                   require, output>>

Finish ==
    LET g == generation IN
    /\ pc[Main] = "finish"
    /\ g # 0 => GateFree(g)
    /\ IF g # 0 /\ g \notin finished
       THEN finished' = finished \cup {g} /\ workClosed' = workClosed \cup {g}
       ELSE UNCHANGED <<finished, workClosed>>
    /\ Goto(Main, "close")
    /\ UNCHANGED <<shell, time, blocked, committed, published, failed, measure, backend,
                   require, output>>

Close ==
    /\ pc[Main] = "close"
    /\ closing' = TRUE /\ alive' = FALSE
    /\ Goto(Main, "exit")
    /\ UNCHANGED <<shell, time, clock, measure, search, reason, require, output>>

MainStep ==
    \/ Fence \/ Sync \/ IsReady \/ Synchronize \/ SyncRaised
    \/ Go \/ Prepare \/ Dispatch \/ DispatchRaised
    \/ StopSpawn \/ Finish \/ Close
    \/ ClockFail(Main) \/ Failure(Main)

-----------------------------------------------------------------------------
(* The anchor's stdout reader *)

\* A terminal line ends the process subscription, then the callback runs.
BestMove ==
    /\ pc[Reader] = "idle" /\ search # 0
    /\ pc' = [pc EXCEPT ![Reader] = "complete"]
    /\ gen' = [gen EXCEPT ![Reader] = search] /\ search' = 0
    /\ UNCHANGED <<tok, ret>>
    /\ UNCHANGED <<shell, time, clock, measure, alive, reason, closing, require, output>>

Complete ==
    LET g == gen[Reader] IN
    /\ pc[Reader] = "complete" /\ StateLockFree
    /\ IF Searching(g)
       THEN Goto(Reader, IF time[g] = "hard" THEN "fail" ELSE "decide")
       ELSE Rest(Reader)
    /\ UNCHANGED <<shell, time, clock, measure, backend, require, output>>

\* shadow.note_anchor_complete: a HYBRID decision needs open authority.
Decide ==
    LET g == gen[Reader] IN
    /\ pc[Reader] = "decide"
    /\ require' \in IF Hybrid /\ AuthorityOpen(g) THEN BOOLEAN ELSE {FALSE}
    /\ anchorDone' = anchorDone \cup {g}
    /\ Goto(Reader, "seal")
    /\ UNCHANGED <<shell, time, clock, dispatched, frozen, superseded, backend,
                   output>>

SealWork ==
    LET g == gen[Reader] IN
    /\ pc[Reader] = "seal" /\ StateLockFree
    /\ IF Searching(g)
       THEN workClosed' = workClosed \cup {g} /\ Goto(Reader, "enter")
       ELSE UNCHANGED workClosed /\ Rest(Reader)
    /\ UNCHANGED <<shell, time, blocked, committed, finished, published, failed, measure,
                   backend, require, output>>

\* try_publish up to the write: finished, expired, revoked, or the gate is held.
TryPublish ==
    LET g == gen[Reader] IN
    /\ pc[Reader] = "enter"
    /\ \/ g \in finished /\ Rest(Reader) /\ require' = FALSE
       \/ g \notin finished /\ time[g] = "hard" /\ Goto(Reader, "fail") /\ require' = FALSE
       \/ /\ g \notin finished /\ time[g] # "hard" /\ require /\ g \in blocked
          /\ require' = FALSE /\ UNCHANGED frame
       \/ /\ g \notin finished /\ time[g] # "hard" /\ ~(require /\ g \in blocked)
          /\ Goto(Reader, "write") /\ UNCHANGED require
    /\ UNCHANGED <<shell, time, clock, measure, backend, output>>

\* write_and_retain, with the gate held: the line is out, the pipe is full, or
\* the write raises and the process adapter swallows the exception.
Write ==
    LET g == gen[Reader] IN
    /\ pc[Reader] = "write" /\ StateLockFree
    /\ \/ /\ Answer(g, IF require THEN "hybrid" ELSE "anchor")
          /\ postOut' = g /\ UNCHANGED <<state, generation, active>>
          /\ Goto(Reader, "commit") /\ UNCHANGED require
       \/ Goto(Reader, "enter") /\ UNCHANGED <<shell, output, require>>
       \/ Rest(Reader) /\ require' = FALSE /\ UNCHANGED <<shell, output>>
    /\ UNCHANGED <<time, clock, measure, backend>>

Commit ==
    LET g == gen[Reader] IN
    /\ pc[Reader] = "commit"
    /\ workClosed' = workClosed \cup {g} /\ finished' = finished \cup {g}
    /\ published' = published \cup {g}
    /\ committed' = IF require THEN committed \cup {g} ELSE committed
    /\ Goto(Reader, "emitted") /\ require' = FALSE
    /\ UNCHANGED <<shell, time, blocked, failed, measure, backend, output>>

\* note_anchor_emitted: a measured run owns the fence, else it opens at once.
Emitted ==
    LET g == gen[Reader] IN
    /\ pc[Reader] = "emitted"
    /\ IF g \in Measured
       THEN /\ pc' = [pc EXCEPT ![Reader] = "idle", ![Ready(g)] = "ready"]
            /\ gen' = [gen EXCEPT ![Reader] = 0]
            /\ UNCHANGED <<frozen, tok, ret>>
       ELSE frozen' = frozen \cup {g} /\ Goto(Reader, "ready")
    /\ UNCHANGED <<shell, time, clock, dispatched, superseded, anchorDone, backend,
                   require, output>>

\* The anchor's pipe ends: BackendManager._handle_exit.
Eof ==
    /\ pc[Reader] = "idle" /\ ~alive
    /\ search' = 0
    /\ IF closing THEN Goto(Reader, "dead") /\ UNCHANGED reason
       ELSE Call(Reader, "broken", search, "dead") /\ reason' = TRUE
    /\ UNCHANGED <<shell, time, clock, measure, alive, closing, require, output>>

\* What _finish_online_generation_after_measurement waits for.
NoMeasurementBarrier(g) == TRUE     \* mutant
MeasurementClosed(g) == g \in frozen \/ ~Searching(g)

\* _finish_online_generation_after_measurement, by a thread or by the reader.
OpenReady(t) ==
    LET g == gen[t] IN
    /\ pc[t] = "ready" /\ StateLockFree
    /\ MeasurementClosed(g)
    /\ OpenReadiness(g)
    /\ Return(t)
    /\ UNCHANGED <<time, clock, measure, backend, require, output>>

ReaderStep ==
    \/ Complete \/ Decide \/ SealWork \/ TryPublish \/ Write \/ Commit \/ Emitted \/ Eof
    \/ OpenReady(Reader) \/ ClockFail(Reader) \/ Failure(Reader)

-----------------------------------------------------------------------------
(* Deadline threads of one generation *)

WatchSoft(g) ==
    LET t == Watch(g) IN
    /\ pc[t] = "soft"
    /\ \/ g \in finished /\ Rest(t) /\ UNCHANGED workClosed
       \/ /\ g \notin finished /\ time[g] # "open"
          /\ workClosed' = workClosed \cup {g}
          /\ pc' = [pc EXCEPT ![t] = "hard", ![Soft(g)] = "halt"]
          /\ UNCHANGED <<gen, tok, ret>>
    /\ UNCHANGED <<shell, time, blocked, committed, finished, published, failed, measure,
                   backend, require, output>>

\* Mutant: the watchdog only ever notices a finished clock.
WatchNeverExpires(g) ==
    /\ pc[Watch(g)] = "hard" /\ g \in finished /\ Rest(Watch(g))
    /\ UNCHANGED <<shell, time, clock, measure, backend, require, output>>

WatchHard(g) ==
    LET t == Watch(g) IN
    /\ pc[t] = "hard"
    /\ \/ g \in finished /\ Rest(t)
       \/ g \notin finished /\ time[g] = "hard" /\ Goto(t, "fail")
    /\ UNCHANGED <<shell, time, clock, measure, backend, require, output>>

\* _clock_stop; an invalidating one goes on to the gate with the state lock held.
ClockStop(t) ==
    LET g == gen[t] IN
    /\ pc[t] = "halt" /\ StateLockFree
    /\ IF Searching(g) /\ g \notin finished
       THEN /\ workClosed' = workClosed \cup {g}
            /\ Goto(t, IF t = UStop(g) THEN "block" ELSE "send")
       ELSE Rest(t) /\ UNCHANGED workClosed
    /\ UNCHANGED <<shell, time, blocked, committed, finished, published, failed, measure,
                   backend, require, output>>

BlockAuthority(t) ==
    LET g == gen[t] IN
    /\ pc[t] = "block" /\ GateFree(g)
    /\ IF g \in committed \/ g \in finished
       THEN Rest(t) /\ UNCHANGED blocked
       ELSE blocked' = blocked \cup {g} /\ Goto(t, "send")
    /\ UNCHANGED <<shell, time, workClosed, committed, finished, published, failed, measure,
                   backend, require, output>>

\* stop_anchor_for: only this generation's search, and a write that outlives
\* the deadline kills the process.
SendStop(t) ==
    LET g == gen[t] IN
    /\ pc[t] = "send"
    /\ IF time[g] # "hard" /\ g \in dispatched /\ search = g
       THEN alive' \in {alive, FALSE} ELSE UNCHANGED alive
    /\ Rest(t)
    /\ UNCHANGED <<shell, time, clock, measure, search, reason, closing,
                   require, output>>

WorkerStep(t) ==
    \/ /\ t[1] = "watch"
       /\ WatchSoft(t[2]) \/ WatchHard(t[2]) \/ ClockFail(t)
    \/ /\ t[1] \in {"soft", "ustop"}
       /\ ClockStop(t) \/ BlockAuthority(t) \/ SendStop(t)
    \/ t[1] = "ready" /\ OpenReady(t)

-----------------------------------------------------------------------------
(* Environment *)

\* Deadlines pass for the latest clock until it finishes: a finished clock is
\* closed to every reader of its deadlines.
TimePass(g) ==
    /\ g = generation /\ g \notin finished /\ time[g] # "hard"
    /\ time' = [time EXCEPT ![g] = IF @ = "open" THEN "soft" ELSE "hard"]
    /\ UNCHANGED <<shell, clock, measure, backend, threads, output>>

AnchorDies ==
    /\ alive /\ alive' = FALSE
    /\ UNCHANGED <<shell, time, clock, measure, search, reason, closing, threads, output>>

\* The replay finalizer freezes the measured interval once the anchor is done
\* and its terminal sample taken, or once the runtime is no longer healthy.
Freeze(g) ==
    /\ g \in Measured \ frozen /\ g \in anchorDone
    /\ ~healthy \/ pc[Ready(g)] # "off"
    /\ frozen' = frozen \cup {g}
    /\ UNCHANGED <<shell, time, clock, dispatched, superseded, anchorDone, backend,
                   threads, output>>

\* Everything has ended: the process is gone and no thread is left.
Terminated ==
    /\ pc[Main] = "exit" /\ pc[Reader] = "dead"
    /\ \A t \in Kinds \X Gen : pc[t] \in {"off", "done"}
    /\ UNCHANGED vars

Next ==
    \/ MainStep \/ \E c \in Commands : Command(c)
    \/ Stop \/ Quit
    \/ ReaderStep \/ BestMove
    \/ \E t \in Kinds \X Gen : WorkerStep(t)
    \/ \E g \in Gen : TimePass(g) \/ Freeze(g)
    \/ AnchorDies \/ Terminated

\* Threads run and deadlines pass.  Commands, the engine's answer, its death
\* and the freezing of a measurement are not promised.
Fairness ==
    /\ WF_vars(MainStep) /\ WF_vars(ReaderStep)
    /\ \A t \in Kinds \X Gen : WF_vars(WorkerStep(t))
    /\ \A g \in Gen : WF_vars(TimePass(g))

Spec == Init /\ [][Next]_vars
FairSpec == Spec /\ Fairness

-----------------------------------------------------------------------------
(* Properties *)

\* One `go` never gets two terminal lines, whichever of the reader, the
\* watchdog, the command loop and the failure handler get there.
AtMostOneAnswer == \A g \in Gen : answers[g] <= 1

\* A generation whose clock failed is the last one: neither a racing readiness
\* thread nor a later command brings the shell back to searching.
FailureIsFinal == \A g \in failed : generation = g

\* A state change or a dispatch never reaches the anchor while the measurement
\* of an already published generation is still open.
TouchesFrozenOnly ==
    pc[Main] \in {"apply", "prepare", "dispatch"} =>
        /\ {g \in Gen : line[g] \in {"anchor", "hybrid"}} \subseteq frozen
        /\ superseded = {}

\* Once a stop has revoked authority no HYBRID line crosses stdout.
RevokedStaysAnchor ==
    [][\A g \in Gen : line'[g] = "hybrid" /\ line[g] # "hybrid" => g \notin blocked]_vars

\* A move is written only for the active generation, or while quitting.
MoveForActiveGeneration ==
    [][\A g \in Gen : answers'[g] # answers[g] /\ line'[g] # "null" =>
           active = g \/ state = "SHUTDOWN"]_vars

\* Every accepted `go` is answered, by a move or by the hard deadline.
EveryGoAnswered ==
    \A g \in Gen : Searching(g) ~> (answers[g] = 1 \/ state = "SHUTDOWN")

\* Every accepted `go` is answered, unless a user stop reaches its generation:
\* an answer, a shutdown and a stop last, so that "eventually always" says it.
AnsweredUnlessStopped ==
    <>[](\A g \in 1 .. generation :
             answers[g] = 1 \/ state = "SHUTDOWN" \/ pc[UStop(g)] # "off")

\* A published generation whose measurement is frozen releases the shell,
\* unless a user stop has reached it.
ReadinessReturns ==
    <>[](\A g \in published \cap frozen : active # g \/ pc[UStop(g)] # "off")

\* The shell keeps the promise of UciAnswer.
Promise == INSTANCE UciAnswer WITH opened <- generation, answer <- line
KeepsPromise == Promise!Spec
=============================================================================
