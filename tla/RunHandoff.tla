---------------------------- MODULE RunHandoff ----------------------------
(***************************************************************************)
(* The life of one observational run per clocked search, in                *)
(* ShadowRunCoordinator (controller/shadow.py): the command loop prepares  *)
(* it, the anchor's reader thread completes and publishes it, its worker   *)
(* thread drives the shadow engines and seals its evidence, and a deferred *)
(* observer reports late telemetry.  One run at a time owns the engines:   *)
(* it sits in the slot `_run`.  Once its measurement is frozen it is       *)
(* handed off to `_finalizing`, so that the next generation may use the    *)
(* engines while its files are still being written.                        *)
(***************************************************************************)
EXTENDS Naturals, FiniteSets

CONSTANTS Owners,   \* shadow owners, each with an engine process of its own
          MaxGen,   \* bound: clocked searches of one session
          MaxRound  \* bound: dispatch rounds of a run (EXPLORE, VERIFY, EXTENSION)

ASSUME HandoffAssumption == /\ Owners # {} /\ IsFiniteSet(Owners)
                            /\ MaxGen \in Nat \ {0}
                            /\ MaxRound \in Nat \ {0}

Gens   == 1..MaxGen
Anchor == "anchor"
ASSUME AnchorAssumption == Anchor \notin Owners

VARIABLES
  shell,      \* "ready", "searching", "failed" or "shutdown"
  gen,        \* generation of the last accepted go
  main,       \* where the command loop is
  then,       \* what it runs the quiesce barrier for: "install", "send", "detach"
  sampled,    \* the run the barrier read from the slot, 0 for none
  anchor,     \* generation last dispatched to the anchor engine
  healthy,    \* runtime.healthy
  closed,     \* ShadowRunCoordinator._closed
  slot,       \* _run: the generation that owns the engines, 0 for none
  finalizing, \* _finalizing: generations with only files left to write
  pc,         \* where the worker of each generation is
  round,      \* its dispatch round
  todo,       \* owners it has yet to dispatch in this round
  committed,  \* stage recorded under the lock, go not yet written
  pending,    \* stages written whose `done` is not set
  clean,      \* every owner of the round was dispatched and completed
  open,       \* resource stages begun and not ended
  events,     \* threading.Events and flags of each generation
  engine,     \* generation each engine process is searching, 0 for none
  alive,      \* shadow_available
  ledger      \* generation the router's budget ledger belongs to

shellVars  == <<shell, gen, main, then, sampled>>
coordVars  == <<closed, slot, finalizing>>
stageVars  == <<round, todo, committed, pending, clean>>
workerVars == <<pc, stageVars>>
vars == <<shellVars, anchor, healthy, coordVars, workerVars, open, events,
          engine, alive, ledger>>

EventNames == {"cancelled", "workClosed", "clockDone", "answered", "emitted",
               "tail", "complete", "published", "sampled", "observed",
               "frozen", "quiesced", "finished", "opened"}

Is(g, e) == e \in events[g]
Set(g, E) == events' = [events EXCEPT ![g] = @ \cup E]

Init ==
  /\ shell = "ready" /\ gen = 0 /\ main = "idle" /\ then = "idle" /\ sampled = 0
  /\ anchor = 0 /\ healthy = TRUE /\ closed = FALSE
  /\ slot = 0 /\ finalizing = {}
  /\ pc = [g \in Gens |-> "none"] /\ round = [g \in Gens |-> 0]
  /\ todo = [g \in Gens |-> {}] /\ committed = [g \in Gens |-> {}]
  /\ pending = [g \in Gens |-> {}] /\ clean = [g \in Gens |-> FALSE]
  /\ open = [g \in Gens |-> {}]
  /\ events = [g \in Gens |-> {}]
  /\ engine = [o \in Owners |-> 0] /\ alive = [o \in Owners |-> TRUE]
  /\ ledger = 0

----------------------------------------------------------------------------
(* The command loop: go, the quiesce barrier, state changes, quit.         *)

Installed(g) == pc[g] # "none"
Finished(g)  == Is(g, "finished")

\* _ActiveRun.cancelled: the work fence counts as a cancellation.
Cancelled(g) == Is(g, "cancelled") \/ Is(g, "workClosed")

\* clock.outcome() reports an emitted line and no failure.
Outcome(g) == Is(g, "emitted")

\* prepare_run reads the slot; an unfinished previous run must drain first.
Go ==
  /\ shell = "ready" /\ main = "idle" /\ gen < MaxGen /\ healthy
  /\ shell' = "searching" /\ gen' = gen + 1
  /\ IF slot # 0 /\ ~Finished(slot) THEN main' = "barrier" /\ then' = "install"
                                    ELSE main' = "install" /\ UNCHANGED then
  /\ UNCHANGED <<sampled, anchor, healthy, coordVars, workerVars, open, events,
                 engine, alive, ledger>>

\* position, setoption or ucinewgame: quiesce before the state change.
Sync ==
  /\ shell = "ready" /\ main = "idle"
  /\ then' = "send" /\ main' = "barrier"
  /\ UNCHANGED <<shell, gen, sampled, anchor, healthy, coordVars, workerVars, open,
                 events, engine, alive, ledger>>

ReleaseDrops(g) ==     \* mutant: the run is not kept for late events
  IF slot = g /\ g # 0 /\ Is(g, "quiesced")
  THEN slot' = 0 /\ UNCHANGED finalizing
  ELSE UNCHANGED <<slot, finalizing>>

\* _handoff_replay_only: the slot is freed, the run kept where late events find it.
Release(g) ==
  IF slot = g /\ g # 0 /\ Is(g, "quiesced")
  THEN slot' = 0 /\ finalizing' = finalizing \cup {g}
  ELSE UNCHANGED <<slot, finalizing>>

Leave(ok) == /\ main' = IF ok \/ then # "install" THEN then ELSE "start"
             /\ then' = "idle" /\ sampled' = 0

\* _quiesce_clock, locked section: an unpublished run is cancelled.
BarrierSample ==
  /\ main = "barrier"
  /\ IF slot # 0 /\ ~Is(slot, "quiesced") /\ ~Is(slot, "published")
     THEN Set(slot, {"cancelled"})
     ELSE UNCHANGED events
  /\ IF slot = 0 THEN Leave(TRUE)
                 ELSE main' = "drain" /\ sampled' = slot /\ UNCHANGED then
  /\ UNCHANGED <<shell, gen, anchor, healthy, coordVars, workerVars, open, engine, alive,
                 ledger>>

\* The sampled run released the engines in time.
BarrierDone ==
  /\ main = "drain"
  /\ IF then = "detach" THEN Finished(sampled) /\ UNCHANGED <<slot, finalizing>>
                        ELSE Is(sampled, "quiesced") /\ Release(sampled)
  /\ Leave(TRUE)
  /\ UNCHANGED <<shell, gen, anchor, healthy, closed, workerVars,
                 open, events, engine, alive, ledger>>

\* It did not, or a late stop writer is stuck: every worker is excluded and killed,
\* unless the controller is closing and only files are outstanding.
BarrierTimeout ==
  /\ main = "drain"
  /\ alive' = IF then = "detach" /\ Is(sampled, "quiesced") THEN alive
              ELSE [o \in Owners |-> FALSE]
  /\ Leave(FALSE)
  /\ UNCHANGED <<shell, gen, anchor, healthy, coordVars, workerVars,
                 open, events, engine, ledger>>

\* The state change reaches every available engine.
Send ==
  /\ main = "send" /\ main' = "idle"
  /\ UNCHANGED <<shell, gen, then, sampled, anchor, healthy, coordVars, workerVars,
                 open, events, engine, alive, ledger>>

\* The run becomes the owner of the engines, with the anchor's stage measured.
Install ==
  /\ main = "install" /\ main' = "start"
  /\ IF slot # 0 /\ ~Finished(slot)           \* still owned: no run for this go
     THEN UNCHANGED <<slot, pc, open>>
     ELSE \/ UNCHANGED <<slot, pc, open>>          \* preparation missed its budget
          \/ /\ ~closed /\ ~Cancelled(gen)
             /\ slot' = gen /\ pc' = [pc EXCEPT ![gen] = "new"]
             /\ open' = [open EXCEPT ![gen] = {Anchor}]
  /\ UNCHANGED <<shell, gen, then, sampled, anchor, healthy, closed, finalizing,
                 stageVars, events, engine, alive, ledger>>

\* The anchor gets its go if the work window is still open; a prepared run gets its
\* worker either way.
StartAnchor ==
  /\ main = "start" /\ main' = "idle"
  /\ IF ~Is(gen, "workClosed") /\ healthy
     THEN anchor' = gen /\ UNCHANGED <<shell, events>>
     ELSE /\ Set(gen, {"workClosed", "clockDone"})
          /\ shell' = "failed" /\ UNCHANGED anchor
  /\ pc' = [pc EXCEPT ![gen] = IF @ = "new" THEN "execute" ELSE @]
  /\ UNCHANGED <<gen, then, sampled, healthy, coordVars, stageVars, open,
                 engine, alive, ledger>>

\* quit: the clock is finished before the coordinator closes.
Quit ==
  /\ shell # "shutdown" /\ main = "idle"
  /\ shell' = "shutdown" /\ main' = "close"
  /\ IF gen > 0 THEN Set(gen, {"workClosed", "clockDone"}) ELSE UNCHANGED events
  /\ UNCHANGED <<gen, then, sampled, anchor, healthy, coordVars, workerVars, open,
                 engine, alive, ledger>>

Close ==
  /\ main = "close" /\ main' = "barrier"
  /\ closed' = TRUE /\ then' = "detach"
  /\ UNCHANGED <<shell, gen, sampled, anchor, healthy, slot, finalizing, workerVars,
                 open, events, engine, alive, ledger>>

\* close() waits for the retained runs, then marks lost what never drained.
ForceLoss(g) ==
  /\ main = "detach" /\ (slot = g \/ g \in finalizing)
  /\ Is(g, "quiesced") /\ ~Is(g, "observed")
  /\ Set(g, {"observed"})
  /\ UNCHANGED <<shellVars, anchor, healthy, coordVars, workerVars, open, engine, alive,
                 ledger>>

Retained == finalizing \cup ({slot} \ {0})

Detach ==
  /\ main = "detach" /\ main' = "over"
  /\ \A g \in Retained : Is(g, "quiesced") => Is(g, "observed")
  /\ healthy' = FALSE                       \* runtime.close stops every process
  /\ UNCHANGED <<shell, gen, then, sampled, anchor, coordVars, workerVars, open,
                 events, engine, alive, ledger>>

Main == \/ Go \/ Sync \/ BarrierSample \/ BarrierDone \/ BarrierTimeout \/ Send
        \/ Install \/ StartAnchor \/ Quit \/ Close \/ Detach
        \/ \E g \in Gens : ForceLoss(g)
----------------------------------------------------------------------------
(* The clock, the anchor's reader thread and the deferred observer.         *)

Searching(g) == shell = "searching" /\ gen = g

rest == <<main, then, sampled, anchor, closed, workerVars, engine, alive, ledger>>

\* The soft deadline closes the work window.
SoftExpiry(g) ==
  /\ Searching(g) /\ ~Is(g, "workClosed") /\ Set(g, {"workClosed"})
  /\ UNCHANGED <<shell, gen, healthy, slot, finalizing, open, rest>>

\* The hard deadline, or a runtime failure, ends the search without an answer of its own.
HardExpiry(g) ==
  /\ Searching(g) /\ ~Is(g, "clockDone")
  /\ Set(g, {"workClosed", "clockDone"}) /\ shell' = "failed"
  /\ UNCHANGED <<gen, healthy, slot, finalizing, open, rest>>

\* stop, or any other authoritative cancellation of the run in the slot.
Cancel(g) ==
  /\ Searching(g) /\ slot = g /\ ~Is(g, "cancelled")
  /\ Set(g, {"cancelled", "workClosed"})
  /\ UNCHANGED <<shell, gen, healthy, slot, finalizing, open, rest>>

\* The anchor process dies, or the failed shell kills it.
Unhealthy ==
  /\ healthy /\ healthy' = FALSE
  /\ UNCHANGED <<shell, gen, slot, finalizing, open, events, rest>>

\* The failure handler: the clock of a search under way is finished, no go follows.
RuntimeFailed ==
  /\ ~healthy /\ shell \in {"ready", "searching"}
  /\ shell' = "failed"
  /\ IF shell = "searching" THEN Set(gen, {"workClosed", "clockDone"}) ELSE UNCHANGED events
  /\ UNCHANGED <<gen, healthy, slot, finalizing, open, rest>>

\* note_anchor_complete, under the gate of the physical go writes.
AnchorComplete(g) ==
  /\ Searching(g) /\ anchor = g /\ ~Is(g, "answered") /\ ~Is(g, "clockDone")
  /\ Set(g, {"answered", "workClosed"} \cup IF slot = g THEN {"complete"} ELSE {})
  /\ UNCHANGED <<shell, gen, healthy, slot, finalizing, open, rest>>

\* The line and, before the clock's gate opens again, note_anchor_published.
Publish(g) ==
  /\ Searching(g) /\ Is(g, "answered") /\ ~Is(g, "clockDone")
  /\ Set(g, {"clockDone", "emitted"} \cup IF slot = g THEN {"published"} ELSE {})
  /\ UNCHANGED <<shell, gen, healthy, slot, finalizing, open, rest>>

EmittedUnsampled(g) ==   \* mutant: the worker is not told of the sample
  /\ Is(g, "emitted") /\ ~Is(g, "tail")
  /\ IF slot = g
     THEN /\ Set(g, {"tail", "published"})
          /\ open' = [open EXCEPT ![g] = @ \ {Anchor}]
     ELSE Set(g, {"tail", "frozen"}) /\ UNCHANGED open
  /\ UNCHANGED <<shell, gen, healthy, slot, finalizing, rest>>

\* note_anchor_emitted takes the terminal sample; without a run the shell itself
\* declares the interval frozen.
Emitted(g) ==
  /\ Is(g, "emitted") /\ ~Is(g, "tail")
  /\ IF slot = g
     THEN /\ Set(g, {"tail", "published", "sampled"})
          /\ open' = [open EXCEPT ![g] = @ \ {Anchor}]
     ELSE Set(g, {"tail", "frozen"}) /\ UNCHANGED open
  /\ UNCHANGED <<shell, gen, healthy, slot, finalizing, rest>>

\* _finish_online_generation_after_measurement
Ready(g) ==
  /\ Searching(g) /\ Is(g, "tail") /\ Is(g, "frozen")
  /\ shell' = IF healthy THEN "ready" ELSE "failed"
  /\ UNCHANGED <<gen, healthy, slot, finalizing, open, events, rest>>

\* note_clock_observation_end: the run is in the slot or among the finalizing ones.
ObservationEnd(g) ==
  /\ Installed(g) /\ (Is(g, "answered") \/ ~healthy)
  /\ ~Is(g, "observed") /\ (slot = g \/ g \in finalizing)
  /\ Set(g, {"observed"})
  /\ UNCHANGED <<shell, gen, healthy, slot, finalizing, open, rest>>

----------------------------------------------------------------------------
(* The shadow engines.                                                      *)

\* A bestmove: the stage of the run in the slot is done; an answer outside the owner's
\* region excludes the engine.
StageDone(o) ==
  LET g == engine[o] IN
  /\ g # 0
  /\ engine' = [engine EXCEPT ![o] = 0]
  /\ \E escaped \in BOOLEAN :
       IF slot = g /\ o \in pending[g]
       THEN /\ pending' = [pending EXCEPT ![g] = @ \ {o}]
            /\ open' = [open EXCEPT ![g] = @ \ {o}]
            /\ clean' = [clean EXCEPT ![g] = @ /\ ~escaped /\ ~Cancelled(g)]
            /\ alive' = [alive EXCEPT ![o] = @ /\ ~escaped]
       ELSE UNCHANGED <<pending, open, clean, alive>>
  /\ UNCHANGED <<shellVars, anchor, healthy, coordVars, pc, round, todo, committed,
                 events, ledger>>

\* The process exits, by itself or killed: its stage fails.  Only the specialist
\* rounds settle the stage's measurement.
ShadowExit(o) ==
  /\ \/ alive[o] \/ engine[o] # 0
  /\ alive' = [alive EXCEPT ![o] = FALSE] /\ engine' = [engine EXCEPT ![o] = 0]
  /\ IF slot # 0 /\ o \in pending[slot]
     THEN /\ pending' = [pending EXCEPT ![slot] = @ \ {o}]
          /\ clean' = [clean EXCEPT ![slot] = FALSE]
          /\ open' = IF round[slot] = 1 THEN open
                     ELSE [open EXCEPT ![slot] = @ \ {o}]
     ELSE UNCHANGED <<pending, clean, open>>
  /\ UNCHANGED <<shellVars, anchor, healthy, coordVars, pc, round, todo, committed,
                 events, ledger>>

----------------------------------------------------------------------------
(* The worker.                                                              *)

Goto(g, p) == pc' = [pc EXCEPT ![g] = p]

still == <<shellVars, anchor, healthy, closed, engine, alive>>

\* _execute: a cancelled run goes straight to its evidence, another opens the router.
Execute(g) ==
  /\ pc[g] = "execute"
  /\ IF Cancelled(g)
     THEN Goto(g, "anchor") /\ UNCHANGED <<events, ledger>>
     ELSE Goto(g, "qualify") /\ Set(g, {"opened"}) /\ ledger' = g
  /\ UNCHANGED <<still, slot, finalizing, stageVars, open>>

\* The oracle fails, the position is terminal, nobody is available; or round one.
Qualify(g) ==
  /\ pc[g] = "qualify"
  /\ \/ Goto(g, "anchor") /\ UNCHANGED stageVars
     \/ /\ ~Cancelled(g) /\ \E o \in Owners : alive[o]
        /\ Goto(g, "dispatch")
        /\ round' = [round EXCEPT ![g] = 1]
        /\ todo' = [todo EXCEPT ![g] = {o \in Owners : alive[o]}]
        /\ clean' = [clean EXCEPT ![g] = \A o \in Owners : alive[o]]
        /\ UNCHANGED <<committed, pending>>
  /\ UNCHANGED <<still, slot, finalizing, open, events, ledger>>

\* Budget, stream, options or an early check withhold a stage; a specialist round ends
\* at the first one withheld.
Withhold(g, o) ==
  /\ pc[g] = "dispatch" /\ o \in todo[g] /\ committed[g] = {}
  /\ todo' = [todo EXCEPT ![g] = IF round[g] = 1 THEN @ \ {o} ELSE {}]
  /\ clean' = [clean EXCEPT ![g] = FALSE]
  /\ UNCHANGED <<still, slot, finalizing, pc, round, committed, pending, open,
                 events, ledger>>

\* Under the lock the stage is recorded; its measurement begins.
Commit(g, o) ==
  /\ pc[g] = "dispatch" /\ o \in todo[g] /\ committed[g] = {}
  /\ ~Cancelled(g) /\ ~Is(g, "complete") /\ ~closed
  /\ committed' = [committed EXCEPT ![g] = {o}]
  /\ todo' = [todo EXCEPT ![g] = @ \ {o}]
  /\ open' = [open EXCEPT ![g] = @ \cup {o}]
  /\ UNCHANGED <<still, slot, finalizing, pc, round, pending, clean, events,
                 ledger>>

\* The final permit, evaluated with the dispatch gate held around the pipe write.
Permitted(g, o) ==
  /\ ~closed /\ ~Cancelled(g) /\ ~Is(g, "complete") /\ ~Finished(g)
  /\ alive[o] /\ engine[o] = 0 /\ anchor = g

\* The write, or a dispatch that is refused or fails, or a process that dies under the
\* write: the broken pipe raises, and leaves the measurement as it is.
Write(g, o) ==
  /\ pc[g] = "dispatch" /\ o \in committed[g]
  /\ committed' = [committed EXCEPT ![g] = {}]
  /\ \/ /\ Permitted(g, o)
        /\ engine' = [engine EXCEPT ![o] = g]
        /\ pending' = [pending EXCEPT ![g] = @ \cup {o}]
        /\ UNCHANGED <<todo, clean, open, alive, pc, events>>
     \/ /\ ~Permitted(g, o)
        /\ open' = [open EXCEPT ![g] = @ \ {o}]
        /\ clean' = [clean EXCEPT ![g] = FALSE]
        /\ todo' = [todo EXCEPT ![g] = IF round[g] = 1 THEN @ ELSE {}]
        /\ UNCHANGED <<engine, pending, alive, pc, events>>
     \/ /\ Permitted(g, o)
        /\ alive' = [alive EXCEPT ![o] = FALSE]
        /\ pending' = IF round[g] = 1 THEN pending ELSE [pending EXCEPT ![g] = @ \cup {o}]
        /\ Goto(g, "drain") /\ Set(g, {"cancelled"})
        /\ UNCHANGED <<todo, clean, open, engine>>
  /\ UNCHANGED <<shellVars, anchor, healthy, coordVars, round, ledger>>

Await(g) ==
  /\ pc[g] = "dispatch" /\ todo[g] = {} /\ committed[g] = {}
  /\ Goto(g, "await")
  /\ UNCHANGED <<still, slot, finalizing, stageVars, open, events, ledger>>

\* Every stage is done: the next round if all completed and the window is open.
RoundOver(g) ==
  /\ pc[g] = "await" /\ pending[g] = {}
  /\ \/ Goto(g, "anchor") /\ UNCHANGED stageVars
     \/ /\ round[g] < MaxRound /\ clean[g] /\ \A o \in Owners : alive[o]
        /\ ~Cancelled(g) /\ ~closed /\ ~Is(g, "complete")
        /\ Goto(g, "dispatch")
        /\ round' = [round EXCEPT ![g] = @ + 1]
        /\ todo' = [todo EXCEPT ![g] = Owners]
        /\ UNCHANGED <<committed, pending, clean>>
  /\ UNCHANGED <<still, slot, finalizing, open, events, ledger>>

\* A stage overruns its budget (_cut_loose_overrunning, _await_verification).
CutLoose(g) ==
  /\ pc[g] = "await" /\ pending[g] # {}
  /\ Goto(g, "drain")
  /\ IF round[g] = 1 THEN Set(g, {"cancelled"}) ELSE UNCHANGED events
  /\ UNCHANGED <<still, slot, finalizing, stageVars, open, ledger>>

\* Any exception of the orchestration cancels the run and drains what was dispatched.
Raise(g) ==
  /\ pc[g] \in {"qualify", "dispatch", "await"} /\ committed[g] = {}
  /\ Goto(g, "drain") /\ Set(g, {"cancelled"})
  /\ UNCHANGED <<still, slot, finalizing, stageVars, open, ledger>>

DrainedAvailable(g) ==   \* mutant: an engine that did not drain stays available
  /\ pc[g] = "drain"
  /\ Goto(g, "anchor")
  /\ pending' = [pending EXCEPT ![g] = {}]
  /\ UNCHANGED <<shellVars, anchor, healthy, coordVars, alive, engine, round, todo,
                 committed, clean, open, events, ledger>>

\* Whoever answered is done; whoever did not is excluded.
Drained(g) ==
  /\ pc[g] = "drain"
  /\ Goto(g, "anchor")
  /\ alive' = [o \in Owners |-> alive[o] /\ o \notin pending[g]]
  /\ pending' = [pending EXCEPT ![g] = {}]
  /\ open' = IF round[g] = 1 THEN open ELSE [open EXCEPT ![g] = @ \ pending[g]]
  /\ UNCHANGED <<shellVars, anchor, healthy, coordVars, engine, round, todo, committed,
                 clean, events, ledger>>

AnchorWaitPatient(g) ==   \* mutant: neither close nor failure ends the wait
  /\ pc[g] = "anchor" /\ Is(g, "complete")
  /\ Goto(g, "resource")
  /\ UNCHANGED <<still, slot, finalizing, stageVars, open, events, ledger>>

\* Waiting for the anchor ends with its completion, or with the controller.
AnchorWait(g) ==
  /\ pc[g] = "anchor"
  /\ \/ Is(g, "complete") \/ closed \/ ~healthy
  /\ Goto(g, "resource")
  /\ UNCHANGED <<still, slot, finalizing, stageVars, open, events, ledger>>

\* The anchor's terminal resource sample, or nobody left to take it.
ResourceWait(g) ==
  /\ pc[g] = "resource"
  /\ Is(g, "complete") => Is(g, "sampled") \/ ~healthy \/ (closed /\ ~Outcome(g))
  /\ Goto(g, "publication")
  /\ UNCHANGED <<still, slot, finalizing, stageVars, open, events, ledger>>

PublicationFreezes(g) ==  \* mutant: the interval is frozen before the router is closed
  /\ pc[g] = "publication" /\ Is(g, "published")
  /\ Goto(g, "route") /\ Set(g, {"frozen"})
  /\ UNCHANGED <<still, slot, finalizing, stageVars, open, ledger>>

PublicationWait(g) ==
  /\ pc[g] = "publication"
  /\ Is(g, "complete") => Is(g, "published") \/ ~healthy \/ (closed /\ ~Outcome(g))
  /\ Goto(g, "route")
  /\ UNCHANGED <<still, slot, finalizing, stageVars, open, events, ledger>>

\* The router closes the run; sealing the resource report abandons open stages.
RouterEnd(g) ==
  /\ pc[g] = "route"
  /\ Goto(g, "freeze") /\ Set(g, {"opened"})
  /\ ledger' = IF Is(g, "opened") THEN ledger ELSE g
  /\ \/ open' = [open EXCEPT ![g] = {}]
     \/ UNCHANGED open                        \* it raised before the seal
  /\ UNCHANGED <<still, slot, finalizing, stageVars>>

\* freeze_interval, which refuses while a stage is being measured.
Freeze(g) ==
  /\ pc[g] = "freeze"
  /\ IF Is(g, "complete") /\ open[g] = {}
     THEN Set(g, {"frozen"}) /\ Goto(g, "quiet")
     ELSE UNCHANGED events /\ Goto(g, "observe")
  /\ UNCHANGED <<still, slot, finalizing, stageVars, open, ledger>>

Quiet(g) ==
  /\ pc[g] = "quiet"
  /\ Set(g, {"quiesced"}) /\ Goto(g, "handoff")
  /\ UNCHANGED <<still, slot, finalizing, stageVars, open, ledger>>

HandOff(g) ==
  /\ pc[g] = "handoff"
  /\ Release(g) /\ Goto(g, "observe")
  /\ UNCHANGED <<still, stageVars, open, events, ledger>>

\* Late telemetry must be in before the streams and the manifests close.
ObserveWait(g) ==
  /\ pc[g] = "observe"
  /\ \/ Is(g, "observed") \/ ~healthy \/ (closed /\ ~Outcome(g))
  /\ Goto(g, "seal")
  /\ UNCHANGED <<still, slot, finalizing, stageVars, open, events, ledger>>

\* Manifests, then the orchestration evidence: the files are not modelled.
Seal(g) ==
  /\ pc[g] = "seal"
  /\ Goto(g, "clear")
  /\ UNCHANGED <<still, slot, finalizing, stageVars, open, events, ledger>>

\* The finally clause: out of the slot, out of the registry, finished.
Clear(g) ==
  /\ pc[g] = "clear"
  /\ slot' = IF slot = g THEN 0 ELSE slot
  /\ finalizing' = finalizing \ {g}
  /\ Set(g, {"finished"}) /\ Goto(g, "done")
  /\ UNCHANGED <<still, stageVars, open, ledger>>

Worker(g) ==
  \/ Execute(g) \/ Qualify(g) \/ Await(g) \/ RoundOver(g) \/ CutLoose(g) \/ Raise(g)
  \/ Drained(g) \/ AnchorWait(g) \/ ResourceWait(g) \/ PublicationWait(g)
  \/ RouterEnd(g) \/ Freeze(g) \/ Quiet(g) \/ HandOff(g) \/ ObserveWait(g) \/ Seal(g)
  \/ Clear(g)
  \/ \E o \in Owners : Withhold(g, o) \/ Commit(g, o) \/ Write(g, o)

----------------------------------------------------------------------------
Reader(g) == AnchorComplete(g) \/ Publish(g) \/ Emitted(g) \/ Ready(g)

Next ==
  \/ Main \/ Unhealthy \/ RuntimeFailed
  \/ \E g \in Gens : \/ Worker(g) \/ Reader(g) \/ ObservationEnd(g)
                     \/ SoftExpiry(g) \/ HardExpiry(g) \/ Cancel(g)
  \/ \E o \in Owners : StageDone(o) \/ ShadowExit(o)

Spec == Init /\ [][Next]_vars

\* Threads that are running keep running; waits on engines are bounded by timeouts, so
\* the engines and the anchor need no fairness of their own.
BarrierSteps == \/ BarrierSample \/ BarrierDone \/ BarrierTimeout \/ Send \/ Install
                \/ StartAnchor \/ Close \/ Detach

Fairness ==
  /\ WF_vars(BarrierSteps)
  /\ \A g \in Gens : /\ WF_vars(Worker(g)) /\ WF_vars(Emitted(g)) /\ WF_vars(Ready(g))
                     /\ WF_vars(HardExpiry(g)) /\ WF_vars(ObservationEnd(g))
                     /\ WF_vars(ForceLoss(g))
  /\ WF_vars(shell = "failed" /\ Unhealthy) /\ WF_vars(RuntimeFailed)

FairSpec == Spec /\ Fairness

----------------------------------------------------------------------------
WorkerAt == {"none", "new", "execute", "qualify", "dispatch", "await", "drain", "anchor",
             "resource", "publication", "route", "freeze", "quiet", "handoff", "observe",
             "seal", "clear", "done"}

\* Every variable keeps its type.
TypeOK ==
  /\ shell \in {"ready", "searching", "failed", "shutdown"} /\ gen \in 0..MaxGen
  /\ main \in {"idle", "barrier", "drain", "install", "start", "send", "close",
               "detach", "over"}
  /\ then \in {"idle", "install", "send", "detach"} /\ sampled \in 0..MaxGen
  /\ anchor \in 0..MaxGen /\ healthy \in BOOLEAN /\ closed \in BOOLEAN
  /\ slot \in 0..MaxGen /\ finalizing \in SUBSET Gens
  /\ pc \in [Gens -> WorkerAt] /\ round \in [Gens -> 0..MaxRound]
  /\ todo \in [Gens -> SUBSET Owners] /\ committed \in [Gens -> SUBSET Owners]
  /\ pending \in [Gens -> SUBSET Owners] /\ clean \in [Gens -> BOOLEAN]
  /\ open \in [Gens -> SUBSET (Owners \cup {Anchor})]
  /\ events \in [Gens -> SUBSET EventNames]
  /\ engine \in [Owners -> 0..MaxGen] /\ alive \in [Owners -> BOOLEAN]
  /\ ledger \in 0..MaxGen

\* A run whose worker still has something to write is in the slot or among the
\* finalizing ones, where late events and close() look for it: no go orphans it.
NoRunIsLost ==
  \A g \in Gens : Installed(g) /\ pc[g] # "done" =>
                    slot = g \/ g \in finalizing

\* An engine that counts as available and is searching belongs to the run in the slot,
\* whose worker is still waiting for exactly that stage; position, setoption and
\* ucinewgame never reach it.
EnginesAreSupervised ==
  \A o \in Owners : alive[o] /\ engine[o] # 0 =>
    /\ slot = engine[o] /\ o \in pending[slot]
    /\ pc[slot] \in {"dispatch", "await", "drain"}
    /\ main # "send"

\* Once its measurement is frozen, a run starts no search, opens or closes no measured
\* stage and does not touch the router: the next generation may have them.
FrozenIsQuiet ==
  [][\A g \in Gens : Installed(g) /\ Is(g, "frozen") =>
       /\ open'[g] = open[g]
       /\ \A o \in Owners : engine'[o] = g => engine[o] = g
       /\ ledger' = g => ledger = g]_vars

\* Every run that got a worker is finished, whatever the engines and the anchor do.
EveryRunFinishes == \A g \in Gens : pc[g] = "execute" ~> pc[g] = "done"

\* The worker is past the freeze with a stage still measured: the router raised before
\* it sealed the resource report.
NeverSealed(g) == pc[g] \in {"observe", "seal", "clear", "done"} /\ open[g] # {}

\* A published generation lets the shell go on, even when a stage of it crashed or was
\* cut loose unmeasured; only a router that raised before sealing can prevent it.
ReadyAgain ==
  \A g \in Gens : Is(g, "emitted") /\ gen = g ~> shell # "searching" \/ NeverSealed(g)
=============================================================================
