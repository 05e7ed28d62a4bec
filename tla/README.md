# AllfatherChess: a TLA+ verification project

AllfatherChess is a UCI chess controller. One engine, the *anchor*, has move
authority; other engines (*shadow owners*) search shares of the root moves for
evidence, under a CPU budget. In ONLINE mode every `go` has a deadline object,
and a Lichess bridge may play the moves on a server. The chess is in the
engines; what this repository adds is a controller with many threads and a
journal that must survive a crash. That is what is modelled here.

Paths below are relative to `src/`.

## 1. The system

### Parts that are modelled

| Part | State | Operations | What makes it hard | What makes it correct |
|---|---|---|---|---|
| ONLINE UCI shell, `controller/uci_frontend.py` | shell state, active generation, whether an answer is out | `go`, `stop`, `quit`, `isready`, state-changing commands, anchor completion, runtime failure | five kinds of thread may write the one answer of a `go` | one terminal line per `go`; a failed shell stays failed; every `go` is answered |
| Generation clock, `controller/online_time.py` | work/authority flags, committed, finished, two locks, a watchdog | `try_publish`, `seal_work`, `block_authority`, `fail`, `finish` | the authority gate is held across a write that takes other locks | a revoked authority publishes nothing; the hard deadline is honoured |
| Deferred observation, `adapters/process/deferred_observer.py` | bounded queue, terminal slot, loss count | submit, publish terminal, abort, worker loop | the queue's emptiness and the terminal flag are read at different moments | order kept; every line observed, queued or counted as lost |
| Run evidence, `controller/replay.py` (`TelemetryStreamWriter`, `finalize`), `controller/shadow.py` (`prime_run_directory`, `prepare_run`, the worker's end) | prepared slots, helper threads and what they published, per stream: queue, counts, losses, file; the manifest | prime, claim, fall back, give up, submit, write, close, checkpoint, seal | threads that were given up finish late; a loss is counted by one thread and reported by another | a result is used or released; a stream called whole is whole; a checkpoint trusts complete evidence only |
| Prefix shard ledger, `controller/prefix_shards.py` | shards by prefix: owner, state, children, revision | assign, activate, seal, split, transfer, two-lock look-up | a leaf is looked up, an oracle is asked, the leaf is split later | the frontier is prefix free and covers everything; leases move one way |
| Shadow run coordinator, `controller/shadow.py` | slot `_run`, `_finalizing`, per run: stages, events, open resource stages | prepare, quiesce barrier, dispatch rounds, completion, publication, freeze, hand-off, sealing, close | a run gives up the engines before its files are written, and the next run uses the same router | no run is lost; engines are never unsupervised; each run ends; evidence is of its own run |
| CPU budget and work grants, `controller/budget.py`, `controller/routing.py`, `controller/shadow.py`, `controller/orchestration_integrity.py` | reservations at coordinator, router and ledger; the journal | reserve, settle, release, charge, bundle, rollback, close, claim, replay | three registries and two threads, one lock that both take | no overcommitment by reservation; all-or-none bundles; the journal replays |
| UCI engine process, `adapters/process/uci_process.py` | command gate, search subscription, response waiters, reader | dispatch, stop, perft, kill, close, exit | both pipes may be full, every wait may time out, and a stop or a late line may belong to the search before | searches one by one; a stop, an answer and a rejection concern their own search; every search is told its end |
| REFINE phase, `controller/shadow.py`, `controller/refinement.py`, `controller/runtime.py` | scopes, stages, prefix ledger, engine positions, oracle | open a scope, ask, split, take engines there, dispatch, restore, nominate, expand, cancel | engines are taken away from the root position and must be back before anybody else uses them | engines search where they stand; a completed scope is whole; the ledger refuses nothing |
| Move journal and guarded transport, `deploy/lichess/move_journal.py`, `reconcile.py`, `guarded_transport.py`, `session_owner.py`, `recovery_overlay.py`, `run_recovery_v2.py` | games, intents, cooldown, owner epoch in SQLite; the bridge; the wire | observe, prepare, submit, settle, restart | a crash at any point; requests lost, late, or answered wrongly, and without a ply | no position submitted twice; no move at a wrong position; no honest history refused |
| Live gateway, its ledger, the supervisor, `deploy/lichess/live_gateway.py`, `live_gateway_state.py`, `deploy/live_canary/supervisor.py` | the gateway's row and posts, the supervisor's lease, stop marker, terminal witness | admit a move, relay the stream, cool down, suspend, fence the end, stop, restart | three processes with a file each, any of which dies between two steps | what the bridge sees through the gateway is a network the journal was made for; the end is on disk before anybody is told |

### How they interact

The command loop calls the clock, the coordinator and the backend manager. The
anchor's stdout reader calls back into the coordinator (completion), the clock
(publication) and the shell (readiness); info lines go to the deferred
observer, whose worker reports to the coordinator. Each run has a worker
thread which drives the shadow engines, is admitted by the router's budget
ledger, owns prefix shards, and freezes the measured interval; the shell is
ready again when it has. Each shadow engine has a reader thread that settles
grants and passes lines to the stream of its run. Each engine is a child
process behind a command gate that the worker, the stop writers and the oracle
share. The directory and the anchor's stream of a run are prepared by a thread
before its `go`, and its manifest is written by the worker long after. The bridge
is another process: it talks UCI to the shell, and shares only its journal with
its own successors. In the live profile it reaches Lichess through the gateway, a
third process, and a supervisor owns both.

### Parts that are not modelled

`PROJECT.json` lists each with its reason. In short: the offline shell (no
concurrent deadline), engine start-up and option writes, what the router decides
(numeric functions of telemetry), which candidates VERIFY and REFINE choose,
adapters and parsers, profiles and time planning (constants during a search), the
resource and host layer (Linux calls), the analysis of written evidence (hashes
and figures), the root ledger (the prefix ledger's flat special case), the
strength experiment, the staging of the canary, tools and tests, and the vendored
engines, which are the environment of every model: they answer, hang or die at
will. These parts are by far the larger share of the lines: most of
`orchestration_integrity.py`, `routing.py`, `decision.py`, `crossfeed.py` and
`resource_allocator.py` validates records and computes figures in one thread.

## 2. The modules

| Module | Stands for | Notes |
|---|---|---|
| `UciAnswer` | what the shell promises a GUI | abstract: requests opened and numbered 1, 2, ..., one answer each, or refused while none is open; the null move that answers an opened one is the last line |
| `ClockShell` | shell + clock + anchor health | a thread is `<<kind, generation>>`, `pc[t]` the next lock or write it comes to; locks are *where threads stand* (`StateLockFree`, `GateFree`), not variables |
| `MCClockShell` | TLC instance of it | |
| `ClockShellProofs` | its theorems | |
| `DeferredObserver` | one producer, one worker, abort | a line is its number |
| `PreparedRun` | prepared slot, claim, bounded fallback, late results | a directory is "slot" or "run"; a helper thread has one step for its work and one for what it publishes |
| `TelemetryStream` | one stream: queue, writer, close, checkpoint reads | an item is one event; `pending` is `_enqueued - _applied` |
| `RunEvidence`, `RunEvidenceProofs` | the three above with the runtime's failure, the coordinator's close and the worker's end | follows the anchor's stream, or (`tracked`) that of a worker engine |
| `ShardLease` | what a shard ledger promises of a region | abstract |
| `PrefixShardLedger` | the ledger and callers that look up, then split | a prefix stands for its shard id |
| `MCPrefixShardLedger` | TLC instance of it | owners and callers are symmetric |
| `LedgerProofs` | the theorems of `PrefixShardLedger` and `WorkGrants` | one module for the coordinator's two ledgers, which share no state |
| `RunHandoff`, `RunHandoffProofs` | coordinator, quiesce barrier, worker per run, readiness | one label per lock section or wait of `_run_worker`; the events of a run are one set |
| `WorkGrants` | ledger, router registry, coordinator registry, readers | `replay` is the journal folded as it is written |
| `UciProcess`, `UciProcessProofs` | one engine process and every thread that uses it | the token of a search is its generation; the pipes are bounded sequences |
| `RefineRun`, `RefineRunProofs` | worker, readers, engines, artifact and ledger of the REFINE phase, and the quiesce that may overtake it | an owner stands for its engine, a sequence of numbers for a prefix |
| `MoveRecovery`, `MoveRecoveryProofs` | one game: journal, bridge, restarts, network, honest server | every history is a prefix of one game, so a ply stands for it |
| `LiveGateway`, `LiveGatewayProofs` | gateway, ledger, supervisor around the bridge of `MoveRecovery` | every request and stream line passes through the gateway |

Composition. `ClockShell` contains the shell and the clock together, since
neither lock makes sense alone, and is shown to implement `UciAnswer`.
`PrefixShardLedger` composes the ledger with its callers and implements
`ShardLease`. `RunHandoff` composes the coordinator with what it uses of the
shell (`Sync`, `Go`, `Ready`), the clock (`SoftExpiry`, `HardExpiry`), the
router's ledger (whose ledger it is) and the engines. `WorkGrants` composes the
three registries. `MoveRecovery` composes bridge, journal, network and server; `LiveGateway` puts
gateway and supervisor into that network and is shown to implement
`MoveRecovery`: what the bridge sees through the gateway is a network its
journal was made for. `RunEvidence` extends `DeferredObserver` and composes it
with instances of `PreparedRun` and `TelemetryStream`, which share its variables.
`UciProcess` composes the process with the coordinator's dispatch and oracle,
the shell's completion and the clock's watchdog.

`PROJECT.json` maps every definition to its lines. Operators marked `mutant`
in the modules are plausible bugs: each property is checked to fail under one.

## 3. The runs

| Run | Instance | Distinct states | Properties |
|---|---|---|---|
| `clock_shell` | two generations, no stop, one measured | 2.15 M | `TouchesFrozenOnly`, `MoveForActiveGeneration`, refinement `KeepsPromise` |
| `clock_stop` | one generation, hybrid authority, user stop, fairness | 655 K | `RevokedStaysAnchor`, `AnsweredUnlessStopped`, `ReadinessReturns` |
| `clock_stop_live` | the same: **violated** | 40 K | `EveryGoAnswered` |
| `run_evidence` | one run; queues of one, one info line, one slot tried; fairness | 677 K | `UsedOrReleased`, `WholeIsWhole`, `TrustedIsComplete`, `RunIsSealed` |
| `prefix_ledger` | two moves, depth 3, two owners, two callers, both symmetric | 136 K | `Validates`, `StaleLeafIsRetired`, refinement `KeepsLease` |
| `handoff_two` | two searches, one engine, one round | 2.08 M | `NoRunIsLost`, `EnginesAreSupervised`, `FrozenIsQuiet` |
| `handoff_rounds` | one search, two engines, two rounds, fairness | 238 K | `EveryRunFinishes`, `ReadyAgain` |
| `work_grants` | two single stages, a bundle of two, overruns and charges | 67 K | `ReplayAgrees`, `WorkIsPaid`, `NothingLeftOpen`, `ClaimIsBacked` |
| `uci_process` | two generations, a search each, a perft in the first, pipes of 2 and 1, fairness | 1.24 M | `OneSearch`, `StopHitsOwn`, `Outcomes`, `NoLateGo`, `EverySearchEnds` |
| `refine_run` | one target, one expansion, two owners, two children, one death, fairness | 993 K | `EnginesInPlace`, `ScopesCloseWhole`, `LedgerAgrees`, `DispositionsStand`, `RefinementEnds` |
| `move_recovery` | seven plies, four epochs, two moves, fairness | 45.7 K | `OnePostPerPosition`, `JournalMatchesBoard`, `NothingToRefuse`, `PlayedIsConfirmed` |
| `live_gateway` | four plies, three bridges, any number of gateway restarts, fairness | 571 K | `HonestMoveAdmitted`, `FinishedIsProven`, refinement `ImplementsRecovery`, `StopDrains` |

The largest take about a minute with two workers on a fast machine. What each property says
stands before it in its module; `PROJECT.json` says in a sentence what each run
shows.

### Why the bounds are enough

* **Two generations** (`clock_shell`, `handoff_two`): every cross-generation
  race in the code is between a generation and its successor, since a `go` is
  accepted only when the one before it has been released, and a handed-off run
  holds nothing a third one would share that the second does not. A stop and
  the hybrid policy affect only their own generation, hence `MaxGen = 1` there.
  One rejected clock request (`MaxRefused`) may come before, between or after them.
* **Queues of one and one info line** (`run_evidence`): start, line and bestmove
  are three items for a stream queue of one, so it overflows, and the sentinel
  of `close` finds no room; `ViewLimit = 2` truncates the live view. The observer's
  own queue cannot overflow there, but a line its callback fails on is counted
  lost in the same way, and all three properties are proved for every capacity.
  With two info lines and a view of three they were checked once (10.1 M states,
  no error). One slot tried: it is kept, or disposed of because the go or close
  came first, or broken.
* **Two generations, pipes of 2 and 1** (`uci_process`): a stop and a go fill the
  command pipe, and every line fills the other. A third generation meets only
  what the second left, as the second meets what the first left. `MaxAsk` is the
  number of generations that also send a perft request: with both, the safety
  properties were checked once (1.67 M states, no error), and they are proved for
  any number.
* **One target and one expansion** (`refine_run`): a scope at the root's child
  and one below it, with an engine that is also the oracle. `Width` gives the
  target two children, so that both engines search at once, and the scope below it
  one. The safety properties were also checked once with two children everywhere
  (3.8 M states), without an error; they are proved for any number of targets and
  children.
* **Four plies, three bridges** (`live_gateway`): two moves of the bot, one of
  which may meet a restart of bridge or gateway, and the end of the game.
* **Depth 3**: a leaf, its child, and a grandchild, so a stale look-up can meet
  one split and two. `MaxRevision` only stops transfers from going on forever.
* **Two engines and two rounds**: one engine hangs or dies while the other
  completes, before and after a round boundary.
* **`CpuMs = 7`** with costs 2, 1, 2: all stages fit if none overruns, and
  each may be refused if one does; `MaxActual` and `MaxCharge` make that happen.
* **Seven plies, four epochs**: a move confirmed normally, one after a restart,
  one late, and the end of the game. `Side = 1` gives the same results.

### Deadlock

Deadlock is checked in `clock_shell`, where `Terminated` marks the one state in
which everything has ended. It is off elsewhere because the system may stop: a
user stop can meet the deadlock of finding 1, runs, phases, engine processes
and grants end, and a bridge out of epochs stays down. In `clock_stop` the
deadlocked states are explored, and what they violate is the business of
`clock_stop_live`.

### Fairness

* `ClockShell`: weak fairness of each thread's steps and of time. Threads are
  OS threads that nothing suspends, and a step includes its wait for a lock,
  so weak fairness says no more than "it runs when it can". Commands, the
  engine's answer, its death and the end of a measurement are not promised:
  `AnsweredUnlessStopped` holds through the hard deadline alone.
* `RunEvidence`: the threads run: a reader that has begun a submission, the
  observer's worker, the run's worker (whose joins time out), and the command
  loop where it puts the start into the stream. The engines, the helper threads,
  the stream's writer and the failures promise nothing.
* `UciProcess`: the reader runs, a signal that was sent arrives, each
  generation's clock expires and its tail watchdog runs. The engine and the
  dispatching threads promise nothing: `EverySearchEnds` holds through the
  watchdog.
* `RefineRun`: the run's worker runs; its waits time out.
* `RunHandoff`: the worker, the barrier and the readiness thread run; the hard
  deadline fires; an unhealthy runtime is reported. Engines need no fairness,
  as every wait on one has a timeout (`CutLoose`, `BarrierTimeout`).
* `MoveRecovery`: the bridge's own steps, which include the two-second request
  timeout. The network promises nothing.
* `LiveGateway`: the gateway's request handlers, whose upstream calls time out
  after 4.5 s (`StopDrains`: after the stop marker the requests under way end).

### The finding

`clock_stop_live`: **a user stop can deadlock the shell**. `_clock_stop`
takes the authority gate with the state lock held
(`controller/uci_frontend.py:790-800`); publication takes the state lock with
the gate held. Stop thread, reader and watchdog then wait forever, although the
docstring of the publication promises it does not block stop or hard expiry
(`controller/uci_frontend.py:242`).

### Observations

Races that the models contain and that no property denies, or that a property
excepts by name:

* **A drained queue may hold a line.** The observer's worker finds its queue empty, a
  line and the bestmove are submitted, and it then sees the bestmove: the line is
  neither observed nor counted lost (`adapters/process/deferred_observer.py:49`),
  while the coordinator is told the telemetry "has fully drained"
  (`controller/shadow.py:2441`) and the manifest may call the stream whole. First
  exception of `WholeIsWhole`.
* **A loss that was counted but not reported.** When the runtime fails, the run's
  worker stops waiting for the report (`controller/shadow.py:2898`), and a loss the
  observer has counted by then never reaches the stream. Second exception.
* **A line the writer is failing on** counts as applied before it is on record
  as lost (`controller/replay.py:307-313`). Exception of `TrustedIsComplete`.
* **What a raising constructor leaves.** A stream's constructor that raises after it
  has opened its file (`controller/replay.py:203-210`: no thread can be started) returns
  no stream, so nobody removes that file, and every `rmdir` of the run's directory
  fails: both stay, although two comments say they are released
  (`controller/shadow.py:617-620`, `691-693`). Exception of `UsedOrReleased`
  (`spilled`). The thread of a prepared slot removes its file by name and leaves nothing.
* **A line is stamped before it is counted**: its reader takes the time
  (`adapters/process/uci_process.py`), then may wait for the coordinator's lock, so
  a checkpoint that finds no backlog may still be older than a line's stamp. The
  model starts at the count.
* **A run may seal its successor's journal.** After the hand-off the worker reads
  `self.router.ledger.journal()` (`controller/shadow.py:2992`), and the next run
  may have replaced that ledger (`controller/routing.py:758`). `RunHandoff` says
  whose ledger the router holds (`ledger`), and lets a run be sealed when it is the
  successor's; what is then written is not part of its state.
* **A reader and the end of the run.** `WorkGrants` lets a reader take its row out
  of the router (`controller/routing.py:1241`, without the grant lock) just as
  the run is closed: either the claim is written with the settlement still in
  flight (the exception in `NothingLeftOpen` and `ClaimIsBacked`), or closing
  raises "not open". Then the router never seals the resource report and the
  shell never becomes ready again: `ReadyAgain` excepts it as `NeverSealed`.
* **The stop marker and a request that has passed it.** The supervisor's docstring
  (`deploy/live_canary/supervisor.py:193`) and the gateway's check
  (`deploy/lichess/live_gateway.py:147` to `161`) leave a window in which a move is
  still posted; `StopDrains` says that it ends.
* **A kill is asynchronous.** A bestmove already in the pipe may complete the
  search the kill was for, and the signal then takes its successor
  (`adapters/process/uci_process.py:657`, against the comment at
  `controller/runtime.py:3010`).
* **The end of the process during a dispatch** is told twice: by the exit callback
  and by the exception. A late `readyok` satisfies any waiter.
* **A broken pipe is no `UciProcessError`.** If the process dies between the look at it
  and the write (`adapters/process/uci_process.py:569`), the exception passes
  `start_shadow_search`, which catches only `UciProcessError`
  (`controller/runtime.py:3142-3154`): the dispatch tells nobody that it failed
  (`escaped` in `UciProcess`), and the run's worker ends in its cleanup. In REFINE the
  cleanup may raise itself: it names an expansion to `set_target_disposition`, which
  knows targets only (`controller/shadow.py:2696`, `controller/refinement.py:700-703`).
  The stages after it are then neither awaited nor failed, although the comment at
  `controller/shadow.py:2575-2580` promises to stop and drain them (`stranded`).
  `EnginesInPlace` and `RefinementEnds` name the case. In the runs' instance an
  expansion has one owner, so only the theorem reaches an engine that still searches.
* **A scope that is late and whole.** A stage that overruns sets its scope incomplete
  (`controller/refinement.py:685-687`, `719-721`) and asks the others to abort. If
  every reader is already past its look at the abort, all stages complete, and the
  worker, which looks only at stages and engines, sets the scope to completed after all
  (`controller/shadow.py:5559-5560`, `6021-6033`). The phase stays incomplete.
  `DispositionsStand` names the exception (`LateAndWhole`).
* **A late restoration.** The oracle's timeout (10 s) is longer than the drain
  timeout (5 s): a barrier that gave up may be followed by a restoration that
  overwrites the new position (`controller/shadow.py:2132`, against
  `controller/uci_frontend.py:561-570`).
* **A completed phase with a scope that is not.** A reader looks at the cancellation
  a last time and then records the completion (`controller/shadow.py:6312`). If it
  stands between the two while the barrier cancels and times out, the stage may be
  completed after the barrier read it as running (`controller/shadow.py:2268`): it stays
  completed, the worker completes scope and phase, and the barrier marks them incomplete
  before or in between, as their setters do not look at what is there
  (`controller/refinement.py:741`). `ScopesCloseWhole` and `DispositionsStand` except
  what was recorded of scopes and phase once the barrier `GaveUp`; stages and shards of
  a completed phase are whole nevertheless.

## 4. The proofs

TLC's results are for the instances above. These theorems are for every value of
the constants. Each rests on one inductive invariant, model-checked before it
was proved, and on the named assumptions of its module.

**`ClockShellProofs`** (assumes `BoundAssumption`, `ModeAssumption`): `TypeCorrect`,
`OneAnswer`, `NoGoAfterFailure`, `ShellKeepsPromise`. `AtMostOneAnswer` is not
inductive: it says nothing of a thread about to write. `IInv` adds what each
thread knows at its label (`Local`), what the gate guarantees its holder
(`GateInv`), and that at most one thread per generation is past the point of
deciding to answer (`Unique`). The refinement follows action by action: every
write is a `Reply`; `Go` is an `Open`, a `Refuse` (a clock request without a plan
gets a null move of its own, `controller/uci_frontend.py:732-735`, and the shell stays
ready) or nothing; all else stutters. `AnchorIsMeasured`,
`OwnMovesOnly` and `RevokedIsAnchor` rest on a second invariant, `JInv`, inductive
together with `IInv`: the reader past the seal has the active generation (`OwnInv`), a
hybrid line about to be written is not revoked since the stop needs the gate the
reader holds (`RevokeInv`), only the newest generation's measurement may be open, and
not when the shell is ready (`FrozenInv`), and when the command loop comes to the
anchor no line can come out meanwhile (`TouchInv`).

**`RunEvidenceProofs`**, in three parts. Of the *observer* (`CapacityAssumption`,
`BoundAssumption`): `NothingDisappears`, `InOrder`, `Reports`, `ReportStands`. `IInv`
says where each line can be (`Past`, `Upcoming`) and what the worker's label implies.
The proof holds although a line may be forgotten in the queue: nothing *disappears*,
but nobody reports it. Of the *stream* of one engine (stated under `Distinct`: a natural
view limit, no item the sentinel or "none"): `TrustTheorem`, `BacklogTheorem`. `SInv`
says that the backlog counts exactly what is being put, queued and in hand (`Counted`,
with the one sentinel set apart by `OneEnd`), that whatever was offered is on view, on
its way, or on record as lost or truncated (`Located`), and what each read of a
checkpoint has established (`Deciding`). Without a backlog nothing is on its way, and
since views and losses only grow, what the first read found is still true at the last.
Of the *run* that composes them with its preparation (`StreamAssumption`, which
gives `Distinct`): `PreparationKept`, `ManifestIsTrue`, `TrustInRun`, `PartsKeepTheirs`.
Every step of the run is a step of each part or leaves it alone, so `IInv` and `SInv`
hold within it. `PInv` says at each moment which thread answers for each directory, file
and writer (`SlotSide`, `HelperSide`, `RunSide`). For the manifest, `FInv` adds that file,
writer, queue and sender hold the lines in their order, all of them unless the stream is
lossy (`Ordered`, `Complete`); `Kept` that no info line is missing unless one was refused
or lost; `ByObserver` and `ByReader` that what the stream was offered is what was observed
or read. The two exceptions of `WholeIsWhole` are the places where `Kept` does not reach
the file.

**`LedgerProofs`**, in two parts. Of the *prefix ledger* (`DomainAssumption`,
`DepthAssumption`): `NeverFailsValidation`, `NoDoubleSearch`, `NothingDropped`,
`ChecksAreRedundant`, `HeldLeaf`, `TwoLocksSuffice`, `LedgerKeepsLease`. `IInv` says the
shards form a tree, a shard is retired exactly when it has children, and ownership
begins with the assignment. Prefix freedom follows since a shard with a known
descendant is retired; coverage, by following children down at most `MaxDepth`
levels. Of the *CPU ledger* (`GrantAssumption`): `GInv` follows the
worker and the registries (`PaidTheorem`, `WholeTheorem`, `ClosedTheorem`);
`LInv` follows the ledger and its journal (`ReplayTheorem`, `CommitTheorem`),
with the sums over open reservations; `TypeTheorem` and `ClaimTheorem` combine them. A
claim is made when the loop over what was left open has ended (`GInv`), and what is
committed is then within every cap by the ledger's own check (`Booked`), which nothing
but a settlement in a reader's hands can still change (`Claimed`).

**`RunHandoffProofs`** (`HandoffAssumption`): `TypeCorrect`, `RunsAreKept`,
`EnginesAreAwaited`, `FrozenStaysQuiet`. `HInv` says that a run under way is in the slot or
has been quiesced and retained (`SlotInv`), what a frozen interval has behind it
(`FrozenInv`), that an available engine searches only a stage its worker waits for
(`EngineInv`), that the barrier leads to a state change only when no worker has the
engines or none is available (`BarrierInv`), and that a generation about to be installed is new to
everybody (`FreshInv`). The last is what keeps late events of an old generation, which
are sets here, from being taken for the new one's.

**`MoveRecoveryProofs`** (`BoundAssumption`): `TypeCorrect`,
`NoSecondSubmission`, `BoardIsJournaled`, `HonestServerAccepted`. The key is
`JournalShape`: only the last position the journal has seen can be unresolved.
With `WireShape` (a request on the wire is the only one, and is for the
position on the board) a late request cannot find another position: the board
moves past a turn of the bot only by that very request. `FeedShape` orders the
stream between journal and board, from which no snapshot is ever refused.

**`LiveGatewayProofs`** (`MoveAssumption`, `SideAssumption`, `BoundAssumption`,
`AcceptAssumption`): `GatewayRefines`, `WitnessBeforeEnd`, `FinishedLeaseIsProven`,
`HonestBridgeAdmitted`, `AcceptsOnce`. `GInv` takes over the invariant of
`MoveRecoveryProofs`, instantiated with the requests and lines under way, and
adds where they are (`AcceptShape`, `PostShape`, `StreamShape`), that the line
which ends the game is held back until its witness is written (`WriterHolds`), and
what a finished lease rests on (`FinishShape`). Since every step is a step of
`MoveRecovery` or a stutter, its theorems hold of the live profile.

**`UciProcessProofs`** (`BoundAssumption`): `SearchesOneByOne`, `StopsHitTheirOwn`,
`OutcomesAreTrue`, `NothingIsWrittenLate`. `IInv` says who holds the gate (`Gates`),
what is known of a search before and while it is subscribed (`Fresh`,
`Subscribed`), what is in the two pipes (`Pipes`, `Finds`), what the reader is
about to call (`Calls`) and has told (`Told`), and when a worker may still write
(`Permitted`).

**`RefineRunProofs`** (`OwnersAssumption`, `BoundsAssumption`, `NoneAssumption`):
`TypeCorrect`, `EnginesStand`, `CompletedIsWhole`, `LedgerIsAgreed`, all from one
invariant, `RInv`, whose parts need each other, and `NothingTakenBack`. Where engines are: one that is away
from the root is in the worker's list, or the worker's call to it is under way
(`PlaceInv`, `JobInv`); an exception is cleaned up from the coordinator's record of
what is away, which by then says the same as the worker's list (`CrashInv`); what an
engine searches is a stage that runs, or one an exception stranded (`SearchInv`, by
`Served`, and `StageInv`); and the barrier passes only when no trusted engine searches (`BarrierInv`). What a
scope has reached: who waits for a dispatch has no stage yet (`TodoInv`) and leased
shards, whose completion seals them (`ShareInv`); a scope is recorded as completed only
when every share has (`DoneInv`, `CleanInv`). What comes next: nothing below a scope
exists before it is split (`TreeInv`), so a nomination stays a sealed leaf of its owner,
and the same prefix is not queued twice (`QueueInv`). Reservations belong to a stage that
runs or to the oracle's question (`TokenInv`). Most steps touch few of these, so a few
lemmas say once what such a step may change: the worker rests (`WorkerRests`), goes on
with its scope (`WorkerGoesOn`), is between two scopes (`WorkerBetween`), cleans up
(`WreckMoves`, `Mends`), a reader moves (`ReaderMoves`), a stage ends badly
(`StageEnds`), a nomination is taken (`Taken`).

`NothingTakenBack` needs a second invariant, `StandInv`: whoever is still to end a stage
does not find it completed (`Unended`), and a scope that is open and was spoilt by a
reader, an exit or the barrier has lost a stage, so the worker will not complete it;
one that ran over its deadline is on record as aborted, and the phase is spoilt before
the scope is closed (`OpenScope`).

Some theorems state what no run checks separately, because a run's property says
more: `OneAnswer` (in `KeepsPromise`), `NothingDropped` (in `Validates`),
`AcceptsOnce`, `CommitTheorem` and `WholeTheorem` (in `ReplayAgrees`, which finds every
reservation affordable), `WitnessBeforeEnd` (in `FinishedIsProven`),
`NothingDisappears`.

Only model-checked: all liveness (`AnsweredUnlessStopped`, `ReadinessReturns`,
`EveryRunFinishes`, `ReadyAgain`, `EverySearchEnds`, `RefinementEnds`,
`RunIsSealed`, `StopDrains`, `PlayedIsConfirmed`), since fairness and ENABLED are
beyond the prover. Every invariant and every action property of a run is stated by a
theorem.

## 5. What the models assume

* A step runs to the next lock or blocking call. Python's interpreter lock
  makes single reads and writes of attributes atomic; where a comment in a
  module says more (`_lost += 1`), it says why.
* The server of `MoveRecovery` is honest and the game has one bot worker. A
  rate limit and a refusal leave the board alone; an error answer may follow a
  move that was played. The old bridge is dead before a new epoch begins:
  `terminate_isolated_children` raises otherwise.
* Amounts of CPU are naturals. The code's are floats: a clamped envelope may
  fail its own constructor by a rounding error (listed as a hazard).
* `UciProcess`: position and option writes and the ungated `isready` are left out,
  as are the offline stop without a token; the runtime's and the process's
  closing flags are one step; after a broken pipe the worker is gone, and only the
  reader tells the end of the process; a thread blocked on a pipe is released when the
  process dies. Stop writers are not assumed to be joined.
* `RunHandoff`: a run's worker that raises drains in one step (`Drained`) what
  `RefineRun` drains stage by stage (`CleanUp`, `Abandon`, `Recover`).
* `RefineRun`: what one handler records of a stage, its scope and the phase is one
  step (`Report`, `ExitStage`, `FailStage`). A sealed shard may belong to a stage that
  was stopped, and `runtime.set_position` does not refuse a searching engine: both are
  as in the code, and `EnginesInPlace` is about what follows.
* `RunEvidence`: no line of a search follows its bestmove (`UciProcess`). One exception of the writer is enough: a
  stream that is on record as lossy meets no other. The run's preparation threads
  are taken to have ended when its search begins; they touch nothing of it by then.
* The history variables are `sent` (`MoveRecovery`), `excess`, `inFlight` and
  `fate` (`WorkGrants`), `skipped` (`DeferredObserver`), `written` and `ends`
  (`UciProcess`), `offered` (`TelemetryStream`).

## 6. Plan

Done first: the answer to a `go` and the move on a server, which the program is
for; then the engine process, the live gateway, the REFINE phase and the evidence.
Left, in this order:

1. **VERIFY**: the staged rounds as `RefineRun` models REFINE, with the base round of
   grants admitted one by one.
2. **Resource measurement and profile transitions**: the interval of
   `controller/resource_measurement.py` against exits, and the pending profile of
   `controller/runtime.py` against searches that are under way.
3. **The shell's offline half**, with the blocking quiesce `RefineRun` has already.
