----------------------------- MODULE RunEvidence -----------------------------
(***************************************************************************)
(* The evidence of one run, from the moment its directory is prepared to   *)
(* its manifest: PreparedRun makes the anchor's stream, DeferredObserver   *)
(* carries the anchor's lines off its stdout reader, TelemetryStream       *)
(* writes them, the run's worker (controller/shadow.py, _run_worker) waits *)
(* for the observation and seals the stream (controller/replay.py,         *)
(* finalize), while the runtime may fail and the coordinator close.        *)
(*                                                                         *)
(* A behaviour follows one stream of the run: the anchor's, or, if it is   *)
(* tracked, that of a worker engine, whose reader submits its lines itself *)
(* and about which a router decides at checkpoints.                        *)
(***************************************************************************)
EXTENDS DeferredObserver, Functions

CONSTANTS StreamCapacity, ViewLimit, MaxPrimes, Sentinel, None

VARIABLES
    \* PreparedRun
    folders, files, writers, prep, primes, slot, claimed, helper, outcome,
    spilled, abandoned, setup, shut,
    \* TelemetryStream
    pipe, sending, full, offered, pending, lossy, closed,
    stopping, givenUp, handle, tracked, file, view, truncated, adapter,
    writer, item, closer, reading, due, seen, verdict,
    \* this module
    spoken,    \* lines a worker engine's reader has taken up
    answer,    \* "none", "published", or "void": on_complete with the runtime failed
    healthy,   \* runtime.healthy
    noted,     \* anchor_observation_done
    run,       \* the run's worker: its next step
    ending,    \* the thread in the coordinator's close()
    manifest   \* the stream's part of the manifest, or None

Opening == -1

Prep   == INSTANCE PreparedRun
Stream == INSTANCE TelemetryStream WITH
              Start <- Opening, Last <- Terminal, Line <- Info, abandoned <- givenUp

\* The markers are no lines; a telemetry line is never mistaken for one.
ASSUME StreamAssumption ==
    /\ Sentinel \notin Stream!Item /\ None \notin Stream!Item /\ Sentinel # None
    /\ StreamCapacity \in Nat /\ ViewLimit \in Nat /\ MaxPrimes \in Nat

prepared == <<folders, files, writers, prep, primes, slot, claimed, helper, outcome,
              spilled, abandoned, setup, shut>>
stream   == <<pipe, sending, full, offered, pending, lossy, closed,
              stopping, givenUp, handle, tracked, file, view, truncated, adapter,
              writer, item, closer, reading, due, seen, verdict>>
running  == <<run, noted, manifest>>
others   == <<spoken, answer, healthy, ending>>
evidence == <<vars, prepared, stream, running, others>>

\* A worker engine's stream belongs to a run that is under way.
EvidenceInit ==
    /\ Init /\ Stream!StreamInit
    /\ spoken = 0 /\ answer = "none" /\ healthy = TRUE /\ noted = FALSE
    /\ run = "none" /\ ending = "open" /\ manifest = None
    /\ folders = {} /\ files = {} /\ writers = {} /\ prep = "none" /\ primes = 0
    /\ slot = FALSE /\ claimed = FALSE /\ spilled = FALSE /\ abandoned = {} /\ shut = FALSE
    /\ helper = [s \in Prep!Steps |-> "off"] /\ outcome = [s \in Prep!Steps |-> "none"]
    /\ setup = IF tracked THEN "begin" ELSE "idle"

-----------------------------------------------------------------------------
(* Preparing the run *)

Setup ==
    /\ ~tracked /\ Prep!Prepare
    /\ UNCHANGED <<vars, stream, running, others>>

\* begin_stage, then the rest of prepare_run or of the stage's dispatch.  What a
\* thread of the preparation still has to do touches nothing of the run's, so
\* that thread is taken to have ended by then.
BeginStage ==
    /\ setup = "begin" /\ offered = {} /\ Stream!Offer(Opening)
    /\ UNCHANGED <<vars, prepared, running, others>>

Started ==
    /\ sending = Opening /\ Stream!Put /\ Prep!Quiet
    /\ Prep!Begun /\ run' = "wait"
    /\ UNCHANGED <<vars, noted, manifest, others>>

-----------------------------------------------------------------------------
(* The anchor's reader: runtime.py, start_anchor_search *)

\* Once the run is finished nothing these threads do reaches it.
Alive == ~tracked /\ setup = "made" /\ run # "finished"

\* info_cb.
InfoLine ==
    /\ Alive /\ answer = "none" /\ SubmitInfo
    /\ UNCHANGED <<prepared, stream, running, others>>

\* complete_cb: the answer goes out first ...
Answer ==
    /\ Alive /\ answer = "none" /\ producer = "open"
    /\ answer' = IF healthy THEN "published" ELSE "void"
    /\ UNCHANGED <<vars, prepared, stream, running, spoken, healthy, ending>>

\* ... and is observed then.
Bestmove ==
    /\ Alive /\ answer # "none" /\ SubmitBestmove
    /\ UNCHANGED <<prepared, stream, running, others>>

Submitting ==
    /\ Alive /\ (Put \/ SetTerminal \/ PublishTerminal)
    /\ UNCHANGED <<prepared, stream, running, others>>

\* _notify_failure; the failure path and runtime.close abort the observer then.
Fail ==
    /\ Alive /\ healthy /\ healthy' = FALSE
    /\ UNCHANGED <<vars, prepared, stream, running, spoken, answer, ending>>

AbortObserver ==
    /\ Alive /\ ~healthy /\ Abort
    /\ UNCHANGED <<prepared, stream, running, others>>

-----------------------------------------------------------------------------
(* The observer's worker, whose callbacks are the coordinator's *)

Polling ==
    /\ Alive /\ (Check \/ Get \/ Empty \/ End)
    /\ UNCHANGED <<prepared, stream, running, others>>

Observing == Alive /\ worker \in {"observe", "final"}
Observed  == (Observe \/ Final) /\ lost' = lost

\* There is an observer still, and submit finds the stream open.
Heard == ending # "over" /\ ~closed

Take ==
    /\ Observing /\ Heard /\ Stream!Offer(IF worker = "final" THEN Terminal ELSE hand)
    /\ UNCHANGED <<vars, prepared, running, others>>

Full ==
    /\ setup = "made" /\ run # "finished" /\ Stream!Overflow
    /\ UNCHANGED <<vars, prepared, running, others>>

Taken ==
    /\ Observing /\ (Stream!Put \/ Stream!Drop) /\ Observed
    /\ UNCHANGED <<prepared, running, others>>

\* No observer or a closed stream: the line goes nowhere.
Unheard ==
    /\ Observing /\ sending = None /\ ~Heard /\ Observed
    /\ UNCHANGED <<prepared, stream, running, others>>

Missed ==
    /\ Observing /\ sending = None /\ (Observe \/ Final) /\ lost' = lost + 1
    /\ UNCHANGED <<prepared, stream, running, others>>

\* note_clock_observation_end.
ReportEnd ==
    /\ Alive /\ Finish
    /\ noted' = TRUE
    /\ IF lost > 0 THEN Stream!NoteLoss ELSE UNCHANGED stream
    /\ UNCHANGED <<prepared, run, manifest, others>>

Watching == Polling \/ Take \/ (Full /\ Alive) \/ Taken \/ Unheard \/ Missed \/ ReportEnd

-----------------------------------------------------------------------------
(* A worker engine's reader, and the router's checkpoints *)

Reading == tracked /\ setup = "made" /\ run # "finished"

Hear ==
    /\ Reading /\ Heard /\ spoken <= MaxInfo /\ ~(Terminal \in offered)
    /\ \/ Stream!Offer(Terminal) /\ UNCHANGED spoken
       \/ spoken < MaxInfo /\ Stream!Offer(spoken + 1) /\ spoken' = spoken + 1
    /\ UNCHANGED <<vars, prepared, running, answer, healthy, ending>>

Handed ==
    /\ Reading /\ (Stream!Put \/ Stream!Drop)
    /\ UNCHANGED <<vars, prepared, running, others>>

Decide ==
    /\ Reading /\ run = "wait" /\ Stream!Checkpoint
    /\ UNCHANGED <<vars, prepared, running, others>>

\* Bound: a stream that is on record as lossy meets no further exception.
WriteOn ==
    /\ Stream!Writer /\ (lossy => writer' # "record")
    /\ UNCHANGED <<vars, prepared, running, others>>

-----------------------------------------------------------------------------
(* The run's worker *)

published == answer = "published"

WaitForReportOnly ==               \* mutant: only the observer's report ends the wait
    /\ run = "wait" /\ run' = "seal" /\ reading = "backlog" /\ (tracked \/ noted)
    /\ UNCHANGED <<vars, prepared, stream, noted, manifest, others>>

\* The anchor has completed, or cannot any more, and no checkpoint is under way;
\* then the wait for the deferred observation, with the polls that give it up.
Wait ==
    /\ run = "wait" /\ run' = "seal" /\ reading = "backlog"
    /\ tracked \/ noted \/ ~healthy \/ (shut /\ ~published)
    /\ UNCHANGED <<vars, prepared, stream, noted, manifest, others>>

\* finalize closes the stream ...
SealStream ==
    /\ run = "seal"
    /\ Stream!Close \/ Stream!CloseSteps
    /\ UNCHANGED <<vars, prepared, running, others>>

\* ... and describes it: the run is over, and its entry gone.
Describe ==
    /\ run = "seal" /\ closer = "closed" /\ run' = "finished"
    /\ manifest' = [whole |-> Stream!Whole, file |-> file, noted |-> noted]
    /\ UNCHANGED <<vars, prepared, stream, noted, others>>

Sealing == Wait \/ SealStream \/ Describe

-----------------------------------------------------------------------------
(* The coordinator's close, then the runtime's *)

CloseCoordinator ==
    /\ ~tracked /\ Prep!Shutdown
    /\ ending' = "wait"
    /\ UNCHANGED <<vars, stream, running, spoken, answer, healthy>>

\* The wait has run out on a run whose engines are quiet: the rest of the
\* observation is recorded as lost.
ForceLoss ==
    /\ ending = "wait" /\ ending' = "forced"
    /\ run \in {"wait", "seal"} /\ ~noted
    /\ noted' = TRUE /\ Stream!NoteLoss
    /\ UNCHANGED <<vars, prepared, run, manifest, spoken, answer, healthy>>

\* The waits are over: the observer is taken off, and the runtime closes.
CloseRuntime ==
    /\ ending \in {"wait", "forced"} /\ run # "finished" /\ ending' = "over" /\ healthy' = FALSE
    /\ UNCHANGED <<vars, prepared, stream, running, spoken, answer>>

Closing == CloseCoordinator \/ ForceLoss \/ CloseRuntime

EvidenceNext ==
    \/ Setup \/ BeginStage \/ Started
    \/ InfoLine \/ Answer \/ Bestmove \/ Submitting \/ Fail \/ AbortObserver
    \/ Watching \/ (Full /\ Reading) \/ Hear \/ Handed \/ Decide \/ WriteOn
    \/ Sealing \/ Closing

EvidenceSpec == EvidenceInit /\ [][EvidenceNext]_evidence

\* Threads run: a reader that has begun a submission, the observer's worker and
\* the run's worker, whose joins time out.  Engines, helpers, the writer and
\* the failures promise nothing.
EvidenceFair ==
    /\ EvidenceSpec
    /\ WF_evidence(Started)
    /\ WF_evidence(Bestmove \/ Submitting)
    /\ WF_evidence(Watching) /\ WF_evidence(Sealing)

-----------------------------------------------------------------------------
(* Properties *)

\* What a run is made of is made by one thread and released by one.
UsedOrReleased == ~tracked => Prep!UsedOrReleased

\* A stream the manifest calls whole holds every line the engine printed, in
\* order, from the search's start to its bestmove, and is not written any more.
\* Two cases are excepted: a line that reached the observer's queue while its
\* worker went from the empty queue to the bestmove, and a loss the observer had
\* counted but not reported when a failed runtime made the run give up waiting.
WholeIsWhole ==
    manifest # None =>
        /\ manifest.file = file
        /\ manifest.whole =>
             /\ file[1] = Opening /\ file[Len(file)] = Terminal
             /\ \A i, j \in 2 .. Len(file) - 1 : i < j => file[i] < file[j]
             /\ \A k \in 1 .. sent + spoken :
                    \/ k \in Range(file) \/ k \in Range(queue)
                    \/ ~manifest.noted /\ lost > 0

\* A checkpoint of a router trusts complete evidence only.
TrustedIsComplete == Stream!TrustedIsComplete

\* The manifest is written in the end: when the anchor has answered, the runtime
\* has failed or the coordinator closes, nothing keeps the run's worker.  None of
\* these is undone, so that this leads-to is an "eventually always".
RunIsSealed ==
    <>[]((answer = "none" /\ healthy /\ ~shut) \/ run \in {"none", "finished"})
=============================================================================
