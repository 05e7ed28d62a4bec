-------------------------- MODULE DeferredObserver --------------------------
(***************************************************************************)
(* The worker of adapters/process/deferred_observer.py, which replays the  *)
(* anchor's telemetry away from the anchor's stdout reader, with its one   *)
(* producer (the callbacks BackendManager.start_anchor_search builds) and  *)
(* the failure and close paths that abort it.                              *)
(*                                                                         *)
(* Info lines are numbered in the order the engine printed them.  The      *)
(* `_lost += 1` of either thread is one step: CPython switches threads at  *)
(* calls and backward jumps, and there is none inside it.                  *)
(***************************************************************************)
EXTENDS Integers, Sequences

CONSTANTS
    Capacity,  \* capacity of the info queue (4096 in the code)
    MaxInfo    \* bound: info lines one search prints

ASSUME CapacityAssumption == Capacity \in Nat \ {0}
ASSUME BoundAssumption    == MaxInfo \in Nat

VARIABLES
    queue,      \* _queue: info lines put and not yet taken
    terminal,   \* _terminal is set
    ready,      \* _terminal_ready
    aborted,    \* _abort
    lost,       \* _lost
    done,       \* the done event
    sent,       \* info lines the producer has submitted
    skipped,    \* of those, the lines submit returned from because of _abort
    observed,   \* lines _observe took, in order; Terminal is the bestmove
    report,     \* the loss _finished was called with, or NoReport
    producer,   \* next step of the producer
    worker,     \* next step of the worker thread
    hand        \* info line the worker holds

vars == <<queue, terminal, ready, aborted, lost, done, sent, skipped,
          observed, report, producer, worker, hand>>

Terminal == 0
NoReport == -1
Info     == 1 .. MaxInfo

TypeOK ==
    /\ queue \in Seq(Info) /\ Len(queue) <= Capacity
    /\ terminal \in BOOLEAN /\ ready \in BOOLEAN
    /\ aborted \in BOOLEAN /\ done \in BOOLEAN
    /\ lost \in Nat /\ sent \in 0 .. MaxInfo /\ skipped \in Nat
    /\ observed \in Seq(Info \cup {Terminal})
    /\ report \in Nat \cup {NoReport}
    /\ producer \in {"open", "put", "bestmove", "publish", "closed"}
    /\ worker \in {"check", "get", "observe", "empty", "final", "finish", "end", "exit"}
    /\ hand \in Info \cup {Terminal}

Init ==
    /\ queue = <<>> /\ terminal = FALSE /\ ready = FALSE
    /\ aborted = FALSE /\ lost = 0 /\ done = FALSE
    /\ sent = 0 /\ skipped = 0 /\ observed = <<>> /\ report = NoReport
    /\ producer = "open" /\ worker = "check" /\ hand = Terminal

observing == <<observed, report, worker, hand, done>>
producing == <<sent, skipped, producer, terminal, ready>>

-----------------------------------------------------------------------------
(* The producer: the anchor's stdout reader, one line at a time *)

\* submit of an info line, up to put_nowait: nothing is put after an abort.
SubmitInfo ==
    /\ producer = "open" /\ sent < MaxInfo
    /\ sent' = sent + 1
    /\ producer' = IF aborted THEN "open" ELSE "put"
    /\ skipped' = IF aborted THEN skipped + 1 ELSE skipped
    /\ UNCHANGED <<queue, terminal, ready, aborted, lost, observing>>

\* put_nowait, with the line counted lost when the queue is full.
Put ==
    /\ producer = "put" /\ producer' = "open"
    /\ \/ /\ Len(queue) < Capacity
          /\ queue' = Append(queue, sent) /\ UNCHANGED lost
       \/ /\ Len(queue) = Capacity
          /\ lost' = lost + 1 /\ UNCHANGED queue
    /\ UNCHANGED <<sent, skipped, terminal, ready, aborted, observing>>

\* submit of the bestmove line: uci_process delivers at most one a search.
SubmitBestmove ==
    /\ producer = "open"
    /\ producer' = IF aborted THEN "closed" ELSE "bestmove"
    /\ UNCHANGED <<queue, sent, skipped, terminal, ready, aborted, lost, observing>>

SetTerminal ==
    /\ producer = "bestmove" /\ producer' = "publish"
    /\ terminal' = TRUE
    /\ UNCHANGED <<queue, sent, skipped, ready, aborted, lost, observing>>

PublishTerminal ==
    /\ producer = "publish" /\ producer' = "closed"
    /\ ready' = TRUE
    /\ UNCHANGED <<queue, sent, skipped, terminal, aborted, lost, observing>>

\* A failed dispatch, a failed clock search or close() aborts the worker.
Abort ==
    /\ ~aborted /\ aborted' = TRUE
    /\ UNCHANGED <<queue, lost, producing, observing>>

-----------------------------------------------------------------------------
(* The worker thread *)

\* The loop condition.
Check ==
    /\ worker = "check"
    /\ worker' = IF aborted THEN "end" ELSE "get"
    /\ UNCHANGED <<queue, lost, aborted, observed, report, hand, done, producing>>

\* queue.get returns the oldest line, or raises Empty once its time is up.
Get ==
    /\ worker = "get"
    /\ \/ /\ queue # <<>>
          /\ hand' = Head(queue) /\ queue' = Tail(queue) /\ worker' = "observe"
       \/ /\ queue = <<>>
          /\ worker' = "empty" /\ UNCHANGED <<queue, hand>>
    /\ UNCHANGED <<lost, aborted, observed, report, done, producing>>

\* _observe returns, or raises and the line is counted lost.
Observe ==
    /\ worker = "observe" /\ worker' = "check"
    /\ \/ observed' = Append(observed, hand) /\ UNCHANGED lost
       \/ lost' = lost + 1 /\ UNCHANGED observed
    /\ UNCHANGED <<queue, aborted, report, hand, done, producing>>

\* The Empty branch: leave when the terminal is there, poll again otherwise.
Empty ==
    /\ worker = "empty"
    /\ worker' = IF ~ready THEN "check" ELSE IF terminal THEN "final" ELSE "end"
    /\ UNCHANGED <<queue, lost, aborted, observed, report, hand, done, producing>>

Final ==
    /\ worker = "final" /\ worker' = "finish"
    /\ \/ observed' = Append(observed, Terminal) /\ UNCHANGED lost
       \/ lost' = lost + 1 /\ UNCHANGED observed
    /\ UNCHANGED <<queue, aborted, report, hand, done, producing>>

\* _finished, then the return that ends the loop.
Finish ==
    /\ worker = "finish" /\ worker' = "end"
    /\ report' = lost
    /\ UNCHANGED <<queue, lost, aborted, observed, hand, done, producing>>

End ==
    /\ worker = "end" /\ worker' = "exit"
    /\ done' = TRUE
    /\ UNCHANGED <<queue, lost, aborted, observed, report, hand, producing>>

Work == Check \/ Get \/ Observe \/ Empty \/ Final \/ Finish \/ End

Produce == SubmitInfo \/ Put \/ SubmitBestmove \/ SetTerminal \/ PublishTerminal

Next == Produce \/ Abort \/ Work

\* The worker is a running thread whose callbacks return; a submit that has
\* begun returns.  The engine need not print anything, nor anyone abort.
Spec ==
    /\ Init /\ [][Next]_vars
    /\ WF_vars(Work)
    /\ WF_vars(Put \/ SetTerminal \/ PublishTerminal)

-----------------------------------------------------------------------------
(* Properties *)

InHand == IF worker = "observe" THEN 1 ELSE 0
Pending == IF producer = "put" THEN 1 ELSE 0
TerminalSeen == observed # <<>> /\ observed[Len(observed)] = Terminal
InfoSeen == IF TerminalSeen THEN Len(observed) - 1 ELSE Len(observed)
InfoLost == IF (worker = "finish" \/ report # NoReport) /\ ~TerminalSeen
            THEN lost - 1 ELSE lost

\* Conservation: no info line disappears.  Each one submitted was refused by
\* an abort, is about to be put, is queued, is in the worker's hand, was
\* observed, or is counted in _lost.
Conservation ==
    sent = skipped + Pending + Len(queue) + InHand + InfoSeen + InfoLost

\* Lines are observed in the order they were printed, each at most once, and
\* the terminal after all of them.
Fifo ==
    \A i, j \in 1 .. Len(observed) :
        i < j => observed[i] # Terminal
                 /\ (observed[j] = Terminal \/ observed[i] < observed[j])

\* A worker that ends without an abort has reported to _finished.
NoSilentExit == done /\ ~aborted => report # NoReport

\* What _finished was told is final: nothing is observed and nothing more is
\* counted lost afterwards, so the taint it recorded cannot be out of date.
ReportIsFinal ==
    [][report # NoReport => UNCHANGED <<report, observed, lost>>]_vars

\* Once the bestmove is published, or the observation aborted, the worker ends,
\* so the list of observers is eventually pruned.
WorkerEnds == (ready \/ aborted) ~> done
=============================================================================
