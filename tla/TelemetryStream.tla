--------------------------- MODULE TelemetryStream ---------------------------
(***************************************************************************)
(* controller/replay.py, TelemetryStreamWriter: one engine's telemetry     *)
(* file.  A thread that has an item for it puts the item into a bounded    *)
(* queue; a writer thread translates items and writes them; a router's     *)
(* checkpoint reads what has been written; the owner of the run closes the *)
(* stream and describes it in the manifest.                                *)
(*                                                                         *)
(* One search is recorded: Start opens it and Last, its bestmove, is the   *)
(* last item, since no line of a search follows its bestmove.  The events  *)
(* an item is translated to are one event, written and shown to the live   *)
(* view in one step: the watermark counts the item only after both.        *)
(***************************************************************************)
EXTENDS Integers, Sequences

CONSTANTS
    Start, Last,      \* the first and the last item of a search
    Line,             \* the items in between
    Sentinel, None,   \* what close puts into the queue; no item
    StreamCapacity,   \* _STREAM_QUEUE_MAXSIZE (200,000)
    ViewLimit         \* _TRACKED_EVENT_LIMIT (50,000)

Item     == Line \cup {Start, Last}

VARIABLES
    pipe,         \* _queue: items, and the Sentinel of close
    sending,      \* the item a thread is putting, counted but not yet queued, or None
    full,         \* that thread has found the queue full
    offered,      \* history: every item counted by _enqueue
    pending,      \* _enqueued - _applied
    lossy,        \* _dropped > 0 or _errors is not empty (evidence_lossy)
    closed, stopping, abandoned,  \* _closed, _stopping, _abandoned
    handle,       \* the file is open
    tracked,      \* _track_events: the stream of a worker a router decides about
    file,         \* the items on disk, in order
    view,         \* _events, as a set: what a tracked stream has written
    truncated,    \* _events_truncated
    adapter,      \* "none", "open" or "complete": _adapter and its stream.completed
    writer, item, \* the writer thread: its next step and the item it has taken
    closer,       \* the thread in close()
    reading, due, seen, verdict   \* a checkpoint: its next read, the items counted
                                  \* when it found no backlog, the view it read

producing  == <<sending, full, offered>>
writing    == <<file, view, truncated, adapter, writer, item>>
closingUp  == <<closed, stopping, abandoned, handle, closer>>
deciding   == <<reading, due, seen, verdict>>
streamVars == <<tracked, pipe, pending, lossy, producing, writing, closingUp, deciding>>

Backlog == pending > 0                       \* pending_events() > 0
Whole   == adapter = "complete" /\ ~lossy    \* contract_validatable

StreamInit ==
    /\ pipe = <<>> /\ sending = None /\ full = FALSE /\ offered = {}
    /\ pending = 0 /\ lossy = FALSE
    /\ closed = FALSE /\ stopping = FALSE /\ abandoned = FALSE /\ handle = TRUE
    /\ tracked \in BOOLEAN /\ file = <<>> /\ view = {} /\ truncated = FALSE /\ adapter = "none"
    /\ writer = "take" /\ item = None /\ closer = "open"
    /\ reading = "backlog" /\ due = {} /\ seen = {} /\ verdict = "none"

-----------------------------------------------------------------------------
(* The thread that has an item: begin_stage and submit *)

\* _enqueue counts the item before it publishes it, unless the stream is closed.
Offer(x) ==
    /\ ~closed /\ sending = None
    /\ sending' = x /\ offered' = offered \cup {x} /\ pending' = pending + 1
    /\ UNCHANGED <<tracked, pipe, lossy, full, writing, closingUp, deciding>>

Put ==
    /\ sending # None /\ ~full /\ Len(pipe) < StreamCapacity
    /\ pipe' = Append(pipe, sending) /\ sending' = None
    /\ UNCHANGED <<tracked, pending, lossy, full, offered, writing, closingUp, deciding>>

Overflow ==
    /\ sending # None /\ ~full /\ Len(pipe) >= StreamCapacity
    /\ full' = TRUE
    /\ UNCHANGED <<tracked, pipe, pending, lossy, sending, offered, writing, closingUp, deciding>>

DropUnrecorded ==                  \* mutant: the item is uncounted and forgotten
    /\ full /\ full' = FALSE /\ sending' = None
    /\ pending' = pending - 1
    /\ UNCHANGED <<tracked, pipe, lossy, offered, writing, closingUp, deciding>>

\* A full queue: the item is no longer pending, it is lost.
Drop ==
    /\ full /\ full' = FALSE /\ sending' = None
    /\ pending' = pending - 1 /\ lossy' = TRUE
    /\ UNCHANGED <<tracked, pipe, offered, writing, closingUp, deciding>>

-----------------------------------------------------------------------------
(* The writer thread: _drain, _apply and _write *)

Take ==
    /\ writer = "take" /\ pipe # <<>>
    /\ pipe' = Tail(pipe)
    /\ writer' = IF Head(pipe) = Sentinel THEN "exit" ELSE "apply"
    /\ item' = IF Head(pipe) = Sentinel THEN None ELSE Head(pipe)
    /\ UNCHANGED <<tracked, pending, lossy, file, view, truncated, adapter,
                   producing, closingUp, deciding>>

\* Shutdown may not depend on room for the sentinel.
Leave ==
    /\ writer = "take" /\ stopping /\ pipe = <<>>
    /\ writer' = "exit"
    /\ UNCHANGED <<tracked, pipe, pending, lossy, file, view, truncated, adapter, item,
                   producing, closingUp, deciding>>

\* What the item changed is followed by its count in _applied: a reader who sees
\* the one and not the other finds a backlog, so the two are one step.
Applied == writer' = "take" /\ item' = None /\ pending' = pending - 1

\* The adapter accepts the item, and _write looks whether close has given up.
Translate ==
    /\ writer = "apply"
    /\ item # Start => adapter # "none"
    /\ adapter' = IF item = Last THEN "complete" ELSE "open"
    /\ IF abandoned THEN Applied ELSE writer' = "write" /\ UNCHANGED <<pending, item>>
    /\ UNCHANGED <<tracked, pipe, lossy, file, view, truncated, producing, closingUp, deciding>>

\* A TelemetryError, or a line before any search: recorded within _apply.
Reject ==
    /\ writer = "apply" /\ item # Start
    /\ lossy' = TRUE /\ Applied
    /\ UNCHANGED <<tracked, pipe, file, view, truncated, adapter, producing, closingUp, deciding>>

Write ==
    /\ writer = "write" /\ handle /\ Applied
    /\ file' = Append(file, item)
    /\ view' = IF tracked /\ Len(file) < ViewLimit THEN view \cup {item} ELSE view
    /\ truncated' = (truncated \/ (tracked /\ Len(file) >= ViewLimit))
    /\ UNCHANGED <<tracked, pipe, lossy, adapter, producing, closingUp, deciding>>

\* Any other exception of the adapter or the file leaves _apply: the finally
\* clause counts the item as applied ...
Raise ==
    /\ writer \in {"apply", "write"} /\ writer' = "record"
    /\ pending' = pending - 1
    /\ UNCHANGED <<tracked, pipe, lossy, file, view, truncated, adapter, item,
                   producing, closingUp, deciding>>

\* ... and the except clause records what was raised after that.
Record ==
    /\ writer = "record" /\ writer' = "take" /\ item' = None
    /\ lossy' = TRUE
    /\ UNCHANGED <<tracked, pipe, pending, file, view, truncated, adapter,
                   producing, closingUp, deciding>>

Writer == Take \/ Leave \/ Translate \/ Reject \/ Write \/ Raise \/ Record

-----------------------------------------------------------------------------
(* note_loss, close *)

NoteLoss ==
    /\ lossy' = TRUE
    /\ UNCHANGED <<tracked, pipe, pending, producing, writing, closingUp, deciding>>

\* No more items; the flag, and the sentinel if there is room for it.
Close ==
    /\ closer = "open" /\ closer' = "join"
    /\ closed' = TRUE /\ stopping' = TRUE
    /\ pipe' = IF Len(pipe) < StreamCapacity THEN Append(pipe, Sentinel) ELSE pipe
    /\ UNCHANGED <<tracked, pending, lossy, abandoned, handle, producing, writing, deciding>>

\* The writer has ended, and the file is closed.
Joined ==
    /\ closer = "join" /\ writer = "exit" /\ closer' = "closed"
    /\ handle' = FALSE
    /\ UNCHANGED <<tracked, pipe, pending, lossy, closed, stopping, abandoned,
                   producing, writing, deciding>>

\* Two joins have timed out: what is pending is lost, and the writer is not to
\* write any more ...
Abandon ==
    /\ closer = "join" /\ writer # "exit" /\ closer' = "shut"
    /\ abandoned' = TRUE /\ lossy' = TRUE
    /\ pending' = IF Backlog THEN 0 ELSE pending
    /\ UNCHANGED <<tracked, pipe, closed, stopping, handle, producing, writing, deciding>>

\* ... when the file is closed under it.
Shut ==
    /\ closer = "shut" /\ closer' = "closed"
    /\ handle' = FALSE
    /\ UNCHANGED <<tracked, pipe, pending, lossy, closed, stopping, abandoned,
                   producing, writing, deciding>>

CloseSteps == Joined \/ Abandon \/ Shut

-----------------------------------------------------------------------------
(* A checkpoint: what routing.py, on_checkpoint, reads of one owner, in order *)

\* owner_events_pending, after its drain barrier.
ReadBacklog ==
    /\ tracked /\ reading = "backlog"
    /\ due' = offered /\ seen' = {}
    /\ verdict' = IF Backlog THEN "withheld" ELSE "none"
    /\ reading' = IF Backlog THEN "backlog" ELSE "events"
    /\ UNCHANGED <<tracked, pipe, pending, lossy, producing, writing, closingUp>>

\* _live_trajectory.
ReadEvents ==
    /\ reading = "events" /\ reading' = "truncated"
    /\ seen' = view
    /\ UNCHANGED <<tracked, pipe, pending, lossy, due, verdict, producing, writing, closingUp>>

ReadTruncated ==
    /\ reading = "truncated"
    /\ reading' = IF truncated THEN "backlog" ELSE "lossy"
    /\ verdict' = IF truncated THEN "withheld" ELSE verdict
    /\ UNCHANGED <<tracked, pipe, pending, lossy, due, seen, producing, writing, closingUp>>

TrustAnyway ==                     \* mutant: permanent losses are not asked for
    /\ reading = "lossy" /\ reading' = "backlog"
    /\ verdict' = "trusted"
    /\ UNCHANGED <<tracked, pipe, pending, lossy, due, seen, producing, writing, closingUp>>

ReadLossy ==
    /\ reading = "lossy" /\ reading' = "backlog"
    /\ verdict' = IF lossy THEN "withheld" ELSE "trusted"
    /\ UNCHANGED <<tracked, pipe, pending, lossy, due, seen, producing, writing, closingUp>>

Checkpoint == ReadBacklog \/ ReadEvents \/ ReadTruncated \/ ReadLossy

StreamNext ==
    \/ \E x \in Item : Offer(x)
    \/ Put \/ Overflow \/ Drop \/ NoteLoss
    \/ Writer \/ Close \/ CloseSteps \/ Checkpoint

StreamSpec == StreamInit /\ [][StreamNext]_streamVars

-----------------------------------------------------------------------------
(* Property *)

\* A checkpoint that trusts a worker's evidence has seen every line the stream
\* had been handed when it asked for the backlog (replay.py:192: "a routing
\* checkpoint that never saw it").  The exception is a line the writer is just
\* failing on: it counts as applied before its failure is on record.
TrustedIsComplete ==
    [][verdict' = "trusted" /\ verdict # "trusted" =>
           due \ seen \subseteq (IF writer = "record" THEN {item} ELSE {})]_streamVars
=============================================================================
