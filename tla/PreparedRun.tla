----------------------------- MODULE PreparedRun -----------------------------
(***************************************************************************)
(* controller/shadow.py: how the directory and the anchor's telemetry      *)
(* writer of one run come to be.  A slot is prepared by a thread before    *)
(* the go arrives; prepare_run claims it, or else makes the directory and  *)
(* opens the stream itself, each on a helper thread that is given up when  *)
(* the preparation budget is over.  A thread given up may still finish.    *)
(*                                                                         *)
(* A slot's directory has a name of its own until it is renamed to the     *)
(* run's.  What one thread does to files nobody else knows is one step.    *)
(* The command loop prepares, dispatches and closes: it is one thread.     *)
(***************************************************************************)
EXTENDS FiniteSets, Integers

CONSTANT MaxPrimes   \* bound: prepared slots the run's generation may try

Steps == {"mkdir", "open"}   \* the two pieces of work given to a helper

VARIABLES
    folders,   \* directories on disk: "slot" and "run"
    files,     \* those of them that hold the stream's file
    writers,   \* writer threads with an open file nobody has closed: "prepared", "opened",
               \* or "bound" once it is the run's
    prep,      \* the thread of prime_run_directory, or "none"
    primes,    \* how often it was started
    slot,      \* the generation is in _prepared_runs
    claimed,   \* the generation is in _prepared_claimed
    helper,    \* the helper thread of each piece of work
    outcome,   \* what it published: "none", "ok" or "error"
    spilled,   \* the stream's constructor raised after it had opened its file
    abandoned, \* the pieces of work given up
    setup,     \* the next step of prepare_run, "made" or "failed" when it has returned
    shut       \* _closed

onDisk   == <<folders, files, writers>>
priming  == <<prep, primes, slot>>
helping  == <<helper, outcome, spilled>>
prepVars == <<onDisk, priming, helping, claimed, abandoned, setup, shut>>

PrepInit ==
    /\ folders = {} /\ files = {} /\ writers = {}
    /\ prep = "none" /\ primes = 0 /\ slot = FALSE /\ claimed = FALSE
    /\ helper = [s \in Steps |-> "off"] /\ outcome = [s \in Steps |-> "none"]
    /\ spilled = FALSE /\ abandoned = {} /\ setup = "idle" /\ shut = FALSE

\* rmdir removes a directory only if it is empty; an unlink comes before it
\* where there may be a file.
Emptied(d) == folders \ ({d} \ files)

-----------------------------------------------------------------------------
(* prime_run_directory and its thread *)

Prime ==
    /\ ~shut /\ ~claimed /\ ~slot /\ prep = "none" /\ primes < MaxPrimes
    /\ prep' = "working" /\ primes' = primes + 1
    /\ UNCHANGED <<onDisk, slot, helping, claimed, abandoned, setup, shut>>

\* The directory and the stream are made, or an exception leaves a part.
PrepMake ==
    /\ prep = "working"
    /\ \/ /\ prep' = "built"
          /\ folders' = folders \cup {"slot"} /\ files' = files \cup {"slot"}
          /\ writers' = writers \cup {"prepared"}
       \/ prep' = "broken" /\ UNCHANGED onDisk
       \/ /\ prep' = "broken"
          /\ folders' = folders \cup {"slot"}
          /\ files' \in {files, files \cup {"slot"}}
          /\ UNCHANGED writers
    /\ UNCHANGED <<primes, slot, helping, claimed, abandoned, setup, shut>>

\* Under the coordinator's lock: the slot is offered only if it is wanted still.
PrepKeep ==
    /\ prep \in {"built", "broken"}
    /\ slot' = (prep = "built" /\ ~shut /\ ~claimed)
    /\ prep' = IF slot' THEN "none" ELSE "undo"
    /\ UNCHANGED <<onDisk, primes, helping, claimed, abandoned, setup, shut>>

\* _dispose_prepared_slot, or the unlink and rmdir after an exception.
PrepUndo ==
    /\ prep = "undo" /\ prep' = "none"
    /\ writers' = writers \ {"prepared"}
    /\ files' = files \ {"slot"} /\ folders' = folders \ {"slot"}
    /\ UNCHANGED <<primes, slot, helping, claimed, abandoned, setup, shut>>

-----------------------------------------------------------------------------
(* prepare_run: claim the slot *)

\* The search window is closed, or the generation before has kept the engines.
Refuse ==
    /\ setup = "idle" /\ ~shut
    /\ setup' = "failed"
    /\ UNCHANGED <<onDisk, priming, helping, claimed, abandoned, shut>>

Claim ==
    /\ setup = "idle" /\ ~shut
    /\ claimed' = TRUE /\ slot' = FALSE
    /\ setup' = IF slot THEN "move" ELSE "mkdir"
    /\ UNCHANGED <<onDisk, prep, primes, helping, abandoned, shut>>

\* The directory is renamed and the writer bound, or the rename fails and the
\* slot is disposed of.
Move ==
    /\ setup = "move"
    /\ \/ /\ setup' = "begin"
          /\ folders' = (folders \ {"slot"}) \cup {"run"}
          /\ files' = (files \ {"slot"}) \cup {"run"}
          /\ UNCHANGED writers
       \/ /\ setup' = "mkdir"
          /\ writers' = writers \ {"prepared"}
          /\ files' = files \ {"slot"} /\ folders' = folders \ {"slot"}
    /\ UNCHANGED <<priming, helping, claimed, abandoned, shut>>

-----------------------------------------------------------------------------
(* _within_prepare_budget: a helper thread, and the command loop that waits *)

\* The helper thread is started.
Ask(s) ==
    /\ setup = s /\ helper[s] = "off"
    /\ helper' = [helper EXCEPT ![s] = "working"]
    /\ UNCHANGED <<onDisk, priming, outcome, spilled, claimed, abandoned, setup, shut>>

\* The work itself: mkdir, or the constructor (replay.py:202), which makes the directory
\* again if it is gone, opens the file and starts the writer, and may raise in between.
Work(s) ==
    /\ helper[s] = "working"
    /\ \/ /\ helper' = [helper EXCEPT ![s] = "did"]
          /\ folders' = folders \cup {"run"}
          /\ IF s = "open" THEN files' = files \cup {"run"} /\ writers' = writers \cup {"opened"}
                           ELSE UNCHANGED <<files, writers>>
          /\ UNCHANGED spilled
       \/ /\ helper' = [helper EXCEPT ![s] = "raised"]
          /\ UNCHANGED <<onDisk, spilled>>
       \/ /\ s = "open" /\ helper' = [helper EXCEPT ![s] = "raised"]
          /\ folders' = folders \cup {"run"}
          /\ \/ UNCHANGED <<files, spilled>>
             \/ files' = files \cup {"run"} /\ spilled' = TRUE
          /\ UNCHANGED writers
    /\ UNCHANGED <<priming, outcome, claimed, abandoned, setup, shut>>

\* Under the guard: the result is published, unless the work was given up.
Settle(s) ==
    /\ helper[s] \in {"did", "raised"}
    /\ IF s \in abandoned
       THEN /\ helper' = [helper EXCEPT ![s] = "late"] /\ UNCHANGED outcome
       ELSE /\ helper' = [helper EXCEPT ![s] = "ended"]
            /\ outcome' = [outcome EXCEPT ![s] = IF helper[s] = "did" THEN "ok" ELSE "error"]
    /\ UNCHANGED <<onDisk, priming, spilled, claimed, abandoned, setup, shut>>

DiscardNothing(s) ==               \* mutant: late work is taken to be inert
    /\ helper[s] = "late"
    /\ helper' = [helper EXCEPT ![s] = "ended"]
    /\ UNCHANGED <<onDisk, priming, outcome, spilled, claimed, abandoned, setup, shut>>

\* discard: a late stream is closed and its file removed, then the directory.
\* Where the constructor raised there is no stream, and only the rmdir is tried.
Discard(s) ==
    /\ helper[s] = "late"
    /\ helper' = [helper EXCEPT ![s] = "ended"]
    /\ IF s = "open" /\ "opened" \in writers
       THEN /\ writers' = writers \ {"opened"} /\ files' = files \ {"run"}
            /\ folders' = folders \ {"run"}
       ELSE /\ folders' = Emptied("run") /\ UNCHANGED <<files, writers>>
    /\ UNCHANGED <<priming, outcome, spilled, claimed, abandoned, setup, shut>>

\* The join returns with the work settled or the budget over: one decision,
\* under the guard.  A run without its stream gives its directory back.
Await(s) ==
    /\ setup = s /\ helper[s] # "off"
    /\ abandoned' = IF outcome[s] = "none" THEN abandoned \cup {s} ELSE abandoned
    /\ setup' = IF outcome[s] # "ok" THEN "failed" ELSE IF s = "mkdir" THEN "open" ELSE "begin"
    /\ folders' = IF setup' = "failed" /\ s = "open" THEN Emptied("run") ELSE folders
    /\ UNCHANGED <<files, writers, priming, helping, claimed, shut>>

\* The writer the run is given.
Used == IF outcome["open"] = "ok" THEN "opened" ELSE "prepared"

\* The run has begun: the writer is its own, prepare_run and its helpers are gone, and
\* since the generation is claimed no slot is tried for it.
Begun ==
    /\ setup = "begin" /\ setup' = "made" /\ primes' = MaxPrimes
    /\ writers' = (writers \ {Used}) \cup {"bound"}
    /\ helper' = [s \in Steps |-> "off"] /\ outcome' = [s \in Steps |-> "none"]
    /\ UNCHANGED <<folders, files, prep, slot, spilled, claimed, abandoned, shut>>

\* close: the slot nobody claimed is disposed of.
Shutdown ==
    /\ setup \in {"idle", "made", "failed"} /\ ~shut /\ shut' = TRUE
    /\ slot' = FALSE
    /\ writers' = IF slot THEN writers \ {"prepared"} ELSE writers
    /\ files' = IF slot THEN files \ {"slot"} ELSE files
    /\ folders' = IF slot THEN folders \ {"slot"} ELSE folders
    /\ UNCHANGED <<prep, primes, helping, claimed, abandoned, setup>>

Helpers == \E s \in Steps : Ask(s) \/ Work(s) \/ Settle(s) \/ Discard(s) \/ Await(s)

Prepare == Prime \/ PrepMake \/ PrepKeep \/ PrepUndo \/ Refuse \/ Claim \/ Move \/ Helpers

PrepNext == Prepare \/ Begun \/ Shutdown

PrepSpec == PrepInit /\ [][PrepNext]_prepVars

-----------------------------------------------------------------------------
(* Property *)

\* The threads of the preparation have ended.
Quiet == prep = "none" /\ \A s \in Steps : helper[s] \in {"off", "ended"}

\* Nobody works on the run's setup any more, and the slot is wanted no longer.
Ended ==
    /\ Quiet
    /\ setup = "made" \/ (setup = "failed" /\ (claimed \/ shut))

\* A result is used or released, and never both (shadow.py:710): a run that is
\* made has its directory, its file and its writer, whatever the threads do that
\* were given up; and once they have ended, nothing else is left.  One case is
\* excepted: what a constructor opened before it raised stays behind, since no
\* stream is returned whose file could be removed, and rmdir leaves a directory
\* that is not empty; the comments at shadow.py:617 and 691 say it is released.
UsedOrReleased ==
    LET used == IF setup = "made" THEN "bound" ELSE Used
        mine == setup \in {"begin", "made"} IN
    /\ mine => used \in writers /\ "run" \in folders \cap files /\ ~spilled
    /\ Ended => /\ writers = (IF mine THEN {used} ELSE {})
                /\ folders = (IF mine \/ spilled THEN {"run"} ELSE {}) /\ files = folders
=============================================================================
