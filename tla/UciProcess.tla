----------------------------- MODULE UciProcess -----------------------------
(***************************************************************************)
(* One shadow engine process (adapters/process/uci_process.py) with the    *)
(* threads that use it: per generation the worker that qualifies the roots *)
(* and dispatches searches, the detached stop writer and the tail          *)
(* watchdog; the anchor's completion, which closes the generation's        *)
(* window; the process's reader; close.  The token of a search is its      *)
(* generation.                                                             *)
(*                                                                         *)
(* Commands and lines are bounded pipes; the engine may be slow, mute or   *)
(* dead at any moment, and every wait may run into its timeout.  A stop    *)
(* writer may outlive its generation: the process does not rely on its     *)
(* being joined.                                                           *)
(***************************************************************************)
EXTENDS Naturals, Sequences

CONSTANTS
    MaxToken,   \* bound: generations, the tokens of the searches
    MaxRound,   \* bound: searches of one generation
    MaxAsk,     \* bound: generations whose worker has a perft request, the first ones
    CommandMax, \* bound: commands in the pipe to the engine
    LineMax     \* bound: lines in the pipe from it

ASSUME BoundAssumption == /\ MaxToken \in Nat \ {0} /\ MaxRound \in Nat \ {0} /\ MaxAsk \in Nat
                          /\ CommandMax \in Nat \ {0} /\ LineMax \in Nat \ {0}

Tokens == 1 .. MaxToken
Search == [token : Tokens, round : 1 .. MaxRound]
None   == [token |-> 0, round |-> 0]       \* no search

NoCall == [is |-> "info", of |-> None, by |-> None]

Go(s)   == [do |-> "go", of |-> s]
Stop(t) == [do |-> "stop", of |-> [token |-> t, round |-> 0]]
Perft   == [do |-> "perft", of |-> None]
Quit    == [do |-> "quit", of |-> None]
Command == [do : {"go"}, of : Search] \cup {Stop(t) : t \in Tokens} \cup {Perft, Quit}
Line    == [is : {"info", "bestmove"}, of : Search] \cup {[is |-> "total", of |-> None]}

VARIABLES
    search, gate, waiter,              \* of UciProcess
    stdin, stdout, engine, proc,       \* the two pipes, what the engine searches, the child
    pc, round, open, expired, cur,     \* the workers, their windows and clocks, the generation
    spc, wpc, available,               \* stop writers, tail watchdogs, the instance's health
    rpc, call,                         \* the reader and the callback it makes
    ipc, asker, cpc,                   \* the perft request and its worker, close
    written, ends                      \* history: the searches written, what was told of each

own    == <<search, gate, waiter>>
child  == <<stdin, stdout, engine, proc>>
worker == <<pc, round, open, expired, cur>>
others == <<spc, wpc, available>>
reader == <<rpc, call>>
caller == <<ipc, asker, cpc>>
told   == <<written, ends>>
vars   == <<own, child, worker, others, reader, caller, told>>

TypeOK ==
    /\ search \in Search \cup {None} /\ waiter \in {"none", "waits", "set", "error"}
    /\ gate \in {<<"free", 0>>, <<"perft", 0>>} \cup {"go", "stop"} \X Tokens
    /\ stdin \in Seq(Command) /\ stdout \in Seq(Line)
    /\ engine \in Search \cup {None} /\ proc \in {"alive", "killed", "dead"}
    /\ pc \in [Tokens -> {"off", "gated", "ready", "permitted", "reject", "fail", "broken", "failed"}]
    /\ round \in [Tokens -> 0 .. MaxRound] /\ cur \in Tokens
    /\ open \in [Tokens -> BOOLEAN] /\ expired \in [Tokens -> BOOLEAN]
    /\ spc \in [Tokens -> {"off", "called", "gated", "send", "done"}]
    /\ wpc \in [Tokens -> {"off", "killed", "done"}] /\ available \in BOOLEAN
    /\ rpc \in {"read", "call", "exit", "end"}
    /\ call \in [is : {"info", "bestmove", "exit"}, of : Search \cup {None}, by : Search \cup {None}]
    /\ ipc \in {"off", "gated", "send", "wait", "failed", "kill"} /\ asker \in 0 .. MaxToken
    /\ cpc \in {"off", "quit", "wait"}
    /\ written \subseteq Search
    /\ ends \in [Search -> SUBSET {"complete", "exit", "failed", "rejected", "escaped"}]

Init ==
    /\ search = None /\ gate = <<"free", 0>> /\ waiter = "none"
    /\ stdin = <<>> /\ stdout = <<>> /\ engine = None /\ proc = "alive"
    /\ pc = [t \in Tokens |-> "off"] /\ round = [t \in Tokens |-> 0] /\ cur = 1
    /\ open = [t \in Tokens |-> TRUE] /\ expired = [t \in Tokens |-> FALSE]
    /\ spc = [t \in Tokens |-> "off"] /\ wpc = [t \in Tokens |-> "off"] /\ available = TRUE
    /\ rpc = "read" /\ call = NoCall
    /\ ipc = "off" /\ asker = 0 /\ cpc = "off"
    /\ written = {} /\ ends = [s \in Search |-> {}]

Free  == <<"free", 0>>
Dead  == proc = "dead"                                    \* what poll() sees
Room  == Len(stdin) < CommandMax
Killed == IF Dead THEN proc ELSE "killed"                 \* kill(): the signal is on its way
Mine(t) == [token |-> t, round |-> round[t]]
Tell(s, end) == ends' = [ends EXCEPT ![s] = @ \cup {end}]
At(f, t, label) == [f EXCEPT ![t] = label]
Closing == cpc # "off"                    \* of the coordinator, the runtime and the process

-----------------------------------------------------------------------------
(* start_search, by the worker of generation t *)

\* The permit: the run's window, which the anchor's completion closes under the
\* dispatch gate; a cancellation and the clock, which close it without; the
\* coordinator's end.
Permit(t) == open[t] /\ ~expired[t] /\ ~Closing

\* The worker dispatches its next search: the last one is over, the generation
\* is the clock's, the instance is healthy.
MayStart(t) ==
    /\ pc[t] = "off" /\ cur = t /\ (asker = t => ipc = "off") /\ available /\ ~Dead /\ Permit(t) /\ round[t] < MaxRound
    /\ round[t] > 0 => "complete" \in ends[Mine(t)]

TakeGate(t) ==
    /\ MayStart(t) /\ gate = Free
    /\ gate' = <<"go", t>> /\ pc' = At(pc, t, "gated") /\ round' = [round EXCEPT ![t] = @ + 1]
    /\ UNCHANGED <<search, waiter, child, open, expired, cur, others, reader, caller, told>>

\* The command gate is not had in time.
LoseGate(t) ==
    /\ MayStart(t) /\ gate # Free
    /\ pc' = At(pc, t, "failed") /\ round' = [round EXCEPT ![t] = @ + 1]
    /\ UNCHANGED <<own, child, open, expired, cur, others, reader, caller, told>>

\* Under the state lock: the permit, no other search, the subscription; a
\* refusal gives the command gate back.
Subscribe(t) ==
    /\ pc[t] = "gated"
    /\ IF Permit(t) /\ search = None
         THEN search' = Mine(t) /\ pc' = At(pc, t, "ready") /\ UNCHANGED <<gate, ends>>
         ELSE /\ gate' = Free /\ UNCHANGED search
              /\ IF Permit(t) THEN pc' = At(pc, t, "failed") /\ UNCHANGED ends
                              ELSE pc' = At(pc, t, "off") /\ Tell(Mine(t), "rejected")
    /\ UNCHANGED <<waiter, child, round, open, expired, cur, others, reader, caller, written>>

\* The dispatch gate is taken: a dead process, a closed window, or the permit.
AskPermit(t) ==
    /\ pc[t] = "ready"
    /\ pc' = At(pc, t, IF Dead THEN "fail" ELSE IF Permit(t) THEN "permitted" ELSE "reject")
    /\ UNCHANGED <<own, child, round, open, expired, cur, others, reader, caller, told>>

\* Still under the dispatch gate, the write that does not block: a full pipe
\* gives the dispatch gate back; a process that has died since it was looked at
\* has broken the pipe, and the write raises.
WriteGo(t) ==
    /\ pc[t] = "permitted"
    /\ \/ /\ ~Dead /\ Room
          /\ stdin' = Append(stdin, Go(Mine(t))) /\ written' = written \cup {Mine(t)}
          /\ gate' = Free /\ pc' = At(pc, t, "off")
       \/ /\ Dead \/ ~Room
          /\ pc' = At(pc, t, IF Dead THEN "broken" ELSE "ready")
          /\ UNCHANGED <<stdin, written, gate>>
    /\ UNCHANGED <<search, waiter, stdout, engine, proc, round, open, expired, cur, others,
                   reader, caller, ends>>

\* The pipe stays full until the timeout: the process is killed.
WriteTimeout(t) ==
    /\ pc[t] = "ready" /\ ~Room /\ pc' = At(pc, t, "fail") /\ proc' = Killed
    /\ UNCHANGED <<own, stdin, stdout, engine, round, open, expired, cur, others, reader, caller, told>>

\* An exception takes the subscription back, if it is still the caller's, and
\* gives the command gate back.  That of a broken pipe is no UciProcessError:
\* start_shadow_search lets it through, and it ends the run's worker.
Undo(t) ==
    /\ pc[t] \in {"reject", "fail", "broken"}
    /\ search' = IF search.token = t THEN None ELSE search
    /\ gate' = Free
    /\ IF pc[t] = "fail"
         THEN pc' = At(pc, t, "failed") /\ UNCHANGED ends
         ELSE pc' = At(pc, t, "off") /\ Tell(Mine(t), IF pc[t] = "reject" THEN "rejected" ELSE "escaped")
    /\ UNCHANGED <<waiter, child, round, open, expired, cur, others, reader, caller, written>>

\* start_shadow_search puts the instance out of use.
RecordFailure(t) ==
    /\ pc[t] = "failed" /\ pc' = At(pc, t, "off") /\ available' = FALSE /\ Tell(Mine(t), "failed")
    /\ UNCHANGED <<own, child, round, open, expired, cur, spc, wpc, reader, caller, written>>

\* Mutant: without the dispatch gate.
MutCloseUngated(t) ==
    /\ open[t] /\ cur = t /\ open' = [open EXCEPT ![t] = FALSE]
    /\ UNCHANGED <<own, child, pc, round, expired, cur, others, reader, caller, told>>

\* note_anchor_complete, under the dispatch gate.
CloseWindow(t) ==
    /\ open[t] /\ cur = t /\ pc[t] # "permitted" /\ open' = [open EXCEPT ![t] = FALSE]
    /\ UNCHANGED <<own, child, pc, round, expired, cur, others, reader, caller, told>>

\* The clock's end, or a cancellation.
Expire(t) ==
    /\ cur >= t /\ ~expired[t] /\ expired' = [expired EXCEPT ![t] = TRUE]
    /\ UNCHANGED <<own, child, pc, round, open, cur, others, reader, caller, told>>

\* The barrier before the engine is used anew (_quiesce_clock): an instance that
\* is still at work is put out of use and killed.
Barrier ==
    LET drained == search = None /\ pc[cur] = "off" /\ ipc = "off" IN
    /\ available' = (available /\ drained)
    /\ proc' = IF drained THEN proc ELSE Killed

NextGeneration ==
    /\ cur < MaxToken /\ ~Permit(cur) /\ ~Closing /\ cur' = cur + 1 /\ Barrier
    /\ UNCHANGED <<own, stdin, stdout, engine, pc, round, open, expired, spc, wpc, reader, caller, told>>

-----------------------------------------------------------------------------
(* stop_search, by the detached writer of generation t; kill_search, by its watchdog *)

\* A cancellation finds a search of the generation that is not over; its writer
\* has a thread of its own.
StopCall(t) ==
    /\ spc[t] = "off" /\ cur = t /\ ~Permit(t) /\ ~Closing /\ round[t] > 0 /\ ends[Mine(t)] = {}
    /\ spc' = At(spc, t, "called")
    /\ UNCHANGED <<own, child, worker, wpc, available, reader, caller, told>>

\* The gate, or its timeout.
StopTake(t) ==
    /\ spc[t] = "called"
    /\ IF gate = Free THEN gate' = <<"stop", t>> /\ spc' = At(spc, t, "gated")
                      ELSE spc' = At(spc, t, "done") /\ UNCHANGED gate
    /\ UNCHANGED <<search, waiter, child, worker, wpc, available, reader, caller, told>>

\* Mutant: the command gate is given back before the command is sent.
MutStopUngated(t) ==
    /\ spc[t] = "gated" /\ gate' = Free
    /\ spc' = At(spc, t, IF search.token = t THEN "send" ELSE "done")
    /\ UNCHANGED <<search, waiter, child, worker, wpc, available, reader, caller, told>>

StopCheck(t) ==
    /\ spc[t] = "gated"
    /\ IF search.token = t THEN spc' = At(spc, t, "send") /\ UNCHANGED gate
                           ELSE spc' = At(spc, t, "done") /\ gate' = Free
    /\ UNCHANGED <<search, waiter, child, worker, wpc, available, reader, caller, told>>

\* send: the command is written, the process is found dead, or the pipe stays
\* full until the timeout and the process is killed.
Send(command) ==
    \/ ~Dead /\ Room /\ stdin' = Append(stdin, command) /\ UNCHANGED proc
    \/ Dead /\ UNCHANGED <<stdin, proc>>
    \/ ~Room /\ proc' = Killed /\ UNCHANGED stdin

StopSend(t) ==
    /\ spc[t] = "send" /\ Send(Stop(t)) /\ gate' = Free /\ spc' = At(spc, t, "done")
    /\ UNCHANGED <<search, waiter, stdout, engine, worker, wpc, available, reader, caller, told>>

\* Mutant: the killed search is unsubscribed at once.
MutKillClears(t) ==
    /\ wpc[t] = "off" /\ expired[t]
    /\ IF search.token = t THEN proc' = Killed /\ wpc' = At(wpc, t, "killed") /\ search' = None
                           ELSE wpc' = At(wpc, t, "done") /\ UNCHANGED <<proc, search>>
    /\ UNCHANGED <<gate, waiter, stdin, stdout, engine, worker, spc, available, reader, caller, told>>

\* Under the state lock, at the hard deadline.
Kill(t) ==
    /\ wpc[t] = "off" /\ expired[t]
    /\ IF search.token = t THEN proc' = Killed /\ wpc' = At(wpc, t, "killed")
                           ELSE wpc' = At(wpc, t, "done") /\ UNCHANGED proc
    /\ UNCHANGED <<own, stdin, stdout, engine, worker, spc, available, reader, caller, told>>

RecordKill(t) ==
    /\ wpc[t] = "killed" /\ wpc' = At(wpc, t, "done") /\ available' = FALSE
    /\ UNCHANGED <<own, child, worker, spc, reader, caller, told>>

-----------------------------------------------------------------------------
(* run_idle_request, by the worker that qualifies the roots before its searches *)

AskGate ==
    /\ ipc = "off" /\ cur <= MaxAsk /\ asker < cur /\ round[cur] = 0 /\ Permit(cur) /\ ~Dead /\ asker' = cur
    /\ \/ gate = Free /\ gate' = <<"perft", 0>> /\ ipc' = "gated"
       \/ gate # Free /\ ipc' = "failed" /\ UNCHANGED gate
    /\ UNCHANGED <<search, waiter, child, worker, others, reader, cpc, told>>

\* No search may be active; the waiter is there before the command is sent.
AskCheck ==
    /\ ipc = "gated"
    /\ IF search = None THEN waiter' = "waits" /\ ipc' = "send" /\ UNCHANGED gate
                        ELSE gate' = Free /\ ipc' = "failed" /\ UNCHANGED waiter
    /\ UNCHANGED <<search, child, worker, others, reader, asker, cpc, told>>

AskSend ==
    /\ ipc = "send" /\ Send(Perft)
    /\ IF ~Dead /\ Room THEN ipc' = "wait" /\ UNCHANGED <<gate, waiter>>
                        ELSE ipc' = "failed" /\ gate' = Free /\ waiter' = "none"
    /\ UNCHANGED <<search, stdout, engine, worker, others, reader, asker, cpc, told>>

\* The answer, the end of the process, or the timeout.
AskReturn ==
    /\ ipc = "wait" /\ waiter' = "none" /\ gate' = Free
    /\ ipc' = IF waiter = "set" THEN "off" ELSE "failed"
    /\ UNCHANGED <<search, child, worker, others, reader, asker, cpc, told>>

\* legal_root_moves puts the instance out of use, then kills the process.
AskFailed ==
    /\ ipc = "failed" /\ ipc' = "kill" /\ available' = FALSE
    /\ UNCHANGED <<own, child, worker, spc, wpc, reader, asker, cpc, told>>

AskKill ==
    /\ ipc = "kill" /\ ipc' = "off" /\ proc' = Killed
    /\ UNCHANGED <<own, stdin, stdout, engine, worker, others, reader, asker, cpc, told>>

-----------------------------------------------------------------------------
(* The engine: a UCI engine obeys in order, and answers every go once *)

Answer(is, s) == Len(stdout) < LineMax /\ stdout' = Append(stdout, [is |-> is, of |-> s])

EngineReads ==
    /\ ~Dead /\ stdin # <<>> /\ stdin' = Tail(stdin)
    /\ LET command == Head(stdin) IN
         \/ command.do = "go" /\ engine' = command.of /\ UNCHANGED stdout
         \/ command.do = "stop" /\ engine # None /\ Answer("bestmove", engine) /\ engine' = None
         \/ command.do = "stop" /\ engine = None /\ UNCHANGED <<stdout, engine>>
         \/ command.do = "perft" /\ Answer("total", None) /\ UNCHANGED engine
    /\ UNCHANGED <<own, proc, worker, others, reader, caller, told>>

EngineSays ==
    /\ ~Dead /\ engine # None
    /\ \/ Answer("info", engine) /\ UNCHANGED engine
       \/ Answer("bestmove", engine) /\ engine' = None
    /\ UNCHANGED <<own, stdin, proc, worker, others, reader, caller, told>>

\* It obeys quit, crashes, or the signal arrives; what it wrote stays readable.
Dies ==
    /\ proc' = "dead" /\ engine' = None /\ stdin' = <<>>
    /\ UNCHANGED <<own, stdout, worker, others, reader, caller, told>>

Quits == ~Dead /\ stdin # <<>> /\ Head(stdin) = Quit /\ Dies
Crash == proc = "alive" /\ Dies
SignalArrives == proc = "killed" /\ Dies

-----------------------------------------------------------------------------
(* _stdout_reader and _handle_eof *)

\* Mutant: the bestmove leaves the search subscribed.
MutReadKeeps ==
    /\ rpc = "read" /\ stdout # <<>> /\ stdout' = Tail(stdout)
    /\ waiter' = IF waiter = "waits" /\ Head(stdout).is = "total" THEN "set" ELSE waiter
    /\ IF search # None /\ Head(stdout).is # "total"
         THEN call' = [is |-> Head(stdout).is, of |-> search, by |-> Head(stdout).of] /\ rpc' = "call"
         ELSE UNCHANGED reader
    /\ UNCHANGED <<search, gate, stdin, engine, proc, worker, others, caller, told>>

\* Under the state lock: the waiter, then the search, which a bestmove ends.
ReadLine ==
    /\ rpc = "read" /\ stdout # <<>> /\ stdout' = Tail(stdout)
    /\ LET line == Head(stdout) IN
         /\ waiter' = IF waiter = "waits" /\ line.is = "total" THEN "set" ELSE waiter
         /\ IF search # None /\ line.is # "total"
              THEN /\ call' = [is |-> line.is, of |-> search, by |-> line.of] /\ rpc' = "call"
                   /\ search' = IF line.is = "bestmove" THEN None ELSE search
              ELSE UNCHANGED <<search, reader>>
    /\ UNCHANGED <<gate, stdin, engine, proc, worker, others, caller, told>>

\* Outside the lock: on_info or on_complete.
Callback ==
    /\ rpc = "call" /\ rpc' = "read" /\ call' = NoCall
    /\ IF call.is = "bestmove" THEN Tell(call.of, "complete") ELSE UNCHANGED ends
    /\ UNCHANGED <<own, child, worker, others, caller, written>>

\* Mutant: the token is read once the search is cleared.
MutEofForgets ==
    /\ rpc = "read" /\ stdout = <<>> /\ Dead
    /\ search' = None /\ call' = [is |-> "exit", of |-> search', by |-> search']
    /\ waiter' = IF waiter = "waits" THEN "error" ELSE waiter
    /\ rpc' = IF Closing THEN "end" ELSE "exit"
    /\ UNCHANGED <<gate, child, worker, others, caller, told>>

\* The end of the output: the search and the waiter are taken under the state lock.
Eof ==
    /\ rpc = "read" /\ stdout = <<>> /\ Dead
    /\ call' = [is |-> "exit", of |-> search, by |-> search] /\ search' = None
    /\ waiter' = IF waiter = "waits" THEN "error" ELSE waiter
    /\ rpc' = IF Closing THEN "end" ELSE "exit"
    /\ UNCHANGED <<gate, child, worker, others, caller, told>>

\* _handle_exit: nothing while the runtime closes, else the instance is put out
\* of use and the coordinator is told the token of the search that was lost.
ExitCall ==
    /\ rpc = "exit" /\ rpc' = "end" /\ call' = NoCall
    /\ IF Closing THEN UNCHANGED <<available, ends>>
       ELSE /\ available' = FALSE
            /\ IF call.of = None THEN UNCHANGED ends ELSE Tell(call.of, "exit")
    /\ UNCHANGED <<own, child, worker, spc, wpc, caller, written>>

-----------------------------------------------------------------------------
(* close *)

\* The coordinator closes, which closes every window, and passes the barrier;
\* the runtime and the process note that they close.
BeginClose ==
    /\ cpc = "off" /\ cpc' = "quit" /\ Barrier
    /\ UNCHANGED <<own, stdin, stdout, engine, worker, spc, wpc, reader, ipc, asker, told>>

SendQuit ==
    /\ cpc = "quit" /\ cpc' = "wait" /\ Send(Quit)
    /\ UNCHANGED <<own, stdout, engine, worker, others, reader, ipc, asker, told>>

\* Two seconds later the process is killed.
AwaitEnd ==
    /\ cpc = "wait" /\ proc = "alive" /\ proc' = "killed"
    /\ UNCHANGED <<own, stdin, stdout, engine, worker, others, reader, caller, told>>

-----------------------------------------------------------------------------
Dispatch(t) == \/ TakeGate(t) \/ LoseGate(t) \/ Subscribe(t) \/ AskPermit(t) \/ WriteGo(t)
               \/ WriteTimeout(t) \/ Undo(t) \/ RecordFailure(t)
StopWriter(t) == StopCall(t) \/ StopTake(t) \/ StopCheck(t) \/ StopSend(t)
Watchdog(t) == Kill(t) \/ RecordKill(t)
Asking == AskGate \/ AskCheck \/ AskSend \/ AskReturn \/ AskFailed \/ AskKill
Reading == ReadLine \/ Callback \/ Eof \/ ExitCall
CloseSteps == BeginClose \/ SendQuit \/ AwaitEnd

Next ==
    \/ \E t \in Tokens : Dispatch(t) \/ CloseWindow(t) \/ Expire(t) \/ StopWriter(t) \/ Watchdog(t)
    \/ NextGeneration \/ Asking \/ EngineReads \/ EngineSays \/ Quits \/ Crash \/ SignalArrives
    \/ Reading \/ CloseSteps

Spec == Init /\ [][Next]_vars

\* The reader runs, time passes, the watchdog runs when its deadline has come and
\* a signal arrives; nothing is asked of the engine, of the anchor, of the
\* workers, of the stop writers or of who closes.  Signals, expiries and kills come
\* a bounded number of times, so that the one condition is as strong as one for each.
Fairness ==
    /\ WF_vars(Reading)
    /\ WF_vars(SignalArrives \/ \E t \in Tokens : Expire(t) \/ Watchdog(t))

FairSpec == Spec /\ Fairness

-----------------------------------------------------------------------------
(* Properties *)

\* The searches under way: in the pipe, in the engine, or answered and unread.
UnderWay == {stdin[i].of : i \in {j \in DOMAIN stdin : stdin[j].do = "go"}}
            \cup ({engine} \ {None})
            \cup {stdout[i].of : i \in {j \in DOMAIN stdout : stdout[j].is = "bestmove"}}

\* What is written, searched or answered is the search that is subscribed, and a
\* go or a perft command reaches an engine that is idle (uci_process.py:616
\* "search already active", :416 "an idle transaction and a search cannot begin
\* concurrently").
OneSearch ==
    /\ UnderWay \subseteq {search}
    /\ \A i \in DOMAIN stdin :
           stdin[i].do \in {"go", "perft"} => engine = None /\ \A j \in 1 .. i - 1 : stdin[j].do # "go"

\* A stop ends only a search of its own generation, however late it is sent or
\* read (uci_process.py:638 "may affect only its original subscription").
StopHitsOwn ==
    \A i \in DOMAIN stdin :
        stdin[i].do = "stop" =>
            /\ engine # None => engine.token = stdin[i].of.token
            /\ \A j \in 1 .. i - 1 : stdin[j].do = "go" => stdin[j].of.token = stdin[i].of.token

\* What the coordinator is told of a search: lines of its own, a completion and
\* then nothing else, and a rejection only of what was never written
\* (runtime.py:3091 "Only that outcome proves that no engine work occurred"); nor
\* was it when the exception of a broken pipe passes the recording of failures.
Outcomes ==
    /\ rpc = "call" => call.of = call.by
    /\ \A s \in Search :
        /\ "complete" \in ends[s] => ends[s] = {"complete"} /\ s \in written
        /\ ends[s] \cap {"rejected", "escaped"} # {} => s \notin written

\* No search command enters the pipe once the anchor has completed
\* (shadow.py:1573).
NoLateGo == [][\A s \in Search : s \in written' \ written => open[s.token]]_vars

\* Every search that is ever written is told to have ended, unless the runtime
\* closes; written, ends and Closing only grow, so that this leads-to is an
\* "eventually always".
EverySearchEnds == <>[](\A s \in written : ends[s] # {} \/ Closing)
=============================================================================
