-------------------------- MODULE UciProcessProofs --------------------------
(***************************************************************************)
(* The process and its threads, for any number of generations, of searches *)
(* and of commands and lines under way.                                    *)
(***************************************************************************)
EXTENDS UciProcess, TLAPS

USE DEF own, child, worker, others, reader, caller, told

\* The labels of a worker that holds the command gate, and of one whose search
\* is subscribed.
Busy   == {"gated", "ready", "permitted", "reject", "fail", "broken"}
Bound  == Busy \ {"gated"}

\* Who holds the command gate is where the gate says.
Gates ==
    /\ \A t \in Tokens : gate = <<"go", t>> <=> pc[t] \in Busy
    /\ \A t \in Tokens : gate = <<"stop", t>> <=> spc[t] \in {"gated", "send"}
    /\ gate = <<"perft", 0>> <=> ipc \in {"gated", "send", "wait"}

\* A worker whose command is not out yet is at a search of its own that was
\* never written, and a search is spoken of only from its dispatch on.
Fresh ==
    /\ \A s \in written : s.round <= round[s.token] /\ (s = Mine(s.token) => pc[s.token] = "off")
    /\ \A s \in Search :
           ends[s] # {} => s.round <= round[s.token] /\ (s = Mine(s.token) => pc[s.token] # "gated")
    /\ \A t \in Tokens : pc[t] # "off" => round[t] > 0

\* The subscription is the gate holder's, unless the process's end took it
\* away; a stop or a perft command that is about to be sent concerns it; it is
\* known to its dispatcher or to the engine, and nothing was told of it yet.
Held     == \A t \in Tokens : pc[t] \in Bound => search = Mine(t) \/ (search = None /\ Dead)
Stopping == \A t \in Tokens : spc[t] = "send" => search = None \/ search.token = t
Idle     == ipc \in {"send", "wait"} => search = None
Known    == search # None => search \in written \/ (pc[search.token] \in Bound /\ search = Mine(search.token))
Untold   == search # None => ends[search] = {}
Subscribed == Held /\ Stopping /\ Idle /\ Known /\ Untold

\* One search at most is under way, and it is the one that is subscribed.
Command1 ==
    \A i \in 1 .. Len(stdin) :
        stdin[i].do = "go" =>
            /\ stdin[i].of = search /\ search \in written /\ engine = None
            /\ \A j \in 1 .. Len(stdin) : stdin[j].do = "go" => j = i
            /\ \A k \in 1 .. Len(stdout) : stdout[k].is = "total"
Engine1 ==
    engine # None =>
        /\ engine = search /\ engine \in written
        /\ \A k \in 1 .. Len(stdout) : stdout[k].is # "bestmove"
Line1 ==
    \A k \in 1 .. Len(stdout) :
        /\ stdout[k].is # "total" => stdout[k].of = search /\ search \in written
        /\ stdout[k].is = "bestmove" => \A m \in 1 .. Len(stdout) : m > k => stdout[m].is = "total"
Pipes == Command1 /\ Engine1 /\ Line1

\* Stops and perft commands in the pipe find what they are for.
Finds ==
    \A i \in 1 .. Len(stdin) :
        /\ stdin[i].do = "stop" =>
               /\ engine # None => engine.token = stdin[i].of.token
               /\ \A j \in 1 .. i - 1 : stdin[j].do = "go" => stdin[j].of.token = stdin[i].of.token
        /\ stdin[i].do = "perft" => engine = None /\ \A j \in 1 .. i - 1 : stdin[j].do # "go"

\* What the reader is about to tell, and what a dead process leaves.
Calling ==
    rpc = "call" =>
        /\ call.of = call.by /\ call.of \in written /\ call.is # "exit"
        /\ call.is = "bestmove" => ends[call.of] = {} /\ call.of # search
Exiting ==
    rpc = "exit" /\ call.of # None =>
        /\ "complete" \notin ends[call.of] /\ call.of # search
        /\ call.of.round <= round[call.of.token]
        /\ call.of = Mine(call.of.token) => pc[call.of.token] # "gated"
Over   == rpc \in {"exit", "end"} => Dead
Silent == Dead => stdin = <<>> /\ engine = None
Calls  == Calling /\ Exiting /\ Over /\ Silent

\* What the coordinator was told.
Told ==
    \A s \in Search :
        /\ "complete" \in ends[s] => ends[s] = {"complete"} /\ s \in written
        /\ ends[s] \cap {"rejected", "escaped"} # {} => s \notin written

\* A permit that was given under the dispatch gate still stands.
Permitted == \A t \in Tokens : pc[t] = "permitted" => open[t]

IInv == TypeOK /\ Gates /\ Fresh /\ Subscribed /\ Pipes /\ Finds /\ Calls /\ Told /\ Permitted

-----------------------------------------------------------------------------
(* Commands and lines *)

Grown(q, r, x) == /\ Len(r) = Len(q) + 1 /\ r[Len(q) + 1] = x
                  /\ \A i \in 1 .. Len(q) : r[i] = q[i]
Shrunk(q, r)   == /\ Len(q) \in Nat \ {0} /\ Len(r) = Len(q) - 1
                  /\ \A i \in 1 .. Len(r) : r[i] = q[i + 1]

\* What Append and Tail do, element by element.
LEMMA Grows == ASSUME NEW S, NEW q \in Seq(S), NEW x \in S
               PROVE  Append(q, x) \in Seq(S) /\ Grown(q, Append(q, x), x)
BY DEF Grown
LEMMA Shrinks == ASSUME NEW S, NEW q \in Seq(S), q # <<>>
                 PROVE  Tail(q) \in Seq(S) /\ Shrunk(q, Tail(q)) /\ Head(q) = q[1] /\ Head(q) \in S
BY DEF Shrunk

\* The commands and lines are what the types say.
LEMMA Commands == /\ \A s \in Search : Go(s) \in Command
                  /\ \A t \in Tokens : Stop(t) \in Command
                  /\ Perft \in Command /\ Quit \in Command
                  /\ \A s \in Search : s.token \in Tokens /\ s.round \in 1 .. MaxRound /\ s # None
                  /\ \A c \in Command : c.do = "go" => c.of \in Search
BY BoundAssumption DEF Command, Go, Stop, Perft, Quit, Search, None, Tokens

LEMMA Lines == /\ \A s \in Search : [is |-> "info", of |-> s] \in Line /\ [is |-> "bestmove", of |-> s] \in Line
               /\ [is |-> "total", of |-> None] \in Line
               /\ \A l \in Line : /\ l.is \in {"info", "bestmove", "total"} /\ l.of \in Search \cup {None}
                                  /\ l.is # "total" => l.of \in Search
BY DEF Line

\* A worker that is not idle is at a search.
LEMMA OwnSearch == ASSUME TypeOK, NEW t \in Tokens, round[t] > 0
                   PROVE  Mine(t) \in Search /\ Mine(t).token = t /\ Mine(t).round = round[t]
BY BoundAssumption DEF TypeOK, Mine, Search, Tokens

\* The values of the gate differ.
LEMMA GateValues ==
    /\ \A t, u \in Tokens : /\ <<"go", t>> = <<"go", u>> => t = u
                            /\ <<"stop", t>> = <<"stop", u>> => t = u
                            /\ <<"go", t>> # <<"stop", u>>
    /\ \A t \in Tokens : /\ <<"go", t>> # Free /\ <<"stop", t>> # Free
                         /\ <<"go", t>> # <<"perft", 0>> /\ <<"stop", t>> # <<"perft", 0>>
    /\ <<"perft", 0>> # Free
BY DEF Free

\* send writes the command, or leaves the pipe as it was.
LEMMA SendFacts ==
    ASSUME TypeOK, NEW c \in Command, Send(c)
    PROVE  /\ stdin' \in Seq(Command) /\ proc' \in {"alive", "killed", "dead"}
           /\ Dead' <=> Dead
           /\ stdin' = stdin \/ (~Dead /\ Grown(stdin, stdin', c))
<1>1. stdin \in Seq(Command) /\ proc \in {"alive", "killed", "dead"}
  BY DEF TypeOK
<1>2. CASE ~Dead /\ Room /\ stdin' = Append(stdin, c) /\ UNCHANGED proc
  BY <1>1, <1>2, Grows DEF Dead
<1>3. CASE Dead /\ UNCHANGED <<stdin, proc>>
  BY <1>1, <1>3 DEF Dead
<1>4. CASE ~Room /\ proc' = Killed /\ UNCHANGED stdin
  BY <1>1, <1>4 DEF Dead, Killed
<1> QED
  BY <1>2, <1>3, <1>4 DEF Send

\* What telling of a search changes.
LEMMA TellFacts ==
    ASSUME TypeOK, NEW s, NEW end \in {"complete", "exit", "failed", "rejected", "escaped"}, Tell(s, end)
    PROVE  /\ ends' \in [Search -> SUBSET {"complete", "exit", "failed", "rejected", "escaped"}]
           /\ \A r \in Search : ends'[r] = IF r = s THEN ends[r] \cup {end} ELSE ends[r]
BY DEF TypeOK, Tell

-----------------------------------------------------------------------------
(* The initial state and the steps *)

\* Every variable keeps its type, a few variables at a time.
TypeProcess == /\ search \in Search \cup {None} /\ engine \in Search \cup {None}
               /\ proc \in {"alive", "killed", "dead"}
TypeGate    == /\ gate \in {<<"free", 0>>, <<"perft", 0>>} \cup {"go", "stop"} \X Tokens
               /\ waiter \in {"none", "waits", "set", "error"}
               /\ ipc \in {"off", "gated", "send", "wait", "failed", "kill"} /\ asker \in 0 .. MaxToken
TypePipes   == stdin \in Seq(Command) /\ stdout \in Seq(Line)
TypeWorkers == /\ pc \in [Tokens -> {"off", "gated", "ready", "permitted", "reject", "fail", "broken",
                                    "failed"}]
               /\ round \in [Tokens -> 0 .. MaxRound]
TypeClock   == cur \in Tokens /\ open \in [Tokens -> BOOLEAN] /\ expired \in [Tokens -> BOOLEAN]
TypeOthers  == /\ spc \in [Tokens -> {"off", "called", "gated", "send", "done"}]
               /\ wpc \in [Tokens -> {"off", "killed", "done"}] /\ available \in BOOLEAN
               /\ cpc \in {"off", "quit", "wait"}
TypeReader  == /\ rpc \in {"read", "call", "exit", "end"}
               /\ call \in [is : {"info", "bestmove", "exit"}, of : Search \cup {None},
                             by : Search \cup {None}]
TypeTold    == /\ written \subseteq Search
               /\ ends \in [Search -> SUBSET {"complete", "exit", "failed", "rejected", "escaped"}]

\* TypeProcess is kept.
LEMMA TypeProcessStep == IInv /\ [Next]_vars => TypeProcess'
<1> SUFFICES ASSUME IInv, [Next]_vars PROVE TypeProcess'
  OBVIOUS
<1>1. ASSUME UNCHANGED <<search, engine, proc>> PROVE TypeProcess'
  BY <1>1 DEF IInv, TypeProcess, TypeOK, Dead
<1>2. CASE UNCHANGED vars
  BY <1>1, <1>2 DEF vars
<1>3. ASSUME NEW t \in Tokens, Dispatch(t) PROVE TypeProcess'
  <2>1. CASE Subscribe(t)
    BY <2>1, OwnSearch DEF IInv, TypeOK, TypeProcess, Dead, Subscribe, Tell, Fresh
  <2>2. CASE WriteTimeout(t)
    BY <2>2 DEF IInv, TypeOK, TypeProcess, Dead, WriteTimeout, Killed
  <2>3. CASE Undo(t)
    BY <2>3 DEF IInv, TypeOK, TypeProcess, Dead, Undo, Tell
  <2>4. CASE TakeGate(t) \/ LoseGate(t) \/ AskPermit(t) \/ WriteGo(t) \/ RecordFailure(t)
    BY <1>1, <2>4 DEF TakeGate, MayStart, LoseGate, AskPermit, WriteGo, RecordFailure, Tell
  <2> QED
    BY <1>3, <2>1, <2>2, <2>3, <2>4 DEF Dispatch
<1>4. ASSUME NEW t \in Tokens, StopWriter(t) PROVE TypeProcess'
  <2>1. CASE StopSend(t)
    BY <2>1, Commands, SendFacts DEF IInv, TypeOK, TypeProcess, Dead, StopSend
  <2>2. CASE StopCall(t) \/ StopTake(t) \/ StopCheck(t)
    BY <1>1, <2>2 DEF StopCall, StopTake, StopCheck
  <2> QED
    BY <1>4, <2>1, <2>2 DEF StopWriter
<1>5. ASSUME NEW t \in Tokens, Watchdog(t) PROVE TypeProcess'
  <2>1. CASE Kill(t)
    BY <2>1 DEF IInv, TypeOK, TypeProcess, Dead, Kill, Killed
  <2>2. CASE RecordKill(t)
    BY <1>1, <2>2 DEF RecordKill
  <2> QED
    BY <1>5, <2>1, <2>2 DEF Watchdog
<1>6. CASE NextGeneration
  BY <1>6 DEF IInv, TypeOK, TypeProcess, Dead, NextGeneration, Barrier, Killed
<1>7. CASE Asking
  <2>1. CASE AskSend
    BY <2>1, Commands, SendFacts DEF IInv, TypeOK, TypeProcess, Dead, AskSend
  <2>2. CASE AskKill
    BY <2>2 DEF IInv, TypeOK, TypeProcess, Dead, AskKill, Killed
  <2>3. CASE AskGate \/ AskCheck \/ AskReturn \/ AskFailed
    BY <1>1, <2>3 DEF AskGate, AskCheck, AskReturn, AskFailed
  <2> QED
    BY <1>7, <2>1, <2>2, <2>3 DEF Asking
<1>8. CASE EngineReads
  <2>1. CASE Head(stdin).do = "go"
    <3>1. Head(stdin) \in Command
      BY <1>8, Shrinks DEF IInv, TypeOK, EngineReads
    <3> QED
      BY <1>8, <2>1, <3>1, Commands DEF IInv, TypeOK, TypeProcess, EngineReads
  <2>2. CASE Head(stdin).do # "go"
    BY <1>8, <2>2 DEF IInv, TypeOK, TypeProcess, EngineReads
  <2> QED
    BY <2>1, <2>2
<1>9. CASE EngineSays
  BY <1>9 DEF IInv, TypeOK, TypeProcess, Dead, EngineSays
<1>10. CASE Quits
  BY <1>10 DEF IInv, TypeOK, TypeProcess, Dead, Quits, Dies
<1>11. CASE Crash
  BY <1>11 DEF IInv, TypeOK, TypeProcess, Dead, Crash, Dies
<1>12. CASE SignalArrives
  BY <1>12 DEF IInv, TypeOK, TypeProcess, Dead, SignalArrives, Dies
<1>13. CASE Reading
  <2>1. CASE ReadLine
    BY <2>1 DEF IInv, TypeOK, TypeProcess, Dead, ReadLine
  <2>2. CASE Eof
    BY <2>2 DEF IInv, TypeOK, TypeProcess, Dead, Eof
  <2>3. CASE Callback \/ ExitCall
    BY <1>1, <2>3 DEF Callback, Tell, ExitCall
  <2> QED
    BY <1>13, <2>1, <2>2, <2>3 DEF Reading
<1>14. CASE CloseSteps
  <2>1. CASE BeginClose
    BY <2>1 DEF IInv, TypeOK, TypeProcess, Dead, BeginClose, Barrier, Killed
  <2>2. CASE SendQuit
    BY <2>2, Commands, SendFacts DEF IInv, TypeOK, TypeProcess, Dead, SendQuit
  <2>3. CASE AwaitEnd
    BY <2>3 DEF IInv, TypeOK, TypeProcess, Dead, AwaitEnd
  <2> QED
    BY <1>14, <2>1, <2>2, <2>3 DEF CloseSteps
<1>15. ASSUME NEW t \in Tokens, CloseWindow(t) \/ Expire(t) PROVE TypeProcess'
  BY <1>1, <1>15 DEF CloseWindow, Expire
<1> QED
  BY <1>2, <1>3, <1>4, <1>5, <1>6, <1>7, <1>8, <1>9, <1>10, <1>11, <1>12, <1>13, <1>14, <1>15 DEF
        Next

\* TypeGate is kept.
LEMMA TypeGateStep == IInv /\ [Next]_vars => TypeGate'
<1> SUFFICES ASSUME IInv, [Next]_vars PROVE TypeGate'
  OBVIOUS
<1>1. ASSUME UNCHANGED <<gate, waiter, ipc, asker>> PROVE TypeGate'
  BY <1>1, BoundAssumption DEF IInv, TypeGate, TypeOK, Free
<1>2. CASE UNCHANGED vars
  BY <1>1, <1>2 DEF vars
<1>3. ASSUME NEW t \in Tokens, Dispatch(t) PROVE TypeGate'
  <2>1. CASE TakeGate(t)
    BY <2>1, BoundAssumption DEF IInv, TypeOK, TypeGate, Free, TakeGate, MayStart
  <2>2. CASE Subscribe(t)
    BY <2>2, BoundAssumption DEF IInv, TypeOK, TypeGate, Free, Subscribe, Tell
  <2>3. CASE WriteGo(t)
    BY <2>3, BoundAssumption DEF IInv, TypeOK, TypeGate, Free, WriteGo
  <2>4. CASE Undo(t)
    BY <2>4, BoundAssumption DEF IInv, TypeOK, TypeGate, Free, Undo, Tell
  <2>5. CASE LoseGate(t) \/ AskPermit(t) \/ WriteTimeout(t) \/ RecordFailure(t)
    BY <1>1, <2>5 DEF LoseGate, MayStart, AskPermit, WriteTimeout, Killed, RecordFailure, Tell
  <2> QED
    BY <1>3, <2>1, <2>2, <2>3, <2>4, <2>5 DEF Dispatch
<1>4. ASSUME NEW t \in Tokens, StopWriter(t) PROVE TypeGate'
  <2>1. CASE StopTake(t)
    BY <2>1, BoundAssumption DEF IInv, TypeOK, TypeGate, Free, StopTake
  <2>2. CASE StopCheck(t)
    BY <2>2, BoundAssumption DEF IInv, TypeOK, TypeGate, Free, StopCheck
  <2>3. CASE StopSend(t)
    BY <2>3, BoundAssumption DEF IInv, TypeOK, TypeGate, Free, StopSend
  <2>4. CASE StopCall(t)
    BY <1>1, <2>4 DEF StopCall
  <2> QED
    BY <1>4, <2>1, <2>2, <2>3, <2>4 DEF StopWriter
<1>5. CASE Asking
  <2>1. CASE AskGate
    BY <2>1, BoundAssumption DEF IInv, TypeOK, TypeGate, Free, AskGate, Tokens
  <2>2. CASE AskCheck
    BY <2>2, BoundAssumption DEF IInv, TypeOK, TypeGate, Free, AskCheck
  <2>3. CASE AskSend
    BY <2>3, BoundAssumption DEF IInv, TypeOK, TypeGate, Free, AskSend
  <2>4. CASE AskReturn
    BY <2>4, BoundAssumption DEF IInv, TypeOK, TypeGate, Free, AskReturn
  <2>5. CASE AskFailed
    BY <2>5, BoundAssumption DEF IInv, TypeOK, TypeGate, Free, AskFailed
  <2>6. CASE AskKill
    BY <2>6, BoundAssumption DEF IInv, TypeOK, TypeGate, Free, AskKill, Killed
  <2> QED
    BY <1>5, <2>1, <2>2, <2>3, <2>4, <2>5, <2>6 DEF Asking
<1>6. CASE Reading
  <2>1. CASE ReadLine
    BY <2>1, BoundAssumption DEF IInv, TypeOK, TypeGate, Free, ReadLine
  <2>2. CASE Eof
    BY <2>2, BoundAssumption DEF IInv, TypeOK, TypeGate, Free, Eof
  <2>3. CASE Callback \/ ExitCall
    BY <1>1, <2>3 DEF Callback, Tell, ExitCall
  <2> QED
    BY <1>6, <2>1, <2>2, <2>3 DEF Reading
<1>7. ASSUME NEW t \in Tokens, CloseWindow(t) \/ Expire(t) \/ Watchdog(t) PROVE TypeGate'
  BY <1>1, <1>7 DEF CloseWindow, Expire, Watchdog, Kill, Killed, RecordKill
<1>8. CASE NextGeneration \/ EngineReads \/ EngineSays
  BY <1>1, <1>8 DEF NextGeneration, Barrier, Killed, EngineReads, EngineSays
<1>9. CASE Quits \/ Crash \/ SignalArrives
  BY <1>1, <1>9 DEF Quits, Dies, Crash, SignalArrives
<1>10. CASE CloseSteps
  BY <1>1, <1>10 DEF CloseSteps, BeginClose, Barrier, Killed, SendQuit, AwaitEnd
<1> QED
  BY <1>2, <1>3, <1>4, <1>5, <1>6, <1>7, <1>8, <1>9, <1>10 DEF Next

\* TypePipes is kept.
LEMMA TypePipesStep == IInv /\ [Next]_vars => TypePipes'
<1> SUFFICES ASSUME IInv, [Next]_vars PROVE TypePipes'
  OBVIOUS
<1>1. ASSUME UNCHANGED <<stdin, stdout>> PROVE TypePipes'
  BY <1>1 DEF IInv, TypePipes, TypeOK
<1>2. CASE UNCHANGED vars
  BY <1>1, <1>2 DEF vars
<1>3. ASSUME NEW t \in Tokens, Dispatch(t) PROVE TypePipes'
  <2>1. CASE WriteGo(t)
    <3>1. Go(Mine(t)) \in Command /\ stdin \in Seq(Command)
      BY <2>1, Commands, OwnSearch DEF IInv, TypeOK, WriteGo, Fresh
    <3>2. stdin' \in Seq(Command)
      BY <2>1, <3>1, Grows DEF WriteGo
    <3> QED
      BY <2>1, <3>2 DEF IInv, TypeOK, TypePipes, WriteGo
  <2>2. CASE TakeGate(t) \/ LoseGate(t) \/ Subscribe(t) \/ AskPermit(t) \/ WriteTimeout(t) \/
        Undo(t) \/ RecordFailure(t)
    BY <1>1, <2>2 DEF TakeGate, MayStart, LoseGate, Subscribe, Tell, AskPermit, WriteTimeout,
          Killed, Undo, RecordFailure
  <2> QED
    BY <1>3, <2>1, <2>2 DEF Dispatch
<1>4. ASSUME NEW t \in Tokens, StopWriter(t) PROVE TypePipes'
  <2>1. CASE StopSend(t)
    BY <2>1, Commands, SendFacts DEF IInv, TypeOK, TypePipes, StopSend
  <2>2. CASE StopCall(t) \/ StopTake(t) \/ StopCheck(t)
    BY <1>1, <2>2 DEF StopCall, StopTake, StopCheck
  <2> QED
    BY <1>4, <2>1, <2>2 DEF StopWriter
<1>5. CASE Asking
  <2>1. CASE AskSend
    BY <2>1, Commands, SendFacts DEF IInv, TypeOK, TypePipes, AskSend
  <2>2. CASE AskGate \/ AskCheck \/ AskReturn \/ AskFailed \/ AskKill
    BY <1>1, <2>2 DEF AskGate, AskCheck, AskReturn, AskFailed, AskKill, Killed
  <2> QED
    BY <1>5, <2>1, <2>2 DEF Asking
<1>6. CASE EngineReads
  <2>1. stdin \in Seq(Command) /\ stdout \in Seq(Line) /\ engine \in Search \cup {None}
    BY DEF IInv, TypeOK
  <2>2. stdin' \in Seq(Command)
    BY <1>6, <2>1, Shrinks DEF EngineReads
  <2>3. stdout' = stdout \/ \E l \in Line : stdout' = Append(stdout, l)
    BY <1>6, <2>1, Lines DEF EngineReads, Answer
  <2> QED
    BY <2>1, <2>2, <2>3, Grows DEF TypePipes
<1>7. CASE EngineSays
  <2>1. stdin \in Seq(Command) /\ stdout \in Seq(Line) /\ engine \in Search \cup {None}
    BY DEF IInv, TypeOK
  <2>2. \E l \in Line : stdout' = Append(stdout, l)
    BY <1>7, <2>1, Lines DEF EngineSays, Answer
  <2> QED
    BY <1>7, <2>1, <2>2, Grows DEF TypePipes, EngineSays
<1>8. CASE Quits
  BY <1>8 DEF IInv, TypeOK, TypePipes, Quits, Dies
<1>9. CASE Crash
  BY <1>9 DEF IInv, TypeOK, TypePipes, Crash, Dies
<1>10. CASE SignalArrives
  BY <1>10 DEF IInv, TypeOK, TypePipes, SignalArrives, Dies
<1>11. CASE Reading
  <2>1. CASE ReadLine
    BY <2>1, Shrinks DEF IInv, TypeOK, TypePipes, ReadLine
  <2>2. CASE Callback \/ Eof \/ ExitCall
    BY <1>1, <2>2 DEF Callback, Tell, Eof, ExitCall
  <2> QED
    BY <1>11, <2>1, <2>2 DEF Reading
<1>12. CASE CloseSteps
  <2>1. CASE SendQuit
    BY <2>1, Commands, SendFacts DEF IInv, TypeOK, TypePipes, SendQuit
  <2>2. CASE BeginClose \/ AwaitEnd
    BY <1>1, <2>2 DEF BeginClose, Barrier, Killed, AwaitEnd
  <2> QED
    BY <1>12, <2>1, <2>2 DEF CloseSteps
<1>13. ASSUME NEW t \in Tokens, CloseWindow(t) \/ Expire(t) \/ Watchdog(t) PROVE TypePipes'
  BY <1>1, <1>13 DEF CloseWindow, Expire, Watchdog, Kill, Killed, RecordKill
<1>14. CASE NextGeneration
  BY <1>1, <1>14 DEF NextGeneration, Barrier, Killed
<1> QED
  BY <1>2, <1>3, <1>4, <1>5, <1>6, <1>7, <1>8, <1>9, <1>10, <1>11, <1>12, <1>13, <1>14 DEF Next

\* TypeWorkers is kept.
LEMMA TypeWorkersStep == IInv /\ [Next]_vars => TypeWorkers'
<1> SUFFICES ASSUME IInv, [Next]_vars PROVE TypeWorkers'
  OBVIOUS
<1>1. ASSUME UNCHANGED <<pc, round>> PROVE TypeWorkers'
  BY <1>1, BoundAssumption DEF IInv, TypeWorkers, TypeOK, At
<1>2. CASE UNCHANGED vars
  BY <1>1, <1>2 DEF vars
<1>3. ASSUME NEW t \in Tokens, Dispatch(t) PROVE TypeWorkers'
  <2>1. CASE TakeGate(t)
    BY <2>1, BoundAssumption DEF IInv, TypeOK, TypeWorkers, At, TakeGate, MayStart
  <2>2. CASE LoseGate(t)
    BY <2>2, BoundAssumption DEF IInv, TypeOK, TypeWorkers, At, LoseGate, MayStart
  <2>3. CASE Subscribe(t)
    BY ZenonT(60), <2>3, BoundAssumption DEF IInv, TypeOK, TypeWorkers, At, Subscribe, Tell
  <2>4. CASE AskPermit(t)
    BY <2>4, BoundAssumption DEF IInv, TypeOK, TypeWorkers, At, AskPermit
  <2>5. CASE WriteGo(t)
    BY <2>5, BoundAssumption DEF IInv, TypeOK, TypeWorkers, At, WriteGo
  <2>6. CASE WriteTimeout(t)
    BY <2>6, BoundAssumption DEF IInv, TypeOK, TypeWorkers, At, WriteTimeout, Killed
  <2>7. CASE Undo(t)
    BY ZenonT(60), <2>7, BoundAssumption DEF IInv, TypeOK, TypeWorkers, At, Undo, Tell
  <2>8. CASE RecordFailure(t)
    BY <2>8, BoundAssumption DEF IInv, TypeOK, TypeWorkers, At, RecordFailure, Tell
  <2> QED
    BY <1>3, <2>1, <2>2, <2>3, <2>4, <2>5, <2>6, <2>7, <2>8 DEF Dispatch
<1>4. ASSUME NEW t \in Tokens, CloseWindow(t) \/ Expire(t) \/ StopWriter(t) \/ Watchdog(t) PROVE
      TypeWorkers'
  BY <1>1, <1>4 DEF CloseWindow, Expire, StopWriter, StopCall, StopTake, StopCheck, StopSend,
        Watchdog, Kill, Killed, RecordKill
<1>5. CASE NextGeneration \/ Asking \/ EngineReads
  BY <1>1, <1>5 DEF NextGeneration, Barrier, Killed, Asking, AskGate, AskCheck, AskSend,
        AskReturn, AskFailed, AskKill, EngineReads
<1>6. CASE EngineSays \/ Quits \/ Crash
  BY <1>1, <1>6 DEF EngineSays, Quits, Dies, Crash
<1>7. CASE SignalArrives \/ Reading \/ CloseSteps
  BY <1>1, <1>7 DEF SignalArrives, Dies, Reading, ReadLine, Callback, Tell, Eof, ExitCall,
        CloseSteps, BeginClose, Barrier, Killed, SendQuit, AwaitEnd
<1> QED
  BY <1>2, <1>3, <1>4, <1>5, <1>6, <1>7 DEF Next

\* TypeClock is kept.
LEMMA TypeClockStep == IInv /\ [Next]_vars => TypeClock'
<1> SUFFICES ASSUME IInv, [Next]_vars PROVE TypeClock'
  OBVIOUS
<1>1. ASSUME UNCHANGED <<cur, open, expired>> PROVE TypeClock'
  BY <1>1, BoundAssumption DEF IInv, TypeClock, TypeOK
<1>2. CASE UNCHANGED vars
  BY <1>1, <1>2 DEF vars
<1>3. ASSUME NEW t \in Tokens, CloseWindow(t) PROVE TypeClock'
  BY <1>3, BoundAssumption DEF IInv, TypeOK, TypeClock, CloseWindow
<1>4. ASSUME NEW t \in Tokens, Expire(t) PROVE TypeClock'
  BY <1>4, BoundAssumption DEF IInv, TypeOK, TypeClock, Expire
<1>5. CASE NextGeneration
  BY <1>5, BoundAssumption DEF IInv, TypeOK, TypeClock, NextGeneration, Barrier, Killed, Tokens
<1>6. ASSUME NEW t \in Tokens, Dispatch(t) \/ StopWriter(t) \/ Watchdog(t) PROVE TypeClock'
  BY <1>1, <1>6 DEF Dispatch, TakeGate, MayStart, LoseGate, Subscribe, Tell, AskPermit, WriteGo,
        WriteTimeout, Killed, Undo, RecordFailure, StopWriter, StopCall, StopTake, StopCheck,
        StopSend, Watchdog, Kill, RecordKill
<1>7. CASE Asking \/ EngineReads \/ EngineSays
  BY <1>1, <1>7 DEF Asking, AskGate, AskCheck, AskSend, AskReturn, AskFailed, AskKill, Killed,
        EngineReads, EngineSays
<1>8. CASE Quits \/ Crash \/ SignalArrives
  BY <1>1, <1>8 DEF Quits, Dies, Crash, SignalArrives
<1>9. CASE Reading \/ CloseSteps
  BY <1>1, <1>9 DEF Reading, ReadLine, Callback, Tell, Eof, ExitCall, CloseSteps, BeginClose,
        Barrier, Killed, SendQuit, AwaitEnd
<1> QED
  BY <1>2, <1>3, <1>4, <1>5, <1>6, <1>7, <1>8, <1>9 DEF Next

\* TypeOthers is kept.
LEMMA TypeOthersStep == IInv /\ [Next]_vars => TypeOthers'
<1> SUFFICES ASSUME IInv, [Next]_vars PROVE TypeOthers'
  OBVIOUS
<1>1. ASSUME UNCHANGED <<spc, wpc, available, cpc>> PROVE TypeOthers'
  BY <1>1 DEF IInv, TypeOthers, TypeOK, At
<1>2. CASE UNCHANGED vars
  BY <1>1, <1>2 DEF vars
<1>3. ASSUME NEW t \in Tokens, Dispatch(t) PROVE TypeOthers'
  <2>1. CASE RecordFailure(t)
    BY <2>1 DEF IInv, TypeOK, TypeOthers, At, RecordFailure, Tell
  <2>2. CASE TakeGate(t) \/ LoseGate(t) \/ Subscribe(t) \/ AskPermit(t) \/ WriteGo(t) \/
        WriteTimeout(t) \/ Undo(t)
    BY <1>1, <2>2 DEF TakeGate, MayStart, LoseGate, Subscribe, Tell, AskPermit, WriteGo,
          WriteTimeout, Killed, Undo
  <2> QED
    BY <1>3, <2>1, <2>2 DEF Dispatch
<1>4. ASSUME NEW t \in Tokens, StopWriter(t) PROVE TypeOthers'
  <2>1. CASE StopCall(t)
    BY <2>1 DEF IInv, TypeOK, TypeOthers, At, StopCall
  <2>2. CASE StopTake(t)
    BY <2>2 DEF IInv, TypeOK, TypeOthers, At, StopTake
  <2>3. CASE StopCheck(t)
    BY ZenonT(60), <2>3 DEF IInv, TypeOK, TypeOthers, At, StopCheck
  <2>4. CASE StopSend(t)
    BY <2>4 DEF IInv, TypeOK, TypeOthers, At, StopSend
  <2> QED
    BY <1>4, <2>1, <2>2, <2>3, <2>4 DEF StopWriter
<1>5. ASSUME NEW t \in Tokens, Watchdog(t) PROVE TypeOthers'
  <2>1. CASE Kill(t)
    BY ZenonT(60), <2>1 DEF IInv, TypeOK, TypeOthers, At, Kill, Killed
  <2>2. CASE RecordKill(t)
    BY <2>2 DEF IInv, TypeOK, TypeOthers, At, RecordKill
  <2> QED
    BY <1>5, <2>1, <2>2 DEF Watchdog
<1>6. CASE NextGeneration
  BY <1>6 DEF IInv, TypeOK, TypeOthers, At, NextGeneration, Barrier, Killed
<1>7. CASE Asking
  <2>1. CASE AskFailed
    BY <2>1 DEF IInv, TypeOK, TypeOthers, At, AskFailed
  <2>2. CASE AskGate \/ AskCheck \/ AskSend \/ AskReturn \/ AskKill
    BY <1>1, <2>2 DEF AskGate, AskCheck, AskSend, AskReturn, AskKill, Killed
  <2> QED
    BY <1>7, <2>1, <2>2 DEF Asking
<1>8. CASE Reading
  <2>1. CASE ExitCall
    BY <2>1 DEF IInv, TypeOK, TypeOthers, At, ExitCall, Tell
  <2>2. CASE ReadLine \/ Callback \/ Eof
    BY <1>1, <2>2 DEF ReadLine, Callback, Tell, Eof
  <2> QED
    BY <1>8, <2>1, <2>2 DEF Reading
<1>9. CASE CloseSteps
  <2>1. CASE BeginClose
    BY <2>1 DEF IInv, TypeOK, TypeOthers, At, BeginClose, Barrier, Killed
  <2>2. CASE SendQuit
    BY <2>2 DEF IInv, TypeOK, TypeOthers, At, SendQuit
  <2>3. CASE AwaitEnd
    BY <1>1, <2>3 DEF AwaitEnd
  <2> QED
    BY <1>9, <2>1, <2>2, <2>3 DEF CloseSteps
<1>10. ASSUME NEW t \in Tokens, CloseWindow(t) \/ Expire(t) PROVE TypeOthers'
  BY <1>1, <1>10 DEF CloseWindow, Expire
<1>11. CASE EngineReads \/ EngineSays \/ Quits
  BY <1>1, <1>11 DEF EngineReads, EngineSays, Quits, Dies
<1>12. CASE Crash \/ SignalArrives
  BY <1>1, <1>12 DEF Crash, Dies, SignalArrives
<1> QED
  BY <1>2, <1>3, <1>4, <1>5, <1>6, <1>7, <1>8, <1>9, <1>10, <1>11, <1>12 DEF Next

\* TypeReader is kept.
LEMMA TypeReaderStep == IInv /\ [Next]_vars => TypeReader'
<1> SUFFICES ASSUME IInv, [Next]_vars PROVE TypeReader'
  OBVIOUS
<1>1. ASSUME UNCHANGED <<rpc, call>> PROVE TypeReader'
  BY <1>1 DEF IInv, TypeReader, TypeOK
<1>2. CASE UNCHANGED vars
  BY <1>1, <1>2 DEF vars
<1>3. CASE Reading
  <2>1. CASE ReadLine
    BY <2>1, Shrinks, Lines DEF IInv, TypeOK, TypeReader, ReadLine
  <2>2. CASE Callback
    BY <2>2 DEF IInv, TypeOK, TypeReader, Callback, Tell, NoCall
  <2>3. CASE Eof
    BY <2>3 DEF IInv, TypeOK, TypeReader, Eof
  <2>4. CASE ExitCall
    BY <2>4 DEF IInv, TypeOK, TypeReader, ExitCall, Tell, NoCall
  <2> QED
    BY <1>3, <2>1, <2>2, <2>3, <2>4 DEF Reading
<1>4. ASSUME NEW t \in Tokens, Dispatch(t) \/ CloseWindow(t) \/ Expire(t) \/ StopWriter(t) \/
      Watchdog(t) PROVE TypeReader'
  BY <1>1, <1>4 DEF Dispatch, TakeGate, MayStart, LoseGate, Subscribe, Tell, AskPermit, WriteGo,
        WriteTimeout, Killed, Undo, RecordFailure, CloseWindow, Expire, StopWriter, StopCall,
        StopTake, StopCheck, StopSend, Watchdog, Kill, RecordKill
<1>5. CASE NextGeneration \/ Asking \/ EngineReads
  BY <1>1, <1>5 DEF NextGeneration, Barrier, Killed, Asking, AskGate, AskCheck, AskSend,
        AskReturn, AskFailed, AskKill, EngineReads
<1>6. CASE EngineSays \/ Quits \/ Crash
  BY <1>1, <1>6 DEF EngineSays, Quits, Dies, Crash
<1>7. CASE SignalArrives \/ CloseSteps
  BY <1>1, <1>7 DEF SignalArrives, Dies, CloseSteps, BeginClose, Barrier, Killed, SendQuit, AwaitEnd
<1> QED
  BY <1>2, <1>3, <1>4, <1>5, <1>6, <1>7 DEF Next

\* TypeTold is kept.
LEMMA TypeToldStep == IInv /\ [Next]_vars => TypeTold'
<1> SUFFICES ASSUME IInv, [Next]_vars PROVE TypeTold'
  OBVIOUS
<1>1. ASSUME UNCHANGED <<written, ends>> PROVE TypeTold'
  BY <1>1 DEF IInv, TypeTold, TypeOK
<1>2. CASE UNCHANGED vars
  BY <1>1, <1>2 DEF vars
<1>3. ASSUME NEW t \in Tokens, Dispatch(t) PROVE TypeTold'
  <2>1. CASE Subscribe(t)
    BY <2>1, TellFacts DEF IInv, TypeOK, TypeTold, Subscribe
  <2>2. CASE WriteGo(t)
    BY <2>2, OwnSearch DEF IInv, TypeOK, TypeTold, WriteGo, Fresh
  <2>3. CASE Undo(t)
    BY <2>3, TellFacts DEF IInv, TypeOK, TypeTold, Undo
  <2>4. CASE RecordFailure(t)
    BY <2>4, TellFacts DEF IInv, TypeOK, TypeTold, RecordFailure
  <2>5. CASE TakeGate(t) \/ LoseGate(t) \/ AskPermit(t) \/ WriteTimeout(t)
    BY <1>1, <2>5 DEF TakeGate, MayStart, LoseGate, AskPermit, WriteTimeout, Killed
  <2> QED
    BY <1>3, <2>1, <2>2, <2>3, <2>4, <2>5 DEF Dispatch
<1>4. CASE Reading
  <2>1. CASE Callback
    BY <2>1, TellFacts DEF IInv, TypeOK, TypeTold, Callback
  <2>2. CASE ExitCall
    BY <2>2, TellFacts DEF IInv, TypeOK, TypeTold, ExitCall
  <2>3. CASE ReadLine \/ Eof
    BY <1>1, <2>3 DEF ReadLine, Eof
  <2> QED
    BY <1>4, <2>1, <2>2, <2>3 DEF Reading
<1>5. ASSUME NEW t \in Tokens, CloseWindow(t) \/ Expire(t) \/ StopWriter(t) \/ Watchdog(t) PROVE
      TypeTold'
  BY <1>1, <1>5 DEF CloseWindow, Expire, StopWriter, StopCall, StopTake, StopCheck, StopSend,
        Watchdog, Kill, Killed, RecordKill
<1>6. CASE NextGeneration \/ Asking \/ EngineReads
  BY <1>1, <1>6 DEF NextGeneration, Barrier, Killed, Asking, AskGate, AskCheck, AskSend,
        AskReturn, AskFailed, AskKill, EngineReads
<1>7. CASE EngineSays \/ Quits \/ Crash
  BY <1>1, <1>7 DEF EngineSays, Quits, Dies, Crash
<1>8. CASE SignalArrives \/ CloseSteps
  BY <1>1, <1>8 DEF SignalArrives, Dies, CloseSteps, BeginClose, Barrier, Killed, SendQuit, AwaitEnd
<1> QED
  BY <1>2, <1>3, <1>4, <1>5, <1>6, <1>7, <1>8 DEF Next

\* Every variable keeps its type.
LEMMA Types == IInv /\ [Next]_vars => TypeOK'
BY TypeProcessStep, TypeGateStep, TypePipesStep, TypeWorkersStep, TypeClockStep, TypeOthersStep,
   TypeReaderStep, TypeToldStep
   DEF TypeOK, TypeProcess, TypeGate, TypePipes, TypeWorkers, TypeClock, TypeOthers, TypeReader, TypeTold

\* The gate is given back by a worker, or by a stop writer.
LEMMA WorkerLeaves ==
    ASSUME IInv, NEW t \in Tokens, pc[t] \in Busy, gate' = Free, UNCHANGED <<spc, ipc>>,
           NEW x \in {"off", "failed"}, pc' = At(pc, t, x)
    PROVE  Gates'
<1>1. gate = <<"go", t>> /\ (\A u \in Tokens : u # t => pc[u] \notin Busy)
  BY GateValues DEF IInv, Gates
<1>2. (\A u \in Tokens : spc[u] \notin {"gated", "send"}) /\ ipc \notin {"gated", "send", "wait"}
  BY <1>1, GateValues DEF IInv, Gates
<1>3. \A u \in Tokens : pc'[u] = IF u = t THEN x ELSE pc[u]
  BY DEF IInv, TypeOK, At
<1>4. \A u \in Tokens : pc'[u] \notin Busy
  BY <1>1, <1>3 DEF Busy
<1> QED
  BY <1>2, <1>4, GateValues DEF Gates

LEMMA StopLeaves ==
    ASSUME IInv, NEW t \in Tokens, spc[t] \in {"gated", "send"}, gate' = Free, UNCHANGED <<pc, ipc>>,
           spc' = At(spc, t, "done")
    PROVE  Gates'
<1>1. gate = <<"stop", t>> /\ (\A u \in Tokens : u # t => spc[u] \notin {"gated", "send"})
  BY GateValues DEF IInv, Gates
<1>2. (\A u \in Tokens : pc[u] \notin Busy) /\ ipc \notin {"gated", "send", "wait"}
  BY <1>1, GateValues DEF IInv, Gates
<1>3. \A u \in Tokens : spc'[u] = IF u = t THEN "done" ELSE spc[u]
  BY DEF IInv, TypeOK, At
<1>4. \A u \in Tokens : spc'[u] \notin {"gated", "send"}
  BY <1>1, <1>3
<1> QED
  BY <1>2, <1>4, GateValues DEF Gates

\* The command gate is taken and given back by its holder.
LEMMA GatesStep == IInv /\ [Next]_vars => Gates'
<1> SUFFICES ASSUME IInv, [Next]_vars PROVE Gates'
  OBVIOUS
<1>1. ASSUME UNCHANGED <<gate, pc, spc, ipc>> PROVE Gates'
  BY <1>1, GateValues DEF IInv, Gates, TypeOK, Busy, At
<1>2. CASE UNCHANGED vars
  BY <1>1, <1>2 DEF vars
<1>3. ASSUME NEW t \in Tokens, Dispatch(t) PROVE Gates'
  <2>1. CASE TakeGate(t)
    BY <2>1, GateValues DEF IInv, TypeOK, Gates, Busy, At, TakeGate, MayStart
  <2>2. CASE LoseGate(t)
    BY <2>2, GateValues DEF IInv, TypeOK, Gates, Busy, At, LoseGate, MayStart
  <2>3. CASE Subscribe(t)
    <3>1. CASE UNCHANGED gate /\ pc' = At(pc, t, "ready")
      BY <2>3, <3>1 DEF IInv, TypeOK, Gates, Busy, At, Subscribe
    <3>2. CASE gate' = Free /\ (pc' = At(pc, t, "off") \/ pc' = At(pc, t, "failed"))
      BY <2>3, <3>2, WorkerLeaves DEF Subscribe, Busy
    <3> QED
      BY <2>3, <3>1, <3>2 DEF Subscribe
  <2>4. CASE AskPermit(t)
    BY <2>4, GateValues DEF IInv, TypeOK, Gates, Busy, At, AskPermit
  <2>5. CASE WriteGo(t)
    <3>1. UNCHANGED <<spc, ipc>> /\ pc[t] \in Busy
      BY <2>5 DEF WriteGo, others, Busy
    <3>2. CASE gate' = Free /\ pc' = At(pc, t, "off")
      BY <3>1, <3>2, WorkerLeaves
    <3>3. CASE UNCHANGED gate /\ \E x \in {"broken", "ready"} : pc' = At(pc, t, x)
      <4>1. \A u \in Tokens : pc'[u] \in Busy <=> pc[u] \in Busy
        BY <3>1, <3>3 DEF IInv, TypeOK, At, Busy
      <4> QED
        BY <3>1, <3>3, <4>1 DEF IInv, Gates
    <3> QED
      BY <2>5, <3>2, <3>3 DEF WriteGo
  <2>6. CASE WriteTimeout(t)
    BY <2>6, GateValues DEF IInv, TypeOK, Gates, Busy, At, WriteTimeout, Killed
  <2>7. CASE Undo(t)
    <3>1. pc' = At(pc, t, "off") \/ pc' = At(pc, t, "failed")
      BY <2>7 DEF Undo
    <3> QED
      BY <2>7, <3>1, WorkerLeaves DEF Undo, Busy
  <2>8. CASE RecordFailure(t)
    BY <2>8, GateValues DEF IInv, TypeOK, Gates, Busy, At, RecordFailure
  <2> QED
    BY <1>3, <2>1, <2>2, <2>3, <2>4, <2>5, <2>6, <2>7, <2>8 DEF Dispatch
<1>4. ASSUME NEW t \in Tokens, StopWriter(t) PROVE Gates'
  <2>1. CASE StopCall(t)
    BY <2>1, GateValues DEF IInv, TypeOK, Gates, Busy, At, StopCall
  <2>2. CASE StopTake(t)
    BY <2>2, GateValues DEF IInv, TypeOK, Gates, Busy, At, StopTake
  <2>3. CASE StopCheck(t)
    <3>1. CASE search.token = t
      BY <2>3, <3>1 DEF IInv, TypeOK, Gates, At, StopCheck
    <3>2. CASE search.token # t
      BY <2>3, <3>2, StopLeaves DEF StopCheck
    <3> QED
      BY <3>1, <3>2
  <2>4. CASE StopSend(t)
    BY <2>4, StopLeaves DEF StopSend
  <2> QED
    BY <1>4, <2>1, <2>2, <2>3, <2>4 DEF StopWriter
<1>5. CASE Asking
  <2>1. CASE AskGate
    BY <2>1, GateValues DEF IInv, TypeOK, Gates, Busy, At, AskGate
  <2>2. CASE AskCheck
    BY <2>2, GateValues DEF IInv, TypeOK, Gates, Busy, At, AskCheck
  <2>3. CASE AskSend
    BY <2>3, GateValues DEF IInv, TypeOK, Gates, Busy, At, AskSend
  <2>4. CASE AskReturn
    BY <2>4, GateValues DEF IInv, TypeOK, Gates, Busy, At, AskReturn
  <2>5. CASE AskFailed
    BY <2>5, GateValues DEF IInv, TypeOK, Gates, Busy, At, AskFailed
  <2>6. CASE AskKill
    BY <2>6, GateValues DEF IInv, TypeOK, Gates, Busy, At, AskKill, Killed
  <2> QED
    BY <1>5, <2>1, <2>2, <2>3, <2>4, <2>5, <2>6 DEF Asking
<1>6. ASSUME NEW t \in Tokens, CloseWindow(t) \/ Expire(t) \/ Watchdog(t) PROVE Gates'
  BY <1>1, <1>6 DEF CloseWindow, Expire, Watchdog, Kill, Killed, RecordKill
<1>7. CASE NextGeneration \/ EngineReads \/ EngineSays
  BY <1>1, <1>7 DEF NextGeneration, Barrier, Killed, EngineReads, EngineSays
<1>8. CASE Quits \/ Crash \/ SignalArrives
  BY <1>1, <1>8 DEF Quits, Dies, Crash, SignalArrives
<1>9. CASE Reading \/ CloseSteps
  BY <1>1, <1>9 DEF Reading, ReadLine, Callback, Eof, ExitCall, CloseSteps, BeginClose, Barrier,
        Killed, SendQuit, AwaitEnd
<1> QED
  BY <1>2, <1>3, <1>4, <1>5, <1>6, <1>7, <1>8, <1>9 DEF Next

\* What one label or one list of labels becomes.
LEMMA Labels ==
    ASSUME TypeOK, NEW t \in Tokens, NEW x
    PROVE  /\ \A u \in Tokens : At(pc, t, x)[u] = IF u = t THEN x ELSE pc[u]
           /\ \A u \in Tokens : At(spc, t, x)[u] = IF u = t THEN x ELSE spc[u]
BY DEF TypeOK, At

\* One worker at a time holds the command gate, and then no stop is about to be
\* sent and no perft is asked.
LEMMA Alone ==
    ASSUME Gates, NEW t \in Tokens, pc[t] \in Busy
    PROVE  /\ \A u \in Tokens : u # t => pc[u] \notin Busy
           /\ \A u \in Tokens : spc[u] # "send"
           /\ ipc \notin {"gated", "send", "wait"}
BY GateValues DEF Gates

\* A worker whose command is not out yet is at a search that was never written.
LEMMA Unwritten ==
    ASSUME TypeOK, Fresh, NEW t \in Tokens, pc[t] # "off"
    PROVE  /\ Mine(t) \in Search /\ Mine(t).token = t /\ Mine(t) \notin written
           /\ pc[t] = "gated" => ends[Mine(t)] = {}
BY OwnSearch DEF Fresh, Mine

\* A search that is answered with a bestmove is the one that is subscribed.
LEMMA ReadFacts ==
    ASSUME TypeOK, Pipes, ReadLine
    PROVE  /\ stdout \in Seq(Line) /\ stdout' \in Seq(Line) /\ Shrunk(stdout, stdout')
           /\ stdout[1] \in Line /\ Head(stdout) = stdout[1]
           /\ stdout[1].is # "total" => stdout[1].of = search /\ search \in written
           /\ \A k \in 1 .. Len(stdout') : stdout'[k] = stdout[k + 1]
           /\ search' # search => search' = None /\ stdout[1].is = "bestmove"
BY Shrinks DEF TypeOK, Pipes, Line1, ReadLine, Shrunk

\* A dispatch begins: no search of that round was written or told of.
LEMMA FreshAdvances ==
    ASSUME TypeOK, Fresh, NEW t \in Tokens, NEW x, x # "off", pc' = At(pc, t, x),
           round' = [round EXCEPT ![t] = @ + 1], UNCHANGED <<written, ends>>
    PROVE  Fresh'
<1>1. /\ \A u \in Tokens : pc'[u] = IF u = t THEN x ELSE pc[u]
      /\ \A u \in Tokens : round[u] \in Nat /\ round'[u] = IF u = t THEN round[u] + 1 ELSE round[u]
      /\ written \subseteq Search
  BY Labels DEF TypeOK
<1>2. ASSUME NEW s \in Search, s.round <= round[s.token]
      PROVE  /\ s.token \in Tokens /\ s.round <= round'[s.token]
             /\ s = Mine(s.token)' => s.token # t /\ s = Mine(s.token) /\ pc'[s.token] = pc[s.token]
  <2>1. s.token \in Tokens /\ s.round \in Nat
    BY Commands
  <2>2. s = Mine(s.token)' => s.round = round'[s.token]
    BY DEF Mine
  <2> QED
    BY <1>1, <1>2, <2>1, <2>2 DEF Mine
<1> QED
  BY <1>1, <1>2 DEF Fresh

\* A dispatch goes on: what it writes or tells of is its own search, and a search
\* that is written is no longer the dispatcher's.
LEMMA FreshGoesOn ==
    ASSUME TypeOK, Fresh, NEW t \in Tokens, NEW x, pc[t] # "off", x # "gated", pc' = At(pc, t, x),
           UNCHANGED round, written' \subseteq written \cup {Mine(t)}, Mine(t) \in written' => x = "off",
           \A s \in Search : ends'[s] # {} => ends[s] # {} \/ s = Mine(t)
    PROVE  Fresh'
<1>1. /\ \A u \in Tokens : pc'[u] = IF u = t THEN x ELSE pc[u]
      /\ \A u \in Tokens : round[u] \in Nat /\ Mine(u)' = Mine(u) /\ Mine(u).token = u /\ Mine(u).round = round[u]
      /\ \A s \in written \cup Search : s.token \in Tokens
  BY Labels, Commands DEF TypeOK, Mine
<1>2. \A s \in written' : s.round <= round'[s.token] /\ (s = Mine(s.token)' => pc'[s.token] = "off")
  BY <1>1 DEF Fresh
<1>3. ASSUME NEW s \in Search, ends'[s] # {}
      PROVE  s.round <= round'[s.token] /\ (s = Mine(s.token)' => pc'[s.token] # "gated")
  <2>1. CASE s = Mine(t)
    BY <1>1, <2>1
  <2>2. CASE s # Mine(t) /\ ends[s] # {}
    BY <1>1, <2>2 DEF Fresh
  <2> QED
    BY <1>3, <2>1, <2>2
<1>4. \A u \in Tokens : pc'[u] # "off" => round'[u] > 0
  BY <1>1 DEF Fresh
<1> QED
  BY <1>2, <1>3, <1>4 DEF Fresh

\* A search that is written or told of was dispatched.
LEMMA FreshStep == IInv /\ [Next]_vars => Fresh'
<1> SUFFICES ASSUME IInv, [Next]_vars PROVE Fresh'
  OBVIOUS
<1>1. ASSUME UNCHANGED <<written, ends, pc, round>> PROVE Fresh'
  BY <1>1 DEF IInv, Fresh, TypeOK, Mine
<1>2. CASE UNCHANGED vars
  BY <1>1, <1>2 DEF vars
<1>3. ASSUME NEW t \in Tokens, Dispatch(t) PROVE Fresh'
  <2>1. CASE TakeGate(t)
    <3>1. TypeOK /\ Fresh
      BY DEF IInv
    <3> QED
      BY <2>1, <3>1, FreshAdvances DEF TakeGate
  <2>2. CASE LoseGate(t)
    <3>1. TypeOK /\ Fresh
      BY DEF IInv
    <3> QED
      BY <2>2, <3>1, FreshAdvances DEF LoseGate
  <2>3. CASE Subscribe(t)
    <3>1. TypeOK /\ Fresh /\ Mine(t) \notin written /\ pc[t] # "off" /\ UNCHANGED <<round, written>>
      BY <2>3, Unwritten DEF IInv, Subscribe
    <3>2. \A s \in Search : ends'[s] # {} => ends[s] # {} \/ s = Mine(t)
      BY <2>3, <3>1, TellFacts DEF Subscribe
    <3>3. \E x \in {"off", "failed", "ready"} : pc' = At(pc, t, x)
      BY <2>3 DEF Subscribe
    <3> QED
      BY <3>1, <3>2, <3>3, FreshGoesOn
  <2>4. CASE AskPermit(t)
    <3>1. TypeOK /\ Fresh /\ Mine(t) \notin written /\ pc[t] # "off" /\ UNCHANGED <<round,
          written, ends>>
      BY <2>4, Unwritten DEF IInv, AskPermit
    <3>2. \E x \in {"fail", "permitted", "reject"} : pc' = At(pc, t, x)
      BY <2>4 DEF AskPermit
    <3> QED
      BY <3>1, <3>2, FreshGoesOn
  <2>5. CASE WriteGo(t)
    <3>1. TypeOK /\ Fresh /\ Mine(t) \notin written /\ pc[t] # "off" /\ UNCHANGED <<round, ends>>
      BY <2>5, Unwritten DEF IInv, WriteGo
    <3>2. \/ written' = written \cup {Mine(t)} /\ pc' = At(pc, t, "off")
          \/ written' = written /\ \E x \in {"broken", "ready"} : pc' = At(pc, t, x)
      BY <2>5 DEF WriteGo
    <3> QED
      BY <3>1, <3>2, FreshGoesOn
  <2>6. CASE WriteTimeout(t)
    <3>1. TypeOK /\ Fresh /\ Mine(t) \notin written /\ pc[t] # "off" /\ UNCHANGED <<round,
          written, ends>>
      BY <2>6, Unwritten DEF IInv, WriteTimeout
    <3>2. pc' = At(pc, t, "fail")
      BY <2>6 DEF WriteTimeout
    <3> QED
      BY <3>1, <3>2, FreshGoesOn
  <2>7. CASE Undo(t)
    <3>1. TypeOK /\ Fresh /\ Mine(t) \notin written /\ pc[t] # "off" /\ UNCHANGED <<round, written>>
      BY <2>7, Unwritten DEF IInv, Undo
    <3>2. \A s \in Search : ends'[s] # {} => ends[s] # {} \/ s = Mine(t)
      BY <2>7, <3>1, TellFacts DEF Undo
    <3>3. \E x \in {"off", "failed", "ready"} : pc' = At(pc, t, x)
      BY <2>7 DEF Undo
    <3> QED
      BY <3>1, <3>2, <3>3, FreshGoesOn
  <2>8. CASE RecordFailure(t)
    <3>1. TypeOK /\ Fresh /\ Mine(t) \notin written /\ pc[t] # "off" /\ UNCHANGED <<round, written>>
      BY <2>8, Unwritten DEF IInv, RecordFailure
    <3>2. \A s \in Search : ends'[s] # {} => ends[s] # {} \/ s = Mine(t)
      BY <2>8, <3>1, TellFacts DEF RecordFailure
    <3>3. \E x \in {"off", "failed", "ready"} : pc' = At(pc, t, x)
      BY <2>8 DEF RecordFailure
    <3> QED
      BY <3>1, <3>2, <3>3, FreshGoesOn
  <2> QED
    BY <1>3, <2>1, <2>2, <2>3, <2>4, <2>5, <2>6, <2>7, <2>8 DEF Dispatch
<1>4. CASE Reading
  <2>1. CASE Callback
    <3>1. TypeOK /\ Fresh /\ UNCHANGED <<round, pc, written>>
      BY <2>1 DEF IInv, Callback
    <3>2. call.of \in written /\ written \subseteq Search
      BY <2>1 DEF IInv, TypeOK, Calls, Calling, Callback
    <3>3. \A s \in Search : ends'[s] # {} => ends[s] # {} \/ s = call.of
      BY <2>1, <3>1, TellFacts DEF Callback
    <3> QED
      BY <3>1, <3>2, <3>3 DEF Fresh, Mine
  <2>2. CASE ExitCall
    <3>1. TypeOK /\ Fresh /\ UNCHANGED <<round, pc, written>>
      BY <2>2 DEF IInv, ExitCall
    <3>2. call.of # None => /\ call.of.round <= round[call.of.token]
                            /\ call.of = Mine(call.of.token) => pc[call.of.token] # "gated"
      BY <2>2 DEF IInv, Calls, Exiting, ExitCall
    <3>3. \A s \in Search : ends'[s] # {} => ends[s] # {} \/ (call.of # None /\ s = call.of)
      BY <2>2, <3>1, TellFacts DEF ExitCall
    <3> QED
      BY <3>1, <3>2, <3>3 DEF Fresh, Mine
  <2>3. CASE ReadLine \/ Eof
    BY <1>1, <2>3 DEF ReadLine, Eof
  <2> QED
    BY <1>4, <2>1, <2>2, <2>3 DEF Reading
<1>5. ASSUME NEW t \in Tokens, CloseWindow(t) \/ Expire(t) \/ StopWriter(t) \/ Watchdog(t) PROVE
      Fresh'
  BY <1>1, <1>5 DEF CloseWindow, Expire, StopWriter, StopCall, StopTake, StopCheck, StopSend,
        Watchdog, Kill, Killed, RecordKill
<1>6. CASE NextGeneration \/ Asking \/ EngineReads
  BY <1>1, <1>6 DEF NextGeneration, Barrier, Killed, Asking, AskGate, AskCheck, AskSend,
        AskReturn, AskFailed, AskKill, EngineReads
<1>7. CASE EngineSays \/ Quits \/ Crash
  BY <1>1, <1>7 DEF EngineSays, Quits, Dies, Crash
<1>8. CASE SignalArrives \/ CloseSteps
  BY <1>1, <1>8 DEF SignalArrives, Dies, CloseSteps, BeginClose, Barrier, Killed, SendQuit, AwaitEnd
<1> QED
  BY <1>2, <1>3, <1>4, <1>5, <1>6, <1>7, <1>8 DEF Next

\* A dispatcher keeps its subscription.
LEMMA HeldStep == IInv /\ [Next]_vars => Held'
<1> SUFFICES ASSUME IInv, [Next]_vars PROVE Held'
  OBVIOUS
<1>1. ASSUME UNCHANGED <<pc, round, search, proc>> PROVE Held'
  BY <1>1 DEF IInv, Held, TypeOK, Subscribed, At, Mine, Bound, Busy, Dead
<1>2. CASE UNCHANGED vars
  BY <1>1, <1>2 DEF vars
<1>3. ASSUME NEW t \in Tokens, Dispatch(t) PROVE Held'
  <2>1. CASE TakeGate(t)
    BY <2>1 DEF IInv, TypeOK, Held, Subscribed, At, Mine, Bound, Busy, Dead, TakeGate, MayStart
  <2>2. CASE LoseGate(t)
    BY <2>2 DEF IInv, TypeOK, Held, Subscribed, At, Mine, Bound, Busy, Dead, LoseGate, MayStart
  <2>3. CASE Subscribe(t)
    BY <2>3, Alone DEF IInv, TypeOK, Held, Subscribed, At, Mine, Bound, Busy, Dead, Subscribe
  <2>4. CASE AskPermit(t)
    BY <2>4 DEF IInv, TypeOK, Held, Subscribed, At, Mine, Bound, Busy, Dead, AskPermit
  <2>5. CASE WriteGo(t)
    BY <2>5 DEF IInv, TypeOK, Held, Subscribed, At, Mine, Bound, Busy, Dead, WriteGo
  <2>6. CASE WriteTimeout(t)
    BY <2>6 DEF IInv, TypeOK, Held, Subscribed, At, Mine, Bound, Busy, Dead, WriteTimeout, Killed
  <2>7. CASE Undo(t)
    <3>1. \A u \in Tokens : u # t => pc[u] \notin Busy
      BY <2>7, Alone DEF IInv, Undo, Busy
    <3>2. \A u \in Tokens : pc'[u] \notin Bound
      BY ZenonT(60), <2>7, <3>1 DEF IInv, TypeOK, Undo, At, Bound, Busy
    <3> QED
      BY <3>2 DEF Held
  <2>8. CASE RecordFailure(t)
    BY <2>8 DEF IInv, TypeOK, Held, Subscribed, At, Mine, Bound, Busy, Dead, RecordFailure
  <2> QED
    BY <1>3, <2>1, <2>2, <2>3, <2>4, <2>5, <2>6, <2>7, <2>8 DEF Dispatch
<1>4. ASSUME NEW t \in Tokens, StopWriter(t) PROVE Held'
  <2>1. CASE StopSend(t)
    BY <2>1, Commands, SendFacts DEF IInv, TypeOK, Held, Subscribed, At, Mine, Bound, Busy, Dead,
          StopSend
  <2>2. CASE StopCall(t) \/ StopTake(t) \/ StopCheck(t)
    BY <1>1, <2>2 DEF StopCall, StopTake, StopCheck
  <2> QED
    BY <1>4, <2>1, <2>2 DEF StopWriter
<1>5. ASSUME NEW t \in Tokens, Watchdog(t) PROVE Held'
  <2>1. CASE Kill(t)
    BY <2>1 DEF IInv, TypeOK, Held, Subscribed, At, Mine, Bound, Busy, Dead, Kill, Killed
  <2>2. CASE RecordKill(t)
    BY <1>1, <2>2 DEF RecordKill
  <2> QED
    BY <1>5, <2>1, <2>2 DEF Watchdog
<1>6. CASE NextGeneration
  BY <1>6 DEF IInv, TypeOK, Held, Subscribed, At, Mine, Bound, Busy, Dead, NextGeneration,
        Barrier, Killed
<1>7. CASE Asking
  <2>1. CASE AskSend
    BY <2>1, Commands, SendFacts DEF IInv, TypeOK, Held, Subscribed, At, Mine, Bound, Busy, Dead,
          AskSend
  <2>2. CASE AskKill
    BY <2>2 DEF IInv, TypeOK, Held, Subscribed, At, Mine, Bound, Busy, Dead, AskKill, Killed
  <2>3. CASE AskGate \/ AskCheck \/ AskReturn \/ AskFailed
    BY <1>1, <2>3 DEF AskGate, AskCheck, AskReturn, AskFailed
  <2> QED
    BY <1>7, <2>1, <2>2, <2>3 DEF Asking
<1>8. CASE Quits
  BY <1>8 DEF IInv, TypeOK, Held, Subscribed, At, Mine, Bound, Busy, Dead, Quits, Dies
<1>9. CASE Crash
  BY <1>9 DEF IInv, TypeOK, Held, Subscribed, At, Mine, Bound, Busy, Dead, Crash, Dies
<1>10. CASE SignalArrives
  BY <1>10 DEF IInv, TypeOK, Held, Subscribed, At, Mine, Bound, Busy, Dead, SignalArrives, Dies
<1>11. CASE Reading
  <2>1. CASE ReadLine
    BY <2>1, ReadFacts, Unwritten DEF IInv, TypeOK, Held, Subscribed, At, Mine, Bound, Busy, Dead,
          ReadLine
  <2>2. CASE Eof
    BY <2>2 DEF IInv, TypeOK, Held, Subscribed, At, Mine, Bound, Busy, Dead, Eof
  <2>3. CASE Callback \/ ExitCall
    BY <1>1, <2>3 DEF Callback, ExitCall
  <2> QED
    BY <1>11, <2>1, <2>2, <2>3 DEF Reading
<1>12. CASE CloseSteps
  <2>1. CASE BeginClose
    BY <2>1 DEF IInv, TypeOK, Held, Subscribed, At, Mine, Bound, Busy, Dead, BeginClose, Barrier,
          Killed
  <2>2. CASE SendQuit
    BY <2>2, Commands, SendFacts DEF IInv, TypeOK, Held, Subscribed, At, Mine, Bound, Busy, Dead,
          SendQuit
  <2>3. CASE AwaitEnd
    BY <2>3 DEF IInv, TypeOK, Held, Subscribed, At, Mine, Bound, Busy, Dead, AwaitEnd
  <2> QED
    BY <1>12, <2>1, <2>2, <2>3 DEF CloseSteps
<1>13. ASSUME NEW t \in Tokens, CloseWindow(t) \/ Expire(t) PROVE Held'
  BY <1>1, <1>13 DEF CloseWindow, Expire
<1>14. CASE EngineReads \/ EngineSays
  BY <1>1, <1>14 DEF EngineReads, EngineSays
<1> QED
  BY <1>2, <1>3, <1>4, <1>5, <1>6, <1>7, <1>8, <1>9, <1>10, <1>11, <1>12, <1>13, <1>14 DEF Next

\* A stop that is about to be sent concerns the search.
LEMMA StoppingStep == IInv /\ [Next]_vars => Stopping'
<1> SUFFICES ASSUME IInv, [Next]_vars PROVE Stopping'
  OBVIOUS
<1>1. ASSUME UNCHANGED <<spc, search>> PROVE Stopping'
  BY <1>1 DEF IInv, Stopping, TypeOK, Subscribed, At, Busy
<1>2. CASE UNCHANGED vars
  BY <1>1, <1>2 DEF vars
<1>3. ASSUME NEW t \in Tokens, Dispatch(t) PROVE Stopping'
  <2>1. CASE Subscribe(t)
    BY <2>1, Alone DEF IInv, TypeOK, Stopping, Subscribed, At, Busy, Subscribe
  <2>2. CASE Undo(t)
    BY <2>2, Alone DEF IInv, TypeOK, Stopping, Subscribed, At, Busy, Undo
  <2>3. CASE TakeGate(t) \/ LoseGate(t) \/ AskPermit(t) \/ WriteGo(t) \/ WriteTimeout(t) \/
        RecordFailure(t)
    BY <1>1, <2>3 DEF TakeGate, MayStart, LoseGate, AskPermit, WriteGo, WriteTimeout, Killed,
          RecordFailure
  <2> QED
    BY <1>3, <2>1, <2>2, <2>3 DEF Dispatch
<1>4. ASSUME NEW t \in Tokens, StopWriter(t) PROVE Stopping'
  <2>1. CASE StopCall(t)
    BY <2>1 DEF IInv, TypeOK, Stopping, Subscribed, At, Busy, StopCall
  <2>2. CASE StopTake(t)
    BY <2>2 DEF IInv, TypeOK, Stopping, Subscribed, At, Busy, StopTake
  <2>3. CASE StopCheck(t)
    BY <2>3 DEF IInv, TypeOK, Stopping, Subscribed, At, Busy, StopCheck
  <2>4. CASE StopSend(t)
    BY <2>4 DEF IInv, TypeOK, Stopping, Subscribed, At, Busy, StopSend
  <2> QED
    BY <1>4, <2>1, <2>2, <2>3, <2>4 DEF StopWriter
<1>5. CASE Reading
  <2>1. CASE ReadLine
    BY <2>1 DEF IInv, TypeOK, Stopping, Subscribed, At, Busy, ReadLine
  <2>2. CASE Eof
    BY <2>2 DEF IInv, TypeOK, Stopping, Subscribed, At, Busy, Eof
  <2>3. CASE Callback \/ ExitCall
    BY <1>1, <2>3 DEF Callback, ExitCall
  <2> QED
    BY <1>5, <2>1, <2>2, <2>3 DEF Reading
<1>6. ASSUME NEW t \in Tokens, CloseWindow(t) \/ Expire(t) \/ Watchdog(t) PROVE Stopping'
  BY <1>1, <1>6 DEF CloseWindow, Expire, Watchdog, Kill, Killed, RecordKill
<1>7. CASE NextGeneration \/ Asking \/ EngineReads
  BY <1>1, <1>7 DEF NextGeneration, Barrier, Killed, Asking, AskGate, AskCheck, AskSend,
        AskReturn, AskFailed, AskKill, EngineReads
<1>8. CASE EngineSays \/ Quits \/ Crash
  BY <1>1, <1>8 DEF EngineSays, Quits, Dies, Crash
<1>9. CASE SignalArrives \/ CloseSteps
  BY <1>1, <1>9 DEF SignalArrives, Dies, CloseSteps, BeginClose, Barrier, Killed, SendQuit, AwaitEnd
<1> QED
  BY <1>2, <1>3, <1>4, <1>5, <1>6, <1>7, <1>8, <1>9 DEF Next

\* No search begins while a perft is asked.
LEMMA IdleStep == IInv /\ [Next]_vars => Idle'
<1> SUFFICES ASSUME IInv, [Next]_vars PROVE Idle'
  OBVIOUS
<1>1. ASSUME UNCHANGED <<ipc, search>> PROVE Idle'
  BY <1>1 DEF IInv, Idle, TypeOK, Subscribed, Busy
<1>2. CASE UNCHANGED vars
  BY <1>1, <1>2 DEF vars
<1>3. ASSUME NEW t \in Tokens, Dispatch(t) PROVE Idle'
  <2>1. CASE Subscribe(t)
    BY <2>1, Alone DEF IInv, TypeOK, Idle, Subscribed, Busy, Subscribe
  <2>2. CASE Undo(t)
    BY <2>2, Alone DEF IInv, TypeOK, Idle, Subscribed, Busy, Undo
  <2>3. CASE TakeGate(t) \/ LoseGate(t) \/ AskPermit(t) \/ WriteGo(t) \/ WriteTimeout(t) \/
        RecordFailure(t)
    BY <1>1, <2>3 DEF TakeGate, MayStart, LoseGate, AskPermit, WriteGo, WriteTimeout, Killed,
          RecordFailure
  <2> QED
    BY <1>3, <2>1, <2>2, <2>3 DEF Dispatch
<1>4. CASE Asking
  <2>1. CASE AskGate
    BY <2>1 DEF IInv, TypeOK, Idle, Subscribed, Busy, AskGate
  <2>2. CASE AskCheck
    BY <2>2 DEF IInv, TypeOK, Idle, Subscribed, Busy, AskCheck
  <2>3. CASE AskSend
    BY <2>3 DEF IInv, TypeOK, Idle, Subscribed, Busy, AskSend
  <2>4. CASE AskReturn
    BY <2>4 DEF IInv, TypeOK, Idle, Subscribed, Busy, AskReturn
  <2>5. CASE AskFailed
    BY <2>5 DEF IInv, TypeOK, Idle, Subscribed, Busy, AskFailed
  <2>6. CASE AskKill
    BY <2>6 DEF IInv, TypeOK, Idle, Subscribed, Busy, AskKill, Killed
  <2> QED
    BY <1>4, <2>1, <2>2, <2>3, <2>4, <2>5, <2>6 DEF Asking
<1>5. CASE Reading
  <2>1. CASE ReadLine
    BY <2>1 DEF IInv, TypeOK, Idle, Subscribed, Busy, ReadLine
  <2>2. CASE Eof
    BY <2>2 DEF IInv, TypeOK, Idle, Subscribed, Busy, Eof
  <2>3. CASE Callback \/ ExitCall
    BY <1>1, <2>3 DEF Callback, ExitCall
  <2> QED
    BY <1>5, <2>1, <2>2, <2>3 DEF Reading
<1>6. ASSUME NEW t \in Tokens, CloseWindow(t) \/ Expire(t) \/ StopWriter(t) \/ Watchdog(t) PROVE
      Idle'
  BY <1>1, <1>6 DEF CloseWindow, Expire, StopWriter, StopCall, StopTake, StopCheck, StopSend,
        Watchdog, Kill, Killed, RecordKill
<1>7. CASE NextGeneration \/ EngineReads \/ EngineSays
  BY <1>1, <1>7 DEF NextGeneration, Barrier, Killed, EngineReads, EngineSays
<1>8. CASE Quits \/ Crash \/ SignalArrives
  BY <1>1, <1>8 DEF Quits, Dies, Crash, SignalArrives
<1>9. CASE CloseSteps
  BY <1>1, <1>9 DEF CloseSteps, BeginClose, Barrier, Killed, SendQuit, AwaitEnd
<1> QED
  BY <1>2, <1>3, <1>4, <1>5, <1>6, <1>7, <1>8, <1>9 DEF Next

\* The subscribed search is known.
LEMMA KnownStep == IInv /\ [Next]_vars => Known'
<1> SUFFICES ASSUME IInv, [Next]_vars PROVE Known'
  OBVIOUS
<1>1. ASSUME UNCHANGED <<search, written, pc, round>> PROVE Known'
  BY <1>1 DEF IInv, Known, TypeOK, Subscribed, At, Mine, Bound, Busy
<1>2. CASE UNCHANGED vars
  BY <1>1, <1>2 DEF vars
<1>3. ASSUME NEW t \in Tokens, Dispatch(t) PROVE Known'
  <2>1. CASE TakeGate(t)
    BY <2>1 DEF IInv, TypeOK, Known, Subscribed, At, Mine, Bound, Busy, TakeGate, MayStart
  <2>2. CASE LoseGate(t)
    BY <2>2 DEF IInv, TypeOK, Known, Subscribed, At, Mine, Bound, Busy, LoseGate, MayStart
  <2>3. CASE Subscribe(t)
    <3>1. TypeOK /\ Known /\ Mine(t).token = t
      BY <2>3, Unwritten DEF IInv, Subscribed, Subscribe
    <3>2. Mine(t)' = Mine(t) /\ UNCHANGED <<round, written>>
      BY <2>3 DEF Subscribe, Mine
    <3>3. CASE search' = Mine(t) /\ pc' = At(pc, t, "ready")
      BY <3>1, <3>2, <3>3, Labels DEF Known, Bound, Busy
    <3>4. CASE UNCHANGED search /\ (pc' = At(pc, t, "failed") \/ pc' = At(pc, t, "off"))
      <4>1. search # None => search \in written \/ (pc'[search.token] = pc[search.token] /\
            Mine(search.token)' = Mine(search.token))
        BY <2>3, <3>1, <3>2, <3>4, Labels, Commands DEF Known, Bound, Busy, Subscribe, Mine, TypeOK
      <4> QED
        BY <3>1, <3>2, <3>4, <4>1 DEF Known
    <3> QED
      BY <2>3, <3>3, <3>4 DEF Subscribe
  <2>4. CASE AskPermit(t)
    BY <2>4 DEF IInv, TypeOK, Known, Subscribed, At, Mine, Bound, Busy, AskPermit
  <2>5. CASE WriteGo(t)
    <3>1. TypeOK /\ Known /\ UNCHANGED <<search, round>>
      BY <2>5 DEF IInv, Subscribed, WriteGo
    <3>2. CASE written' = written \cup {Mine(t)} /\ pc' = At(pc, t, "off")
      BY <3>1, <3>2, Labels, Commands DEF Known, Bound, Busy, Mine, TypeOK
    <3>3. CASE UNCHANGED written /\ (pc' = At(pc, t, "broken") \/ pc' = At(pc, t, "ready"))
      BY <3>1, <3>3, Labels, Commands DEF Known, Bound, Busy, Mine, TypeOK
    <3> QED
      BY <2>5, <3>2, <3>3 DEF WriteGo
  <2>6. CASE WriteTimeout(t)
    BY <2>6 DEF IInv, TypeOK, Known, Subscribed, At, Mine, Bound, Busy, WriteTimeout, Killed
  <2>7. CASE Undo(t)
    <3>1. TypeOK /\ Known /\ UNCHANGED <<written, round>> /\ (search' = IF search.token = t THEN
          None ELSE search)
      BY <2>7 DEF IInv, Subscribed, Undo
    <3>2. \A u \in Tokens : u # t => pc'[u] = pc[u]
      BY <2>7, <3>1, Labels DEF Undo
    <3> QED
      BY <3>1, <3>2, Commands DEF Known, Mine, TypeOK
  <2>8. CASE RecordFailure(t)
    BY <2>8 DEF IInv, TypeOK, Known, Subscribed, At, Mine, Bound, Busy, RecordFailure
  <2> QED
    BY <1>3, <2>1, <2>2, <2>3, <2>4, <2>5, <2>6, <2>7, <2>8 DEF Dispatch
<1>4. CASE Reading
  <2>1. CASE ReadLine
    BY <2>1 DEF IInv, TypeOK, Known, Subscribed, At, Mine, Bound, Busy, ReadLine
  <2>2. CASE Eof
    BY <2>2 DEF IInv, TypeOK, Known, Subscribed, At, Mine, Bound, Busy, Eof
  <2>3. CASE Callback \/ ExitCall
    BY <1>1, <2>3 DEF Callback, ExitCall
  <2> QED
    BY <1>4, <2>1, <2>2, <2>3 DEF Reading
<1>5. ASSUME NEW t \in Tokens, CloseWindow(t) \/ Expire(t) \/ StopWriter(t) \/ Watchdog(t) PROVE
      Known'
  BY <1>1, <1>5 DEF CloseWindow, Expire, StopWriter, StopCall, StopTake, StopCheck, StopSend,
        Watchdog, Kill, Killed, RecordKill
<1>6. CASE NextGeneration \/ Asking \/ EngineReads
  BY <1>1, <1>6 DEF NextGeneration, Barrier, Killed, Asking, AskGate, AskCheck, AskSend,
        AskReturn, AskFailed, AskKill, EngineReads
<1>7. CASE EngineSays \/ Quits \/ Crash
  BY <1>1, <1>7 DEF EngineSays, Quits, Dies, Crash
<1>8. CASE SignalArrives \/ CloseSteps
  BY <1>1, <1>8 DEF SignalArrives, Dies, CloseSteps, BeginClose, Barrier, Killed, SendQuit, AwaitEnd
<1> QED
  BY <1>2, <1>3, <1>4, <1>5, <1>6, <1>7, <1>8 DEF Next

\* Nothing was told of the subscribed search.
LEMMA UntoldStep == IInv /\ [Next]_vars => Untold'
<1> SUFFICES ASSUME IInv, [Next]_vars PROVE Untold'
  OBVIOUS
<1>1. ASSUME UNCHANGED <<search, ends>> PROVE Untold'
  BY <1>1 DEF IInv, Untold, TypeOK, Subscribed
<1>2. CASE UNCHANGED vars
  BY <1>1, <1>2 DEF vars
<1>3. ASSUME NEW t \in Tokens, Dispatch(t) PROVE Untold'
  <2>1. CASE Subscribe(t)
    <3>1. TypeOK /\ Untold /\ Mine(t) # None /\ ends[Mine(t)] = {} /\ search \in Search \cup {None}
      BY <2>1, Unwritten, Commands DEF IInv, TypeOK, Subscribed, Subscribe
    <3>2. CASE search' = Mine(t) /\ UNCHANGED ends
      BY <3>1, <3>2 DEF Untold
    <3>3. CASE search' = search /\ UNCHANGED ends
      BY <3>1, <3>3 DEF Untold
    <3>4. CASE search' = search /\ Tell(Mine(t), "rejected") /\ gate' = Free
      <4>1. search # Mine(t)
        BY <2>1, <3>1, Unwritten, OwnSearch DEF IInv, Subscribed, Known, Bound, Busy, Subscribe
      <4> QED
        BY <3>1, <3>4, <4>1, TellFacts DEF Untold
    <3> QED
      BY <2>1, <3>2, <3>3, <3>4 DEF Subscribe
  <2>2. CASE Undo(t)
    <3>1. TypeOK /\ Untold /\ Mine(t).token = t /\ search \in Search \cup {None}
      BY <2>2, Unwritten DEF IInv, TypeOK, Subscribed, Undo
    <3>2. search' = (IF search.token = t THEN None ELSE search)
          /\ (Tell(Mine(t), "rejected") \/ Tell(Mine(t), "escaped") \/ UNCHANGED ends)
      BY <2>2 DEF Undo
    <3> QED
      BY <3>1, <3>2, TellFacts DEF Untold
  <2>3. CASE RecordFailure(t)
    <3>1. TypeOK /\ Untold /\ Mine(t).token = t /\ Mine(t) \notin written /\ search \in Search
          \cup {None} /\ Known
      BY <2>3, Unwritten DEF IInv, TypeOK, Subscribed, RecordFailure
    <3>3. search # Mine(t) \/ search = None
      BY <2>3, <3>1 DEF Known, Bound, Busy, RecordFailure
    <3>2. UNCHANGED search /\ Tell(Mine(t), "failed")
      BY <2>3 DEF RecordFailure
    <3> QED
      BY <3>1, <3>2, <3>3, TellFacts DEF Untold
  <2>4. CASE TakeGate(t) \/ LoseGate(t) \/ AskPermit(t) \/ WriteGo(t) \/ WriteTimeout(t)
    BY <1>1, <2>4 DEF TakeGate, MayStart, LoseGate, AskPermit, WriteGo, WriteTimeout, Killed
  <2> QED
    BY <1>3, <2>1, <2>2, <2>3, <2>4 DEF Dispatch
<1>4. CASE Reading
  <2>1. CASE ReadLine
    BY <2>1 DEF IInv, TypeOK, Untold, Subscribed, ReadLine
  <2>2. CASE Callback
    <3>1. TypeOK /\ Untold /\ search \in Search \cup {None} /\ (call.is = "bestmove" => search #
          call.of)
      BY <2>2 DEF IInv, TypeOK, Subscribed, Calls, Calling, Callback
    <3>2. UNCHANGED search /\ (UNCHANGED ends \/ (call.is = "bestmove" /\ Tell(call.of,
          "complete")))
      BY <2>2 DEF Callback
    <3> QED
      BY <3>1, <3>2, TellFacts DEF Untold
  <2>3. CASE Eof
    BY <2>3 DEF IInv, TypeOK, Untold, Subscribed, Eof
  <2>4. CASE ExitCall
    <3>1. TypeOK /\ Untold /\ search \in Search \cup {None} /\ (call.of # None => search # call.of)
      BY <2>4 DEF IInv, TypeOK, Subscribed, Calls, Exiting, ExitCall
    <3>2. UNCHANGED search /\ (UNCHANGED ends \/ (call.of # None /\ Tell(call.of, "exit")))
      BY <2>4 DEF ExitCall
    <3> QED
      BY <3>1, <3>2, TellFacts DEF Untold
  <2> QED
    BY <1>4, <2>1, <2>2, <2>3, <2>4 DEF Reading
<1>5. ASSUME NEW t \in Tokens, CloseWindow(t) \/ Expire(t) \/ StopWriter(t) \/ Watchdog(t) PROVE
      Untold'
  BY <1>1, <1>5 DEF CloseWindow, Expire, StopWriter, StopCall, StopTake, StopCheck, StopSend,
        Watchdog, Kill, Killed, RecordKill
<1>6. CASE NextGeneration \/ Asking \/ EngineReads
  BY <1>1, <1>6 DEF NextGeneration, Barrier, Killed, Asking, AskGate, AskCheck, AskSend,
        AskReturn, AskFailed, AskKill, EngineReads
<1>7. CASE EngineSays \/ Quits \/ Crash
  BY <1>1, <1>7 DEF EngineSays, Quits, Dies, Crash
<1>8. CASE SignalArrives \/ CloseSteps
  BY <1>1, <1>8 DEF SignalArrives, Dies, CloseSteps, BeginClose, Barrier, Killed, SendQuit, AwaitEnd
<1> QED
  BY <1>2, <1>3, <1>4, <1>5, <1>6, <1>7, <1>8 DEF Next

\* Nothing is under way for a search that is not written.
LEMMA NothingUnderWay ==
    ASSUME TypeOK, Pipes, search = None \/ search \notin written
    PROVE  /\ \A i \in 1 .. Len(stdin) : stdin[i].do # "go"
           /\ engine = None
           /\ \A k \in 1 .. Len(stdout) : stdout[k].is = "total"
<1>1. /\ \A i \in 1 .. Len(stdin) : stdin[i] \in Command
      /\ \A k \in 1 .. Len(stdout) : stdout[k] \in Line
      /\ written \subseteq Search
  BY DEF TypeOK
<1> QED
  BY <1>1, Commands DEF Pipes, Command1, Engine1, Line1

\* A command that is not a go leaves the go commands where they are.
LEMMA OtherCommand ==
    ASSUME TypeOK, Command1, NEW c \in Command, c.do # "go", Send(c),
           UNCHANGED <<search, written, engine, stdout>>
    PROVE  Command1'
<1>1. stdin \in Seq(Command) /\ stdin' \in Seq(Command) /\ (stdin' = stdin \/ Grown(stdin, stdin', c))
  BY SendFacts DEF TypeOK
<1>2. CASE stdin' = stdin
  BY <1>2 DEF Command1
<1>3. CASE Grown(stdin, stdin', c)
  <2>1. \A i \in 1 .. Len(stdin') : stdin'[i].do = "go" => i \in 1 .. Len(stdin) /\ stdin'[i] = stdin[i]
    BY <1>1, <1>3 DEF Grown
  <2> QED
    BY <1>1, <2>1 DEF Command1
<1> QED
  BY <1>1, <1>2, <1>3

\* What the engine reads, and what it then does.
LEMMA EngineFacts ==
    ASSUME TypeOK, EngineReads
    PROVE  /\ stdin \in Seq(Command) /\ stdin' \in Seq(Command) /\ stdin[1] \in Command
           /\ Len(stdin) >= 1 /\ Len(stdin') = Len(stdin) - 1
           /\ \A i \in 1 .. Len(stdin') : stdin'[i] = stdin[i + 1]
           /\ UNCHANGED <<search, written>>
           /\ \/ stdin[1].do = "go" /\ engine' = stdin[1].of /\ UNCHANGED stdout
              \/ stdin[1].do = "stop" /\ engine # None /\ Answer("bestmove", engine) /\ engine' = None
              \/ stdin[1].do = "stop" /\ engine = None /\ UNCHANGED <<stdout, engine>>
              \/ stdin[1].do = "perft" /\ Answer("total", None) /\ UNCHANGED engine
BY Shrinks DEF TypeOK, EngineReads, Shrunk

\* A line is added to those that are unread.
LEMMA AnswerFacts ==
    ASSUME TypeOK, NEW is, NEW s, [is |-> is, of |-> s] \in Line, Answer(is, s)
    PROVE  /\ stdout \in Seq(Line) /\ stdout' \in Seq(Line) /\ Len(stdout) \in Nat
           /\ Grown(stdout, stdout', [is |-> is, of |-> s])
BY Grows DEF TypeOK, Answer

\* The command to search is for the one search.
LEMMA Command1Step == IInv /\ [Next]_vars => Command1'
<1> SUFFICES ASSUME IInv, [Next]_vars PROVE Command1'
  OBVIOUS
<1>1. ASSUME UNCHANGED <<stdin, search, written, engine, stdout>> PROVE Command1'
  BY <1>1 DEF IInv, Command1, TypeOK, Pipes
<1>2. CASE UNCHANGED vars
  BY <1>1, <1>2 DEF vars
<1>3. ASSUME NEW t \in Tokens, Dispatch(t) PROVE Command1'
  <2>1. CASE Subscribe(t)
    <3>1. TypeOK /\ Pipes /\ Command1 /\ UNCHANGED <<stdin, engine, stdout, written>>
      BY <2>1 DEF IInv, Pipes, Subscribe
    <3>2. CASE UNCHANGED search
      BY <3>1, <3>2 DEF Command1
    <3>3. CASE search = None
      BY <3>1, <3>3, NothingUnderWay DEF Command1
    <3> QED
      BY <2>1, <3>2, <3>3 DEF Subscribe
  <2>2. CASE WriteGo(t)
    <3>1. TypeOK /\ Pipes /\ Command1 /\ UNCHANGED <<search, engine, stdout>> /\ Mine(t) \in Search
      BY <2>2, Unwritten DEF IInv, Pipes, WriteGo
    <3>2. CASE UNCHANGED <<stdin, written>>
      BY <3>1, <3>2 DEF Command1
    <3>3. CASE ~Dead /\ stdin' = Append(stdin, Go(Mine(t))) /\ written' = written \cup {Mine(t)}
      <4>1. search = Mine(t) /\ search \notin written
        BY <2>2, <3>3, Unwritten DEF IInv, Subscribed, Held, Bound, Busy, WriteGo
      <4>2. Go(Mine(t)) \in Command /\ Go(Mine(t)).do = "go" /\ Go(Mine(t)).of = Mine(t)
        BY <3>1, Commands DEF Go
      <4>3. stdin \in Seq(Command) /\ Grown(stdin, stdin', Go(Mine(t)))
        BY <3>1, <3>3, <4>2, Grows DEF TypeOK
      <4> QED
        BY <3>1, <3>3, <4>1, <4>2, <4>3, NothingUnderWay DEF Command1, Grown
    <3> QED
      BY <2>2, <3>2, <3>3 DEF WriteGo
  <2>3. CASE Undo(t)
    <3>1. TypeOK /\ Pipes /\ Command1 /\ UNCHANGED <<stdin, engine, stdout, written>>
      BY <2>3 DEF IInv, Pipes, Undo
    <3>2. CASE UNCHANGED search
      BY <3>1, <3>2 DEF Command1
    <3>3. CASE search.token = t
      <4>1. search = None \/ search \notin written
        BY <2>3, <3>3, Unwritten, Labels DEF IInv, Subscribed, Held, Bound, Busy, Undo
      <4> QED
        BY <3>1, <4>1, NothingUnderWay DEF Command1
    <3> QED
      BY <2>3, <3>2, <3>3 DEF Undo
  <2>4. CASE TakeGate(t) \/ LoseGate(t) \/ AskPermit(t) \/ WriteTimeout(t) \/ RecordFailure(t)
    BY <1>1, <2>4 DEF TakeGate, MayStart, LoseGate, AskPermit, WriteTimeout, Killed, RecordFailure
  <2> QED
    BY <1>3, <2>1, <2>2, <2>3, <2>4 DEF Dispatch
<1>4. ASSUME NEW t \in Tokens, StopWriter(t) PROVE Command1'
  <2>1. CASE StopSend(t)
    <3>1. TypeOK /\ Command1 /\ Send(Stop(t)) /\ UNCHANGED <<search, written, engine, stdout>>
      BY <2>1 DEF IInv, Pipes, StopSend
    <3>2. Stop(t) \in Command /\ Stop(t).do # "go"
      BY Commands DEF Stop, Perft, Quit
    <3> QED
      BY <3>1, <3>2, OtherCommand
  <2>2. CASE StopCall(t) \/ StopTake(t) \/ StopCheck(t)
    BY <1>1, <2>2 DEF StopCall, StopTake, StopCheck
  <2> QED
    BY <1>4, <2>1, <2>2 DEF StopWriter
<1>5. CASE Asking
  <2>1. CASE AskSend
    <3>1. TypeOK /\ Command1 /\ Send(Perft) /\ UNCHANGED <<search, written, engine, stdout>>
      BY <2>1 DEF IInv, Pipes, AskSend
    <3>2. Perft \in Command /\ Perft.do # "go"
      BY Commands DEF Stop, Perft, Quit
    <3> QED
      BY <3>1, <3>2, OtherCommand
  <2>2. CASE AskGate \/ AskCheck \/ AskReturn \/ AskFailed \/ AskKill
    BY <1>1, <2>2 DEF AskGate, AskCheck, AskReturn, AskFailed, AskKill, Killed
  <2> QED
    BY <1>5, <2>1, <2>2 DEF Asking
<1>6. CASE EngineReads
  <2>1. TypeOK /\ Pipes /\ EngineReads
    BY <1>6 DEF IInv
  <2>2. CASE stdin[1].do = "go" /\ engine' = stdin[1].of /\ UNCHANGED stdout
    BY SMTT(60), <2>1, <2>2, EngineFacts DEF Pipes, Command1, Engine1, Line1
  <2>3. CASE stdin[1].do = "stop" /\ engine # None /\ Answer("bestmove", engine) /\ engine' = None
    <3>1. [is |-> "bestmove", of |-> engine] \in Line /\ engine = search /\ engine \in written
      BY <2>1, <2>3, Lines DEF TypeOK, Pipes, Engine1
    <3>2. Len(stdout) \in Nat /\ Grown(stdout, stdout', [is |-> "bestmove", of |-> engine])
      BY <2>1, <2>3, <3>1, AnswerFacts
    <3>3. \A i \in 1 .. Len(stdin') : stdin'[i].do # "go"
      BY <2>1, <2>3, EngineFacts DEF Pipes, Command1
    <3>4. \A k \in 1 .. Len(stdout') :
               (k = Len(stdout) + 1 /\ stdout'[k].is = "bestmove" /\ stdout'[k].of = engine) \/ (k
                     <= Len(stdout) /\ stdout'[k] = stdout[k])
      BY <3>2 DEF Grown
    <3> QED
      BY <2>1, <2>3, <3>1, <3>2, <3>3, <3>4, EngineFacts DEF Pipes, Command1, Engine1, Line1
  <2>4. CASE stdin[1].do = "stop" /\ engine = None /\ UNCHANGED <<stdout, engine>>
    BY SMTT(60), <2>1, <2>4, EngineFacts DEF Pipes, Command1, Engine1, Line1
  <2>5. CASE stdin[1].do = "perft" /\ Answer("total", None) /\ UNCHANGED engine
    <3>1. Len(stdout) \in Nat /\ Grown(stdout, stdout', [is |-> "total", of |-> None])
      BY <2>1, <2>5, Lines, AnswerFacts
    <3>2. \A k \in 1 .. Len(stdout') : stdout'[k].is = "total" \/ (k <= Len(stdout) /\ stdout'[k]
          = stdout[k])
      BY <3>1 DEF Grown
    <3>3. /\ UNCHANGED <<search, written>>
          /\ \A i \in 1 .. Len(stdin') : i + 1 \in 1 .. Len(stdin) /\ stdin'[i] = stdin[i + 1]
      BY <2>1, EngineFacts
    <3>4. Command1 /\ Engine1 /\ Line1
      BY <2>1 DEF Pipes
    <3>5. ASSUME NEW i \in 1 .. Len(stdin'), stdin'[i].do = "go"
           PROVE  /\ stdin'[i].of = search /\ search \in written /\ engine = None
                  /\ \A j \in 1 .. Len(stdin') : stdin'[j].do = "go" => j = i
                  /\ \A k \in 1 .. Len(stdout') : stdout'[k].is = "total"
      <4>1. i + 1 \in 1 .. Len(stdin) /\ stdin[i + 1].do = "go" /\ stdin'[i].of = stdin[i + 1].of
        BY <3>3, <3>5
      <4>2. \A j \in 1 .. Len(stdin) : stdin[j].do = "go" => j = i + 1
        BY <4>1, <3>4 DEF Command1
      <4>3. \A j \in 1 .. Len(stdin') : stdin'[j].do = "go" => j = i
        BY <4>2, <3>3
      <4> QED
        BY SMTT(60), <4>1, <4>3, <3>1, <3>2, <3>4 DEF Command1
    <3> QED
      BY <2>5, <3>3, <3>4, <3>5, <3>1, <3>2 DEF Command1
  <2> QED
    BY <2>1, <2>2, <2>3, <2>4, <2>5, EngineFacts
<1>7. CASE EngineSays
  <2>1. TypeOK /\ Pipes /\ engine # None /\ engine \in Search /\ UNCHANGED <<stdin, search,
        written>>
    BY <1>7 DEF IInv, TypeOK, EngineSays
  <2>2. CASE Answer("info", engine) /\ UNCHANGED engine
    <3>1. Len(stdout) \in Nat /\ Grown(stdout, stdout', [is |-> "info", of |-> engine])
      BY <2>1, <2>2, Lines, AnswerFacts
    <3>2. /\ engine = search /\ engine \in written
          /\ \A k \in 1 .. Len(stdout) : stdout[k].is # "bestmove"
          /\ \A i \in 1 .. Len(stdin) : stdin[i].do # "go"
      BY <2>1 DEF Pipes, Command1, Engine1
    <3>3. \A k \in 1 .. Len(stdout') :
               (k = Len(stdout) + 1 /\ stdout'[k].is = "info" /\ stdout'[k].of = engine) \/ (k <=
                     Len(stdout) /\ stdout'[k] = stdout[k])
      BY <3>1 DEF Grown
    <3> QED
      BY <2>1, <2>2, <3>1, <3>2, <3>3 DEF Pipes, Command1, Engine1, Line1, Grown
  <2>3. CASE Answer("bestmove", engine) /\ engine' = None
    <3>1. Len(stdout) \in Nat /\ Grown(stdout, stdout', [is |-> "bestmove", of |-> engine])
      BY <2>1, <2>3, Lines, AnswerFacts
    <3>2. /\ engine = search /\ engine \in written
          /\ \A k \in 1 .. Len(stdout) : stdout[k].is # "bestmove"
          /\ \A i \in 1 .. Len(stdin) : stdin[i].do # "go"
      BY <2>1 DEF Pipes, Command1, Engine1
    <3>3. \A k \in 1 .. Len(stdout') :
               (k = Len(stdout) + 1 /\ stdout'[k].is = "bestmove" /\ stdout'[k].of = engine) \/ (k
                     <= Len(stdout) /\ stdout'[k] = stdout[k])
      BY <3>1 DEF Grown
    <3> QED
      BY <2>1, <2>3, <3>1, <3>2, <3>3 DEF Pipes, Command1, Engine1, Line1, Grown
  <2> QED
    BY <1>7, <2>2, <2>3 DEF EngineSays
<1>8. CASE Quits
  BY <1>8 DEF IInv, TypeOK, Command1, Pipes, Quits, Dies
<1>9. CASE Crash
  BY <1>9 DEF IInv, TypeOK, Command1, Pipes, Crash, Dies
<1>10. CASE SignalArrives
  BY <1>10 DEF IInv, TypeOK, Command1, Pipes, SignalArrives, Dies
<1>11. CASE Reading
  <2>1. CASE ReadLine
    <3>1. TypeOK /\ Pipes /\ UNCHANGED <<stdin, engine, written>> /\ ReadLine
      BY <2>1 DEF IInv, ReadLine
    <3>4. /\ Len(stdout) \in Nat \ {0} /\ Len(stdout') = Len(stdout) - 1
          /\ \A k \in 1 .. Len(stdout') : stdout'[k] = stdout[k + 1] /\ k + 1 \in 1 .. Len(stdout)
      BY <3>1, ReadFacts DEF Shrunk
    <3>2. CASE UNCHANGED search
      BY <3>1, <3>2, <3>4 DEF Pipes, Command1, Engine1, Line1
    <3>3. CASE search' # search
      <4>1. stdout[1].is = "bestmove" /\ Len(stdout) >= 1 /\ Len(stdout) \in Nat
        BY <3>1, <3>3, ReadFacts DEF Shrunk
      <4>2. /\ engine = None
            /\ \A i \in 1 .. Len(stdin) : stdin[i].do # "go"
            /\ \A m \in 1 .. Len(stdout) : m > 1 => stdout[m].is = "total"
        BY <3>1, <4>1 DEF Pipes, Command1, Engine1, Line1
      <4>3. \A k \in 1 .. Len(stdout') : stdout'[k].is = "total"
        BY <3>4, <4>2
      <4> QED
        BY <3>1, <4>2, <4>3 DEF Command1
    <3> QED
      BY <3>2, <3>3
  <2>2. CASE Eof
    <3>1. TypeOK /\ stdin = <<>> /\ engine = None /\ stdout = <<>> /\ UNCHANGED <<stdin, engine,
          stdout, written>>
      BY <2>2 DEF IInv, Calls, Silent, Eof
    <3> QED
      BY <3>1 DEF Command1
  <2>3. CASE Callback \/ ExitCall
    BY <1>1, <2>3 DEF Callback, ExitCall
  <2> QED
    BY <1>11, <2>1, <2>2, <2>3 DEF Reading
<1>12. CASE CloseSteps
  <2>1. CASE SendQuit
    <3>1. TypeOK /\ Command1 /\ Send(Quit) /\ UNCHANGED <<search, written, engine, stdout>>
      BY <2>1 DEF IInv, Pipes, SendQuit
    <3>2. Quit \in Command /\ Quit.do # "go"
      BY Commands DEF Stop, Perft, Quit
    <3> QED
      BY <3>1, <3>2, OtherCommand
  <2>2. CASE BeginClose \/ AwaitEnd
    BY <1>1, <2>2 DEF BeginClose, Barrier, Killed, AwaitEnd
  <2> QED
    BY <1>12, <2>1, <2>2 DEF CloseSteps
<1>13. ASSUME NEW t \in Tokens, CloseWindow(t) \/ Expire(t) \/ Watchdog(t) PROVE Command1'
  BY <1>1, <1>13 DEF CloseWindow, Expire, Watchdog, Kill, Killed, RecordKill
<1>14. CASE NextGeneration
  BY <1>1, <1>14 DEF NextGeneration, Barrier, Killed
<1> QED
  BY <1>2, <1>3, <1>4, <1>5, <1>6, <1>7, <1>8, <1>9, <1>10, <1>11, <1>12, <1>13, <1>14 DEF Next

\* The engine searches the one search.
LEMMA Engine1Step == IInv /\ [Next]_vars => Engine1'
<1> SUFFICES ASSUME IInv, [Next]_vars PROVE Engine1'
  OBVIOUS
<1>1. ASSUME UNCHANGED <<search, written, engine, stdout>> PROVE Engine1'
  BY <1>1 DEF IInv, Engine1, TypeOK, Pipes
<1>2. CASE UNCHANGED vars
  BY <1>1, <1>2 DEF vars
<1>3. ASSUME NEW t \in Tokens, Dispatch(t) PROVE Engine1'
  <2>1. CASE Subscribe(t)
    <3>1. TypeOK /\ Pipes /\ Engine1 /\ UNCHANGED <<stdin, engine, stdout, written>>
      BY <2>1 DEF IInv, Pipes, Subscribe
    <3>2. CASE UNCHANGED search
      BY <3>1, <3>2 DEF Engine1
    <3>3. CASE search = None
      BY <3>1, <3>3, NothingUnderWay DEF Engine1
    <3> QED
      BY <2>1, <3>2, <3>3 DEF Subscribe
  <2>2. CASE WriteGo(t)
    <3>1. TypeOK /\ Pipes /\ Engine1 /\ UNCHANGED <<search, engine, stdout>> /\ Mine(t) \in Search
      BY <2>2, Unwritten DEF IInv, Pipes, WriteGo
    <3>2. CASE UNCHANGED <<stdin, written>>
      BY <3>1, <3>2 DEF Engine1
    <3>3. CASE ~Dead /\ stdin' = Append(stdin, Go(Mine(t))) /\ written' = written \cup {Mine(t)}
      <4>1. search = Mine(t) /\ search \notin written
        BY <2>2, <3>3, Unwritten DEF IInv, Subscribed, Held, Bound, Busy, WriteGo
      <4> QED
        BY <3>1, <3>3, <4>1, NothingUnderWay DEF Engine1, Line1
    <3> QED
      BY <2>2, <3>2, <3>3 DEF WriteGo
  <2>3. CASE Undo(t)
    <3>1. TypeOK /\ Pipes /\ Engine1 /\ UNCHANGED <<stdin, engine, stdout, written>>
      BY <2>3 DEF IInv, Pipes, Undo
    <3>2. CASE UNCHANGED search
      BY <3>1, <3>2 DEF Engine1
    <3>3. CASE search.token = t
      <4>1. search = None \/ search \notin written
        BY <2>3, <3>3, Unwritten, Labels DEF IInv, Subscribed, Held, Bound, Busy, Undo
      <4> QED
        BY <3>1, <4>1, NothingUnderWay DEF Engine1
    <3> QED
      BY <2>3, <3>2, <3>3 DEF Undo
  <2>4. CASE TakeGate(t) \/ LoseGate(t) \/ AskPermit(t) \/ WriteTimeout(t) \/ RecordFailure(t)
    BY <1>1, <2>4 DEF TakeGate, MayStart, LoseGate, AskPermit, WriteTimeout, Killed, RecordFailure
  <2> QED
    BY <1>3, <2>1, <2>2, <2>3, <2>4 DEF Dispatch
<1>4. CASE EngineReads
  <2>1. TypeOK /\ Pipes /\ EngineReads
    BY <1>4 DEF IInv
  <2>2. CASE stdin[1].do = "go" /\ engine' = stdin[1].of /\ UNCHANGED stdout
    BY <2>1, <2>2, EngineFacts DEF Pipes, Command1, Engine1, Line1
  <2>3. CASE stdin[1].do = "stop" /\ engine # None /\ Answer("bestmove", engine) /\ engine' = None
    <3>1. [is |-> "bestmove", of |-> engine] \in Line /\ engine = search /\ engine \in written
      BY <2>1, <2>3, Lines DEF TypeOK, Pipes, Engine1
    <3>2. Len(stdout) \in Nat /\ Grown(stdout, stdout', [is |-> "bestmove", of |-> engine])
      BY <2>1, <2>3, <3>1, AnswerFacts
    <3>3. \A i \in 1 .. Len(stdin') : stdin'[i].do # "go"
      BY <2>1, <2>3, EngineFacts DEF Pipes, Command1
    <3>4. \A k \in 1 .. Len(stdout') :
               (k = Len(stdout) + 1 /\ stdout'[k].is = "bestmove" /\ stdout'[k].of = engine) \/ (k
                     <= Len(stdout) /\ stdout'[k] = stdout[k])
      BY <3>2 DEF Grown
    <3> QED
      BY <2>1, <2>3, <3>1, <3>2, <3>3, <3>4, EngineFacts DEF Pipes, Command1, Engine1, Line1
  <2>4. CASE stdin[1].do = "stop" /\ engine = None /\ UNCHANGED <<stdout, engine>>
    BY <2>1, <2>4, EngineFacts DEF Pipes, Command1, Engine1, Line1
  <2>5. CASE stdin[1].do = "perft" /\ Answer("total", None) /\ UNCHANGED engine
    <3>1. Len(stdout) \in Nat /\ Grown(stdout, stdout', [is |-> "total", of |-> None])
      BY <2>1, <2>5, Lines, AnswerFacts
    <3>2. \A k \in 1 .. Len(stdout') : stdout'[k].is = "total" \/ (k <= Len(stdout) /\ stdout'[k]
          = stdout[k])
      BY <3>1 DEF Grown
    <3>3. /\ UNCHANGED <<search, written>>
          /\ \A i \in 1 .. Len(stdin') : i + 1 \in 1 .. Len(stdin) /\ stdin'[i] = stdin[i + 1]
      BY <2>1, EngineFacts
    <3>4. Command1 /\ Engine1 /\ Line1
      BY <2>1 DEF Pipes
    <3>5. ASSUME NEW i \in 1 .. Len(stdin'), stdin'[i].do = "go"
           PROVE  /\ stdin'[i].of = search /\ search \in written /\ engine = None
                  /\ \A j \in 1 .. Len(stdin') : stdin'[j].do = "go" => j = i
                  /\ \A k \in 1 .. Len(stdout') : stdout'[k].is = "total"
      <4>1. i + 1 \in 1 .. Len(stdin) /\ stdin[i + 1].do = "go" /\ stdin'[i].of = stdin[i + 1].of
        BY <3>3, <3>5
      <4>2. \A j \in 1 .. Len(stdin) : stdin[j].do = "go" => j = i + 1
        BY <4>1, <3>4 DEF Command1
      <4>3. \A j \in 1 .. Len(stdin') : stdin'[j].do = "go" => j = i
        BY <4>2, <3>3
      <4> QED
        BY <4>1, <4>3, <3>1, <3>2, <3>4 DEF Command1
    <3> QED
      BY <2>5, <3>3, <3>4, <3>5, <3>1, <3>2 DEF Engine1
  <2> QED
    BY <2>1, <2>2, <2>3, <2>4, <2>5, EngineFacts
<1>5. CASE EngineSays
  <2>1. TypeOK /\ Pipes /\ engine # None /\ engine \in Search /\ UNCHANGED <<stdin, search,
        written>>
    BY <1>5 DEF IInv, TypeOK, EngineSays
  <2>2. CASE Answer("info", engine) /\ UNCHANGED engine
    <3>1. Len(stdout) \in Nat /\ Grown(stdout, stdout', [is |-> "info", of |-> engine])
      BY <2>1, <2>2, Lines, AnswerFacts
    <3>2. /\ engine = search /\ engine \in written
          /\ \A k \in 1 .. Len(stdout) : stdout[k].is # "bestmove"
          /\ \A i \in 1 .. Len(stdin) : stdin[i].do # "go"
      BY <2>1 DEF Pipes, Command1, Engine1
    <3>3. \A k \in 1 .. Len(stdout') :
               (k = Len(stdout) + 1 /\ stdout'[k].is = "info" /\ stdout'[k].of = engine) \/ (k <=
                     Len(stdout) /\ stdout'[k] = stdout[k])
      BY <3>1 DEF Grown
    <3> QED
      BY <2>1, <2>2, <3>1, <3>2, <3>3 DEF Pipes, Command1, Engine1, Line1, Grown
  <2>3. CASE Answer("bestmove", engine) /\ engine' = None
    <3>1. Len(stdout) \in Nat /\ Grown(stdout, stdout', [is |-> "bestmove", of |-> engine])
      BY <2>1, <2>3, Lines, AnswerFacts
    <3>2. /\ engine = search /\ engine \in written
          /\ \A k \in 1 .. Len(stdout) : stdout[k].is # "bestmove"
          /\ \A i \in 1 .. Len(stdin) : stdin[i].do # "go"
      BY <2>1 DEF Pipes, Command1, Engine1
    <3>3. \A k \in 1 .. Len(stdout') :
               (k = Len(stdout) + 1 /\ stdout'[k].is = "bestmove" /\ stdout'[k].of = engine) \/ (k
                     <= Len(stdout) /\ stdout'[k] = stdout[k])
      BY <3>1 DEF Grown
    <3> QED
      BY <2>1, <2>3, <3>1, <3>2, <3>3 DEF Pipes, Command1, Engine1, Line1, Grown
  <2> QED
    BY <1>5, <2>2, <2>3 DEF EngineSays
<1>6. CASE Quits
  BY <1>6 DEF IInv, TypeOK, Engine1, Pipes, Quits, Dies
<1>7. CASE Crash
  BY <1>7 DEF IInv, TypeOK, Engine1, Pipes, Crash, Dies
<1>8. CASE SignalArrives
  BY <1>8 DEF IInv, TypeOK, Engine1, Pipes, SignalArrives, Dies
<1>9. CASE Reading
  <2>1. CASE ReadLine
    <3>1. TypeOK /\ Pipes /\ UNCHANGED <<stdin, engine, written>> /\ ReadLine
      BY <2>1 DEF IInv, ReadLine
    <3>4. /\ Len(stdout) \in Nat \ {0} /\ Len(stdout') = Len(stdout) - 1
          /\ \A k \in 1 .. Len(stdout') : stdout'[k] = stdout[k + 1] /\ k + 1 \in 1 .. Len(stdout)
      BY <3>1, ReadFacts DEF Shrunk
    <3>2. CASE UNCHANGED search
      BY <3>1, <3>2, <3>4 DEF Pipes, Command1, Engine1, Line1
    <3>3. CASE search' # search
      <4>1. stdout[1].is = "bestmove" /\ Len(stdout) >= 1 /\ Len(stdout) \in Nat
        BY <3>1, <3>3, ReadFacts DEF Shrunk
      <4>2. /\ engine = None
            /\ \A i \in 1 .. Len(stdin) : stdin[i].do # "go"
            /\ \A m \in 1 .. Len(stdout) : m > 1 => stdout[m].is = "total"
        BY <3>1, <4>1 DEF Pipes, Command1, Engine1, Line1
      <4>3. \A k \in 1 .. Len(stdout') : stdout'[k].is = "total"
        BY <3>4, <4>2
      <4> QED
        BY <3>1, <4>2, <4>3 DEF Engine1
    <3> QED
      BY <3>2, <3>3
  <2>2. CASE Eof
    <3>1. TypeOK /\ stdin = <<>> /\ engine = None /\ stdout = <<>> /\ UNCHANGED <<stdin, engine,
          stdout, written>>
      BY <2>2 DEF IInv, Calls, Silent, Eof
    <3> QED
      BY <3>1 DEF Engine1
  <2>3. CASE Callback \/ ExitCall
    BY <1>1, <2>3 DEF Callback, ExitCall
  <2> QED
    BY <1>9, <2>1, <2>2, <2>3 DEF Reading
<1>10. ASSUME NEW t \in Tokens, CloseWindow(t) \/ Expire(t) \/ StopWriter(t) \/ Watchdog(t) PROVE
      Engine1'
  BY <1>1, <1>10 DEF CloseWindow, Expire, StopWriter, StopCall, StopTake, StopCheck, StopSend,
        Watchdog, Kill, Killed, RecordKill
<1>11. CASE NextGeneration \/ Asking \/ CloseSteps
  BY <1>1, <1>11 DEF NextGeneration, Barrier, Killed, Asking, AskGate, AskCheck, AskSend,
        AskReturn, AskFailed, AskKill, CloseSteps, BeginClose, SendQuit, AwaitEnd
<1> QED
  BY <1>2, <1>3, <1>4, <1>5, <1>6, <1>7, <1>8, <1>9, <1>10, <1>11 DEF Next

\* The lines are about the one search.
LEMMA Line1Step == IInv /\ [Next]_vars => Line1'
<1> SUFFICES ASSUME IInv, [Next]_vars PROVE Line1'
  OBVIOUS
<1>1. ASSUME UNCHANGED <<search, written, stdout>> PROVE Line1'
  BY <1>1 DEF IInv, Line1, TypeOK, Pipes
<1>2. CASE UNCHANGED vars
  BY <1>1, <1>2 DEF vars
<1>3. ASSUME NEW t \in Tokens, Dispatch(t) PROVE Line1'
  <2>1. CASE Subscribe(t)
    <3>1. TypeOK /\ Pipes /\ Line1 /\ UNCHANGED <<stdin, engine, stdout, written>>
      BY <2>1 DEF IInv, Pipes, Subscribe
    <3>2. CASE UNCHANGED search
      BY <3>1, <3>2 DEF Line1
    <3>3. CASE search = None
      BY <3>1, <3>3, NothingUnderWay DEF Line1
    <3> QED
      BY <2>1, <3>2, <3>3 DEF Subscribe
  <2>2. CASE WriteGo(t)
    <3>1. TypeOK /\ Pipes /\ Line1 /\ UNCHANGED <<search, engine, stdout>> /\ Mine(t) \in Search
      BY <2>2, Unwritten DEF IInv, Pipes, WriteGo
    <3>2. CASE UNCHANGED <<stdin, written>>
      BY <3>1, <3>2 DEF Line1
    <3>3. CASE ~Dead /\ stdin' = Append(stdin, Go(Mine(t))) /\ written' = written \cup {Mine(t)}
      <4>1. search = Mine(t) /\ search \notin written
        BY <2>2, <3>3, Unwritten DEF IInv, Subscribed, Held, Bound, Busy, WriteGo
      <4> QED
        BY <3>1, <3>3, <4>1, NothingUnderWay DEF Engine1, Line1
    <3> QED
      BY <2>2, <3>2, <3>3 DEF WriteGo
  <2>3. CASE Undo(t)
    <3>1. TypeOK /\ Pipes /\ Line1 /\ UNCHANGED <<stdin, engine, stdout, written>>
      BY <2>3 DEF IInv, Pipes, Undo
    <3>2. CASE UNCHANGED search
      BY <3>1, <3>2 DEF Line1
    <3>3. CASE search.token = t
      <4>1. search = None \/ search \notin written
        BY <2>3, <3>3, Unwritten, Labels DEF IInv, Subscribed, Held, Bound, Busy, Undo
      <4> QED
        BY <3>1, <4>1, NothingUnderWay DEF Line1
    <3> QED
      BY <2>3, <3>2, <3>3 DEF Undo
  <2>4. CASE TakeGate(t) \/ LoseGate(t) \/ AskPermit(t) \/ WriteTimeout(t) \/ RecordFailure(t)
    BY <1>1, <2>4 DEF TakeGate, MayStart, LoseGate, AskPermit, WriteTimeout, Killed, RecordFailure
  <2> QED
    BY <1>3, <2>1, <2>2, <2>3, <2>4 DEF Dispatch
<1>4. CASE EngineReads
  <2>1. TypeOK /\ Pipes /\ EngineReads
    BY <1>4 DEF IInv
  <2>2. CASE stdin[1].do = "go" /\ engine' = stdin[1].of /\ UNCHANGED stdout
    BY <2>1, <2>2, EngineFacts DEF Pipes, Command1, Engine1, Line1
  <2>3. CASE stdin[1].do = "stop" /\ engine # None /\ Answer("bestmove", engine) /\ engine' = None
    <3>1. [is |-> "bestmove", of |-> engine] \in Line /\ engine = search /\ engine \in written
      BY <2>1, <2>3, Lines DEF TypeOK, Pipes, Engine1
    <3>2. Len(stdout) \in Nat /\ Grown(stdout, stdout', [is |-> "bestmove", of |-> engine])
      BY <2>1, <2>3, <3>1, AnswerFacts
    <3>3. \A i \in 1 .. Len(stdin') : stdin'[i].do # "go"
      BY <2>1, <2>3, EngineFacts DEF Pipes, Command1
    <3>4. \A k \in 1 .. Len(stdout') :
               (k = Len(stdout) + 1 /\ stdout'[k].is = "bestmove" /\ stdout'[k].of = engine) \/ (k
                     <= Len(stdout) /\ stdout'[k] = stdout[k])
      BY <3>2 DEF Grown
    <3> QED
      BY SMTT(60), <2>1, <2>3, <3>1, <3>2, <3>3, <3>4, EngineFacts DEF Pipes, Command1, Engine1, Line1
  <2>4. CASE stdin[1].do = "stop" /\ engine = None /\ UNCHANGED <<stdout, engine>>
    BY <2>1, <2>4, EngineFacts DEF Pipes, Command1, Engine1, Line1
  <2>5. CASE stdin[1].do = "perft" /\ Answer("total", None) /\ UNCHANGED engine
    <3>1. Len(stdout) \in Nat /\ Grown(stdout, stdout', [is |-> "total", of |-> None])
      BY <2>1, <2>5, Lines, AnswerFacts
    <3>2. \A k \in 1 .. Len(stdout') : stdout'[k].is = "total" \/ (k <= Len(stdout) /\ stdout'[k]
          = stdout[k])
      BY <3>1 DEF Grown
    <3>3. /\ UNCHANGED <<search, written>>
          /\ \A i \in 1 .. Len(stdin') : i + 1 \in 1 .. Len(stdin) /\ stdin'[i] = stdin[i + 1]
      BY <2>1, EngineFacts
    <3>4. Command1 /\ Engine1 /\ Line1
      BY <2>1 DEF Pipes
    <3>5. ASSUME NEW i \in 1 .. Len(stdin'), stdin'[i].do = "go"
           PROVE  /\ stdin'[i].of = search /\ search \in written /\ engine = None
                  /\ \A j \in 1 .. Len(stdin') : stdin'[j].do = "go" => j = i
                  /\ \A k \in 1 .. Len(stdout') : stdout'[k].is = "total"
      <4>1. i + 1 \in 1 .. Len(stdin) /\ stdin[i + 1].do = "go" /\ stdin'[i].of = stdin[i + 1].of
        BY <3>3, <3>5
      <4>2. \A j \in 1 .. Len(stdin) : stdin[j].do = "go" => j = i + 1
        BY <4>1, <3>4 DEF Command1
      <4>3. \A j \in 1 .. Len(stdin') : stdin'[j].do = "go" => j = i
        BY <4>2, <3>3
      <4> QED
        BY <4>1, <4>3, <3>1, <3>2, <3>4 DEF Command1
    <3> QED
      BY SMTT(60), <2>5, <3>3, <3>4, <3>5, <3>1, <3>2 DEF Line1
  <2> QED
    BY <2>1, <2>2, <2>3, <2>4, <2>5, EngineFacts
<1>5. CASE EngineSays
  <2>1. TypeOK /\ Pipes /\ engine # None /\ engine \in Search /\ UNCHANGED <<stdin, search,
        written>>
    BY <1>5 DEF IInv, TypeOK, EngineSays
  <2>2. CASE Answer("info", engine) /\ UNCHANGED engine
    <3>1. Len(stdout) \in Nat /\ Grown(stdout, stdout', [is |-> "info", of |-> engine])
      BY <2>1, <2>2, Lines, AnswerFacts
    <3>2. /\ engine = search /\ engine \in written
          /\ \A k \in 1 .. Len(stdout) : stdout[k].is # "bestmove"
          /\ \A i \in 1 .. Len(stdin) : stdin[i].do # "go"
      BY <2>1 DEF Pipes, Command1, Engine1
    <3>3. \A k \in 1 .. Len(stdout') :
               (k = Len(stdout) + 1 /\ stdout'[k].is = "info" /\ stdout'[k].of = engine) \/ (k <=
                     Len(stdout) /\ stdout'[k] = stdout[k])
      BY <3>1 DEF Grown
    <3> QED
      BY <2>1, <2>2, <3>1, <3>2, <3>3 DEF Pipes, Command1, Engine1, Line1, Grown
  <2>3. CASE Answer("bestmove", engine) /\ engine' = None
    <3>1. Len(stdout) \in Nat /\ Grown(stdout, stdout', [is |-> "bestmove", of |-> engine])
      BY <2>1, <2>3, Lines, AnswerFacts
    <3>2. /\ engine = search /\ engine \in written
          /\ \A k \in 1 .. Len(stdout) : stdout[k].is # "bestmove"
          /\ \A i \in 1 .. Len(stdin) : stdin[i].do # "go"
      BY <2>1 DEF Pipes, Command1, Engine1
    <3>3. \A k \in 1 .. Len(stdout') :
               (k = Len(stdout) + 1 /\ stdout'[k].is = "bestmove" /\ stdout'[k].of = engine) \/ (k
                     <= Len(stdout) /\ stdout'[k] = stdout[k])
      BY <3>1 DEF Grown
    <3> QED
      BY <2>1, <2>3, <3>1, <3>2, <3>3 DEF Pipes, Command1, Engine1, Line1, Grown
  <2> QED
    BY <1>5, <2>2, <2>3 DEF EngineSays
<1>6. CASE Reading
  <2>1. CASE ReadLine
    <3>1. TypeOK /\ Pipes /\ UNCHANGED <<stdin, engine, written>> /\ ReadLine
      BY <2>1 DEF IInv, ReadLine
    <3>4. /\ Len(stdout) \in Nat \ {0} /\ Len(stdout') = Len(stdout) - 1
          /\ \A k \in 1 .. Len(stdout') : stdout'[k] = stdout[k + 1] /\ k + 1 \in 1 .. Len(stdout)
      BY <3>1, ReadFacts DEF Shrunk
    <3>2. CASE UNCHANGED search
      BY SMTT(60), <3>1, <3>2, <3>4 DEF Pipes, Command1, Engine1, Line1
    <3>3. CASE search' # search
      <4>1. stdout[1].is = "bestmove" /\ Len(stdout) >= 1 /\ Len(stdout) \in Nat
        BY <3>1, <3>3, ReadFacts DEF Shrunk
      <4>2. /\ engine = None
            /\ \A i \in 1 .. Len(stdin) : stdin[i].do # "go"
            /\ \A m \in 1 .. Len(stdout) : m > 1 => stdout[m].is = "total"
        BY <3>1, <4>1 DEF Pipes, Command1, Engine1, Line1
      <4>3. \A k \in 1 .. Len(stdout') : stdout'[k].is = "total"
        BY <3>4, <4>2
      <4> QED
        BY <3>1, <4>2, <4>3 DEF Line1
    <3> QED
      BY <3>2, <3>3
  <2>2. CASE Eof
    <3>1. TypeOK /\ stdin = <<>> /\ engine = None /\ stdout = <<>> /\ UNCHANGED <<stdin, engine,
          stdout, written>>
      BY <2>2 DEF IInv, Calls, Silent, Eof
    <3> QED
      BY <3>1 DEF Line1
  <2>3. CASE Callback \/ ExitCall
    BY <1>1, <2>3 DEF Callback, ExitCall
  <2> QED
    BY <1>6, <2>1, <2>2, <2>3 DEF Reading
<1>7. ASSUME NEW t \in Tokens, CloseWindow(t) \/ Expire(t) \/ StopWriter(t) \/ Watchdog(t) PROVE
      Line1'
  BY <1>1, <1>7 DEF CloseWindow, Expire, StopWriter, StopCall, StopTake, StopCheck, StopSend,
        Watchdog, Kill, Killed, RecordKill
<1>8. CASE NextGeneration \/ Asking \/ Quits
  BY <1>1, <1>8 DEF NextGeneration, Barrier, Killed, Asking, AskGate, AskCheck, AskSend,
        AskReturn, AskFailed, AskKill, Quits, Dies
<1>9. CASE Crash \/ SignalArrives \/ CloseSteps
  BY <1>1, <1>9 DEF Crash, Dies, SignalArrives, CloseSteps, BeginClose, Barrier, Killed, SendQuit,
        AwaitEnd
<1> QED
  BY <1>2, <1>3, <1>4, <1>5, <1>6, <1>7, <1>8, <1>9 DEF Next

\* A command that is added finds what it is for, if it finds it now.
LEMMA AddedFinds ==
    ASSUME TypeOK, Finds, NEW c \in Command, stdin' = stdin \/ Grown(stdin, stdin', c), UNCHANGED engine,
           c.do = "stop" => /\ engine # None => engine.token = c.of.token
                            /\ \A j \in 1 .. Len(stdin) : stdin[j].do = "go" => stdin[j].of.token = c.of.token,
           c.do = "perft" => engine = None /\ \A j \in 1 .. Len(stdin) : stdin[j].do # "go"
    PROVE  Finds'
<1>1. stdin \in Seq(Command)
  BY DEF TypeOK
<1>2. CASE stdin' = stdin
  BY <1>2 DEF Finds
<1>3. CASE Grown(stdin, stdin', c)
  <2>1. Len(stdin) \in Nat /\ Len(stdin') = Len(stdin) + 1 /\ stdin'[Len(stdin) + 1] = c
    BY <1>1, <1>3 DEF Grown
  <2>2. \A i \in 1 .. Len(stdin) : stdin'[i] = stdin[i]
    BY <1>3 DEF Grown
  <2> SUFFICES ASSUME NEW i \in 1 .. Len(stdin')
               PROVE  /\ stdin'[i].do = "stop" =>
                             /\ engine # None => engine.token = stdin'[i].of.token
                             /\ \A j \in 1 .. i - 1 :
                                    stdin'[j].do = "go" => stdin'[j].of.token = stdin'[i].of.token
                      /\ stdin'[i].do = "perft" => engine = None /\ \A j \in 1 .. i - 1 : stdin'[j].do # "go"
    BY DEF Finds
  <2>3. \A j \in 1 .. i - 1 : j \in 1 .. Len(stdin) /\ stdin'[j] = stdin[j]
    BY <2>1, <2>2
  <2>4. CASE i = Len(stdin) + 1
    BY <2>1, <2>3, <2>4
  <2>5. CASE i # Len(stdin) + 1
    <3>1. i \in 1 .. Len(stdin) /\ stdin'[i] = stdin[i]
      BY <2>1, <2>2, <2>5
    <3> QED
      BY SMTT(60), <3>1, <2>3 DEF Finds
  <2> QED
    BY <2>4, <2>5
<1> QED
  BY <1>2, <1>3

\* A stop or a perft finds what it is for.
LEMMA FindsStep == IInv /\ [Next]_vars => Finds'
<1> SUFFICES ASSUME IInv, [Next]_vars PROVE Finds'
  OBVIOUS
<1>1. ASSUME UNCHANGED <<stdin, engine>> PROVE Finds'
  BY <1>1 DEF IInv, Finds, TypeOK
<1>2. CASE UNCHANGED vars
  BY <1>1, <1>2 DEF vars
<1>3. ASSUME NEW t \in Tokens, Dispatch(t) PROVE Finds'
  <2>1. CASE WriteGo(t)
    <3>1. TypeOK /\ Finds /\ UNCHANGED engine /\ Go(Mine(t)) \in Command /\ Go(Mine(t)).do = "go"
      BY <2>1, Unwritten, Commands DEF IInv, WriteGo, Go
    <3>2. stdin \in Seq(Command)
      BY <3>1 DEF TypeOK
    <3>3. stdin' = stdin \/ Grown(stdin, stdin', Go(Mine(t)))
      BY <2>1, <3>1, <3>2, Grows DEF WriteGo
    <3> QED
      BY <3>1, <3>3, AddedFinds
  <2>2. CASE TakeGate(t) \/ LoseGate(t) \/ Subscribe(t) \/ AskPermit(t) \/ WriteTimeout(t) \/
        Undo(t) \/ RecordFailure(t)
    BY <1>1, <2>2 DEF TakeGate, MayStart, LoseGate, Subscribe, AskPermit, WriteTimeout, Killed,
          Undo, RecordFailure
  <2> QED
    BY <1>3, <2>1, <2>2 DEF Dispatch
<1>4. ASSUME NEW t \in Tokens, StopWriter(t) PROVE Finds'
  <2>1. CASE StopSend(t)
    <3>1. /\ TypeOK /\ Finds /\ Pipes /\ UNCHANGED engine /\ Send(Stop(t))
          /\ search = None \/ search.token = t
      BY <2>1 DEF IInv, Subscribed, Stopping, StopSend
    <3>2. Stop(t) \in Command /\ Stop(t).do = "stop" /\ Stop(t).of.token = t
      BY Commands DEF Stop
    <3>3. stdin' = stdin \/ Grown(stdin, stdin', Stop(t))
      BY <3>1, <3>2, SendFacts
    <3>4. /\ engine # None => engine.token = t
          /\ \A j \in 1 .. Len(stdin) : stdin[j].do = "go" => stdin[j].of.token = t
      <4>1. CASE search = None
        BY <3>1, <4>1, NothingUnderWay
      <4>2. CASE search.token = t
        BY <3>1, <4>2 DEF Pipes, Command1, Engine1
      <4> QED
        BY <3>1, <4>1, <4>2
    <3> QED
      BY <3>1, <3>2, <3>3, <3>4, AddedFinds
  <2>2. CASE StopCall(t) \/ StopTake(t) \/ StopCheck(t)
    BY <1>1, <2>2 DEF StopCall, StopTake, StopCheck
  <2> QED
    BY <1>4, <2>1, <2>2 DEF StopWriter
<1>5. CASE Asking
  <2>1. CASE AskSend
    <3>1. TypeOK /\ Finds /\ Pipes /\ UNCHANGED engine /\ Send(Perft) /\ search = None
      BY <2>1 DEF IInv, Subscribed, Idle, AskSend
    <3>2. Perft \in Command /\ Perft.do = "perft"
      BY Commands DEF Perft
    <3>3. stdin' = stdin \/ Grown(stdin, stdin', Perft)
      BY <3>1, <3>2, SendFacts
    <3>4. engine = None /\ \A j \in 1 .. Len(stdin) : stdin[j].do # "go"
      BY <3>1, NothingUnderWay
    <3> QED
      BY <3>1, <3>2, <3>3, <3>4, AddedFinds
  <2>2. CASE AskGate \/ AskCheck \/ AskReturn \/ AskFailed \/ AskKill
    BY <1>1, <2>2 DEF AskGate, AskCheck, AskReturn, AskFailed, AskKill, Killed
  <2> QED
    BY <1>5, <2>1, <2>2 DEF Asking
<1>6. CASE EngineReads
  <2>1. TypeOK /\ Finds /\ EngineReads
    BY <1>6 DEF IInv
  <2>2. /\ stdin[1] \in Command /\ Len(stdin) \in Nat \ {0} /\ Len(stdin') = Len(stdin) - 1
        /\ \A i \in 1 .. Len(stdin') : stdin'[i] = stdin[i + 1] /\ i + 1 \in 2 .. Len(stdin)
        /\ (stdin[1].do = "go" /\ engine' = stdin[1].of) \/ UNCHANGED engine \/ engine' = None
    BY <2>1, EngineFacts
  <2> SUFFICES ASSUME NEW i \in 1 .. Len(stdin')
               PROVE  /\ stdin'[i].do = "stop" =>
                             /\ engine' # None => engine'.token = stdin'[i].of.token
                             /\ \A j \in 1 .. i - 1 :
                                    stdin'[j].do = "go" => stdin'[j].of.token = stdin'[i].of.token
                      /\ stdin'[i].do = "perft" => engine' = None /\ \A j \in 1 .. i - 1 :
                            stdin'[j].do # "go"
    BY DEF Finds
  <2>3. i + 1 \in 1 .. Len(stdin) /\ stdin'[i] = stdin[i + 1] /\ 1 \in 1 .. (i + 1) - 1
    BY <2>2
  <2>4. \A j \in 1 .. i - 1 : j + 1 \in 1 .. (i + 1) - 1 /\ stdin'[j] = stdin[j + 1]
    BY <2>2
  <2> QED
    BY <2>1, <2>2, <2>3, <2>4 DEF Finds
<1>7. CASE EngineSays
  BY <1>7 DEF IInv, TypeOK, Finds, EngineSays
<1>8. CASE Quits
  BY <1>8 DEF IInv, TypeOK, Finds, Quits, Dies
<1>9. CASE Crash
  BY <1>9 DEF IInv, TypeOK, Finds, Crash, Dies
<1>10. CASE SignalArrives
  BY <1>10 DEF IInv, TypeOK, Finds, SignalArrives, Dies
<1>11. CASE CloseSteps
  <2>1. CASE SendQuit
    <3>1. TypeOK /\ Finds /\ UNCHANGED engine /\ Send(Quit)
      BY <2>1 DEF IInv, SendQuit
    <3>2. Quit \in Command /\ Quit.do = "quit"
      BY Commands DEF Quit
    <3>3. stdin' = stdin \/ Grown(stdin, stdin', Quit)
      BY <3>1, <3>2, SendFacts
    <3> QED
      BY <3>1, <3>2, <3>3, AddedFinds
  <2>2. CASE BeginClose \/ AwaitEnd
    BY <1>1, <2>2 DEF BeginClose, Barrier, Killed, AwaitEnd
  <2> QED
    BY <1>11, <2>1, <2>2 DEF CloseSteps
<1>12. ASSUME NEW t \in Tokens, CloseWindow(t) \/ Expire(t) \/ Watchdog(t) PROVE Finds'
  BY <1>1, <1>12 DEF CloseWindow, Expire, Watchdog, Kill, Killed, RecordKill
<1>13. CASE NextGeneration \/ Reading
  BY <1>1, <1>13 DEF NextGeneration, Barrier, Killed, Reading, ReadLine, Callback, Eof, ExitCall
<1> QED
  BY <1>2, <1>3, <1>4, <1>5, <1>6, <1>7, <1>8, <1>9, <1>10, <1>11, <1>12, <1>13 DEF Next

\* What is told of a search that was not written leaves the reader's call true.
LEMMA CallingStays ==
    ASSUME TypeOK, Calling, UNCHANGED <<rpc, call, written>>, NEW m, m \notin written,
           search' = m \/ search' = search \/ search' = None,
           \A s \in Search : s # m => ends'[s] = ends[s]
    PROVE  Calling'
<1>1. written \subseteq Search /\ None \notin Search
  BY Commands DEF TypeOK
<1> QED
  BY <1>1 DEF Calling

\* Nor is the lost search completed, or dispatched anew, by another one's steps.
LEMMA ExitingStays ==
    ASSUME TypeOK, Exiting, UNCHANGED <<rpc, call, round>>, NEW t \in Tokens, NEW x, x # "gated",
           pc' = At(pc, t, x), search' = search \/ search' = None \/ (search' = Mine(t) /\ pc[t] = "gated"),
           \A s \in Search : "complete" \in ends'[s] => "complete" \in ends[s]
    PROVE  Exiting'
<1>1. \A u \in Tokens : (pc'[u] = IF u = t THEN x ELSE pc[u]) /\ Mine(u)' = Mine(u) /\ Mine(u).token = u
  BY Labels DEF Mine
<1>2. call.of # None => call.of \in Search /\ call.of.token \in Tokens
  BY Commands DEF TypeOK
<1> QED
  BY <1>1, <1>2 DEF Exiting

\* What the reader is about to tell is true.
LEMMA CallingStep == IInv /\ [Next]_vars => Calling'
<1> SUFFICES ASSUME IInv, [Next]_vars PROVE Calling'
  OBVIOUS
<1>1. ASSUME UNCHANGED <<rpc, call, written, ends, search>> PROVE Calling'
  BY <1>1 DEF IInv, Calling, TypeOK, Calls
<1>2. CASE UNCHANGED vars
  BY <1>1, <1>2 DEF vars
<1>3. ASSUME NEW t \in Tokens, Dispatch(t) PROVE Calling'
  <2>1. CASE Subscribe(t)
    <3>1. TypeOK /\ Calling /\ UNCHANGED <<rpc, call, written>> /\ Mine(t) \notin written
      BY <2>1, Unwritten DEF IInv, Calls, Subscribe
    <3>4. UNCHANGED ends \/ \E e \in {"rejected", "failed", "escaped"} : Tell(Mine(t), e)
      BY <2>1 DEF Subscribe
    <3>2. \A s \in Search : s # Mine(t) => ends'[s] = ends[s]
      BY <3>1, <3>4, TellFacts
    <3>3. search' = Mine(t) \/ search' = search \/ search' = None
      BY <2>1 DEF Subscribe
    <3> QED
      BY <3>1, <3>2, <3>3, CallingStays
  <2>2. CASE WriteGo(t)
    BY <2>2 DEF IInv, TypeOK, Calling, Calls, WriteGo
  <2>3. CASE Undo(t)
    <3>1. TypeOK /\ Calling /\ UNCHANGED <<rpc, call, written>> /\ Mine(t) \notin written
      BY <2>3, Unwritten DEF IInv, Calls, Undo
    <3>4. UNCHANGED ends \/ \E e \in {"rejected", "failed", "escaped"} : Tell(Mine(t), e)
      BY <2>3 DEF Undo
    <3>2. \A s \in Search : s # Mine(t) => ends'[s] = ends[s]
      BY <3>1, <3>4, TellFacts
    <3>3. search' = Mine(t) \/ search' = search \/ search' = None
      BY <2>3 DEF Undo
    <3> QED
      BY <3>1, <3>2, <3>3, CallingStays
  <2>4. CASE RecordFailure(t)
    <3>1. TypeOK /\ Calling /\ UNCHANGED <<rpc, call, written>> /\ Mine(t) \notin written
      BY <2>4, Unwritten DEF IInv, Calls, RecordFailure
    <3>4. UNCHANGED ends \/ \E e \in {"rejected", "failed", "escaped"} : Tell(Mine(t), e)
      BY <2>4 DEF RecordFailure
    <3>2. \A s \in Search : s # Mine(t) => ends'[s] = ends[s]
      BY <3>1, <3>4, TellFacts
    <3>3. search' = Mine(t) \/ search' = search \/ search' = None
      BY <2>4 DEF RecordFailure
    <3> QED
      BY <3>1, <3>2, <3>3, CallingStays
  <2>5. CASE TakeGate(t) \/ LoseGate(t) \/ AskPermit(t) \/ WriteTimeout(t)
    BY <1>1, <2>5 DEF TakeGate, MayStart, LoseGate, AskPermit, WriteTimeout, Killed
  <2> QED
    BY <1>3, <2>1, <2>2, <2>3, <2>4, <2>5 DEF Dispatch
<1>4. CASE Reading
  <2>1. CASE ReadLine
    <3>1. /\ TypeOK /\ Pipes /\ Calls /\ Untold /\ ReadLine
          /\ UNCHANGED <<ends, written>> /\ written \subseteq Search
      BY <2>1 DEF IInv, TypeOK, Subscribed, ReadLine
    <3>2. CASE search # None /\ stdout[1].is # "total"
      <4>1. search \in written /\ stdout[1].of = search /\ stdout[1] \in Line /\ search # None
        BY <3>1, <3>2, ReadFacts
      <4>2. /\ call' = [is |-> stdout[1].is, of |-> search, by |-> stdout[1].of] /\ rpc' = "call"
            /\ search' = IF stdout[1].is = "bestmove" THEN None ELSE search
        BY <3>1, <3>2, ReadFacts DEF ReadLine
      <4>3. stdout[1].is \in {"info", "bestmove"} /\ ends[search] = {}
        BY <3>1, <3>2, <4>1, Lines DEF Untold
      <4> QED
        BY <3>1, <4>1, <4>2, <4>3 DEF Calling
    <3>3. CASE ~(search # None /\ stdout[1].is # "total")
      BY <3>1, <3>3, ReadFacts DEF Calls, Calling, ReadLine
    <3> QED
      BY <3>2, <3>3
  <2>2. CASE Callback
    BY <2>2 DEF IInv, TypeOK, Calling, Calls, Callback
  <2>3. CASE Eof
    BY <2>3 DEF IInv, TypeOK, Calling, Calls, Eof
  <2>4. CASE ExitCall
    BY <2>4 DEF IInv, TypeOK, Calling, Calls, ExitCall
  <2> QED
    BY <1>4, <2>1, <2>2, <2>3, <2>4 DEF Reading
<1>5. ASSUME NEW t \in Tokens, CloseWindow(t) \/ Expire(t) \/ StopWriter(t) \/ Watchdog(t) PROVE
      Calling'
  BY <1>1, <1>5 DEF CloseWindow, Expire, StopWriter, StopCall, StopTake, StopCheck, StopSend,
        Watchdog, Kill, Killed, RecordKill
<1>6. CASE NextGeneration \/ Asking \/ EngineReads
  BY <1>1, <1>6 DEF NextGeneration, Barrier, Killed, Asking, AskGate, AskCheck, AskSend,
        AskReturn, AskFailed, AskKill, EngineReads
<1>7. CASE EngineSays \/ Quits \/ Crash
  BY <1>1, <1>7 DEF EngineSays, Quits, Dies, Crash
<1>8. CASE SignalArrives \/ CloseSteps
  BY <1>1, <1>8 DEF SignalArrives, Dies, CloseSteps, BeginClose, Barrier, Killed, SendQuit, AwaitEnd
<1> QED
  BY <1>2, <1>3, <1>4, <1>5, <1>6, <1>7, <1>8 DEF Next

\* The lost search was not completed, and is not dispatched again.
LEMMA ExitingStep == IInv /\ [Next]_vars => Exiting'
<1> SUFFICES ASSUME IInv, [Next]_vars PROVE Exiting'
  OBVIOUS
<1>1. ASSUME UNCHANGED <<rpc, call, ends, pc, round, search>> PROVE Exiting'
  BY <1>1 DEF IInv, Exiting, TypeOK, Calls, Mine
<1>2. CASE UNCHANGED vars
  BY <1>1, <1>2 DEF vars
<1>3. ASSUME NEW t \in Tokens, Dispatch(t) PROVE Exiting'
  <2>1. CASE TakeGate(t)
    BY <2>1 DEF IInv, Calls, Over, Exiting, TakeGate, MayStart
  <2>2. CASE LoseGate(t)
    BY <2>2 DEF IInv, Calls, Over, Exiting, LoseGate, MayStart
  <2>3. CASE Subscribe(t)
    <3>1. TypeOK /\ Exiting /\ UNCHANGED <<rpc, call, round>>
      BY <2>3 DEF IInv, Calls, Subscribe
    <3>2. \A s \in Search : "complete" \in ends'[s] => "complete" \in ends[s]
      BY <2>3, <3>1, TellFacts DEF Subscribe
    <3>3. search' = search \/ search' = None \/ (search' = Mine(t) /\ pc[t] = "gated")
      BY <2>3 DEF Subscribe
    <3>4. \E x \in {"ready", "failed", "off"} : pc' = At(pc, t, x)
      BY <2>3 DEF Subscribe
    <3> QED
      BY <3>1, <3>2, <3>3, <3>4, ExitingStays
  <2>4. CASE AskPermit(t)
    <3>1. TypeOK /\ Exiting /\ UNCHANGED <<rpc, call, round>>
      BY <2>4 DEF IInv, Calls, AskPermit
    <3>2. \A s \in Search : "complete" \in ends'[s] => "complete" \in ends[s]
      BY <2>4, <3>1, TellFacts DEF AskPermit
    <3>3. search' = search \/ search' = None \/ (search' = Mine(t) /\ pc[t] = "gated")
      BY <2>4 DEF AskPermit
    <3>4. \E x \in {"fail", "permitted", "reject"} : pc' = At(pc, t, x)
      BY <2>4 DEF AskPermit
    <3> QED
      BY <3>1, <3>2, <3>3, <3>4, ExitingStays
  <2>5. CASE WriteGo(t)
    <3>1. TypeOK /\ Exiting /\ UNCHANGED <<rpc, call, round>>
      BY <2>5 DEF IInv, Calls, WriteGo
    <3>2. \A s \in Search : "complete" \in ends'[s] => "complete" \in ends[s]
      BY <2>5, <3>1, TellFacts DEF WriteGo
    <3>3. search' = search \/ search' = None \/ (search' = Mine(t) /\ pc[t] = "gated")
      BY <2>5 DEF WriteGo
    <3>4. \E x \in {"off", "broken", "ready"} : pc' = At(pc, t, x)
      BY <2>5 DEF WriteGo
    <3> QED
      BY <3>1, <3>2, <3>3, <3>4, ExitingStays
  <2>6. CASE WriteTimeout(t)
    <3>1. TypeOK /\ Exiting /\ UNCHANGED <<rpc, call, round>>
      BY <2>6 DEF IInv, Calls, WriteTimeout
    <3>2. \A s \in Search : "complete" \in ends'[s] => "complete" \in ends[s]
      BY <2>6, <3>1, TellFacts DEF WriteTimeout
    <3>3. search' = search \/ search' = None \/ (search' = Mine(t) /\ pc[t] = "gated")
      BY <2>6 DEF WriteTimeout
    <3>4. \E x \in {"fail"} : pc' = At(pc, t, x)
      BY <2>6 DEF WriteTimeout
    <3> QED
      BY <3>1, <3>2, <3>3, <3>4, ExitingStays
  <2>7. CASE Undo(t)
    <3>1. TypeOK /\ Exiting /\ UNCHANGED <<rpc, call, round>>
      BY <2>7 DEF IInv, Calls, Undo
    <3>2. \A s \in Search : "complete" \in ends'[s] => "complete" \in ends[s]
      BY <2>7, <3>1, TellFacts DEF Undo
    <3>3. search' = search \/ search' = None \/ (search' = Mine(t) /\ pc[t] = "gated")
      BY <2>7 DEF Undo
    <3>4. \E x \in {"off", "failed"} : pc' = At(pc, t, x)
      BY <2>7 DEF Undo
    <3> QED
      BY <3>1, <3>2, <3>3, <3>4, ExitingStays
  <2>8. CASE RecordFailure(t)
    <3>1. TypeOK /\ Exiting /\ UNCHANGED <<rpc, call, round>>
      BY <2>8 DEF IInv, Calls, RecordFailure
    <3>2. \A s \in Search : "complete" \in ends'[s] => "complete" \in ends[s]
      BY <2>8, <3>1, TellFacts DEF RecordFailure
    <3>3. search' = search \/ search' = None \/ (search' = Mine(t) /\ pc[t] = "gated")
      BY <2>8 DEF RecordFailure
    <3>4. \E x \in {"off"} : pc' = At(pc, t, x)
      BY <2>8 DEF RecordFailure
    <3> QED
      BY <3>1, <3>2, <3>3, <3>4, ExitingStays
  <2> QED
    BY <1>3, <2>1, <2>2, <2>3, <2>4, <2>5, <2>6, <2>7, <2>8 DEF Dispatch
<1>4. CASE Reading
  <2>1. CASE ReadLine
    BY <2>1 DEF IInv, TypeOK, Exiting, Calls, Mine, ReadLine
  <2>2. CASE Callback
    BY <2>2 DEF IInv, TypeOK, Exiting, Calls, Mine, Callback
  <2>3. CASE Eof
    <3>1. /\ UNCHANGED <<ends, round, pc>> /\ search' = None /\ (rpc' = "exit" => call'.of = search)
          /\ Known /\ Untold /\ Fresh /\ (search # None => search \in Search)
      BY <2>3 DEF IInv, TypeOK, Subscribed, Eof
    <3>2. CASE search = None
      BY <3>1, <3>2 DEF Exiting
    <3>3. CASE search # None
      <4>1. search \in Search /\ search.token \in Tokens /\ ends[search] = {}
        BY <3>1, <3>3, Commands DEF Untold
      <4>2. search.round <= round[search.token] /\ (search = Mine(search.token) =>
            pc[search.token] # "gated")
        <5>1. CASE search \in written
          BY <3>1, <5>1 DEF Fresh
        <5>2. CASE pc[search.token] \in Bound /\ search = Mine(search.token)
          <6>1. search.round = round[search.token] /\ round[search.token] \in Nat
            BY <4>1, <5>2 DEF IInv, TypeOK, Mine
          <6> QED
            BY <5>2, <6>1 DEF Bound, Busy
        <5> QED
          BY <3>1, <3>3, <5>1, <5>2 DEF Known
      <4> QED
        BY <3>1, <3>3, <4>1, <4>2, Commands DEF Exiting, Mine
    <3> QED
      BY <3>2, <3>3
  <2>4. CASE ExitCall
    BY <2>4 DEF IInv, TypeOK, Exiting, Calls, Mine, ExitCall
  <2> QED
    BY <1>4, <2>1, <2>2, <2>3, <2>4 DEF Reading
<1>5. ASSUME NEW t \in Tokens, CloseWindow(t) \/ Expire(t) \/ StopWriter(t) \/ Watchdog(t) PROVE
      Exiting'
  BY <1>1, <1>5 DEF CloseWindow, Expire, StopWriter, StopCall, StopTake, StopCheck, StopSend,
        Watchdog, Kill, Killed, RecordKill
<1>6. CASE NextGeneration \/ Asking \/ EngineReads
  BY <1>1, <1>6 DEF NextGeneration, Barrier, Killed, Asking, AskGate, AskCheck, AskSend,
        AskReturn, AskFailed, AskKill, EngineReads
<1>7. CASE EngineSays \/ Quits \/ Crash
  BY <1>1, <1>7 DEF EngineSays, Quits, Dies, Crash
<1>8. CASE SignalArrives \/ CloseSteps
  BY <1>1, <1>8 DEF SignalArrives, Dies, CloseSteps, BeginClose, Barrier, Killed, SendQuit, AwaitEnd
<1> QED
  BY <1>2, <1>3, <1>4, <1>5, <1>6, <1>7, <1>8 DEF Next

\* The reader ends with the process.
LEMMA OverStep == IInv /\ [Next]_vars => Over'
<1> SUFFICES ASSUME IInv, [Next]_vars PROVE Over'
  OBVIOUS
<1>1. ASSUME UNCHANGED <<rpc, proc>> PROVE Over'
  BY <1>1 DEF IInv, Over, TypeOK, Calls, Dead
<1>2. CASE UNCHANGED vars
  BY <1>1, <1>2 DEF vars
<1>3. ASSUME NEW t \in Tokens, Dispatch(t) PROVE Over'
  <2>1. CASE WriteTimeout(t)
    BY <2>1 DEF IInv, TypeOK, Over, Calls, Dead, WriteTimeout, Killed
  <2>2. CASE TakeGate(t) \/ LoseGate(t) \/ Subscribe(t) \/ AskPermit(t) \/ WriteGo(t) \/ Undo(t)
        \/ RecordFailure(t)
    BY <1>1, <2>2 DEF TakeGate, MayStart, LoseGate, Subscribe, AskPermit, WriteGo, Undo,
          RecordFailure
  <2> QED
    BY <1>3, <2>1, <2>2 DEF Dispatch
<1>4. ASSUME NEW t \in Tokens, StopWriter(t) PROVE Over'
  <2>1. CASE StopSend(t)
    BY <2>1, Commands, SendFacts DEF IInv, TypeOK, Over, Calls, Dead, StopSend
  <2>2. CASE StopCall(t) \/ StopTake(t) \/ StopCheck(t)
    BY <1>1, <2>2 DEF StopCall, StopTake, StopCheck
  <2> QED
    BY <1>4, <2>1, <2>2 DEF StopWriter
<1>5. ASSUME NEW t \in Tokens, Watchdog(t) PROVE Over'
  <2>1. CASE Kill(t)
    BY <2>1 DEF IInv, TypeOK, Over, Calls, Dead, Kill, Killed
  <2>2. CASE RecordKill(t)
    BY <1>1, <2>2 DEF RecordKill
  <2> QED
    BY <1>5, <2>1, <2>2 DEF Watchdog
<1>6. CASE NextGeneration
  BY <1>6 DEF IInv, TypeOK, Over, Calls, Dead, NextGeneration, Barrier, Killed
<1>7. CASE Asking
  <2>1. CASE AskSend
    BY <2>1, Commands, SendFacts DEF IInv, TypeOK, Over, Calls, Dead, AskSend
  <2>2. CASE AskKill
    BY <2>2 DEF IInv, TypeOK, Over, Calls, Dead, AskKill, Killed
  <2>3. CASE AskGate \/ AskCheck \/ AskReturn \/ AskFailed
    BY <1>1, <2>3 DEF AskGate, AskCheck, AskReturn, AskFailed
  <2> QED
    BY <1>7, <2>1, <2>2, <2>3 DEF Asking
<1>8. CASE Quits
  BY <1>8 DEF IInv, TypeOK, Over, Calls, Dead, Quits, Dies
<1>9. CASE Crash
  BY <1>9 DEF IInv, TypeOK, Over, Calls, Dead, Crash, Dies
<1>10. CASE SignalArrives
  BY <1>10 DEF IInv, TypeOK, Over, Calls, Dead, SignalArrives, Dies
<1>11. CASE Reading
  <2>1. CASE ReadLine
    BY <2>1 DEF IInv, TypeOK, Over, Calls, Dead, ReadLine
  <2>2. CASE Callback
    BY <2>2 DEF IInv, TypeOK, Over, Calls, Dead, Callback
  <2>3. CASE Eof
    BY <2>3 DEF IInv, TypeOK, Over, Calls, Dead, Eof
  <2>4. CASE ExitCall
    BY <2>4 DEF IInv, TypeOK, Over, Calls, Dead, ExitCall
  <2> QED
    BY <1>11, <2>1, <2>2, <2>3, <2>4 DEF Reading
<1>12. CASE CloseSteps
  <2>1. CASE BeginClose
    BY <2>1 DEF IInv, TypeOK, Over, Calls, Dead, BeginClose, Barrier, Killed
  <2>2. CASE SendQuit
    BY <2>2, Commands, SendFacts DEF IInv, TypeOK, Over, Calls, Dead, SendQuit
  <2>3. CASE AwaitEnd
    BY <2>3 DEF IInv, TypeOK, Over, Calls, Dead, AwaitEnd
  <2> QED
    BY <1>12, <2>1, <2>2, <2>3 DEF CloseSteps
<1>13. ASSUME NEW t \in Tokens, CloseWindow(t) \/ Expire(t) PROVE Over'
  BY <1>1, <1>13 DEF CloseWindow, Expire
<1>14. CASE EngineReads \/ EngineSays
  BY <1>1, <1>14 DEF EngineReads, EngineSays
<1> QED
  BY <1>2, <1>3, <1>4, <1>5, <1>6, <1>7, <1>8, <1>9, <1>10, <1>11, <1>12, <1>13, <1>14 DEF Next

\* A dead process reads nothing.
LEMMA SilentStep == IInv /\ [Next]_vars => Silent'
<1> SUFFICES ASSUME IInv, [Next]_vars PROVE Silent'
  OBVIOUS
<1>1. ASSUME UNCHANGED <<proc, stdin, engine>> PROVE Silent'
  BY <1>1 DEF IInv, Silent, TypeOK, Calls, Dead
<1>2. CASE UNCHANGED vars
  BY <1>1, <1>2 DEF vars
<1>3. ASSUME NEW t \in Tokens, Dispatch(t) PROVE Silent'
  <2>1. CASE WriteGo(t)
    BY <2>1 DEF IInv, TypeOK, Silent, Calls, Dead, WriteGo
  <2>2. CASE WriteTimeout(t)
    BY <2>2 DEF IInv, TypeOK, Silent, Calls, Dead, WriteTimeout, Killed
  <2>3. CASE TakeGate(t) \/ LoseGate(t) \/ Subscribe(t) \/ AskPermit(t) \/ Undo(t) \/
        RecordFailure(t)
    BY <1>1, <2>3 DEF TakeGate, MayStart, LoseGate, Subscribe, AskPermit, Undo, RecordFailure
  <2> QED
    BY <1>3, <2>1, <2>2, <2>3 DEF Dispatch
<1>4. ASSUME NEW t \in Tokens, StopWriter(t) PROVE Silent'
  <2>1. CASE StopSend(t)
    BY <2>1, Commands, SendFacts DEF IInv, TypeOK, Silent, Calls, Dead, StopSend
  <2>2. CASE StopCall(t) \/ StopTake(t) \/ StopCheck(t)
    BY <1>1, <2>2 DEF StopCall, StopTake, StopCheck
  <2> QED
    BY <1>4, <2>1, <2>2 DEF StopWriter
<1>5. ASSUME NEW t \in Tokens, Watchdog(t) PROVE Silent'
  <2>1. CASE Kill(t)
    BY <2>1 DEF IInv, TypeOK, Silent, Calls, Dead, Kill, Killed
  <2>2. CASE RecordKill(t)
    BY <1>1, <2>2 DEF RecordKill
  <2> QED
    BY <1>5, <2>1, <2>2 DEF Watchdog
<1>6. CASE NextGeneration
  BY <1>6 DEF IInv, TypeOK, Silent, Calls, Dead, NextGeneration, Barrier, Killed
<1>7. CASE Asking
  <2>1. CASE AskSend
    BY <2>1, Commands, SendFacts DEF IInv, TypeOK, Silent, Calls, Dead, AskSend
  <2>2. CASE AskKill
    BY <2>2 DEF IInv, TypeOK, Silent, Calls, Dead, AskKill, Killed
  <2>3. CASE AskGate \/ AskCheck \/ AskReturn \/ AskFailed
    BY <1>1, <2>3 DEF AskGate, AskCheck, AskReturn, AskFailed
  <2> QED
    BY <1>7, <2>1, <2>2, <2>3 DEF Asking
<1>8. CASE EngineReads
  BY <1>8 DEF IInv, TypeOK, Silent, Calls, Dead, EngineReads
<1>9. CASE EngineSays
  BY <1>9 DEF IInv, TypeOK, Silent, Calls, Dead, EngineSays
<1>10. CASE Quits
  BY <1>10 DEF IInv, TypeOK, Silent, Calls, Dead, Quits, Dies
<1>11. CASE Crash
  BY <1>11 DEF IInv, TypeOK, Silent, Calls, Dead, Crash, Dies
<1>12. CASE SignalArrives
  BY <1>12 DEF IInv, TypeOK, Silent, Calls, Dead, SignalArrives, Dies
<1>13. CASE CloseSteps
  <2>1. CASE BeginClose
    BY <2>1 DEF IInv, TypeOK, Silent, Calls, Dead, BeginClose, Barrier, Killed
  <2>2. CASE SendQuit
    BY <2>2, Commands, SendFacts DEF IInv, TypeOK, Silent, Calls, Dead, SendQuit
  <2>3. CASE AwaitEnd
    BY <2>3 DEF IInv, TypeOK, Silent, Calls, Dead, AwaitEnd
  <2> QED
    BY <1>13, <2>1, <2>2, <2>3 DEF CloseSteps
<1>14. ASSUME NEW t \in Tokens, CloseWindow(t) \/ Expire(t) PROVE Silent'
  BY <1>1, <1>14 DEF CloseWindow, Expire
<1>15. CASE Reading
  BY <1>1, <1>15 DEF Reading, ReadLine, Callback, Eof, ExitCall
<1> QED
  BY <1>2, <1>3, <1>4, <1>5, <1>6, <1>7, <1>8, <1>9, <1>10, <1>11, <1>12, <1>13, <1>14, <1>15 DEF
        Next

\* What is told of a search that was not written.
LEMMA ToldStays ==
    ASSUME TypeOK, Told, NEW m, m \notin written, NEW end \in {"failed", "rejected", "escaped"},
           Tell(m, end) \/ UNCHANGED ends, UNCHANGED written
    PROVE  Told'
<1>1. CASE Tell(m, end)
  BY ZenonT(60), <1>1, TellFacts DEF Told
<1>2. CASE UNCHANGED ends
  BY <1>2 DEF Told
<1> QED
  BY <1>1, <1>2

\* What was told stays consistent.
LEMMA ToldStep == IInv /\ [Next]_vars => Told'
<1> SUFFICES ASSUME IInv, [Next]_vars PROVE Told'
  OBVIOUS
<1>1. ASSUME UNCHANGED <<ends, written>> PROVE Told'
  BY <1>1 DEF IInv, Told, TypeOK
<1>2. CASE UNCHANGED vars
  BY <1>1, <1>2 DEF vars
<1>3. ASSUME NEW t \in Tokens, Dispatch(t) PROVE Told'
  <2>1. CASE Subscribe(t)
    <3>1. TypeOK /\ Told /\ UNCHANGED written /\ Mine(t) \notin written
      BY <2>1, Unwritten DEF IInv, Subscribe
    <3>2. Tell(Mine(t), "rejected") \/ UNCHANGED ends
      BY <2>1 DEF Subscribe
    <3> QED
      BY <3>1, <3>2, ToldStays
  <2>2. CASE WriteGo(t)
    <3>1. TypeOK /\ Told /\ UNCHANGED ends
      BY <2>2 DEF IInv, WriteGo
    <3>2. CASE UNCHANGED written
      BY <3>1, <3>2 DEF Told
    <3>3. CASE ~Dead /\ written' = written \cup {Mine(t)}
      <4>1. search = Mine(t) /\ Mine(t) \in Search
        BY <2>2, <3>3, Unwritten DEF IInv, Subscribed, Held, Bound, Busy, WriteGo
      <4>2. ends[Mine(t)] = {}
        BY <4>1, Commands DEF IInv, Subscribed, Untold
      <4> QED
        BY <3>1, <3>3, <4>2 DEF Told
    <3> QED
      BY <2>2, <3>2, <3>3 DEF WriteGo
  <2>3. CASE Undo(t)
    <3>1. TypeOK /\ Told /\ UNCHANGED written /\ Mine(t) \notin written
      BY <2>3, Unwritten DEF IInv, Undo
    <3>2. Tell(Mine(t), "rejected") \/ Tell(Mine(t), "escaped") \/ UNCHANGED ends
      BY <2>3 DEF Undo
    <3> QED
      BY <3>1, <3>2, ToldStays
  <2>4. CASE RecordFailure(t)
    <3>1. TypeOK /\ Told /\ UNCHANGED written /\ Mine(t) \notin written
      BY <2>4, Unwritten DEF IInv, RecordFailure
    <3>2. Tell(Mine(t), "failed") \/ UNCHANGED ends
      BY <2>4 DEF RecordFailure
    <3> QED
      BY <3>1, <3>2, ToldStays
  <2>5. CASE TakeGate(t) \/ LoseGate(t) \/ AskPermit(t) \/ WriteTimeout(t)
    BY <1>1, <2>5 DEF TakeGate, MayStart, LoseGate, AskPermit, WriteTimeout, Killed
  <2> QED
    BY <1>3, <2>1, <2>2, <2>3, <2>4, <2>5 DEF Dispatch
<1>4. CASE Reading
  <2>1. CASE Callback
    <3>1. TypeOK /\ Told /\ UNCHANGED written /\ call.of \in written /\ (call.is = "bestmove" =>
          ends[call.of] = {})
      BY <2>1 DEF IInv, Calls, Calling, Callback
    <3>2. UNCHANGED ends \/ (call.is = "bestmove" /\ Tell(call.of, "complete"))
      BY <2>1 DEF Callback
    <3>3. \A s \in Search : ends'[s] = ends[s] \/ (call.is = "bestmove" /\ s = call.of /\ ends'[s]
          = ends[s] \cup {"complete"})
      <4>1. CASE UNCHANGED ends
        BY <4>1
      <4>2. CASE call.is = "bestmove" /\ Tell(call.of, "complete")
        <5>1. \A s \in Search : ends'[s] = IF s = call.of THEN ends[s] \cup {"complete"} ELSE ends[s]
          BY <3>1, <4>2, TellFacts
        <5> QED
          BY <4>2, <5>1
      <4> QED
        BY <3>2, <4>1, <4>2
    <3> QED
      BY <3>1, <3>3 DEF Told
  <2>2. CASE ExitCall
    <3>1. TypeOK /\ Told /\ UNCHANGED written /\ (call.of # None => "complete" \notin ends[call.of])
      BY <2>2 DEF IInv, Calls, Exiting, ExitCall
    <3>2. UNCHANGED ends \/ (call.of # None /\ Tell(call.of, "exit"))
      BY <2>2 DEF ExitCall
    <3>3. \A s \in Search : ends'[s] = ends[s] \/ (call.of # None /\ s = call.of /\ ends'[s] =
          ends[s] \cup {"exit"})
      <4>1. CASE UNCHANGED ends
        BY <4>1
      <4>2. CASE call.of # None /\ Tell(call.of, "exit")
        <5>1. \A s \in Search : ends'[s] = IF s = call.of THEN ends[s] \cup {"exit"} ELSE ends[s]
          BY <3>1, <4>2, TellFacts
        <5> QED
          BY <4>2, <5>1
      <4> QED
        BY <3>2, <4>1, <4>2
    <3> QED
      BY <3>1, <3>3 DEF Told
  <2>3. CASE ReadLine \/ Eof
    BY <1>1, <2>3 DEF ReadLine, Eof
  <2> QED
    BY <1>4, <2>1, <2>2, <2>3 DEF Reading
<1>5. ASSUME NEW t \in Tokens, CloseWindow(t) \/ Expire(t) \/ StopWriter(t) \/ Watchdog(t) PROVE
      Told'
  BY <1>1, <1>5 DEF CloseWindow, Expire, StopWriter, StopCall, StopTake, StopCheck, StopSend,
        Watchdog, Kill, Killed, RecordKill
<1>6. CASE NextGeneration \/ Asking \/ EngineReads
  BY <1>1, <1>6 DEF NextGeneration, Barrier, Killed, Asking, AskGate, AskCheck, AskSend,
        AskReturn, AskFailed, AskKill, EngineReads
<1>7. CASE EngineSays \/ Quits \/ Crash
  BY <1>1, <1>7 DEF EngineSays, Quits, Dies, Crash
<1>8. CASE SignalArrives \/ CloseSteps
  BY <1>1, <1>8 DEF SignalArrives, Dies, CloseSteps, BeginClose, Barrier, Killed, SendQuit, AwaitEnd
<1> QED
  BY <1>2, <1>3, <1>4, <1>5, <1>6, <1>7, <1>8 DEF Next

\* A permit stands until it is used.
LEMMA PermittedStep == IInv /\ [Next]_vars => Permitted'
<1> SUFFICES ASSUME IInv, [Next]_vars PROVE Permitted'
  OBVIOUS
<1>1. ASSUME UNCHANGED <<pc, open>> PROVE Permitted'
  BY <1>1 DEF IInv, Permitted, TypeOK, At, Permit
<1>2. CASE UNCHANGED vars
  BY <1>1, <1>2 DEF vars
<1>3. ASSUME NEW t \in Tokens, Dispatch(t) PROVE Permitted'
  <2>1. CASE TakeGate(t)
    BY <2>1 DEF IInv, TypeOK, Permitted, At, Permit, TakeGate, MayStart
  <2>2. CASE LoseGate(t)
    BY <2>2 DEF IInv, TypeOK, Permitted, At, Permit, LoseGate, MayStart
  <2>3. CASE Subscribe(t)
    BY <2>3 DEF IInv, TypeOK, Permitted, At, Permit, Subscribe
  <2>4. CASE AskPermit(t)
    BY <2>4 DEF IInv, TypeOK, Permitted, At, Permit, AskPermit
  <2>5. CASE WriteGo(t)
    BY <2>5 DEF IInv, TypeOK, Permitted, At, Permit, WriteGo
  <2>6. CASE WriteTimeout(t)
    BY <2>6 DEF IInv, TypeOK, Permitted, At, Permit, WriteTimeout, Killed
  <2>7. CASE Undo(t)
    BY <2>7 DEF IInv, TypeOK, Permitted, At, Permit, Undo
  <2>8. CASE RecordFailure(t)
    BY <2>8 DEF IInv, TypeOK, Permitted, At, Permit, RecordFailure
  <2> QED
    BY <1>3, <2>1, <2>2, <2>3, <2>4, <2>5, <2>6, <2>7, <2>8 DEF Dispatch
<1>4. ASSUME NEW t \in Tokens, CloseWindow(t) PROVE Permitted'
  BY <1>4 DEF IInv, TypeOK, Permitted, At, Permit, CloseWindow
<1>5. ASSUME NEW t \in Tokens, Expire(t) \/ StopWriter(t) \/ Watchdog(t) PROVE Permitted'
  BY <1>1, <1>5 DEF Expire, StopWriter, StopCall, StopTake, StopCheck, StopSend, Watchdog, Kill,
        Killed, RecordKill
<1>6. CASE NextGeneration \/ Asking \/ EngineReads
  BY <1>1, <1>6 DEF NextGeneration, Barrier, Killed, Asking, AskGate, AskCheck, AskSend,
        AskReturn, AskFailed, AskKill, EngineReads
<1>7. CASE EngineSays \/ Quits \/ Crash
  BY <1>1, <1>7 DEF EngineSays, Quits, Dies, Crash
<1>8. CASE SignalArrives \/ Reading \/ CloseSteps
  BY <1>1, <1>8 DEF SignalArrives, Dies, Reading, ReadLine, Callback, Eof, ExitCall, CloseSteps,
        BeginClose, Barrier, Killed, SendQuit, AwaitEnd
<1> QED
  BY <1>2, <1>3, <1>4, <1>5, <1>6, <1>7, <1>8 DEF Next

\* The invariant holds at the start.
LEMMA Initial == Init => IInv
<1> SUFFICES ASSUME Init PROVE IInv
  OBVIOUS
<1>1. TypeOK
  BY BoundAssumption DEF Init, TypeOK, Tokens, NoCall
<1>2. Gates /\ Fresh
  BY GateValues DEF Init, Gates, Fresh, Busy, Free
<1>3. Subscribed /\ Calls
  BY DEF Init, Subscribed, Held, Stopping, Idle, Known, Untold, Calls, Calling, Exiting, Over, Silent, Bound, Busy, Dead
<1>4. Pipes /\ Finds /\ Told /\ Permitted
  BY DEF Init, Pipes, Command1, Engine1, Line1, Finds, Told, Permitted
<1> QED
  BY <1>1, <1>2, <1>3, <1>4 DEF IInv

\* Every step keeps the invariant.
LEMMA Step == IInv /\ [Next]_vars => IInv'
<1> SUFFICES ASSUME IInv /\ [Next]_vars PROVE IInv'
  OBVIOUS
<1>1. TypeOK' /\ Gates' /\ Fresh' /\ Finds' /\ Told' /\ Permitted'
  BY Types, GatesStep, FreshStep, FindsStep, ToldStep, PermittedStep
<1>2. Held' /\ Stopping' /\ Idle' /\ Known' /\ Untold'
  BY HeldStep, StoppingStep, IdleStep, KnownStep, UntoldStep
<1>3. Command1' /\ Engine1' /\ Line1'
  BY Command1Step, Engine1Step, Line1Step
<1>4. Calling' /\ Exiting' /\ Over' /\ Silent'
  BY CallingStep, ExitingStep, OverStep, SilentStep
<1> QED
  BY <1>1, <1>2, <1>3, <1>4 DEF IInv, Subscribed, Pipes, Calls

-----------------------------------------------------------------------------
(* The theorems *)

\* The strengthened invariant of the process and its threads.
THEOREM Invariance == Spec => []IInv
<1>1. IInv /\ UNCHANGED vars => IInv'
  BY Step
<1> QED
  BY Initial, Step, PTL DEF Spec

\* Every variable keeps its type.
THEOREM TypeCorrect == Spec => []TypeOK
<1>1. IInv => TypeOK
  BY DEF IInv
<1> QED
  BY <1>1, Invariance, PTL

\* One search at a time: what is written, searched or answered is the search
\* that is subscribed, and a go or a perft reaches an idle engine
\* (uci_process.py:616, :416).
THEOREM SearchesOneByOne == Spec => []OneSearch
<1>1. IInv => OneSearch
  <2> SUFFICES ASSUME IInv PROVE OneSearch
    OBVIOUS
  <2>1. stdin \in Seq(Command) /\ stdout \in Seq(Line) /\ Pipes /\ Finds
    BY DEF IInv, TypeOK
  <2>2. /\ \A i \in DOMAIN stdin : i \in 1 .. Len(stdin) /\ \A j \in 1 .. i - 1 : j \in 1 .. Len(stdin)
        /\ DOMAIN stdout = 1 .. Len(stdout)
    BY <2>1
  <2>3. UnderWay \subseteq {search}
    <3>1. \A i \in DOMAIN stdin : stdin[i].do = "go" => stdin[i].of = search
      BY <2>1, <2>2 DEF Pipes, Command1
    <3>2. engine # None => engine = search
      BY <2>1 DEF Pipes, Engine1
    <3>3. \A k \in DOMAIN stdout : stdout[k].is = "bestmove" => stdout[k].of = search
      BY <2>1, <2>2 DEF Pipes, Line1
    <3> QED
      BY <3>1, <3>2, <3>3 DEF UnderWay
  <2>4. ASSUME NEW i \in DOMAIN stdin, stdin[i].do \in {"go", "perft"}
        PROVE  engine = None /\ \A j \in 1 .. i - 1 : stdin[j].do # "go"
    <3>1. CASE stdin[i].do = "go"
      BY <2>1, <2>2, <3>1 DEF Pipes, Command1
    <3>2. CASE stdin[i].do = "perft"
      BY <2>1, <2>2, <3>2 DEF Finds
    <3> QED
      BY <2>4, <3>1, <3>2
  <2> QED
    BY <2>3, <2>4 DEF OneSearch
<1> QED
  BY <1>1, Invariance, PTL

\* A stop ends only a search of its own generation (uci_process.py:638).
THEOREM StopsHitTheirOwn == Spec => []StopHitsOwn
<1>1. IInv => StopHitsOwn
  <2> SUFFICES ASSUME IInv PROVE StopHitsOwn
    OBVIOUS
  <2>1. stdin \in Seq(Command) /\ Finds
    BY DEF IInv, TypeOK
  <2> QED
    BY <2>1 DEF Finds, StopHitsOwn
<1> QED
  BY <1>1, Invariance, PTL

\* What the coordinator is told of a search is true and is told once
\* (runtime.py:3091).
THEOREM OutcomesAreTrue == Spec => []Outcomes
<1>1. IInv => Outcomes
  BY DEF IInv, Calls, Calling, Told, Outcomes
<1> QED
  BY <1>1, Invariance, PTL

\* No search command enters the pipe once the anchor has completed
\* (shadow.py:1573).
THEOREM NothingIsWrittenLate == Spec => NoLateGo
<1>1. IInv /\ [Next]_vars => [\A s \in Search : s \in written' \ written => open[s.token]]_vars
  <2> SUFFICES ASSUME IInv, Next, NEW s \in Search, s \in written' \ written
               PROVE  open[s.token]
    BY DEF vars
  <2>1. ASSUME NEW t \in Tokens, WriteGo(t) PROVE open[s.token]
    BY <2>1, Unwritten DEF IInv, Permitted, WriteGo
  <2>2. ASSUME NEW t \in Tokens, Dispatch(t) \/ CloseWindow(t) \/ Expire(t) PROVE WriteGo(t)
    BY <2>2 DEF Dispatch, TakeGate, LoseGate, Subscribe, AskPermit, WriteTimeout, Undo, RecordFailure,
       CloseWindow, Expire
  <2>3. ASSUME NEW t \in Tokens, StopWriter(t) \/ Watchdog(t) PROVE FALSE
    BY <2>3 DEF StopWriter, StopCall, StopTake, StopCheck, StopSend, Watchdog, Kill, RecordKill
  <2>4. CASE NextGeneration \/ Asking
    BY <2>4 DEF NextGeneration, Asking, AskGate, AskCheck, AskSend, AskReturn, AskFailed, AskKill
  <2>5. CASE EngineReads \/ EngineSays \/ Quits \/ Crash \/ SignalArrives
    BY <2>5 DEF EngineReads, EngineSays, Quits, Crash, SignalArrives, Dies
  <2>6. CASE Reading \/ CloseSteps
    BY <2>6 DEF Reading, ReadLine, Callback, Eof, ExitCall, CloseSteps, BeginClose, SendQuit, AwaitEnd
  <2> QED
    BY <2>1, <2>2, <2>3, <2>4, <2>5, <2>6 DEF Next
<1> QED
  BY <1>1, Invariance, PTL DEF Spec, NoLateGo

=============================================================================
