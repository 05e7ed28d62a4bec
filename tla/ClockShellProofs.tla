-------------------------- MODULE ClockShellProofs --------------------------
(***************************************************************************)
(* The inductive invariant of ClockShell and what follows from it.         *)
(*                                                                         *)
(* IInv has a part about the data (DataInv), a part each thread keeps for  *)
(* itself (Local), and two parts that relate threads: GateInv for the      *)
(* reader that holds the authority gate, Unique for failing threads.       *)
(* JInv adds what the moves themselves rest on: whose line may be written, *)
(* what a revoked authority rules out, and which measurement is still open *)
(* when the command loop comes to the anchor.                              *)
(***************************************************************************)
EXTENDS ClockShell, TLAPS

FailLabels   == {"retire", "kill", "null"}             \* past ClockSearch.fail
BrokenLabels == {"broken", "accounting", "unhealthy"}  \* inside _runtime_failed
ReaderLabels == {"complete", "decide", "seal", "enter", "write", "commit", "emitted"}
MoveLines    == {"anchor", "hybrid"}

\* What thread t knows at its label: its generation, where it returns to, what
\* it has already done to its clock, and why it may still act.
Local(t) ==
    /\ t \in Kinds \X Gen => gen[t] = t[2] /\ ret[t] = "done"
    /\ t = Main => ret[t] \in Commands \cup {"idle", "raised", "again"}
    /\ t = Reader => ret[t] \in {"idle", "dead"}
    /\ gen[t] <= generation \/ pc[t] = "off"
    /\ pc[t] \in FailLabels \cup ReaderLabels \cup {"expire", "prepare", "dispatch"}
           => gen[t] # 0
    /\ pc[t] \in BrokenLabels => t \in {Main, Reader} /\ (t = Reader => reason)
    /\ pc[t] \in FailLabels => gen[t] \in failed /\ line[gen[t]] = "none"
    /\ pc[t] = "unhealthy" /\ active # 0 => tok[t] \notin {0, active}
    /\ pc[t] \in {"ready", "emitted"} => gen[t] \in published
    /\ t \in {"ready"} \X Gen /\ pc[t] # "off" => gen[t] \in published

\* The shell is searching exactly while a generation is active, the newest one.
ActiveInv ==
    /\ state = "SEARCHING" <=> active # 0
    /\ active # 0 => active = generation
    /\ search <= generation

\* Outcomes of a clock exclude each other, end it and explain its line.
ClockInv ==
    /\ published \subseteq finished /\ failed \subseteq finished
    /\ published \cap failed = {}
    /\ \A g \in finished : g <= generation
    /\ \A g \in Gen : line[g] = "null" => g \in failed
    /\ \A g \in published : line[g] \in MoveLines

\* A line was written once, and nothing else was.
CountInv == \A g \in Gen : answers[g] = IF line[g] = "none" THEN 0 ELSE 1

\* Readiness comes back only for a published generation.
ReadyInv ==
    /\ \A g \in frozen : g \in published \/ ~healthy
    /\ state = "READY" /\ healthy => generation = 0 \/ generation \in published
    /\ \A g \in Gen : g < generation => g \in published

DataInv == ActiveInv /\ ClockInv /\ CountInv /\ ReadyInv

\* While the reader holds the gate nobody else ends its clock; a move is
\* published, or about to be.
GateInv ==
    /\ pc[Reader] \in {"write", "commit"} => gen[Reader] \notin finished
    /\ pc[Reader] = "commit" => line[gen[Reader]] \in MoveLines
    /\ \A g \in Gen : line[g] \in MoveLines =>
           g \in published \/ (pc[Reader] = "commit" /\ gen[Reader] = g)

\* One thread at most is failing a generation.
Unique ==
    \A t, u \in Thread :
        pc[t] \in FailLabels /\ pc[u] \in FailLabels /\ gen[t] = gen[u] => t = u

IInv == TypeOK /\ DataInv /\ (\A t \in Thread : Local(t)) /\ GateInv /\ Unique

-----------------------------------------------------------------------------
(* Threads, and what moving one of them does to the frames *)

\* Threads of different kinds or generations are different threads.
LEMMA Threads ==
    /\ Main \in Thread /\ Reader \in Thread /\ Main # Reader
    /\ Main[2] = 0 /\ Reader[2] = 0
    /\ Main \notin Kinds \X Gen /\ Reader \notin Kinds \X Gen
    /\ \A t \in Thread : t = Main \/ t = Reader \/ t \in Kinds \X Gen
    /\ {"ready"} \X Gen \subseteq Kinds \X Gen
    /\ \A t \in Kinds \X Gen : t \in Thread /\ t[1] \in Kinds /\ t[2] \in Gen
    /\ \A g \in Gen :
           /\ Watch(g) \in Kinds \X Gen /\ Soft(g) \in Kinds \X Gen
           /\ UStop(g) \in Kinds \X Gen /\ Ready(g) \in Kinds \X Gen
           /\ Ready(g) \in {"ready"} \X Gen
           /\ {Watch(g), Soft(g), UStop(g)} \cap ({"ready"} \X Gen) = {}
           /\ Watch(g)[2] = g /\ Soft(g)[2] = g /\ UStop(g)[2] = g /\ Ready(g)[2] = g
BY DEF Thread, Main, Reader, Watch, Soft, UStop, Ready, Kinds, Gen

LEMMA GenFacts == /\ MaxGen \in Nat /\ MaxGen # 0
                  /\ \A g : g \in Gen <=> g \in Nat /\ g # 0 /\ g <= MaxGen
                  /\ \A g : g \in 0 .. MaxGen <=> g \in Nat /\ g <= MaxGen
BY BoundAssumption DEF Gen

LEMMA ThreadGen == \A t \in Thread : t[2] \in 0 .. MaxGen
BY Threads, GenFacts

\* Only the threads of S move.
Moved(S) ==
    /\ FrameType'
    /\ \A u \in Thread \ S : /\ pc'[u] = pc[u] /\ gen'[u] = gen[u]
                              /\ tok'[u] = tok[u] /\ ret'[u] = ret[u]

LEMMA GotoMoves ==
    ASSUME FrameType, NEW t \in Thread, NEW l \in Labels, Goto(t, l)
    PROVE  /\ Moved({t}) /\ pc'[t] = l
           /\ gen'[t] = gen[t] /\ tok'[t] = tok[t] /\ ret'[t] = ret[t]
BY DEF FrameType, Goto, Moved

LEMMA RestMoves ==
    ASSUME FrameType, NEW t \in Thread, Rest(t)
    PROVE  /\ Moved({t}) /\ pc'[t] = Home(t)
           /\ gen'[t] = t[2] /\ tok'[t] = tok[t] /\ ret'[t] = ret[t]
<1>1. Home(t) \in Labels
  BY DEF Home, Labels
<1>. QED
  BY <1>1, ThreadGen DEF FrameType, Rest, Moved

LEMMA CallMoves ==
    ASSUME FrameType, NEW t \in Thread, NEW l \in Labels, NEW k \in 0 .. MaxGen,
           NEW r \in Labels, Call(t, l, k, r)
    PROVE  /\ Moved({t}) /\ pc'[t] = l
           /\ gen'[t] = gen[t] /\ tok'[t] = k /\ ret'[t] = r
BY DEF FrameType, Call, Moved

LEMMA ReturnMoves ==
    ASSUME FrameType, NEW t \in Thread, Return(t)
    PROVE  /\ Moved({t}) /\ pc'[t] = ret[t] /\ ret'[t] = Home(t) /\ tok'[t] = 0
           /\ gen'[t] = IF ret[t] = "raised" THEN gen[t] ELSE t[2]
<1>1. Home(t) \in Labels /\ ret[t] \in Labels /\ 0 \in 0 .. MaxGen
  BY GenFacts DEF Home, Labels, FrameType
<1>. QED
  BY <1>1, ThreadGen DEF FrameType, Return, Moved

\* The other threads keep what they know, whatever the data does monotonically.
LEMMA OthersLocal ==
    ASSUME IInv, NEW S, Moved(S), NEW u \in Thread \ S,
           generation' \in Nat, generation <= generation', reason => reason',
           failed \subseteq failed', published \subseteq published',
           active' \in {0, active},
           pc[u] \in FailLabels => line'[gen[u]] = line[gen[u]]
    PROVE  Local(u)'
<1>1. Local(u) /\ generation \in Nat /\ gen[u] \in Nat
  BY GenFacts DEF IInv, TypeOK, ShellType, FrameType
<1>2. pc'[u] = pc[u] /\ gen'[u] = gen[u] /\ tok'[u] = tok[u] /\ ret'[u] = ret[u]
  BY DEF Moved
<1>3. gen[u] <= generation => gen[u] <= generation'
  BY <1>1
<1>. QED
  BY <1>1, <1>2, <1>3 DEF Local

\* Labels that promise nothing.
Calm == Labels \ (FailLabels \cup ReaderLabels \cup BrokenLabels
                    \cup {"off", "expire", "prepare", "dispatch", "ready"})

LEMMA GotoCalm ==
    ASSUME IInv, NEW t \in Thread, NEW l \in Calm, Goto(t, l), pc[t] # "off",
           generation' \in Nat, generation <= generation', published \subseteq published'
    PROVE  /\ Moved({t}) /\ Local(t)' /\ pc'[t] = l
           /\ pc'[t] \notin FailLabels /\ pc'[t] \notin {"write", "commit"}
<1>1. FrameType /\ l \in Labels /\ Local(t) /\ generation \in Nat /\ gen[t] \in Nat
  BY GenFacts DEF IInv, TypeOK, ShellType, FrameType, Calm
<1>2. /\ Moved({t}) /\ pc'[t] = l
      /\ gen'[t] = gen[t] /\ tok'[t] = tok[t] /\ ret'[t] = ret[t]
  BY <1>1, GotoMoves
<1>3. /\ l \notin FailLabels /\ l \notin ReaderLabels /\ l \notin BrokenLabels
      /\ l \notin {"off", "expire", "prepare", "dispatch", "ready"}
  BY DEF Calm
<1>4. l \notin {"write", "commit", "emitted", "unhealthy"}
  BY <1>3 DEF ReaderLabels, BrokenLabels
<1>5. gen[t] <= generation'
  BY <1>1 DEF Local
<1>6. t \in {"ready"} \X Gen => gen'[t] \in published'
  BY <1>1, <1>2 DEF Local
<1>. QED
  BY <1>1, <1>2, <1>3, <1>4, <1>5, <1>6 DEF Local

\* Home labels and return labels are calm.
LEMMA Settle ==
    ASSUME IInv, NEW t \in Thread, Rest(t) \/ Return(t), pc[t] # "off",
           generation' \in Nat, generation <= generation', published \subseteq published'
    PROVE  /\ Moved({t}) /\ Local(t)' /\ pc'[t] \in Calm
           /\ pc'[t] \notin FailLabels /\ pc'[t] \notin {"write", "commit"}
<1>1. FrameType /\ Local(t) /\ generation \in Nat /\ gen[t] \in Nat
  BY GenFacts DEF IInv, TypeOK, ShellType, FrameType
<1>2. /\ Moved({t}) /\ pc'[t] \in {Home(t), ret[t]}
      /\ gen'[t] \in {gen[t], t[2]} /\ ret'[t] \in {ret[t], Home(t)}
  BY <1>1, RestMoves, ReturnMoves
<1>3. Home(t) \in Calm /\ ret[t] \in Calm
  <2>1. Commands \cup {"idle", "raised", "again", "dead", "done"} \subseteq Calm
    BY ModeAssumption DEF Calm, Labels, FailLabels, ReaderLabels, BrokenLabels
  <2>. QED
    BY <1>1, <2>1, Threads DEF Local, Home
<1>4. /\ pc'[t] \notin FailLabels /\ pc'[t] \notin ReaderLabels /\ pc'[t] \notin BrokenLabels
      /\ pc'[t] \notin {"off", "expire", "prepare", "dispatch", "ready"}
  BY <1>2, <1>3 DEF Calm
<1>5. pc'[t] \notin {"write", "commit", "emitted", "unhealthy"}
  BY <1>4 DEF ReaderLabels, BrokenLabels
<1>6. gen'[t] <= generation'
  <2>1. gen[t] <= generation'
    BY <1>1 DEF Local
  <2>2. t[2] <= generation'
    BY <1>1, <2>1, Threads DEF Local
  <2>. QED
    BY <1>2, <2>1, <2>2
<1>7. /\ t \in Kinds \X Gen => gen'[t] = t[2] /\ ret'[t] = "done"
      /\ t = Main => ret'[t] \in Commands \cup {"idle", "raised", "again"}
      /\ t = Reader => ret'[t] \in {"idle", "dead"}
  BY <1>1, <1>2, Threads DEF Local, Home
<1>8. t \in {"ready"} \X Gen => gen'[t] \in published'
  BY <1>1, <1>7, Threads DEF Local
<1>. QED
  BY <1>2, <1>3, <1>4, <1>5, <1>6, <1>7, <1>8 DEF Local

LEMMA UniqueKept ==
    ASSUME IInv, NEW S \in SUBSET Thread, Moved(S),
           \A t \in S : pc'[t] \in FailLabels => pc[t] \in FailLabels /\ gen'[t] = gen[t]
    PROVE  Unique'
<1>1. \A t \in Thread : pc'[t] \in FailLabels => pc[t] \in FailLabels /\ gen'[t] = gen[t]
  BY DEF Moved
<1>. QED
  BY <1>1 DEF IInv, Unique

LEMMA GateKept ==
    ASSUME IInv, NEW S \in SUBSET Thread, Moved(S),
           Reader \in S => pc[Reader] # "commit" /\ pc'[Reader] \notin {"write", "commit"},
           \A g \in Gen : line'[g] \in MoveLines <=> line[g] \in MoveLines,
           published \subseteq published',
           pc[Reader] \in {"write", "commit"} /\ Reader \notin S => gen[Reader] \notin finished'
    PROVE  GateInv'
<1>1. CASE Reader \in S
  BY <1>1 DEF IInv, GateInv
<1>2. CASE Reader \notin S
  <2>1. pc'[Reader] = pc[Reader] /\ gen'[Reader] = gen[Reader]
    BY <1>2, Threads DEF Moved
  <2>2. pc[Reader] = "commit" => gen[Reader] \in Gen
    BY Threads, GenFacts DEF IInv, TypeOK, FrameType, Local, ReaderLabels
  <2>. QED
    BY <1>2, <2>1, <2>2 DEF IInv, GateInv
<1>. QED
  BY <1>1, <1>2

\* What only the outcome of a generation changes.
outcome == <<generation, finished, published, failed, line>>

\* A step that decides no outcome need only look at the threads it moves.
LEMMA Quiet ==
    ASSUME IInv, TypeOK', DataInv', UNCHANGED outcome,
           reason => reason', active' \in {0, active},
           NEW S \in SUBSET Thread, Moved(S),
           \A t \in S :
               /\ Local(t)'
               /\ pc'[t] \in FailLabels => pc[t] \in FailLabels /\ gen'[t] = gen[t],
           Reader \in S => pc[Reader] # "commit" /\ pc'[Reader] \notin {"write", "commit"}
    PROVE  IInv'
<1>1. /\ generation' = generation /\ failed' = failed
      /\ published' = published /\ line' = line /\ finished' = finished
      /\ generation \in Nat
  BY GenFacts DEF outcome, IInv, TypeOK, ShellType
<1>2. \A u \in Thread : Local(u)'
  BY <1>1, OthersLocal
<1>3. GateInv'
  BY <1>1, GateKept, Threads DEF IInv, GateInv
<1>4. Unique'
  BY UniqueKept
<1>. QED
  BY <1>2, <1>3, <1>4 DEF IInv

LEMMA DataSame ==
    ASSUME DataInv,
           UNCHANGED <<state, generation, active, search, finished, published, failed,
                       frozen, reason, alive, closing, output>>
    PROVE  DataInv'
BY DEF DataInv, ActiveInv, ClockInv, CountInv, ReadyInv, output, healthy

\* A step that only moves threads.
LEMMA FrameOnly ==
    ASSUME IInv, UNCHANGED <<shell, time, clock, measure, backend, require, output>>,
           NEW S \in SUBSET Thread, Moved(S),
           \A t \in S :
               /\ Local(t)'
               /\ pc'[t] \in FailLabels => pc[t] \in FailLabels /\ gen'[t] = gen[t],
           Reader \in S => pc[Reader] # "commit" /\ pc'[Reader] \notin {"write", "commit"}
    PROVE  IInv'
<1>1. TypeOK'
  BY DEF IInv, TypeOK, ShellType, ClockType, MeasureType, BackendType, OutputType,
         shell, clock, measure, backend, output, Moved
<1>2. DataInv'
  BY DataSame DEF IInv, shell, clock, measure, backend
<1>3. UNCHANGED outcome /\ (reason => reason') /\ active' \in {0, active}
  BY DEF outcome, shell, clock, output, backend
<1>. QED
  BY <1>1, <1>2, <1>3, Quiet

\* What every proof about a step starts from.
LEMMA Basics ==
    ASSUME IInv
    PROVE  /\ FrameType /\ generation \in Nat /\ generation <= generation
           /\ published \subseteq published
           /\ DataInv /\ GateInv /\ Unique
           /\ \A t \in Thread :
                  /\ Local(t) /\ gen[t] \in 0 .. MaxGen /\ gen[t] \in Nat
                  /\ tok[t] \in 0 .. MaxGen /\ ret[t] \in Labels /\ pc[t] \in Labels
BY GenFacts DEF IInv, TypeOK, ShellType, FrameType

\* A thread that only moves to a calm label.
LEMMA CalmOnly ==
    ASSUME IInv, UNCHANGED <<shell, time, clock, measure, backend, require, output>>,
           NEW t \in Thread, pc[t] \notin {"off", "commit"},
           Rest(t) \/ Return(t) \/ \E l \in Calm : Goto(t, l)
    PROVE  IInv'
<1>1. generation' = generation /\ published' = published
  BY DEF shell, clock
<1>2. Moved({t}) /\ Local(t)' /\ pc'[t] \notin FailLabels /\ pc'[t] \notin {"write", "commit"}
  BY <1>1, Settle, GotoCalm, Basics
<1>. QED
  BY <1>2, FrameOnly

LEMMA CalmLabels ==
    {"idle", "done", "fence", "apply", "probe", "again", "raised", "stop", "finish",
     "close", "exit", "dead", "soft", "hard", "halt", "block", "send", "fail"} \subseteq Calm
BY DEF Calm, Labels, FailLabels, ReaderLabels, BrokenLabels

-----------------------------------------------------------------------------
(* _clock_fail *)

LEMMA FailCheckStep == ASSUME IInv, NEW t \in Thread, FailCheck(t) PROVE IInv'
<1>1. /\ pc[t] = "fail" /\ UNCHANGED <<shell, time, clock, measure, backend, require, output>>
      /\ generation' = generation /\ active' = active /\ published' = published
  BY DEF FailCheck, shell, clock
<1>2. /\ Moved({t}) /\ Local(t)' /\ pc'[t] \notin FailLabels
      /\ pc'[t] \notin {"write", "commit"}
  <2>1. CASE Searching(gen[t]) /\ Goto(t, "expire")
    <3>1. /\ Moved({t}) /\ pc'[t] = "expire"
          /\ gen'[t] = gen[t] /\ tok'[t] = tok[t] /\ ret'[t] = ret[t]
      BY <2>1, Basics, GotoMoves DEF Labels
    <3>2. gen[t] # 0
      BY <2>1, Basics DEF Searching, DataInv, ActiveInv
    <3>. QED
      BY <1>1, <3>1, <3>2, Basics DEF Local, FailLabels, BrokenLabels, ReaderLabels
  <2>2. CASE Return(t)
    BY <1>1, <2>2, Settle, Basics
  <2>. QED
    BY <2>1, <2>2 DEF FailCheck
<1>. QED
  BY <1>1, <1>2, FrameOnly

-----------------------------------------------------------------------------
(* _runtime_failed *)

LEMMA RuntimeFailedStep == ASSUME IInv, NEW t \in Thread, RuntimeFailed(t) PROVE IInv'
<1>1. /\ pc[t] = "broken" /\ UNCHANGED <<shell, time, clock, measure, backend, require, output>>
      /\ generation' = generation /\ active' = active /\ reason' = reason
  BY DEF RuntimeFailed, shell, backend
<1>2. /\ Moved({t}) /\ pc'[t] \in {"accounting", "fail", "unhealthy"}
      /\ gen'[t] \in {gen[t], active} /\ tok'[t] = tok[t] /\ ret'[t] = ret[t]
      /\ pc'[t] # "unhealthy" => gen'[t] = active
      /\ pc'[t] = "unhealthy" => gen'[t] = gen[t] /\ ~(active # 0 /\ tok[t] \in {0, active})
  <2>1. CASE active # 0 /\ tok[t] \in {0, active}
    <3>1. active \in 0 .. MaxGen /\ {"accounting", "fail"} \subseteq Labels
      BY DEF IInv, TypeOK, ShellType, Labels
    <3>. QED
      BY <2>1, <3>1, Basics DEF RuntimeFailed, Moved, FrameType
  <2>2. CASE ~(active # 0 /\ tok[t] \in {0, active})
    <3>1. Goto(t, "unhealthy") /\ "unhealthy" \in Labels
      BY <2>2 DEF RuntimeFailed, Labels
    <3>. QED
      BY <2>2, <3>1, Basics, GotoMoves
  <2>. QED
    BY <2>1, <2>2
<1>3. t \in {Main, Reader} /\ (t = Reader => reason)
  BY <1>1, Basics DEF Local, BrokenLabels
<1>4. active <= generation /\ gen[t] <= generation
  BY <1>1, Basics, GenFacts DEF DataInv, ActiveInv, Local
<1>5. Local(t)'
  BY <1>1, <1>2, <1>3, <1>4, Threads, Basics DEF Local, FailLabels, BrokenLabels, ReaderLabels
<1>. QED
  BY <1>1, <1>2, <1>5, FrameOnly DEF FailLabels

-----------------------------------------------------------------------------
(* The command loop *)

LEMMA CommandStep == ASSUME IInv, NEW c \in Commands, Command(c) PROVE IInv'
<1>1. /\ pc[Main] = "idle" /\ UNCHANGED <<shell, time, clock, measure, backend, require, output>>
      /\ generation' = generation
  BY DEF Command, shell
<1>2. /\ Moved({Main}) /\ pc'[Main] = "fence"
      /\ gen'[Main] = gen[Main] /\ tok'[Main] = 0 /\ ret'[Main] = c
  <2>1. c \in Labels /\ "fence" \in Labels /\ 0 \in 0 .. MaxGen
    BY ModeAssumption, GenFacts DEF Labels
  <2>2. FrameType /\ Main \in Thread /\ Call(Main, "fence", 0, c)
    BY Basics, Threads DEF Command
  <2>. QED
    BY <2>1, <2>2, CallMoves
<1>3. Local(Main)'
  BY <1>1, <1>2, Threads, Basics DEF Local, FailLabels, BrokenLabels, ReaderLabels
<1>. QED
  BY <1>1, <1>2, <1>3, FrameOnly, Threads DEF FailLabels

LEMMA SyncStep == ASSUME IInv, Sync PROVE IInv'
BY CalmOnly, CalmLabels, Threads DEF Sync

LEMMA IsReadyStep == ASSUME IInv, IsReady PROVE IInv'
BY CalmOnly, CalmLabels, Threads DEF IsReady

LEMMA DispatchRaisedStep == ASSUME IInv, DispatchRaised PROVE IInv'
BY CalmOnly, CalmLabels, Threads DEF DispatchRaised

LEMMA WatchHardStep == ASSUME IInv, NEW g \in Gen, WatchHard(g) PROVE IInv'
<1>1. Watch(g) \in Thread
  BY Threads
<1>. QED
  BY <1>1, CalmOnly, CalmLabels DEF WatchHard

LEMMA SyncRaisedStep == ASSUME IInv, SyncRaised PROVE IInv'
<1>1. CASE Rest(Main)
  BY <1>1, CalmOnly, Threads DEF SyncRaised
<1>2. CASE Goto(Main, "broken")
  <2>1. /\ pc[Main] = "again" /\ generation' = generation
        /\ UNCHANGED <<shell, time, clock, measure, backend, require, output>>
    BY DEF SyncRaised, shell
  <2>2. /\ Moved({Main}) /\ pc'[Main] = "broken"
        /\ gen'[Main] = gen[Main] /\ tok'[Main] = tok[Main] /\ ret'[Main] = ret[Main]
    BY <1>2, Basics, GotoMoves, Threads DEF Labels
  <2>3. Local(Main)'
    BY <2>1, <2>2, Threads, Basics DEF Local, FailLabels, BrokenLabels, ReaderLabels
  <2>. QED
    BY <2>1, <2>2, <2>3, FrameOnly, Threads DEF FailLabels
<1>. QED
  BY <1>1, <1>2 DEF SyncRaised

LEMMA StopSpawnStep == ASSUME IInv, StopSpawn PROVE IInv'
<1>1. CASE Rest(Main)
  BY <1>1, CalmOnly, Threads DEF StopSpawn
<1>2. CASE /\ active # 0 /\ UNCHANGED <<gen, tok, ret>>
           /\ pc' = [pc EXCEPT ![Main] = "idle", ![UStop(active)] = "halt"]
  <2>1. /\ pc[Main] = "stop" /\ generation' = generation
        /\ UNCHANGED <<shell, time, clock, measure, backend, require, output>>
    BY DEF StopSpawn, shell
  <2>2. active \in Gen /\ active = generation
    BY <1>2, GenFacts, Basics DEF IInv, TypeOK, ShellType, DataInv, ActiveInv
  <2>3. PICK u \in Kinds \X Gen : u = UStop(active) /\ u[2] = active
    BY <2>2, Threads
  <2>. u \in Thread /\ u # Main /\ u # Reader
    BY Threads
  <2>4. /\ Moved({Main, u}) /\ pc'[Main] = "idle" /\ pc'[u] = "halt"
        /\ gen' = gen /\ tok' = tok /\ ret' = ret
    BY <1>2, <2>3, Basics, Threads DEF Moved, FrameType, Labels
  <2>5. Local(Main)'
    BY <2>1, <2>4, Threads, Basics DEF Local, FailLabels, BrokenLabels, ReaderLabels
  <2>6. Local(u)'
    <3>1. gen'[u] = generation' /\ gen'[u] = u[2] /\ ret'[u] = "done" /\ generation' <= generation'
      BY <2>1, <2>2, <2>3, <2>4, Basics DEF Local
    <3>2. u \notin {"ready"} \X Gen
      BY <2>2, <2>3, Threads
    <3>. QED
      BY <2>3, <2>4, <3>1, <3>2 DEF Local, FailLabels, BrokenLabels, ReaderLabels
  <2>7. \A t \in {Main, u} : Local(t)' /\ pc'[t] \notin FailLabels
    BY <2>4, <2>5, <2>6 DEF FailLabels
  <2>8. {Main, u} \in SUBSET Thread /\ Reader \notin {Main, u}
    BY <2>3, Threads
  <2>. QED
    BY <2>1, <2>4, <2>7, <2>8, FrameOnly
<1>. QED
  BY <1>1, <1>2 DEF StopSpawn

LEMMA CompleteStep == ASSUME IInv, Complete PROVE IInv'
<1>1. CASE Rest(Reader) \/ Goto(Reader, "fail")
  BY <1>1, CalmOnly, CalmLabels, Threads DEF Complete
<1>2. CASE Goto(Reader, "decide")
  <2>1. /\ pc[Reader] = "complete" /\ generation' = generation
        /\ UNCHANGED <<shell, time, clock, measure, backend, require, output>>
    BY DEF Complete, shell
  <2>2. /\ Moved({Reader}) /\ pc'[Reader] = "decide"
        /\ gen'[Reader] = gen[Reader] /\ tok'[Reader] = tok[Reader] /\ ret'[Reader] = ret[Reader]
    BY <1>2, Basics, GotoMoves, Threads DEF Labels
  <2>3. Local(Reader)'
    BY <2>1, <2>2, Threads, Basics DEF Local, FailLabels, BrokenLabels, ReaderLabels
  <2>. QED
    BY <2>1, <2>2, <2>3, FrameOnly, Threads DEF FailLabels
<1>. QED
  BY <1>1, <1>2 DEF Complete

\* Everything the invariant is about except the frames.
facts == <<state, generation, active, search, finished, published, failed,
           frozen, reason, alive, closing, output>>

\* A thread that moves to a calm label and touches none of the facts.
LEMMA CalmSide ==
    ASSUME IInv, TypeOK', UNCHANGED facts,
           NEW t \in Thread, pc[t] \notin {"off", "commit"},
           Rest(t) \/ Return(t) \/ \E l \in Calm : Goto(t, l)
    PROVE  IInv'
<1>1. /\ generation' = generation /\ active' = active /\ reason' = reason
      /\ published' = published /\ UNCHANGED outcome /\ DataInv'
  BY DataSame, Basics DEF facts, output, outcome
<1>2. Moved({t}) /\ Local(t)' /\ pc'[t] \notin FailLabels /\ pc'[t] \notin {"write", "commit"}
  BY <1>1, Settle, GotoCalm, Basics
<1>. QED
  BY <1>1, <1>2, Quiet

\* The frames are well typed after a calm move.
LEMMA CalmTyped ==
    ASSUME IInv, NEW t \in Thread, Rest(t) \/ Return(t) \/ \E l \in Calm : Goto(t, l)
    PROVE  FrameType'
BY Basics, RestMoves, ReturnMoves, GotoMoves DEF Moved, Calm

LEMMA ClockStopStep == ASSUME IInv, NEW t \in Kinds \X Gen, ClockStop(t) PROVE IInv'
<1>1. t \in Thread /\ gen[t] \in Gen /\ pc[t] = "halt"
  BY Threads, Basics DEF ClockStop, Local
<1>2. Rest(t) \/ \E l \in Calm : Goto(t, l)
  BY CalmLabels DEF ClockStop
<1>3. TypeOK'
  BY <1>1, <1>2, CalmTyped DEF ClockStop, IInv, TypeOK, ShellType, ClockType, MeasureType,
     BackendType, OutputType, shell, measure, backend, output
<1>4. UNCHANGED facts
  BY DEF ClockStop, facts, shell, measure, backend, output
<1>. QED
  BY <1>1, <1>2, <1>3, <1>4, CalmSide

LEMMA BlockAuthorityStep == ASSUME IInv, NEW t \in Kinds \X Gen, BlockAuthority(t) PROVE IInv'
<1>1. t \in Thread /\ gen[t] \in Gen /\ pc[t] = "block"
  BY Threads, Basics DEF BlockAuthority, Local
<1>2. Rest(t) \/ \E l \in Calm : Goto(t, l)
  BY CalmLabels DEF BlockAuthority
<1>3. TypeOK'
  BY <1>1, <1>2, CalmTyped DEF BlockAuthority, IInv, TypeOK, ShellType, ClockType, MeasureType,
     BackendType, OutputType, shell, measure, backend, output
<1>4. UNCHANGED facts
  BY DEF BlockAuthority, facts, shell, measure, backend, output
<1>. QED
  BY <1>1, <1>2, <1>3, <1>4, CalmSide

LEMMA StopStep == ASSUME IInv, Stop PROVE IInv'
<1>1. generation \in Gen /\ pc[Main] = "idle"
  BY GenFacts, Basics DEF Stop, IInv, TypeOK, ShellType
<1>2. CASE Goto(Main, "stop")
  <2>1. FrameType'
    BY <1>2, CalmTyped, CalmLabels, Threads
  <2>2. TypeOK'
    BY <1>1, <2>1 DEF Stop, IInv, TypeOK, ShellType, ClockType, MeasureType,
       BackendType, OutputType, shell, measure, backend, output
  <2>3. UNCHANGED facts
    BY DEF Stop, facts, shell, measure, backend, output
  <2>. QED
    BY <1>1, <1>2, <2>2, <2>3, CalmSide, CalmLabels, Threads
<1>3. CASE UNCHANGED frame
  <2>1. FrameType' /\ Moved({})
    BY <1>3, Basics DEF FrameType, frame, Moved
  <2>2. TypeOK'
    BY <1>1, <2>1 DEF Stop, IInv, TypeOK, ShellType, ClockType, MeasureType,
       BackendType, OutputType, shell, measure, backend, output, frame
  <2>3. UNCHANGED facts /\ UNCHANGED outcome /\ active' = active /\ reason' = reason
    BY DEF Stop, facts, outcome, shell, measure, backend, output
  <2>4. DataInv'
    BY <2>3, DataSame, Basics DEF facts
  <2>. QED
    BY <2>1, <2>2, <2>3, <2>4, Quiet
<1>. QED
  BY <1>2, <1>3 DEF Stop

\* A health that only fades, a search that ends, a shell that retires: the data
\* invariant holds on.
LEMMA DataFades ==
    ASSUME DataInv, UNCHANGED <<generation, finished, published, failed, frozen, output>>,
           healthy' => healthy,
           search' \in {0, search}, generation \in Nat,
           \/ state' = state /\ active' = active
           \/ state' \in {"UNHEALTHY", "SHUTDOWN"} /\ active' = 0
    PROVE  DataInv'
<1>1. ActiveInv' BY DEF DataInv, ActiveInv, output
<1>2. ClockInv' BY DEF DataInv, ClockInv, output
<1>3. CountInv' BY DEF DataInv, CountInv, output
<1>4. ReadyInv' BY DEF DataInv, ReadyInv, output
<1>. QED BY <1>1, <1>2, <1>3, <1>4 DEF DataInv

\* The reader on its way to the gate.
LEMMA GotoReader ==
    ASSUME IInv, NEW l \in {"decide", "seal", "enter", "write"}, Goto(Reader, l),
           pc[Reader] \in ReaderLabels, generation' \in Nat, generation <= generation'
    PROVE  Moved({Reader}) /\ Local(Reader)' /\ pc'[Reader] = l /\ gen'[Reader] = gen[Reader]
<1>1. /\ Moved({Reader}) /\ pc'[Reader] = l
      /\ gen'[Reader] = gen[Reader] /\ tok'[Reader] = tok[Reader] /\ ret'[Reader] = ret[Reader]
  BY SMTT(60), Basics, GotoMoves, Threads DEF Labels
<1>2. gen[Reader] # 0 /\ gen[Reader] <= generation /\ gen[Reader] \in Nat
  BY Basics, Threads DEF Local, ReaderLabels
<1>. QED
  BY <1>1, <1>2, Threads, Basics DEF Local, FailLabels, BrokenLabels, ReaderLabels

LEMMA DecideStep == ASSUME IInv, Decide PROVE IInv'
<1>1. /\ pc[Reader] = "decide" /\ gen[Reader] \in Gen
  BY Basics, Threads, GenFacts DEF Decide, Local, ReaderLabels
<1>2. UNCHANGED facts /\ UNCHANGED outcome /\ generation' = generation
      /\ active' = active /\ reason' = reason /\ published' = published
  BY DEF Decide, facts, outcome, shell, clock, backend, output
<1>3. Moved({Reader}) /\ Local(Reader)' /\ pc'[Reader] = "seal"
  BY <1>1, <1>2, GotoReader, Basics DEF Decide, ReaderLabels
<1>4. require' \in BOOLEAN
  BY DEF Decide
<1>5. TypeOK'
  BY <1>1, <1>3, <1>4 DEF Decide, Moved, IInv, TypeOK, ShellType, ClockType, MeasureType,
     BackendType, OutputType, shell, clock, backend, output
<1>6. DataInv'
  BY <1>2, DataSame, Basics DEF facts
<1>. QED
  BY <1>1, <1>2, <1>3, <1>5, <1>6, Quiet, Threads DEF FailLabels

LEMMA SealWorkStep == ASSUME IInv, SealWork PROVE IInv'
<1>1. /\ pc[Reader] = "seal" /\ gen[Reader] \in Gen
  BY Basics, Threads, GenFacts DEF SealWork, Local, ReaderLabels
<1>2. UNCHANGED facts /\ UNCHANGED outcome /\ generation' = generation
      /\ active' = active /\ reason' = reason /\ published' = published
  BY DEF SealWork, facts, outcome, shell, measure, backend, output
<1>3. Moved({Reader}) /\ Local(Reader)' /\ pc'[Reader] \notin FailLabels \cup {"write", "commit"}
  BY <1>1, <1>2, GotoReader, Settle, Basics, Threads DEF SealWork, ReaderLabels, FailLabels
<1>4. TypeOK'
  BY <1>1, <1>3 DEF SealWork, Moved, IInv, TypeOK, ShellType, ClockType, MeasureType,
     BackendType, OutputType, shell, measure, backend, output
<1>5. DataInv'
  BY <1>2, DataSame, Basics DEF facts
<1>. QED
  BY <1>1, <1>2, <1>3, <1>4, <1>5, Quiet, Threads

LEMMA PrepareStep == ASSUME IInv, Prepare PROVE IInv'
<1>1. /\ pc[Main] = "prepare" /\ gen[Main] \in Gen /\ gen[Main] # 0
  BY Basics, Threads, GenFacts DEF Prepare, Local
<1>2. UNCHANGED facts /\ UNCHANGED outcome /\ generation' = generation
      /\ active' = active /\ reason' = reason /\ published' = published
  BY DEF Prepare, facts, outcome, shell, clock, backend, output
<1>3. Moved({Main}) /\ Local(Main)' /\ pc'[Main] \notin FailLabels
  <2>1. CASE Goto(Main, "dispatch")
    <3>1. /\ Moved({Main}) /\ pc'[Main] = "dispatch"
          /\ gen'[Main] = gen[Main] /\ tok'[Main] = tok[Main] /\ ret'[Main] = ret[Main]
      BY <2>1, Basics, GotoMoves, Threads DEF Labels
    <3>. QED
      BY <1>1, <1>2, <3>1, Threads, Basics DEF Local, FailLabels, BrokenLabels, ReaderLabels
  <2>2. CASE Goto(Main, "fail")
    BY <1>1, <1>2, <2>2, GotoCalm, CalmLabels, Basics, Threads
  <2>. QED
    BY <2>1, <2>2 DEF Prepare
<1>4. TypeOK'
  BY <1>1, <1>3 DEF Prepare, Moved, IInv, TypeOK, ShellType, ClockType, MeasureType,
     BackendType, OutputType, shell, clock, backend, output
<1>5. DataInv'
  BY <1>2, DataSame, Basics DEF facts
<1>. QED
  BY <1>1, <1>2, <1>3, <1>4, <1>5, Quiet, Threads

LEMMA WatchSoftStep == ASSUME IInv, NEW g \in Gen, WatchSoft(g) PROVE IInv'
<1>1. PICK t \in Kinds \X Gen, u \in Kinds \X Gen : t = Watch(g) /\ u = Soft(g) /\ t # u
  <2>1. Watch(g) # Soft(g)
    BY DEF Watch, Soft
  <2>. QED
    BY <2>1, Threads
<1>2. t \in Thread /\ u \in Thread /\ u[2] = g /\ t[2] = g /\ pc[t] = "soft"
      /\ Reader \notin {t, u} /\ Main \notin {t, u}
  BY <1>1, Threads DEF WatchSoft
<1>3. UNCHANGED facts /\ UNCHANGED outcome /\ generation' = generation
      /\ active' = active /\ reason' = reason
  BY DEF WatchSoft, facts, outcome, shell, measure, backend, output
<1>4. CASE Rest(t) /\ UNCHANGED workClosed
  BY <1>1, <1>2, <1>4, CalmOnly DEF WatchSoft, clock
<1>5. CASE /\ pc' = [pc EXCEPT ![t] = "hard", ![u] = "halt"] /\ UNCHANGED <<gen, tok, ret>>
           /\ workClosed' = workClosed \cup {g}
  <2>1. /\ Moved({t, u}) /\ pc'[t] = "hard" /\ pc'[u] = "halt"
        /\ gen' = gen /\ tok' = tok /\ ret' = ret
    BY <1>1, <1>2, <1>5, Basics DEF Moved, FrameType, Labels
  <2>2. gen[t] = g /\ gen[u] = g /\ ret[t] = "done" /\ ret[u] = "done" /\ g <= generation'
        /\ ret'[t] = "done" /\ ret'[u] = "done" /\ gen'[t] = g /\ gen'[u] = g
        /\ t \notin {"ready"} \X Gen /\ u \notin {"ready"} \X Gen
    BY <1>1, <1>2, <1>3, <2>1, Threads, Basics DEF Local
  <2>3. Local(t)'
    BY <1>2, <2>1, <2>2 DEF Local, FailLabels, BrokenLabels, ReaderLabels
  <2>4. Local(u)'
    BY <1>2, <2>1, <2>2 DEF Local, FailLabels, BrokenLabels, ReaderLabels
  <2>5. TypeOK'
    BY <1>5, <2>1 DEF WatchSoft, Moved, IInv, TypeOK, ShellType, ClockType, MeasureType,
       BackendType, OutputType, shell, measure, backend, output
  <2>6. DataInv'
    BY <1>3, DataSame, Basics DEF facts
  <2>7. \A s \in {t, u} : Local(s)' /\ pc'[s] \notin FailLabels
    BY <2>1, <2>3, <2>4 DEF FailLabels
  <2>. QED
    BY <1>2, <1>3, <2>1, <2>5, <2>6, <2>7, Quiet
<1>. QED
  BY <1>1, <1>4, <1>5 DEF WatchSoft

LEMMA SendStopStep == ASSUME IInv, NEW t \in Kinds \X Gen, SendStop(t) PROVE IInv'
<1>1. t \in Thread /\ pc[t] = "send" /\ t # Reader
  BY Threads DEF SendStop
<1>2. UNCHANGED outcome /\ generation' = generation /\ active' = active /\ reason' = reason
      /\ published' = published
  BY DEF SendStop, outcome, shell, clock, output
<1>3. Moved({t}) /\ Local(t)' /\ pc'[t] \notin FailLabels
  BY <1>1, <1>2, Settle, Basics DEF SendStop
<1>4. TypeOK'
  BY <1>3 DEF SendStop, Moved, IInv, TypeOK, ShellType, ClockType, MeasureType,
     BackendType, OutputType, shell, clock, measure, output
<1>5. DataInv'
  BY DataFades, Basics DEF SendStop, shell, clock, measure, healthy
<1>. QED
  BY <1>1, <1>2, <1>3, <1>4, <1>5, Quiet

-----------------------------------------------------------------------------
(* Steps that retire the shell, lose the anchor or end a search *)

LEMMA TimePassStep == ASSUME IInv, NEW g \in Gen, TimePass(g) PROVE IInv'
<1>1. UNCHANGED facts /\ UNCHANGED outcome /\ active' = active /\ reason' = reason
      /\ UNCHANGED frame
  BY DEF TimePass, facts, outcome, shell, clock, measure, backend, output, threads
<1>2. FrameType' /\ Moved({})
  BY <1>1, Basics DEF FrameType, frame, Moved
<1>3. time' \in [Gen -> {"open", "soft", "hard"}]
  BY DEF TimePass, IInv, TypeOK, ClockType
<1>4. TypeOK'
  BY <1>2, <1>3 DEF TimePass, IInv, TypeOK, ShellType, ClockType, MeasureType,
     BackendType, OutputType, shell, clock, measure, backend, output, threads
<1>5. DataInv'
  BY <1>1, DataSame, Basics DEF facts
<1>. QED
  BY <1>1, <1>2, <1>4, <1>5, Quiet

LEMMA AnchorDiesStep == ASSUME IInv, AnchorDies PROVE IInv'
<1>1. UNCHANGED outcome /\ active' = active /\ reason' = reason /\ UNCHANGED frame
  BY DEF AnchorDies, outcome, shell, clock, output, threads
<1>2. FrameType' /\ Moved({})
  BY <1>1, Basics DEF FrameType, frame, Moved
<1>3. TypeOK'
  BY <1>2 DEF AnchorDies, IInv, TypeOK, ShellType, ClockType, MeasureType,
     BackendType, OutputType, shell, clock, measure, output, threads
<1>4. DataInv'
  BY DataFades, Basics DEF AnchorDies, shell, clock, measure, healthy
<1>. QED
  BY <1>1, <1>2, <1>3, <1>4, Quiet

LEMMA FreezeStep == ASSUME IInv, NEW g \in Gen, Freeze(g) PROVE IInv'
<1>1. UNCHANGED outcome /\ active' = active /\ reason' = reason /\ UNCHANGED frame
  BY DEF Freeze, outcome, shell, clock, backend, output, threads
<1>2. FrameType' /\ Moved({})
  BY <1>1, Basics DEF FrameType, frame, Moved
<1>3. TypeOK'
  BY <1>2 DEF Freeze, IInv, TypeOK, ShellType, ClockType, MeasureType,
     BackendType, OutputType, shell, clock, backend, output, threads
<1>4. g \in published \/ ~healthy
  BY Threads, Basics DEF Freeze, Local
<1>5. DataInv'
  BY <1>4, Basics DEF Freeze, DataInv, ActiveInv, ClockInv, CountInv, ReadyInv, healthy,
     shell, clock, backend, output
<1>. QED
  BY <1>1, <1>2, <1>3, <1>5, Quiet

LEMMA FailRetireStep == ASSUME IInv, NEW t \in Thread, FailRetire(t) PROVE IInv'
<1>1. pc[t] = "retire" /\ UNCHANGED outcome /\ reason' = reason /\ active' \in {0, active}
  BY DEF FailRetire, Retire, outcome, shell, clock, backend, output
<1>2. /\ Moved({t}) /\ pc'[t] = "kill"
      /\ gen'[t] = gen[t] /\ tok'[t] = tok[t] /\ ret'[t] = ret[t]
  BY Basics, GotoMoves DEF FailRetire, Labels
<1>3. Local(t)'
  BY <1>1, <1>2, Basics DEF Local, FailLabels, BrokenLabels, ReaderLabels, outcome
<1>4. TypeOK'
  BY <1>2, GenFacts DEF FailRetire, Retire, Moved, IInv, TypeOK, ShellType, ClockType, MeasureType,
     BackendType, OutputType, States, shell, clock, measure, backend, output
<1>5. DataInv'
  BY DataFades, Basics DEF FailRetire, Retire, shell, clock, measure, backend, healthy
<1>. QED
  BY <1>1, <1>2, <1>3, <1>4, <1>5, Quiet DEF FailLabels

LEMMA FailedAfterOutputStep ==
    ASSUME IInv, NEW t \in Thread, FailedAfterOutput(t) PROVE IInv'
<1>1. pc[t] = "accounting" /\ UNCHANGED outcome /\ generation' = generation
      /\ published' = published /\ reason' = reason /\ active' \in {0, active}
  BY DEF FailedAfterOutput, Retire, outcome, shell, clock, backend, output
<1>2. Moved({t}) /\ Local(t)' /\ pc'[t] \notin FailLabels /\ pc'[t] \notin {"write", "commit"}
  BY <1>1, Settle, Basics DEF FailedAfterOutput
<1>3. TypeOK'
  BY <1>2, GenFacts DEF FailedAfterOutput, Retire, Moved, IInv, TypeOK, ShellType, ClockType,
     MeasureType, BackendType, OutputType, States, shell, clock, measure, backend, output
<1>4. DataInv'
  BY DataFades, Basics DEF FailedAfterOutput, Retire, shell, clock, measure, backend, healthy
<1>. QED
  BY <1>1, <1>2, <1>3, <1>4, Quiet

\* With nothing to answer the unclocked failure only retires the shell.
LEMMA Unanswered ==
    ASSUME IInv, NEW k \in 0 .. MaxGen, UnclockedFailure(k),
           active # 0 => k \notin {0, active}
    PROVE  /\ UNCHANGED <<generation, output>>
           /\ \/ state' = state /\ active' = active /\ postOut' = postOut
              \/ state' = "UNHEALTHY" /\ active' = 0 /\ postOut' = 0
<1>1. state = "SEARCHING" <=> active # 0
  BY Basics DEF DataInv, ActiveInv
<1>. QED
  BY <1>1 DEF UnclockedFailure, Retire, shell, output

LEMMA FailedUnclockedStep == ASSUME IInv, NEW t \in Thread, FailedUnclocked(t) PROVE IInv'
<1>1. pc[t] = "unhealthy" /\ Return(t) /\ UnclockedFailure(tok[t])
  BY DEF FailedUnclocked
<1>2. /\ UNCHANGED <<generation, output>>
      /\ \/ state' = state /\ active' = active /\ postOut' = postOut
         \/ state' = "UNHEALTHY" /\ active' = 0 /\ postOut' = 0
  BY <1>1, Unanswered, Basics DEF Local
<1>3. UNCHANGED outcome /\ reason' = reason /\ generation' = generation
      /\ published' = published
  BY <1>2 DEF FailedUnclocked, outcome, clock, backend, output
<1>4. Moved({t}) /\ Local(t)' /\ pc'[t] \notin FailLabels /\ pc'[t] \notin {"write", "commit"}
  BY <1>1, <1>3, Settle, Basics
<1>5. TypeOK'
  BY <1>2, <1>4, GenFacts DEF FailedUnclocked, Moved, IInv, TypeOK, ShellType, ClockType,
     MeasureType, BackendType, OutputType, States, clock, measure, backend, output
<1>6. DataInv'
  BY <1>2, DataFades, Basics DEF FailedUnclocked, clock, measure, backend, healthy
<1>. QED
  BY <1>1, <1>2, <1>3, <1>4, <1>5, <1>6, Quiet

LEMMA FailKillStep == ASSUME IInv, NEW t \in Thread, FailKill(t) PROVE IInv'
<1>1. pc[t] = "kill" /\ gen[t] # 0
  BY Basics DEF FailKill, Local, FailLabels
<1>2. /\ UNCHANGED <<generation, output>>
      /\ \/ state' = state /\ active' = active /\ postOut' = postOut
         \/ state' = "UNHEALTHY" /\ active' = 0 /\ postOut' = 0
  BY <1>1, Unanswered, Basics DEF FailKill, shell, output
<1>3. UNCHANGED outcome /\ reason'
  BY <1>2 DEF FailKill, outcome, clock, output
<1>4. /\ Moved({t}) /\ pc'[t] = "null"
      /\ gen'[t] = gen[t] /\ tok'[t] = tok[t] /\ ret'[t] = ret[t]
  BY Basics, GotoMoves DEF FailKill, Labels
<1>5. Local(t)'
  BY <1>1, <1>3, <1>4, Basics DEF Local, FailLabels, BrokenLabels, ReaderLabels, outcome
<1>6. TypeOK'
  <2>1. ShellType' /\ OutputType'
    BY <1>2, GenFacts DEF IInv, TypeOK, ShellType, OutputType, States, output
  <2>2. BackendType'
    BY DEF FailKill, IInv, TypeOK, BackendType
  <2>3. ClockType' /\ MeasureType'
    BY DEF FailKill, IInv, TypeOK, ClockType, MeasureType, clock, measure
  <2>. QED
    BY <1>4, <2>1, <2>2, <2>3 DEF Moved, TypeOK
<1>7. DataInv'
  BY <1>2, DataFades, Basics DEF FailKill, clock, measure, healthy
<1>. QED
  BY <1>1, <1>2, <1>3, <1>4, <1>5, <1>6, <1>7, Quiet DEF FailLabels

LEMMA QuitStep == ASSUME IInv, Quit PROVE IInv'
<1>1. pc[Main] = "idle" /\ Goto(Main, "finish") /\ UNCHANGED outcome /\ generation' = generation
      /\ published' = published /\ reason' = reason /\ active' = 0
  BY DEF Quit, outcome, clock, backend, output
<1>2. Moved({Main}) /\ Local(Main)' /\ pc'[Main] \notin FailLabels
  BY <1>1, GotoCalm, CalmLabels, Basics, Threads
<1>3. TypeOK'
  BY <1>2, GenFacts DEF Quit, Moved, IInv, TypeOK, ShellType, ClockType, MeasureType,
     BackendType, OutputType, States, clock, measure, backend, output
<1>4. DataInv'
  BY DataFades, Basics DEF Quit, clock, measure, backend, healthy
<1>. QED
  BY <1>1, <1>2, <1>3, <1>4, Quiet, Threads

LEMMA CloseStep == ASSUME IInv, Close PROVE IInv'
<1>1. pc[Main] = "close" /\ Goto(Main, "exit") /\ UNCHANGED outcome /\ generation' = generation
      /\ published' = published /\ reason' = reason /\ active' = active
  BY DEF Close, outcome, shell, clock, output
<1>2. Moved({Main}) /\ Local(Main)' /\ pc'[Main] \notin FailLabels
  BY <1>1, GotoCalm, CalmLabels, Basics, Threads
<1>3. TypeOK'
  BY <1>2 DEF Close, Moved, IInv, TypeOK, ShellType, ClockType, MeasureType,
     BackendType, OutputType, shell, clock, measure, output
<1>4. DataInv'
  BY DataFades, Basics DEF Close, shell, clock, measure, healthy
<1>. QED
  BY <1>1, <1>2, <1>3, <1>4, Quiet, Threads

LEMMA BestMoveStep == ASSUME IInv, BestMove PROVE IInv'
<1>1. pc[Reader] = "idle" /\ search # 0 /\ UNCHANGED outcome /\ generation' = generation
      /\ active' = active /\ reason' = reason
  BY DEF BestMove, outcome, shell, clock, output
<1>2. search \in 0 .. MaxGen /\ search <= generation
  BY Basics DEF IInv, TypeOK, BackendType, DataInv, ActiveInv
<1>3. /\ Moved({Reader}) /\ pc'[Reader] = "complete" /\ gen'[Reader] = search
      /\ tok'[Reader] = tok[Reader] /\ ret'[Reader] = ret[Reader]
  BY <1>2, Basics, Threads DEF BestMove, Moved, FrameType, Labels
<1>4. Local(Reader)'
  BY <1>1, <1>2, <1>3, Threads, Basics DEF Local, FailLabels, BrokenLabels, ReaderLabels
<1>5. TypeOK'
  BY <1>3, GenFacts DEF BestMove, Moved, IInv, TypeOK, ShellType, ClockType, MeasureType,
     BackendType, OutputType, shell, clock, measure, output
<1>6. DataInv'
  BY DataFades, Basics DEF BestMove, shell, clock, measure, healthy
<1>. QED
  BY <1>1, <1>3, <1>4, <1>5, <1>6, Quiet, Threads DEF FailLabels

LEMMA EofStep == ASSUME IInv, Eof PROVE IInv'
<1>1. pc[Reader] = "idle" /\ UNCHANGED outcome /\ generation' = generation
      /\ active' = active /\ published' = published
  BY DEF Eof, outcome, shell, clock, output
<1>2. reason' \in BOOLEAN /\ (reason => reason')
  BY DEF Eof, IInv, TypeOK, BackendType
<1>3. Moved({Reader}) /\ Local(Reader)' /\ pc'[Reader] \notin FailLabels \cup {"write", "commit"}
  <2>1. CASE closing
    <3>1. Goto(Reader, "dead")
      BY <2>1 DEF Eof
    <3>. QED
      BY <1>1, <3>1, GotoCalm, CalmLabels, Basics, Threads
  <2>2. CASE ~closing
    <3>1. Call(Reader, "broken", search, "dead") /\ reason'
      BY <2>2 DEF Eof
    <3>2. search \in 0 .. MaxGen /\ "broken" \in Labels /\ "dead" \in Labels
      BY DEF IInv, TypeOK, BackendType, Labels
    <3>3. FrameType /\ Reader \in Thread
      BY Basics, Threads
    <3>4. /\ Moved({Reader}) /\ pc'[Reader] = "broken" /\ gen'[Reader] = gen[Reader]
          /\ tok'[Reader] = search /\ ret'[Reader] = "dead"
      BY <3>1, <3>2, <3>3, CallMoves
    <3>. QED
      BY <1>1, <3>1, <3>4, Threads, Basics DEF Local, FailLabels, BrokenLabels, ReaderLabels
  <2>. QED
    BY <2>1, <2>2
<1>4. TypeOK'
  BY <1>2, <1>3, GenFacts DEF Eof, Moved, IInv, TypeOK, ShellType, ClockType, MeasureType,
     BackendType, OutputType, shell, clock, measure, output
<1>5. DataInv'
  BY <1>2, DataFades, Basics DEF Eof, shell, clock, measure, healthy
<1>. QED
  BY <1>1, <1>2, <1>3, <1>4, <1>5, Quiet, Threads

LEMMA SynchronizeStep == ASSUME IInv, Synchronize PROVE IInv'
<1>1. CASE (Rest(Main) \/ Goto(Main, "again")) /\ UNCHANGED <<alive, reason>>
  BY <1>1, CalmOnly, CalmLabels, Threads DEF Synchronize, backend
<1>2. CASE Call(Main, "broken", 0, "again") /\ reason' = TRUE /\ alive' \in {alive, FALSE}
  <2>1. pc[Main] \in {"apply", "probe"} /\ UNCHANGED outcome /\ generation' = generation
        /\ active' = active /\ published' = published
    BY DEF Synchronize, outcome, shell, clock, output
  <2>2. FrameType /\ Main \in Thread /\ "broken" \in Labels /\ "again" \in Labels
        /\ 0 \in 0 .. MaxGen
    BY Basics, Threads, GenFacts DEF Labels
  <2>3. /\ Moved({Main}) /\ pc'[Main] = "broken" /\ gen'[Main] = gen[Main]
        /\ tok'[Main] = 0 /\ ret'[Main] = "again"
    BY <1>2, <2>2, CallMoves
  <2>4. Local(Main)'
    BY <2>1, <2>3, Threads, Basics DEF Local, FailLabels, BrokenLabels, ReaderLabels
  <2>5. TypeOK'
    BY <1>2, <2>3 DEF Synchronize, Moved, IInv, TypeOK, ShellType, ClockType, MeasureType,
       BackendType, OutputType, shell, clock, measure, output
  <2>6. DataInv'
    BY <1>2, DataFades, Basics DEF Synchronize, shell, clock, measure, healthy
  <2>. QED
    BY <1>2, <2>1, <2>3, <2>4, <2>5, <2>6, Quiet, Threads DEF FailLabels
<1>. QED
  BY <1>1, <1>2 DEF Synchronize

\* Opening readiness: the shell becomes ready for a published generation only.
LEMMA DataOpens ==
    ASSUME DataInv, NEW g, OpenReadiness(g) \/ UNCHANGED shell, g \in published \/ ~healthy,
           UNCHANGED <<search, finished, published, failed, frozen, output, reason, alive, closing>>
    PROVE  DataInv' /\ UNCHANGED <<generation>> /\ active' \in {0, active}
           /\ (ShellType => ShellType')
BY GenFacts DEF DataInv, ActiveInv, ClockInv, CountInv, ReadyInv, OpenReadiness, Searching,
   healthy, shell, output, ShellType, States

LEMMA FenceStep == ASSUME IInv, Fence PROVE IInv'
<1>1. pc[Main] = "fence" /\ Return(Main) /\ (OpenReadiness(active) \/ UNCHANGED shell)
  BY DEF Fence
<1>2. \/ UNCHANGED shell
      \/ OpenReadiness(active) /\ (active \in published \/ ~healthy)
  BY Basics DEF Fence, DataInv, ReadyInv
<1>3. DataInv' /\ generation' = generation /\ active' \in {0, active} /\ ShellType'
  <2>1. CASE UNCHANGED shell
    BY <2>1, DataSame, Basics DEF Fence, IInv, TypeOK, ShellType, shell, clock, measure, backend
  <2>2. CASE OpenReadiness(active) /\ (active \in published \/ ~healthy)
    BY <2>2, DataOpens, Basics DEF Fence, IInv, TypeOK, clock, measure, backend
  <2>. QED
    BY <1>2, <2>1, <2>2
<1>4. UNCHANGED outcome /\ published' = published /\ reason' = reason
  BY <1>3 DEF Fence, outcome, clock, backend, output
<1>5. Moved({Main}) /\ Local(Main)' /\ pc'[Main] \notin FailLabels
  BY <1>1, <1>3, <1>4, Settle, Basics, Threads
<1>6. TypeOK'
  BY <1>3, <1>5 DEF Fence, Moved, IInv, TypeOK, ClockType, MeasureType,
     BackendType, OutputType, clock, measure, backend, output
<1>. QED
  BY <1>1, <1>3, <1>4, <1>5, <1>6, Quiet, Threads

LEMMA OpenReadyStep == ASSUME IInv, NEW t \in Thread, OpenReady(t) PROVE IInv'
<1>1. pc[t] = "ready" /\ Return(t) /\ OpenReadiness(gen[t]) /\ gen[t] \in published
  BY Basics DEF OpenReady, Local
<1>2. DataInv' /\ generation' = generation /\ active' \in {0, active} /\ ShellType'
  BY <1>1, DataOpens, Basics DEF OpenReady, IInv, TypeOK, clock, measure, backend
<1>3. UNCHANGED outcome /\ published' = published /\ reason' = reason
  BY <1>2 DEF OpenReady, outcome, clock, backend, output
<1>4. Moved({t}) /\ Local(t)' /\ pc'[t] \notin FailLabels \cup {"write", "commit"}
  BY <1>1, <1>2, <1>3, Settle, Basics
<1>5. TypeOK'
  BY <1>2, <1>4 DEF OpenReady, Moved, IInv, TypeOK, ClockType, MeasureType,
     BackendType, OutputType, clock, measure, backend, output
<1>. QED
  BY <1>1, <1>2, <1>3, <1>4, <1>5, Quiet

LEMMA DispatchStep == ASSUME IInv, Dispatch PROVE IInv'
<1>1. pc[Main] = "dispatch" /\ gen[Main] \in Gen /\ gen[Main] <= generation
      /\ gen[Main] \in 0 .. MaxGen
  BY Basics, Threads, GenFacts DEF Dispatch, Local
<1>2. UNCHANGED outcome /\ generation' = generation /\ active' = active
      /\ published' = published
  BY DEF Dispatch, outcome, shell, clock, output
<1>3. search' \in 0 .. MaxGen /\ search' \in {search, gen[Main]} /\ alive' \in BOOLEAN
      /\ reason' \in BOOLEAN /\ (reason => reason') /\ (healthy' => healthy)
  <2>1. search' \in 0 .. MaxGen /\ search' \in {search, gen[Main]}
    BY <1>1 DEF Dispatch, IInv, TypeOK, BackendType
  <2>2. alive' \in {alive, FALSE} /\ reason' \in {reason, TRUE} /\ closing' = closing
    BY DEF Dispatch
  <2>3. alive' \in BOOLEAN /\ reason' \in BOOLEAN
    BY <2>2 DEF IInv, TypeOK, BackendType
  <2>4. reason => reason'
    BY <2>2
  <2>5. healthy' => healthy
    <3>1. CASE alive' = FALSE
      BY <3>1 DEF healthy
    <3>2. CASE alive' = alive
      BY <2>2, <2>4, <3>2 DEF healthy
    <3>. QED
      BY <2>2, <3>1, <3>2
  <2>. QED
    BY <2>1, <2>3, <2>4, <2>5
<1>4. Moved({Main}) /\ Local(Main)' /\ pc'[Main] \notin FailLabels
  <2>1. CASE Goto(Main, "fail") \/ Rest(Main)
    BY <1>1, <1>2, <2>1, GotoCalm, Settle, CalmLabels, Basics, Threads
  <2>2. CASE Call(Main, "broken", gen[Main], "raised")
    <3>1. FrameType /\ Main \in Thread /\ "broken" \in Labels /\ "raised" \in Labels
      BY Basics, Threads DEF Labels
    <3>2. /\ Moved({Main}) /\ pc'[Main] = "broken" /\ gen'[Main] = gen[Main]
          /\ tok'[Main] = gen[Main] /\ ret'[Main] = "raised"
      BY <1>1, <2>2, <3>1, CallMoves
    <3>. QED
      BY <1>1, <1>2, <3>2, Threads, Basics DEF Local, FailLabels, BrokenLabels, ReaderLabels
  <2>. QED
    BY <2>1, <2>2 DEF Dispatch
<1>5. MeasureType'
  BY <1>1, GenFacts DEF Dispatch, IInv, TypeOK, MeasureType
<1>6. TypeOK'
  BY <1>3, <1>4, <1>5 DEF Dispatch, Moved, IInv, TypeOK, ShellType, ClockType, BackendType,
     OutputType, shell, clock, output
<1>7. DataInv'
  BY <1>1, <1>3, Basics DEF Dispatch, DataInv, ActiveInv, ClockInv, CountInv, ReadyInv,
     shell, clock, output
<1>. QED
  BY <1>1, <1>2, <1>3, <1>4, <1>6, <1>7, Quiet, Threads

LEMMA EmittedStep == ASSUME IInv, Emitted PROVE IInv'
<1>1. PICK g \in Gen : g = gen[Reader]
  BY Basics, Threads, GenFacts DEF Emitted, Local, ReaderLabels
<1>2. pc[Reader] = "emitted" /\ g \in published /\ g <= generation
  BY <1>1, Basics, Threads DEF Emitted, Local
<1>3. UNCHANGED outcome /\ generation' = generation /\ active' = active
      /\ published' = published /\ reason' = reason
  BY DEF Emitted, outcome, shell, clock, backend, output
<1>4. CASE g \in Measured
  <2>1. PICK u \in {"ready"} \X Gen : u = Ready(g) /\ u[2] = g
    BY Threads
  <2>. u \in Thread /\ u \in Kinds \X Gen /\ u # Main /\ u # Reader
    BY Threads
  <2>2. /\ Moved({Reader, u}) /\ pc'[Reader] = "idle" /\ pc'[u] = "ready"
        /\ gen'[Reader] = 0 /\ gen'[u] = gen[u] /\ tok' = tok /\ ret' = ret /\ frozen' = frozen
    BY <1>1, <1>4, <2>1, Basics, Threads, GenFacts DEF Emitted, Moved, FrameType, Labels
  <2>3. gen[u] = g /\ ret[u] = "done" /\ ret[Reader] \in {"idle", "dead"}
        /\ g <= generation' /\ 0 <= generation'
    BY <1>2, <1>3, <2>1, Threads, Basics DEF Local
  <2>4. Local(Reader)'
    BY <2>2, <2>3, Threads DEF Local, FailLabels, BrokenLabels, ReaderLabels
  <2>5. Local(u)'
    BY <1>2, <1>3, <2>1, <2>2, <2>3 DEF Local, FailLabels, BrokenLabels, ReaderLabels
  <2>6. TypeOK'
    BY <2>2 DEF Emitted, Moved, IInv, TypeOK, ShellType, ClockType, MeasureType,
       BackendType, OutputType, shell, clock, backend, output
  <2>7. DataInv'
    BY <2>2, DataSame, Basics DEF Emitted, shell, clock, backend
  <2>8. \A t \in {Reader, u} : Local(t)' /\ pc'[t] \notin FailLabels
    BY <2>2, <2>4, <2>5 DEF FailLabels
  <2>9. {Reader, u} \in SUBSET Thread
    BY Threads
  <2>. QED
    BY <1>2, <1>3, <2>2, <2>6, <2>7, <2>8, <2>9, Quiet
<1>5. CASE g \notin Measured
  <2>1. /\ Moved({Reader}) /\ pc'[Reader] = "ready" /\ frozen' = frozen \cup {g}
        /\ gen'[Reader] = gen[Reader] /\ tok'[Reader] = tok[Reader] /\ ret'[Reader] = ret[Reader]
    BY <1>1, <1>5, Basics, Threads, GotoMoves DEF Emitted, Labels
  <2>2. Local(Reader)'
    BY <1>1, <1>2, <1>3, <2>1, Threads, Basics DEF Local, FailLabels, BrokenLabels, ReaderLabels
  <2>3. TypeOK'
    BY <2>1 DEF Emitted, Moved, IInv, TypeOK, ShellType, ClockType, MeasureType,
       BackendType, OutputType, shell, clock, backend, output
  <2>4. DataInv'
    BY <1>2, <2>1, Basics DEF Emitted, DataInv, ActiveInv, ClockInv, CountInv, ReadyInv,
       healthy, shell, clock, backend, output
  <2>. QED
    BY <1>2, <1>3, <2>1, <2>2, <2>3, <2>4, Quiet, Threads DEF FailLabels
<1>. QED
  BY <1>4, <1>5

-----------------------------------------------------------------------------
(* Steps that decide the outcome of a generation *)

LEMMA TryPublishStep == ASSUME IInv, TryPublish PROVE IInv'
<1>1. pc[Reader] = "enter" /\ UNCHANGED facts /\ UNCHANGED outcome /\ generation' = generation
      /\ active' = active /\ published' = published /\ reason' = reason
      /\ line' = line /\ finished' = finished /\ require' \in BOOLEAN
  BY DEF TryPublish, facts, outcome, shell, clock, measure, backend, output,
         IInv, TypeOK, BackendType
<1>2. DataInv'
  BY <1>1, DataSame, Basics DEF facts
<1>3. ASSUME FrameType' PROVE TypeOK'
  BY <1>1, <1>3 DEF TryPublish, IInv, TypeOK, ShellType, ClockType, MeasureType,
     BackendType, OutputType, shell, clock, measure, backend, output
<1>4. CASE Rest(Reader) \/ Goto(Reader, "fail")
  <2>1. Moved({Reader}) /\ Local(Reader)' /\ pc'[Reader] \notin FailLabels \cup {"write", "commit"}
    BY <1>1, <1>4, GotoCalm, Settle, CalmLabels, Basics, Threads
  <2>2. TypeOK'
    BY <1>3, <2>1 DEF Moved
  <2>. QED
    BY <1>1, <1>2, <2>1, <2>2, Quiet, Threads
<1>5. CASE UNCHANGED frame
  <2>1. FrameType' /\ Moved({})
    BY <1>5, Basics DEF FrameType, frame, Moved
  <2>. QED
    BY <1>1, <1>2, <1>3, <2>1, Quiet
<1>6. CASE Goto(Reader, "write") /\ gen[Reader] \notin finished
  <2>1. Moved({Reader}) /\ Local(Reader)' /\ pc'[Reader] = "write" /\ gen'[Reader] = gen[Reader]
    BY <1>1, <1>6, GotoReader, Basics DEF ReaderLabels
  <2>2. \A u \in Thread : Local(u)'
    BY <1>1, <2>1, OthersLocal, Basics DEF outcome
  <2>3. GateInv'
    BY <1>1, <1>6, <2>1, Basics DEF GateInv
  <2>4. Unique'
    BY <2>1, UniqueKept, Threads DEF FailLabels
  <2>. QED
    BY <1>2, <1>3, <2>1, <2>2, <2>3, <2>4 DEF IInv, Moved
<1>. QED
  BY <1>4, <1>5, <1>6 DEF TryPublish

LEMMA FailClockStep == ASSUME IInv, NEW t \in Thread, FailClock(t) PROVE IInv'
<1>1. PICK g \in Gen : g = gen[t]
  BY Basics, GenFacts DEF FailClock, Local
<1>2. pc[t] = "expire" /\ g <= generation
  BY <1>1, Basics DEF FailClock, Local
<1>3. CASE Return(t) /\ UNCHANGED clock
  BY <1>2, <1>3, CalmOnly DEF FailClock
<1>4. CASE g \notin finished /\ Goto(t, "retire")
  <2>1. /\ finished' = finished \cup {g} /\ failed' = failed \cup {g}
        /\ blocked' = blocked \cup {g} /\ workClosed' = workClosed \cup {g}
        /\ committed' = committed /\ published' = published
        /\ UNCHANGED <<shell, time, measure, backend, require, output>>
    BY <1>1, <1>4 DEF FailClock
  <2>2. /\ Moved({t}) /\ pc'[t] = "retire"
        /\ gen'[t] = gen[t] /\ tok'[t] = tok[t] /\ ret'[t] = ret[t]
    BY <1>4, Basics, GotoMoves DEF Labels
  <2>3. g \notin published /\ g \notin failed /\ line[g] \notin MoveLines /\ line[g] = "none"
    <3>1. g \notin published /\ g \notin failed /\ line[g] # "null"
      BY <1>4, Basics DEF DataInv, ClockInv
    <3>2. line[g] \notin MoveLines
      BY <1>1, <1>4, <3>1, Basics DEF FailClock, GateFree, GateInv
    <3>. QED
      BY <3>1, <3>2 DEF IInv, TypeOK, OutputType, MoveLines
  <2>4. /\ generation' = generation /\ active' = active /\ reason' = reason /\ line' = line
    BY <2>1 DEF shell, backend, output
  <2>5. TypeOK'
    BY <2>1, <2>2 DEF Moved, IInv, TypeOK, ShellType, ClockType, MeasureType,
       BackendType, OutputType, shell, measure, backend, output
  <2>6. DataInv'
    BY <1>2, <2>1, <2>3, Basics DEF DataInv, ActiveInv, ClockInv, CountInv, ReadyInv,
       healthy, shell, measure, backend, output
  <2>7. Local(t)'
    BY <1>1, <1>2, <2>1, <2>2, <2>3, <2>4, Basics DEF Local, FailLabels, BrokenLabels, ReaderLabels
  <2>8. \A u \in Thread : Local(u)'
    BY <2>1, <2>2, <2>4, <2>7, OthersLocal, Basics
  <2>9. GateInv'
    <3>1. pc[Reader] \in {"write", "commit"} => gen[Reader] \notin finished'
      BY <1>1, <2>1, Basics DEF FailClock, GateFree, GateInv
    <3>. QED
      BY <1>2, <2>1, <2>2, <2>4, <3>1, GateKept
  <2>10. Unique'
    <3>1. \A u \in Thread : pc[u] \in FailLabels => gen[u] # g
      BY <2>3, Basics DEF Local
    <3>2. \A u \in Thread \ {t} : pc'[u] = pc[u] /\ gen'[u] = gen[u]
      BY <2>2 DEF Moved
    <3>. QED
      BY <1>1, <2>2, <3>1, <3>2, Basics DEF Unique
  <2>. QED
    BY <2>5, <2>6, <2>8, <2>9, <2>10 DEF IInv
<1>. QED
  BY <1>1, <1>3, <1>4 DEF FailClock

LEMMA FailWriteStep == ASSUME IInv, NEW t \in Thread, FailWrite(t) PROVE IInv'
<1>1. PICK g \in Gen : g = gen[t]
  BY Basics, GenFacts DEF FailWrite, Local, FailLabels
<1>2. /\ pc[t] = "null" /\ pc[t] \in FailLabels /\ Return(t)
      /\ UNCHANGED <<shell, time, clock, measure, backend, require>>
  BY DEF FailWrite, FailLabels
<1>3. g \in failed /\ line[g] = "none" /\ answers[g] = 0
  BY <1>1, <1>2, Basics DEF Local, DataInv, CountInv
<1>4. /\ line' = [line EXCEPT ![g] = "null"] /\ answers' = [answers EXCEPT ![g] = @ + 1]
      /\ refused' = refused
  BY <1>1 DEF FailWrite, Answer
<1>5. /\ generation' = generation /\ active' = active /\ reason' = reason
      /\ published' = published /\ failed' = failed /\ finished' = finished
  BY <1>2 DEF shell, backend, clock
<1>6. Moved({t}) /\ Local(t)' /\ pc'[t] \notin FailLabels /\ pc'[t] \notin {"write", "commit"}
  BY <1>2, <1>5, Settle, Basics
<1>7. OutputType' /\ (\A h \in Gen : line'[h] = IF h = g THEN "null" ELSE line[h])
                  /\ (\A h \in Gen : answers'[h] = IF h = g THEN 1 ELSE answers[h])
  BY <1>3, <1>4 DEF IInv, TypeOK, OutputType
<1>8. TypeOK'
  BY <1>2, <1>6, <1>7 DEF Moved, IInv, TypeOK, ShellType, ClockType, MeasureType,
     BackendType, shell, clock, measure, backend
<1>9. DataInv'
  <2>1. CountInv'
    BY <1>7, Basics DEF DataInv, CountInv
  <2>2. ClockInv'
    BY <1>3, <1>5, <1>7, Basics DEF DataInv, ClockInv, IInv, TypeOK, ClockType
  <2>3. ActiveInv' /\ ReadyInv'
    BY <1>2, Basics DEF DataInv, ActiveInv, ReadyInv, healthy, shell, clock, measure, backend
  <2>. QED
    BY <2>1, <2>2, <2>3 DEF DataInv
<1>10. \A u \in Thread : Local(u)'
  <2>1. \A u \in Thread \ {t} : pc[u] \in FailLabels => gen[u] \in Gen /\ gen[u] # g
    BY <1>1, <1>2, Basics, GenFacts DEF Unique, Local
  <2>2. \A u \in Thread \ {t} : pc[u] \in FailLabels => line'[gen[u]] = line[gen[u]]
    BY <1>7, <2>1
  <2>. QED
    BY <1>5, <1>6, <2>2, OthersLocal, Basics
<1>11. GateInv'
  <2>1. \A h \in Gen : line'[h] \in MoveLines <=> line[h] \in MoveLines
    BY <1>3, <1>7 DEF MoveLines
  <2>2. pc[Reader] \in {"write", "commit"} => gen[Reader] \notin finished'
    BY <1>5, Basics DEF GateInv
  <2>. QED
    BY <1>2, <1>5, <1>6, <2>1, <2>2, GateKept
<1>12. Unique'
  BY <1>6, UniqueKept
<1>. QED
  BY <1>8, <1>9, <1>10, <1>11, <1>12 DEF IInv

LEMMA FinishStep == ASSUME IInv, Finish PROVE IInv'
<1>1. /\ pc[Main] = "finish" /\ Goto(Main, "close") /\ UNCHANGED <<shell, measure, backend, output>>
      /\ UNCHANGED <<time, blocked, committed, published, failed, require>>
  BY DEF Finish
<1>2. /\ generation' = generation /\ active' = active /\ reason' = reason /\ line' = line
      /\ published' = published /\ failed' = failed
  BY <1>1 DEF shell, backend, output
<1>3. Moved({Main}) /\ Local(Main)' /\ pc'[Main] \notin FailLabels
  BY <1>1, <1>2, GotoCalm, CalmLabels, Basics, Threads
<1>4. generation # 0 => generation \in Gen
  BY Basics, GenFacts DEF IInv, TypeOK, ShellType
<1>5. /\ finished \subseteq finished' /\ finished' \subseteq finished \cup ({generation} \ {0})
      /\ workClosed' \subseteq workClosed \cup ({generation} \ {0})
  BY DEF Finish
<1>6. TypeOK'
  BY <1>1, <1>3, <1>4, <1>5 DEF Moved, IInv, TypeOK, ShellType, ClockType, MeasureType,
     BackendType, OutputType, shell, measure, backend, output
<1>7. DataInv'
  BY <1>1, <1>5, Basics DEF DataInv, ActiveInv, ClockInv, CountInv, ReadyInv, healthy,
     shell, measure, backend, output
<1>8. \A u \in Thread : Local(u)'
  BY <1>2, <1>3, OthersLocal, Basics
<1>9. GateInv'
  <2>1. pc[Reader] \in {"write", "commit"} => gen[Reader] \notin finished'
    BY <1>5, Basics DEF Finish, GateFree, GateInv
  <2>. QED
    BY <1>2, <1>3, <2>1, GateKept, Threads
<1>10. Unique'
  BY <1>3, UniqueKept, Threads
<1>. QED
  BY <1>6, <1>7, <1>8, <1>9, <1>10 DEF IInv

\* A rejected request changes nothing but the count of such requests.
LEMMA RefusedStep ==
    ASSUME IInv, pc[Main] = "go", Rest(Main), refused' \in 0 .. MaxRefused,
           UNCHANGED <<shell, time, clock, measure, backend, require, answers, line>>
    PROVE  IInv'
<1>1. Moved({Main}) /\ Local(Main)' /\ pc'[Main] = "idle"
  BY Settle, Basics, Threads DEF shell, clock, backend, Rest, Home, FrameType
<1>2. TypeOK'
  BY <1>1 DEF IInv, TypeOK, ShellType, ClockType, MeasureType, BackendType, OutputType,
     shell, clock, measure, backend, Moved
<1>3. DataInv'
  BY Basics DEF DataInv, ActiveInv, ClockInv, CountInv, ReadyInv, shell, clock, measure,
     backend, healthy
<1>4. UNCHANGED outcome /\ (reason => reason') /\ active' \in {0, active}
  BY DEF outcome, shell, clock, backend
<1>. QED
  BY <1>1, <1>2, <1>3, <1>4, Quiet, Threads DEF FailLabels

LEMMA GoStep == ASSUME IInv, Go PROVE IInv'
<1>1. CASE Rest(Main) /\ UNCHANGED <<shell, output>>
  BY <1>1, CalmOnly, Threads DEF Go
<1>2. CASE /\ state = "READY" /\ healthy /\ generation + 1 \in Gen
           /\ state' = "SEARCHING" /\ generation' = generation + 1
           /\ active' = generation + 1 /\ postOut' = 0
           /\ gen' = [gen EXCEPT ![Main] = generation + 1]
           /\ pc' = [pc EXCEPT ![Main] = "prepare", ![Watch(generation + 1)] = "soft"]
           /\ UNCHANGED <<tok, ret, output>>
  <2>1. PICK g \in Gen, u \in Kinds \X Gen :
            g = generation + 1 /\ u = Watch(g) /\ u[2] = g /\ u \notin {"ready"} \X Gen
    BY <1>2, Threads
  <2>. u \in Thread /\ u # Main /\ u # Reader
    BY Threads
  <2>2. pc[Main] = "go" /\ UNCHANGED <<time, clock, measure, backend, require, output>>
    BY <1>2 DEF Go
  <2>3. /\ Moved({Main, u}) /\ pc'[Main] = "prepare" /\ pc'[u] = "soft"
        /\ gen'[Main] = g /\ gen'[u] = gen[u] /\ tok' = tok /\ ret' = ret
    BY <1>2, <2>1, Basics, Threads, GenFacts DEF Moved, FrameType, Labels
  <2>4. /\ generation \in Nat /\ g \in Nat /\ g # 0 /\ g <= MaxGen /\ generation < g
        /\ generation' = g /\ active' = g
    BY <1>2, <2>1, Basics, GenFacts
  <2>5. gen[u] = g /\ ret[u] = "done"
    BY <2>1, Basics DEF Local
  <2>6. Local(Main)'
    BY <2>2, <2>3, <2>4, Threads, Basics DEF Local, FailLabels, BrokenLabels, ReaderLabels
  <2>7. Local(u)'
    BY <2>1, <2>3, <2>4, <2>5 DEF Local, FailLabels, BrokenLabels, ReaderLabels
  <2>8. \A v \in Thread \ {Main, u} : Local(v)'
    <3>1. ~reason
      BY <1>2 DEF healthy
    <3>2. SUFFICES ASSUME NEW v \in Thread \ {Main, u} PROVE Local(v)'
      OBVIOUS
    <3>3. /\ Local(v) /\ gen[v] \in Nat /\ pc'[v] = pc[v] /\ gen'[v] = gen[v]
          /\ tok'[v] = tok[v] /\ ret'[v] = ret[v]
      BY <2>3, Basics DEF Moved
    <3>4. pc[v] \notin BrokenLabels
      BY <3>1, <3>3 DEF Local
    <3>5. gen[v] <= generation => gen[v] <= g
      BY <2>4, <3>3
    <3>6. failed' = failed /\ line' = line /\ published' = published /\ reason' = reason
      BY <2>2 DEF clock, output, backend
    <3>. QED
      BY <2>4, <3>3, <3>4, <3>5, <3>6 DEF Local, BrokenLabels
  <2>9. TypeOK'
    <3>1. ShellType'
      BY <1>2, <2>4, GenFacts DEF ShellType, States
    <3>. QED
      BY <2>2, <2>3, <3>1 DEF Moved, IInv, TypeOK, ClockType, MeasureType, BackendType,
         OutputType, clock, measure, backend, output
  <2>10. DataInv'
    <3>1. generation = 0 \/ generation \in published
      BY <1>2, Basics DEF DataInv, ReadyInv
    <3>2. \A h \in Gen : h < g => h \in published
      BY <2>1, <2>4, <3>1, Basics, GenFacts DEF DataInv, ReadyInv
    <3>3. ReadyInv'
      BY <1>2, <2>2, <2>4, <3>2, Basics DEF DataInv, ReadyInv, healthy, clock, measure, backend
    <3>4. ActiveInv'
      BY <1>2, <2>2, <2>4, Basics DEF DataInv, ActiveInv, backend, IInv, TypeOK, BackendType
    <3>5. ClockInv' /\ CountInv'
      BY <2>2, <2>4, Basics, GenFacts DEF DataInv, ClockInv, CountInv, clock, output,
         IInv, TypeOK, ClockType
    <3>. QED
      BY <3>3, <3>4, <3>5 DEF DataInv
  <2>11. GateInv'
    <3>1. {Main, u} \in SUBSET Thread /\ Reader \notin {Main, u}
      BY Threads
    <3>2. line' = line /\ published' = published /\ finished' = finished
      BY <2>2 DEF clock, output
    <3>. QED
      BY <2>3, <3>1, <3>2, GateKept, Basics DEF GateInv
  <2>12. Unique'
    <3>1. {Main, u} \in SUBSET Thread
      BY Threads
    <3>2. \A t \in {Main, u} : pc'[t] \notin FailLabels
      BY <2>3 DEF FailLabels
    <3>. QED
      BY <2>3, <3>1, <3>2, UniqueKept
  <2>. QED
    BY <2>6, <2>7, <2>8, <2>9, <2>10, <2>11, <2>12 DEF IInv
<1>3. CASE /\ refused < MaxRefused /\ refused' = refused + 1
           /\ Rest(Main) /\ UNCHANGED <<shell, answers, line>>
  BY <1>3, RefusedStep, BoundAssumption, Basics DEF Go, IInv, TypeOK, OutputType
<1>. QED
  BY <1>1, <1>2, <1>3 DEF Go

LEMMA WriteStep == ASSUME IInv, Write PROVE IInv'
<1>1. PICK g \in Gen : g = gen[Reader]
  BY Basics, Threads, GenFacts DEF Write, Local, ReaderLabels
<1>2. /\ pc[Reader] = "write" /\ UNCHANGED <<time, clock, measure, backend>> /\ g \notin finished
      /\ g <= generation
  BY <1>1, Basics, Threads DEF Write, GateInv, Local
<1>3. reason' = reason /\ published' = published /\ failed' = failed /\ finished' = finished
  BY <1>2 DEF clock, backend
<1>4. CASE \/ Goto(Reader, "enter") /\ UNCHANGED <<shell, output, require>>
           \/ Rest(Reader) /\ require' = FALSE /\ UNCHANGED <<shell, output>>
  <2>1. UNCHANGED facts /\ UNCHANGED outcome /\ generation' = generation /\ active' = active
    BY <1>2, <1>4 DEF facts, outcome, shell, clock, measure, backend, output
  <2>2. Moved({Reader}) /\ Local(Reader)' /\ pc'[Reader] \notin FailLabels \cup {"write", "commit"}
    BY <1>2, <1>3, <1>4, <2>1, GotoReader, Settle, Basics, Threads DEF ReaderLabels, FailLabels
  <2>3. TypeOK'
    BY <1>2, <1>4, <2>2 DEF Moved, IInv, TypeOK, ShellType, ClockType, MeasureType, BackendType,
       OutputType, shell, clock, measure, backend, output
  <2>4. DataInv'
    BY <2>1, DataSame, Basics DEF facts
  <2>. QED
    BY <1>2, <1>3, <2>1, <2>2, <2>3, <2>4, Quiet, Threads
<1>5. ASSUME NEW l \in MoveLines, Answer(g, l), postOut' = g,
             UNCHANGED <<state, generation, active, require>>, Goto(Reader, "commit")
      PROVE  IInv'
  <2>1. line[g] = "none" /\ answers[g] = 0
    <3>1. g \notin published /\ g \notin failed
      BY <1>2, Basics DEF DataInv, ClockInv
    <3>2. line[g] \notin MoveLines /\ line[g] # "null"
      BY <1>2, <3>1, Basics DEF DataInv, ClockInv, GateInv
    <3>. QED
      BY <3>2, Basics DEF IInv, TypeOK, OutputType, MoveLines, DataInv, CountInv
  <2>2. OutputType' /\ (\A h \in Gen : line'[h] = IF h = g THEN l ELSE line[h])
                    /\ (\A h \in Gen : answers'[h] = IF h = g THEN 1 ELSE answers[h])
    BY <1>5, <2>1 DEF Answer, IInv, TypeOK, OutputType, MoveLines
  <2>3. /\ Moved({Reader}) /\ pc'[Reader] = "commit"
        /\ gen'[Reader] = g /\ tok'[Reader] = tok[Reader] /\ ret'[Reader] = ret[Reader]
    BY <1>1, <1>5, Basics, GotoMoves, Threads DEF Labels
  <2>4. Local(Reader)'
    BY <1>2, <1>5, <2>3, Threads, Basics, GenFacts DEF Local, FailLabels, BrokenLabels, ReaderLabels
  <2>5. TypeOK'
    <3>1. ShellType'
      BY <1>5, GenFacts DEF IInv, TypeOK, ShellType
    <3>. QED
      BY <1>2, <1>5, <2>2, <2>3, <3>1 DEF Moved, IInv, TypeOK, ClockType, MeasureType,
         BackendType, clock, measure, backend
  <2>6. DataInv'
    <3>1. ActiveInv' /\ ReadyInv'
      BY <1>2, <1>5, Basics DEF DataInv, ActiveInv, ReadyInv, healthy, clock, measure, backend
    <3>2. CountInv'
      BY <2>2, Basics DEF DataInv, CountInv, MoveLines
    <3>3. ClockInv'
      BY <1>2, <1>3, <1>5, <2>2, Basics DEF DataInv, ClockInv, MoveLines, IInv, TypeOK, ClockType
    <3>. QED
      BY <3>1, <3>2, <3>3 DEF DataInv
  <2>7. \A u \in Thread : Local(u)'
    <3>1. \A u \in Thread : pc[u] \in FailLabels => gen[u] \in Gen /\ gen[u] # g
      BY <1>2, Basics, GenFacts DEF Local, DataInv, ClockInv
    <3>2. \A u \in Thread : pc[u] \in FailLabels => line'[gen[u]] = line[gen[u]]
      BY <2>2, <3>1
    <3>. QED
      BY <1>3, <1>5, <2>3, <2>4, <3>2, OthersLocal, Basics, Threads
  <2>8. GateInv'
    BY <1>2, <1>3, <2>2, <2>3, Basics DEF GateInv
  <2>9. Unique'
    BY <2>3, UniqueKept, Threads DEF FailLabels
  <2>. QED
    BY <2>5, <2>6, <2>7, <2>8, <2>9 DEF IInv
<1>6. (IF require THEN "hybrid" ELSE "anchor") \in MoveLines
  BY DEF MoveLines
<1>. QED
  BY <1>1, <1>4, <1>5, <1>6 DEF Write

LEMMA CommitStep == ASSUME IInv, Commit PROVE IInv'
<1>1. PICK g \in Gen : g = gen[Reader]
  BY Basics, Threads, GenFacts DEF Commit, Local, ReaderLabels
<1>2. /\ pc[Reader] = "commit" /\ g \notin finished /\ line[g] \in MoveLines /\ g <= generation
  BY <1>1, Basics, Threads DEF Commit, GateInv, Local
<1>3. /\ workClosed' = workClosed \cup {g} /\ finished' = finished \cup {g}
      /\ published' = published \cup {g} /\ committed' \subseteq committed \cup {g}
      /\ require' = FALSE /\ UNCHANGED <<shell, time, blocked, failed, measure, backend, output>>
  BY <1>1 DEF Commit
<1>4. /\ generation' = generation /\ active' = active /\ reason' = reason /\ line' = line
      /\ failed' = failed
  BY <1>3 DEF shell, backend, output
<1>5. /\ Moved({Reader}) /\ pc'[Reader] = "emitted"
      /\ gen'[Reader] = g /\ tok'[Reader] = tok[Reader] /\ ret'[Reader] = ret[Reader]
  BY <1>1, Basics, GotoMoves, Threads DEF Commit, Labels
<1>6. Local(Reader)'
  BY <1>2, <1>3, <1>4, <1>5, Threads, Basics, GenFacts
     DEF Local, FailLabels, BrokenLabels, ReaderLabels
<1>7. TypeOK'
  BY <1>3, <1>5 DEF Moved, IInv, TypeOK, ShellType, ClockType, MeasureType, BackendType,
     OutputType, shell, measure, backend, output
<1>8. DataInv'
  BY <1>2, <1>3, Basics DEF DataInv, ActiveInv, ClockInv, CountInv, ReadyInv, healthy,
     shell, measure, backend, output
<1>9. \A u \in Thread : Local(u)'
  BY <1>3, <1>4, <1>5, <1>6, OthersLocal, Basics, Threads
<1>10. GateInv'
  BY <1>1, <1>3, <1>4, <1>5, Basics DEF GateInv
<1>11. Unique'
  BY <1>5, UniqueKept, Threads DEF FailLabels
<1>. QED
  BY <1>7, <1>8, <1>9, <1>10, <1>11 DEF IInv

-----------------------------------------------------------------------------
(* The invariant *)

LEMMA InitInv == Init => IInv
<1>. SUFFICES ASSUME Init PROVE IInv
  OBVIOUS
<1>1. ShellType /\ ClockType /\ MeasureType /\ BackendType /\ OutputType
  <2>1. ShellType
    BY GenFacts DEF Init, ShellType, States
  <2>2. ClockType /\ MeasureType
    BY DEF Init, ClockType, MeasureType
  <2>3. BackendType
    <3>1. search \in 0 .. MaxGen
      BY GenFacts DEF Init
    <3>2. alive \in BOOLEAN /\ reason \in BOOLEAN /\ closing \in BOOLEAN /\ require \in BOOLEAN
      BY DEF Init
    <3>. QED
      BY <3>1, <3>2 DEF BackendType
  <2>4. OutputType
    BY BoundAssumption DEF Init, OutputType
  <2>. QED
    BY <2>1, <2>2, <2>3, <2>4
<1>2. FrameType
  <2>1. \A t \in Thread : Home(t) \in Labels
    BY DEF Home, Labels
  <2>. QED
    BY <2>1, ThreadGen, GenFacts DEF Init, FrameType, Labels
<1>3. DataInv
  BY GenFacts DEF Init, DataInv, ActiveInv, ClockInv, CountInv, ReadyInv
<1>4. \A t \in Thread : pc[t] \in {"idle", "off"} /\ gen[t] = t[2] /\ ret[t] = Home(t)
                        /\ (pc[t] = "idle" => t \in {Main, Reader})
  BY DEF Init
<1>5. \A t \in Thread : Local(t)
  BY <1>4, Threads, GenFacts DEF Local, Home, FailLabels, BrokenLabels, ReaderLabels, Init
<1>6. GateInv /\ Unique
  BY <1>4, Threads DEF GateInv, Unique, FailLabels, Init, MoveLines
<1>. QED
  BY <1>1, <1>2, <1>3, <1>5, <1>6 DEF IInv, TypeOK

LEMMA StutterStep == ASSUME IInv, UNCHANGED vars PROVE IInv'
<1>1. UNCHANGED <<shell, time, clock, measure, backend, require, output>> /\ UNCHANGED frame
  BY DEF vars, threads
<1>2. Moved({})
  BY <1>1, Basics DEF FrameType, frame, Moved
<1>. QED
  BY <1>1, <1>2, FrameOnly

\* One case per action: every step keeps the invariant.
LEMMA StepInv == IInv /\ [Next]_vars => IInv'
<1>. SUFFICES ASSUME IInv, [Next]_vars PROVE IInv'
  OBVIOUS
<1>1. ASSUME NEW t \in Thread, ClockFail(t) PROVE IInv'
  BY <1>1, FailCheckStep, FailClockStep, FailRetireStep, FailKillStep, FailWriteStep DEF ClockFail
<1>2. ASSUME NEW t \in Thread, Failure(t) PROVE IInv'
  BY <1>2, RuntimeFailedStep, FailedAfterOutputStep, FailedUnclockedStep DEF Failure
<1>3. CASE MainStep
  BY <1>1, <1>2, <1>3, Threads, FenceStep, SyncStep, IsReadyStep, SynchronizeStep, SyncRaisedStep,
     GoStep, PrepareStep, DispatchStep, DispatchRaisedStep, StopSpawnStep, FinishStep, CloseStep
     DEF MainStep
<1>4. CASE ReaderStep
  BY <1>1, <1>2, <1>4, Threads, CompleteStep, DecideStep, SealWorkStep, TryPublishStep, WriteStep,
     CommitStep, EmittedStep, EofStep, OpenReadyStep DEF ReaderStep
<1>5. ASSUME NEW t \in Kinds \X Gen, WorkerStep(t) PROVE IInv'
  <2>1. t \in Thread /\ t[2] \in Gen
    BY Threads
  <2>. QED
    BY <1>1, <1>5, <2>1, WatchSoftStep, WatchHardStep, ClockStopStep, BlockAuthorityStep,
       SendStopStep, OpenReadyStep DEF WorkerStep
<1>6. CASE \E c \in Commands : Command(c)
  BY <1>6, CommandStep
<1>7. CASE Stop \/ Quit \/ BestMove \/ AnchorDies
  BY <1>7, StopStep, QuitStep, BestMoveStep, AnchorDiesStep
<1>8. CASE \E g \in Gen : TimePass(g) \/ Freeze(g)
  BY <1>8, TimePassStep, FreezeStep
<1>9. CASE Terminated \/ UNCHANGED vars
  BY <1>9, StutterStep DEF Terminated
<1>. QED
  BY <1>3, <1>4, <1>5, <1>6, <1>7, <1>8, <1>9 DEF Next

\* IInv is an inductive invariant of the ONLINE shell, for every number of
\* generations, command set and configuration.
THEOREM Invariance == Spec => []IInv
BY InitInv, StepInv, PTL DEF Spec

\* Every variable of the shell keeps its type.
THEOREM TypeCorrect == Spec => []TypeOK
<1>1. IInv => TypeOK
  BY DEF IInv
<1>. QED
  BY <1>1, Invariance, PTL

\* One go never gets two terminal lines: the reader, the hard watchdog, the
\* command loop and the failure handler share one outcome per clock.
THEOREM OneAnswer == Spec => []AtMostOneAnswer
<1>1. IInv => AtMostOneAnswer
  BY GenFacts DEF IInv, DataInv, CountInv, AtMostOneAnswer
<1>. QED
  BY <1>1, Invariance, PTL

\* After a failed generation no other one is ever opened.
THEOREM NoGoAfterFailure == Spec => []FailureIsFinal
<1>1. IInv => FailureIsFinal
  BY GenFacts DEF IInv, TypeOK, ShellType, ClockType, DataInv, ClockInv, ReadyInv, FailureIsFinal
<1>. QED
  BY <1>1, Invariance, PTL

-----------------------------------------------------------------------------
(* The shell implements UciAnswer *)

\* A thread that fails a generation fails the newest one.
LEMMA NewestFails ==
    ASSUME IInv
    PROVE  /\ \A g \in failed : g = generation /\ g # 0
           /\ pc[Reader] = "write" => gen[Reader] = generation /\ gen[Reader] # 0
<1>1. \A g \in Gen : g \notin published /\ g <= generation => g = generation
  BY GenFacts, Basics DEF DataInv, ReadyInv
<1>2. \A g \in failed : g \in Gen /\ g # 0 /\ g \notin published /\ g <= generation
  BY GenFacts, Basics DEF DataInv, ClockInv, IInv, TypeOK, ClockType
<1>3. pc[Reader] = "write" => gen[Reader] \in Gen /\ gen[Reader] # 0
                              /\ gen[Reader] \notin published /\ gen[Reader] <= generation
  BY GenFacts, Basics, Threads DEF DataInv, ClockInv, GateInv, Local, ReaderLabels
<1>. QED
  BY <1>1, <1>2, <1>3

\* Steps that leave the generation and the lines alone stutter.
LEMMA Silent ==
    ASSUME UNCHANGED <<generation, line, refused>> PROVE UNCHANGED Promise!avars
BY DEF Promise!avars

\* Every step of the shell is a step of UciAnswer or shows it nothing.
LEMMA Refinement == IInv /\ [Next]_vars => [Promise!Next]_(Promise!avars)
<1>. SUFFICES ASSUME IInv, [Next]_vars PROVE [Promise!Next]_(Promise!avars)
  OBVIOUS
<1>1. ASSUME NEW t \in Thread, ClockFail(t) PROVE [Promise!Next]_(Promise!avars)
  <2>1. CASE FailCheck(t) \/ FailClock(t) \/ FailRetire(t)
    BY <2>1, Silent DEF FailCheck, FailClock, FailRetire, Retire, shell, output
  <2>2. CASE FailKill(t)
    <3>1. UNCHANGED <<generation, output>>
      BY <2>2, Unanswered, Basics DEF FailKill, Local, FailLabels, shell, output
    <3>. QED
      BY <3>1, Silent DEF output
  <2>3. CASE FailWrite(t)
    <3>1. gen[t] \in failed /\ line[gen[t]] = "none" /\ gen[t] = generation /\ generation # 0
      BY <2>3, Basics, NewestFails DEF FailWrite, Local, FailLabels
    <3>2. /\ line' = [line EXCEPT ![generation] = "null"]
          /\ generation' = generation /\ refused' = refused
      BY <2>3, <3>1 DEF FailWrite, Answer, shell
    <3>3. Promise!Reply("null")
      BY <3>1, <3>2 DEF Promise!Reply
    <3>. QED
      BY <3>3 DEF Promise!Next, Promise!Lines
  <2>. QED
    BY <1>1, <2>1, <2>2, <2>3 DEF ClockFail
<1>2. ASSUME NEW t \in Thread, Failure(t) PROVE [Promise!Next]_(Promise!avars)
  <2>1. CASE RuntimeFailed(t) \/ FailedAfterOutput(t)
    BY <2>1, Silent DEF RuntimeFailed, FailedAfterOutput, Retire, shell, output
  <2>2. CASE FailedUnclocked(t)
    <3>1. UNCHANGED <<generation, output>>
      BY <2>2, Unanswered, Basics DEF FailedUnclocked, Local
    <3>. QED
      BY <3>1, Silent DEF output
  <2>. QED
    BY <1>2, <2>1, <2>2 DEF Failure
<1>3. CASE Go
  <2>1. CASE UNCHANGED <<shell, output>>
    BY <2>1, Silent DEF shell, output
  <2>2. state = "READY" /\ healthy => Promise!Idle
    BY Basics DEF DataInv, ReadyInv, ClockInv, MoveLines, Promise!Idle
  <2>3. CASE /\ state = "READY" /\ healthy /\ refused < MaxRefused
             /\ refused' = refused + 1 /\ UNCHANGED <<shell, answers, line>>
    <3>1. Promise!Refuse
      BY <2>2, <2>3 DEF Promise!Refuse, shell
    <3>. QED
      BY <3>1 DEF Promise!Next
  <2>4. CASE /\ state = "READY" /\ healthy /\ generation + 1 \in Gen
             /\ generation' = generation + 1 /\ UNCHANGED output
    <3>1. generation < MaxGen /\ line' = line /\ refused' = refused
      BY <2>4, Basics, GenFacts DEF output
    <3>2. Promise!Open
      BY <2>2, <2>4, <3>1 DEF Promise!Open
    <3>. QED
      BY <3>2 DEF Promise!Next
  <2>. QED
    BY <1>3, <2>1, <2>3, <2>4 DEF Go
<1>4. CASE Write
  <2>1. CASE UNCHANGED <<shell, output>>
    BY <2>1, Silent DEF shell, output
  <2>2. ASSUME NEW l \in MoveLines, Answer(gen[Reader], l), UNCHANGED generation
        PROVE  [Promise!Next]_(Promise!avars)
    <3>1. gen[Reader] = generation /\ generation # 0 /\ generation \in Gen
      BY <1>4, NewestFails, Basics, GenFacts, Threads DEF Write
    <3>2. line[generation] = "none"
      BY <1>4, <3>1, Basics DEF Write, GateInv, DataInv, ClockInv, IInv, TypeOK, OutputType, MoveLines
    <3>3. Promise!Reply(l)
      BY <2>2, <3>1, <3>2 DEF Promise!Reply, Answer
    <3>. QED
      BY <3>3 DEF Promise!Next, Promise!Lines, MoveLines
  <2>3. (IF require THEN "hybrid" ELSE "anchor") \in MoveLines
    BY DEF MoveLines
  <2>. QED
    BY <1>4, <2>1, <2>2, <2>3 DEF Write
<1>5. CASE MainStep
  <2>1. CASE Fence
    BY <2>1, Silent DEF Fence, OpenReadiness, shell, output
  <2>2. CASE Sync \/ IsReady \/ Synchronize \/ SyncRaised \/ Prepare
    BY <2>2, Silent DEF Sync, IsReady, Synchronize, SyncRaised, Prepare, shell, output
  <2>3. CASE Dispatch \/ DispatchRaised \/ StopSpawn \/ Finish \/ Close
    BY <2>3, Silent DEF Dispatch, DispatchRaised, StopSpawn, Finish, Close, shell, output
  <2>. QED
    BY <1>1, <1>2, <1>3, <1>5, <2>1, <2>2, <2>3, Threads DEF MainStep
<1>6. ASSUME NEW t \in Thread, OpenReady(t) PROVE [Promise!Next]_(Promise!avars)
  BY <1>6, Silent DEF OpenReady, OpenReadiness, shell, output
<1>7. CASE ReaderStep
  <2>1. CASE Complete \/ Decide \/ SealWork \/ TryPublish
    BY <2>1, Silent DEF Complete, Decide, SealWork, TryPublish, shell, output
  <2>2. CASE Commit \/ Emitted \/ Eof
    BY <2>2, Silent DEF Commit, Emitted, Eof, shell, output
  <2>. QED
    BY <1>1, <1>2, <1>4, <1>6, <1>7, <2>1, <2>2, Threads DEF ReaderStep
<1>8. ASSUME NEW t \in Kinds \X Gen, WorkerStep(t) PROVE [Promise!Next]_(Promise!avars)
  <2>1. CASE WatchSoft(t[2]) \/ WatchHard(t[2])
    BY <2>1, Silent DEF WatchSoft, WatchHard, shell, output
  <2>2. CASE ClockStop(t) \/ BlockAuthority(t) \/ SendStop(t)
    BY <2>2, Silent DEF ClockStop, BlockAuthority, SendStop, shell, output
  <2>. QED
    BY <1>1, <1>6, <1>8, <2>1, <2>2, Threads DEF WorkerStep
<1>9. CASE \/ \E c \in Commands : Command(c)
           \/ Stop \/ Quit \/ BestMove \/ AnchorDies
           \/ \E g \in Gen : TimePass(g) \/ Freeze(g)
           \/ Terminated \/ UNCHANGED vars
  BY <1>9, Silent DEF Command, Stop, Quit, BestMove, AnchorDies, TimePass, Freeze, Terminated,
     vars, shell, output
<1>. QED
  BY <1>5, <1>7, <1>8, <1>9 DEF Next

\* The threads, locks and deadlines of the shell implement UciAnswer: requests
\* are answered in order, once, none is refused while another one is running,
\* and none is opened or refused after one was answered by a null move.
THEOREM ShellKeepsPromise == Spec => KeepsPromise
<1>1. Init => Promise!Init
  BY DEF Init, Promise!Init, Gen
<1>. QED
  BY <1>1, Invariance, Refinement, PTL DEF Spec, KeepsPromise, Promise!Spec

-----------------------------------------------------------------------------
(* What a move and an anchor command find *)

\* Past the seal the reader's generation is the active one, unless the shell is
\* quitting or the clock has ended.
OwnInv ==
    pc[Reader] \in {"enter", "write"} =>
        active = gen[Reader] \/ state = "SHUTDOWN" \/ gen[Reader] \in finished

\* A HYBRID line about to be written is not revoked.
RevokeInv == pc[Reader] = "write" /\ require => gen[Reader] \notin blocked

\* Post-output work is about a generation whose line is out.
OutputInv ==
    /\ postOut # 0 => line[postOut] \in MoveLines
    /\ \A t \in {Main, Reader} : pc[t] = "accounting" => gen[t] \in published

\* Only the newest generation's measurement may be open, and not when READY.
FrozenInv ==
    \A g \in Gen : line[g] \in MoveLines => g \in frozen \/ (g = generation /\ state # "READY")

\* The command loop at the anchor: every line is frozen, and no further one can
\* come out meanwhile.
TouchInv ==
    /\ superseded = {}
    /\ pc[Main] \in {"apply", "prepare", "dispatch"} =>
           \A g \in Gen : line[g] \in MoveLines => g \in frozen
    /\ pc[Main] = "apply" => active = 0 /\ state # "SHUTDOWN"
    /\ pc[Main] \in {"prepare", "dispatch"} =>
           /\ gen[Main] = generation /\ search # generation
           /\ pc[Reader] \in ReaderLabels => gen[Reader] # generation

JInv == OwnInv /\ RevokeInv /\ OutputInv /\ FrozenInv /\ TouchInv

\* Labels of the two threads that JInv says something about.
Busy == ReaderLabels \cup {"apply", "prepare", "dispatch", "accounting"}

\* While the reader is about to publish, its generation is not over yet.
LEMMA Publishing ==
    ASSUME IInv, pc[Reader] = "write"
    PROVE  /\ gen[Reader] = generation /\ generation \in Gen /\ generation # 0
           /\ gen[Reader] \notin finished /\ gen[Reader] \notin published
BY NewestFails, Basics, GenFacts, Threads DEF GateInv, DataInv, ClockInv

\* What a step must show if it moves the command loop and the reader to labels
\* that promise nothing, and writes no move.
LEMMA Kept ==
    ASSUME IInv, JInv, NEW S \in SUBSET Thread, Moved(S),
           \A t \in S \cap {Main, Reader} : pc'[t] \notin Busy,
           UNCHANGED <<generation, superseded>>,
           \A g \in Gen : line'[g] \in MoveLines <=> line[g] \in MoveLines,
           finished \subseteq finished', published \subseteq published', frozen \subseteq frozen',
           Main \in S \/ search' \in {0, search}, postOut' \in {0, postOut},
           active' \in {0, active},
           state' = state \/ state' \in {"UNHEALTHY", "SHUTDOWN"},
           state' = "SHUTDOWN" => state = "SHUTDOWN" \/ Main \in S,
           state = "SHUTDOWN" => state' = "SHUTDOWN",
           \* the reader's generation is retired only when it is over
           Reader \notin S /\ pc[Reader] \in {"enter", "write"} /\ active' # active
               => state' = "SHUTDOWN" \/ gen[Reader] \in finished',
           \* what is about to be written is not revoked, nor made HYBRID
           Reader \notin S /\ pc[Reader] = "write" =>
               require' = require /\ (gen[Reader] \in blocked' => gen[Reader] \in blocked)
    PROVE  JInv'
<1>1. /\ Reader \notin S => pc'[Reader] = pc[Reader] /\ gen'[Reader] = gen[Reader]
      /\ Main \notin S => pc'[Main] = pc[Main] /\ gen'[Main] = gen[Main]
  BY Threads DEF Moved
<1>2. Reader \in S => pc'[Reader] \notin ReaderLabels \cup {"accounting"}
  BY DEF Busy
<1>3. Main \in S => pc'[Main] \notin {"apply", "prepare", "dispatch", "accounting"}
  BY DEF Busy
<1>4. OwnInv' BY <1>1, <1>2 DEF JInv, OwnInv, ReaderLabels
<1>5. RevokeInv' BY <1>1, <1>2 DEF JInv, RevokeInv, ReaderLabels
<1>6. OutputInv'
  <2>1. postOut \in Gen \/ postOut = 0
    BY GenFacts DEF IInv, TypeOK, ShellType
  <2> QED BY <1>1, <1>2, <1>3, <2>1 DEF JInv, OutputInv
<1>7. FrozenInv' BY DEF JInv, FrozenInv
<1>8. TouchInv'
  <2>1. pc'[Main] \in {"apply", "prepare", "dispatch"} => Main \notin S /\ pc'[Main] = pc[Main]
    BY <1>1, <1>3
  <2>2. pc'[Reader] \in ReaderLabels => pc'[Reader] = pc[Reader] /\ gen'[Reader] = gen[Reader]
    BY <1>1, <1>2
  <2>3. pc'[Main] \in {"prepare", "dispatch"} => search' # generation'
    <3>1. pc[Main] \in {"prepare", "dispatch"} => generation # 0
      BY Basics, Threads DEF JInv, TouchInv, Local
    <3> QED BY <2>1, <3>1 DEF JInv, TouchInv
  <2> QED BY <1>1, <2>1, <2>2, <2>3 DEF JInv, TouchInv
<1> QED BY <1>4, <1>5, <1>6, <1>7, <1>8 DEF JInv

\* Rest, Return and calm labels, in the words of Kept.
LEMMA CalmMove ==
    ASSUME IInv, NEW t \in Thread, pc[t] # "off", generation' = generation,
           published \subseteq published',
           Rest(t) \/ Return(t) \/ \E l \in Calm \ {"apply"} : Goto(t, l)
    PROVE  Moved({t}) /\ \A u \in {t} \cap {Main, Reader} : pc'[u] \notin Busy
<1>1. generation' \in Nat /\ generation <= generation'
  BY Basics
<1>2. Moved({t}) /\ pc'[t] \in Calm
  BY <1>1, Settle, GotoCalm, Basics
<1>3. pc'[t] # "apply" \/ t \notin {Main, Reader}
  <2>1. (Home(t) # "apply" /\ ret[t] # "apply") \/ t \notin {Main, Reader}
    BY Basics, ModeAssumption DEF Local, Home
  <2>2. \A l \in Calm \ {"apply"} : Goto(t, l) => pc'[t] = l
    BY GotoMoves, Basics DEF Calm
  <2> QED BY <2>1, <2>2, RestMoves, ReturnMoves, Basics
<1> QED BY <1>2, <1>3 DEF Calm, Busy, BrokenLabels

\* A thread that only moves to a calm label, and touches nothing of what Kept asks.
kept == <<shell, finished, published, frozen, superseded, search, line, blocked, require>>

\* A step that touches nothing of what Kept asks.
LEMMA FrameKept ==
    ASSUME IInv, JInv, UNCHANGED kept, NEW S \in SUBSET Thread, Moved(S),
           \A t \in S \cap {Main, Reader} : pc'[t] \notin Busy
    PROVE  JInv'
<1>1. /\ UNCHANGED <<state, generation, active, postOut, line>>
      /\ UNCHANGED <<finished, published, frozen, superseded, search, blocked, require>>
  BY DEF kept, shell, output
<1>. QED
  BY <1>1, Kept

LEMMA CalmKept ==
    ASSUME IInv, JInv, UNCHANGED kept, NEW t \in Thread, pc[t] # "off",
           Rest(t) \/ Return(t) \/ \E l \in Calm \ {"apply"} : Goto(t, l)
    PROVE  JInv'
<1>1. generation' = generation /\ published \subseteq published'
  BY DEF kept, output, shell
<1>2. Moved({t}) /\ \A u \in {t} \cap {Main, Reader} : pc'[u] \notin Busy
  BY <1>1, CalmMove
<1>. QED
  BY <1>2, FrameKept

\* A call, or a jump to a label outside Busy.
LEMMA CallKept ==
    ASSUME IInv, JInv, UNCHANGED kept, NEW t \in Thread, NEW l \in Labels \ Busy,
           Goto(t, l) \/ \E k \in 0 .. MaxGen, r \in Labels : Call(t, l, k, r)
    PROVE  JInv'
<1>1. Moved({t}) /\ pc'[t] = l
  BY GotoMoves, CallMoves, Basics
<1>. QED
  BY <1>1, FrameKept

LEMMA FreeLabels ==
    /\ {"fence", "broken", "unhealthy", "expire", "retire", "kill", "null", "ready",
        "again", "dead", "finish", "stop", "fail"} \subseteq Labels \ Busy
    /\ Commands \cup {"raised", "again", "dead"} \subseteq Labels
    /\ 0 \in 0 .. MaxGen
BY ModeAssumption, GenFacts DEF Labels, Busy, ReaderLabels

LEMMA FailCheckKeeps == ASSUME IInv, JInv, NEW t \in Thread, FailCheck(t) PROVE JInv'
<1>1. UNCHANGED kept /\ pc[t] = "fail"
  BY DEF FailCheck, kept, output, clock, measure, backend
<1>. QED
  BY <1>1, CalmKept, CallKept, FreeLabels DEF FailCheck

\* The steps of the command loop that only move it.
LEMMA LoopKeeps ==
    ASSUME IInv, JInv,
           \/ \E c \in Commands : Command(c)
           \/ IsReady \/ SyncRaised \/ DispatchRaised \/ Close \/ Synchronize
           \/ Sync /\ state # "READY"
    PROVE  JInv'
<1>1. UNCHANGED kept /\ Main \in Thread /\ pc[Main] # "off"
  BY Threads DEF Command, IsReady, SyncRaised, DispatchRaised, Close, Synchronize, Sync,
                 kept, output, clock, measure, backend
<1>2. {"probe", "fail", "exit", "again", "idle"} \subseteq Calm \ {"apply"}
  BY CalmLabels
<1>3. CASE \E c \in Commands : Command(c)
  BY <1>1, <1>3, CallKept, FreeLabels DEF Command
<1>4. CASE IsReady \/ DispatchRaised \/ Close \/ (Sync /\ state # "READY")
  BY <1>1, <1>2, <1>4, CalmKept DEF IsReady, DispatchRaised, Close, Sync
<1>5. CASE SyncRaised
  BY <1>1, <1>5, CalmKept, CallKept, FreeLabels DEF SyncRaised
<1>6. CASE Synchronize
  BY <1>1, <1>2, <1>6, CalmKept, CallKept, FreeLabels DEF Synchronize
<1>. QED
  BY <1>3, <1>4, <1>5, <1>6

\* The steps of deadline and stop threads that revoke nothing.
LEMMA WorkerKeeps ==
    ASSUME IInv, JInv, NEW t \in Kinds \X Gen,
           WatchSoft(t[2]) \/ WatchHard(t[2]) \/ ClockStop(t) \/ SendStop(t)
    PROVE  JInv'
<1>1. UNCHANGED kept /\ t \in Thread /\ t[2] \in Gen /\ t # Main /\ t # Reader
  BY Threads DEF WatchSoft, WatchHard, ClockStop, SendStop, kept, output, backend, measure, clock, threads
<1>2. Watch(t[2]) \in Thread /\ Soft(t[2]) \in Thread /\ Watch(t[2]) \notin {Main, Reader}
      /\ Soft(t[2]) \notin {Main, Reader} /\ Watch(t[2]) # Soft(t[2])
  BY <1>1, Threads DEF Watch, Soft
<1>3. CASE WatchSoft(t[2])
  <2>1. CASE Rest(Watch(t[2]))
    BY <1>1, <1>2, <1>3, <2>1, CalmKept DEF WatchSoft
  <2>2. CASE /\ pc' = [pc EXCEPT ![Watch(t[2])] = "hard", ![Soft(t[2])] = "halt"]
             /\ UNCHANGED <<gen, tok, ret>>
    <3>1. Moved({Watch(t[2]), Soft(t[2])})
      BY <1>2, <2>2, Basics DEF Moved, FrameType, Labels
    <3>. QED
      BY <1>1, <1>2, <3>1, FrameKept
  <2>. QED
    BY <1>3, <2>1, <2>2 DEF WatchSoft
<1>4. CASE WatchHard(t[2])
  BY <1>1, <1>2, <1>4, CalmKept, CalmLabels DEF WatchHard
<1>5. CASE ClockStop(t) \/ SendStop(t)
  BY <1>1, <1>5, CalmKept, CalmLabels DEF ClockStop, SendStop
<1>. QED
  BY <1>3, <1>4, <1>5

LEMMA StopSpawnKeeps == ASSUME IInv, JInv, StopSpawn PROVE JInv'
<1>1. UNCHANGED kept /\ Main \in Thread /\ pc[Main] = "stop"
  BY Threads DEF StopSpawn, kept, output, backend, measure, clock
<1>2. CASE Rest(Main)
  BY <1>1, <1>2, CalmKept
<1>3. CASE /\ pc' = [pc EXCEPT ![Main] = "idle", ![UStop(active)] = "halt"]
           /\ UNCHANGED <<gen, tok, ret>> /\ active # 0
  <2>1. UStop(active) \in Thread /\ UStop(active) \notin {Main, Reader}
    BY <1>3, Threads, GenFacts DEF IInv, TypeOK, ShellType
  <2>2. Moved({Main, UStop(active)}) /\ pc'[Main] = "idle"
    BY <1>1, <1>3, <2>1, Basics DEF Moved, FrameType, Labels
  <2>. QED
    BY <1>1, <2>1, <2>2, FrameKept DEF Busy, ReaderLabels
<1>. QED
  BY <1>2, <1>3 DEF StopSpawn

\* Time, the anchor's death and the end of a measurement.
LEMMA WorldKeeps ==
    ASSUME IInv, JInv, (\E g \in Gen : TimePass(g) \/ Freeze(g)) \/ AnchorDies
    PROVE  JInv'
<1>1. UNCHANGED threads /\ Moved({})
  BY Basics DEF TimePass, Freeze, AnchorDies, threads, frame, Moved, FrameType
<1>2. CASE (\E g \in Gen : TimePass(g)) \/ AnchorDies
  <2>1. UNCHANGED kept
    BY <1>1, <1>2 DEF TimePass, AnchorDies, kept, output, clock, measure, backend, threads
  <2>. QED
    BY <1>1, <2>1, FrameKept
<1>3. CASE \E g \in Gen : Freeze(g)
  <2>1. /\ UNCHANGED <<state, generation, active, postOut, line>>
        /\ UNCHANGED <<finished, published, superseded, search, blocked, require>>
        /\ frozen \subseteq frozen'
    BY <1>1, <1>3 DEF Freeze, shell, clock, backend, threads, output
  <2>. QED
    BY <1>1, <2>1, Kept
<1>. QED
  BY <1>2, <1>3

-----------------------------------------------------------------------------
(* Steps that change what Kept asks about *)

LEMMA FailClockKeeps == ASSUME IInv, JInv, NEW t \in Thread, FailClock(t) PROVE JInv'
<1>1. /\ UNCHANGED <<state, generation, active, postOut, line, published, frozen, superseded>>
      /\ UNCHANGED <<search, require>> /\ pc[t] = "expire" /\ GateFree(gen[t])
      /\ finished \subseteq finished' /\ blocked' \subseteq blocked \cup {gen[t]}
  BY DEF FailClock, shell, clock, measure, backend, output
<1>2. Moved({t}) /\ \A u \in {t} \cap {Main, Reader} : pc'[u] \notin Busy
  BY SMTT(60), <1>1, CalmMove, GotoMoves, FreeLabels, Basics DEF FailClock
<1>3. Reader \notin {t} /\ pc[Reader] = "write" =>
          (gen[Reader] \in blocked' => gen[Reader] \in blocked)
  BY <1>1 DEF GateFree
<1>. QED
  BY <1>1, <1>2, <1>3, Kept

LEMMA BlockAuthorityKeeps ==
    ASSUME IInv, JInv, NEW t \in Kinds \X Gen, BlockAuthority(t) PROVE JInv'
<1>1. /\ UNCHANGED <<state, generation, active, postOut, line, published, frozen, superseded>>
      /\ UNCHANGED <<search, require, finished>> /\ pc[t] = "block" /\ GateFree(gen[t])
      /\ blocked' \subseteq blocked \cup {gen[t]} /\ t \in Thread
  BY Threads DEF BlockAuthority, shell, measure, backend, output
<1>2. Moved({t}) /\ \A u \in {t} \cap {Main, Reader} : pc'[u] \notin Busy
  <2>1. "send" \in Calm \ {"apply"} /\ published \subseteq published'
    BY <1>1, CalmLabels
  <2>. QED
    BY <1>1, <2>1, CalmMove DEF BlockAuthority
<1>3. Reader \notin {t} /\ pc[Reader] = "write" =>
          (gen[Reader] \in blocked' => gen[Reader] \in blocked)
  BY <1>1 DEF GateFree
<1>. QED
  BY <1>1, <1>2, <1>3, Kept

LEMMA StopKeeps == ASSUME IInv, JInv, Stop PROVE JInv'
<1>1. /\ UNCHANGED <<state, generation, active, postOut, line, published, frozen, superseded>>
      /\ UNCHANGED <<search, require, finished>> /\ pc[Main] = "idle" /\ GateFree(generation)
      /\ blocked' \subseteq blocked \cup {generation}
  BY DEF Stop, shell, measure, backend, output
<1>2. Moved({Main}) /\ pc'[Main] \notin Busy
  <2>1. "stop" \in Labels \ Busy /\ pc[Main] \notin Busy
    BY <1>1, FreeLabels DEF Busy, ReaderLabels
  <2>2. CASE UNCHANGED frame
    BY <2>1, <2>2, Basics, Threads DEF frame, Moved, FrameType
  <2>3. CASE Goto(Main, "stop")
    BY ZenonT(60), <2>1, <2>3, GotoMoves, Basics, Threads
  <2>. QED
    BY <2>2, <2>3 DEF Stop
<1>3. pc[Reader] = "write" => (gen[Reader] \in blocked' => gen[Reader] \in blocked)
  BY <1>1 DEF GateFree
<1>. QED
  BY <1>1, <1>2, <1>3, Kept, Threads

\* Retiring the generation a failed or published thread stands for.
LEMMA RetireKeeps ==
    ASSUME IInv, JInv, NEW t \in Thread, pc[t] # "off",
           Return(t) \/ Goto(t, "kill"),
           gen[t] \in finished, gen[t] # 0 \/ active # gen[t],
           IF active = gen[t] THEN Retire ELSE UNCHANGED shell,
           UNCHANGED <<finished, published, frozen, superseded, search, blocked, require, line>>
    PROVE  JInv'
<1>1. /\ generation' = generation /\ active' \in {0, active} /\ postOut' \in {0, postOut}
      /\ state' = state \/ state' = "UNHEALTHY"
      /\ active' # active => active = gen[t]
      /\ state = "SHUTDOWN" => state' = "SHUTDOWN"
  BY Basics DEF Retire, shell, DataInv, ActiveInv
<1>2. Moved({t}) /\ \A u \in {t} \cap {Main, Reader} : pc'[u] \notin Busy
  BY <1>1, CalmMove, GotoMoves, FreeLabels, Basics
<1>3. /\ state' = state \/ state' \in {"UNHEALTHY", "SHUTDOWN"}
      /\ state' = "SHUTDOWN" => state = "SHUTDOWN"
  BY <1>1
<1>4. Reader \notin {t} /\ pc[Reader] \in {"enter", "write"} /\ active' # active
          => state' = "SHUTDOWN" \/ gen[Reader] \in finished'
  <2>1. pc[Reader] \in {"enter", "write"} /\ gen[Reader] # active
            => state' = "SHUTDOWN" \/ gen[Reader] \in finished
    BY <1>1 DEF JInv, OwnInv
  <2>. QED
    BY <1>1, <2>1
<1>. QED
  BY <1>1, <1>2, <1>3, <1>4, Kept

LEMMA FailRetireKeeps == ASSUME IInv, JInv, NEW t \in Thread, FailRetire(t) PROVE JInv'
<1>1. gen[t] \in finished /\ gen[t] # 0 /\ pc[t] = "retire"
  BY Basics DEF FailRetire, Local, FailLabels, DataInv, ClockInv
<1>. QED
  BY <1>1, RetireKeeps DEF FailRetire, clock, measure, backend, output

LEMMA FailedAfterOutputKeeps ==
    ASSUME IInv, JInv, NEW t \in Thread, FailedAfterOutput(t) PROVE JInv'
<1>1. t \in {Main, Reader} /\ pc[t] = "accounting"
  BY Basics DEF FailedAfterOutput, Local, BrokenLabels
<1>2. gen[t] \in published
  BY <1>1 DEF JInv, OutputInv
<1>3. gen[t] \in finished /\ gen[t] # 0
  BY <1>2, GenFacts, Basics DEF DataInv, ClockInv, IInv, TypeOK, ClockType
<1>. QED
  BY <1>1, <1>3, RetireKeeps DEF FailedAfterOutput, clock, measure, backend, output

\* A failure that finds no generation to fail leaves none active.
LEMMA UnclockedKeeps ==
    ASSUME IInv, JInv, NEW t \in Thread, pc[t] # "off",
           Return(t) \/ Goto(t, "null"), NEW k, UnclockedFailure(k),
           active # 0 => state = "SEARCHING" /\ k # 0 /\ k # active,
           UNCHANGED <<finished, published, frozen, superseded, search, blocked, require>>
    PROVE  JInv'
<1>1. /\ UNCHANGED output /\ generation' = generation /\ active' = active
      /\ postOut' \in {0, postOut}
      /\ state' = state \/ state' = "UNHEALTHY"
      /\ state = "SHUTDOWN" => state' = "SHUTDOWN"
  BY DEF UnclockedFailure, Retire, shell
<1>2. Moved({t}) /\ \A u \in {t} \cap {Main, Reader} : pc'[u] \notin Busy
  BY ZenonT(60), <1>1, CalmMove, GotoMoves, FreeLabels, Basics
<1>3. /\ state' = state \/ state' \in {"UNHEALTHY", "SHUTDOWN"}
      /\ state' = "SHUTDOWN" => state = "SHUTDOWN"
  BY <1>1
<1>. QED
  BY <1>1, <1>2, <1>3, Kept DEF output

LEMMA FailedUnclockedKeeps ==
    ASSUME IInv, JInv, NEW t \in Thread, FailedUnclocked(t) PROVE JInv'
<1>1. active # 0 => state = "SEARCHING" /\ tok[t] # 0 /\ tok[t] # active
  BY Basics DEF FailedUnclocked, Local, DataInv, ActiveInv
<1>. QED
  BY <1>1, UnclockedKeeps DEF FailedUnclocked, clock, measure, backend

LEMMA FailKillKeeps == ASSUME IInv, JInv, NEW t \in Thread, FailKill(t) PROVE JInv'
<1>1. gen[t] = generation /\ pc[t] = "kill"
  BY Basics, NewestFails DEF FailKill, Local, FailLabels
<1>2. UNCHANGED <<finished, published, frozen, superseded, search, blocked, require>>
  BY DEF FailKill, clock, measure
<1>3. CASE active = gen[t] /\ active # 0
  <2>1. UNCHANGED kept
    BY <1>2, <1>3 DEF FailKill, kept, output
  <2>. QED
    BY <2>1, CallKept, FreeLabels DEF FailKill
<1>4. CASE ~(active = gen[t] /\ active # 0)
  <2>1. active = 0
    BY <1>1, <1>4, Basics DEF DataInv, ActiveInv
  <2>. QED
    BY <1>1, <1>2, <1>4, <2>1, UnclockedKeeps DEF FailKill
<1>. QED
  BY <1>3, <1>4

LEMMA FailWriteKeeps == ASSUME IInv, JInv, NEW t \in Thread, FailWrite(t) PROVE JInv'
<1>1. /\ UNCHANGED <<state, generation, active, postOut, finished, published, frozen>>
      /\ UNCHANGED <<superseded, search, blocked, require>> /\ pc[t] = "null"
  BY DEF FailWrite, shell, clock, measure, backend
<1>2. line[gen[t]] = "none" /\ line' = [line EXCEPT ![gen[t]] = "null"]
  BY Basics DEF FailWrite, Answer, Local, FailLabels
<1>3. \A g \in Gen : line'[g] \in MoveLines <=> line[g] \in MoveLines
  BY <1>2 DEF IInv, TypeOK, OutputType, MoveLines
<1>4. Moved({t}) /\ \A u \in {t} \cap {Main, Reader} : pc'[u] \notin Busy
  BY <1>1, CalmMove DEF FailWrite
<1>. QED
  BY <1>1, <1>3, <1>4, Kept

LEMMA LeaveKeeps == ASSUME IInv, JInv, Quit \/ Finish PROVE JInv'
<1>1. /\ UNCHANGED <<generation, postOut, line, published, frozen, superseded>>
      /\ UNCHANGED <<search, blocked, require>> /\ finished \subseteq finished'
      /\ pc[Main] # "off"
  BY DEF Quit, Finish, shell, clock, measure, backend, output
<1>2. \/ state' = "SHUTDOWN" /\ active' = 0
      \/ state' = state /\ active' = active
  BY DEF Quit, Finish, shell
<1>3. Moved({Main}) /\ pc'[Main] \notin Busy
  <2>1. {"finish", "close"} \subseteq Calm \ {"apply"}
    BY CalmLabels
  <2>. QED
    BY <1>1, <2>1, CalmMove, Threads DEF Quit, Finish
<1>. QED
  BY <1>1, <1>2, <1>3, Kept, Threads

LEMMA EofKeeps == ASSUME IInv, JInv, Eof PROVE JInv'
<1>1. /\ UNCHANGED <<state, generation, active, postOut, line, finished, published, frozen>>
      /\ UNCHANGED <<superseded, blocked, require>> /\ search' = 0
  BY DEF Eof, shell, clock, measure, output
<1>2. Moved({Reader}) /\ pc'[Reader] \notin Busy
  <2>1. search \in 0 .. MaxGen
    BY DEF IInv, TypeOK, BackendType
  <2>. QED
    BY SMTT(60), <2>1, GotoMoves, CallMoves, FreeLabels, Basics, Threads DEF Eof
<1>. QED
  BY <1>1, <1>2, Kept, Threads

-----------------------------------------------------------------------------
(* The reader *)

\* A reader's step from one of its labels to the next, for the same generation.
LEMMA ReaderKept ==
    ASSUME IInv, JInv, Moved({Reader}), gen'[Reader] = gen[Reader],
           pc[Reader] \in ReaderLabels, pc'[Reader] \in ReaderLabels,
           UNCHANGED <<shell, line, frozen, superseded, search, blocked>>,
           finished \subseteq finished', published \subseteq published',
           pc'[Reader] \in {"enter", "write"} =>
               active = gen[Reader] \/ state = "SHUTDOWN" \/ gen[Reader] \in finished,
           pc'[Reader] = "write" /\ require' => gen[Reader] \notin blocked
    PROVE  JInv'
<1>1. /\ UNCHANGED <<state, generation, active, postOut>>
      /\ pc'[Main] = pc[Main] /\ gen'[Main] = gen[Main]
  BY Threads DEF shell, Moved
<1>2. OwnInv' BY <1>1 DEF OwnInv
<1>3. RevokeInv' BY DEF RevokeInv
<1>4. OutputInv' BY <1>1 DEF JInv, OutputInv, ReaderLabels
<1>5. FrozenInv' BY <1>1 DEF JInv, FrozenInv
<1>6. TouchInv' BY <1>1 DEF JInv, TouchInv
<1>. QED BY <1>2, <1>3, <1>4, <1>5, <1>6 DEF JInv

LEMMA CompleteKeeps == ASSUME IInv, JInv, Complete PROVE JInv'
<1>1. UNCHANGED kept /\ pc[Reader] = "complete" /\ Reader \in Thread
  BY Threads DEF Complete, kept, output, clock, measure, backend
<1>2. CASE Goto(Reader, "decide")
  <2>1. Moved({Reader}) /\ pc'[Reader] = "decide" /\ gen'[Reader] = gen[Reader]
    BY <1>2, GotoMoves, Basics, Threads DEF Labels
  <2>. QED
    BY <1>1, <2>1, ReaderKept DEF ReaderLabels, kept, shell, output
<1>3. CASE Rest(Reader) \/ Goto(Reader, "fail")
  BY <1>1, <1>3, CalmKept, CalmLabels
<1>. QED
  BY <1>2, <1>3 DEF Complete

LEMMA DecideKeeps == ASSUME IInv, JInv, Decide PROVE JInv'
<1>1. Moved({Reader}) /\ pc'[Reader] = "seal" /\ gen'[Reader] = gen[Reader]
  BY GotoMoves, Basics, Threads DEF Decide, Labels
<1>. QED
  BY <1>1, ReaderKept DEF Decide, ReaderLabels, clock, backend, output

LEMMA SealWorkKeeps == ASSUME IInv, JInv, SealWork PROVE JInv'
<1>1. CASE Searching(gen[Reader])
  <2>1. Moved({Reader}) /\ pc'[Reader] = "enter" /\ gen'[Reader] = gen[Reader]
    BY <1>1, GotoMoves, Basics, Threads DEF SealWork, Labels
  <2>. QED
    BY <1>1, <2>1, ReaderKept DEF SealWork, Searching, ReaderLabels, measure, backend, output
<1>2. CASE ~Searching(gen[Reader])
  <2>1. UNCHANGED kept /\ Rest(Reader) /\ pc[Reader] # "off"
    BY <1>2 DEF SealWork, kept, output, measure, backend
  <2>. QED
    BY <2>1, CalmKept, Threads
<1>. QED
  BY <1>1, <1>2

\* The reader leaves the publication: nothing is kept of its line.
LEMMA LeavePublication ==
    ASSUME IInv, JInv, pc[Reader] \in {"enter", "write"}, Rest(Reader) \/ Goto(Reader, "fail"),
           UNCHANGED <<shell, line, finished, published, frozen, superseded, search, blocked>>
    PROVE  JInv'
<1>1. /\ generation' = generation /\ published \subseteq published'
      /\ UNCHANGED <<state, active, postOut>> /\ pc[Reader] # "off"
  BY DEF shell
<1>2. Moved({Reader}) /\ pc'[Reader] \notin Busy
  <2>1. "fail" \in Calm \ {"apply"}
    BY CalmLabels
  <2>. QED
    BY <1>1, <2>1, CalmMove, Threads
<1>. QED
  BY <1>1, <1>2, Kept, Threads

LEMMA TryPublishKeeps == ASSUME IInv, JInv, TryPublish PROVE JInv'
<1>1. /\ pc[Reader] = "enter"
      /\ UNCHANGED <<shell, line, finished, published, frozen, superseded, search, blocked>>
  BY DEF TryPublish, clock, measure, backend, output
<1>2. CASE Rest(Reader) \/ Goto(Reader, "fail")
  BY <1>1, <1>2, LeavePublication
<1>3. CASE UNCHANGED frame
  <2>1. Moved({Reader}) /\ pc'[Reader] = "enter" /\ gen'[Reader] = gen[Reader]
    BY <1>1, <1>3, Basics, Threads DEF frame, Moved, FrameType
  <2>. QED
    BY <1>1, <2>1, ReaderKept DEF JInv, OwnInv, ReaderLabels
<1>4. CASE Goto(Reader, "write") /\ ~(require /\ gen[Reader] \in blocked) /\ UNCHANGED require
  <2>1. Moved({Reader}) /\ pc'[Reader] = "write" /\ gen'[Reader] = gen[Reader]
    BY <1>4, GotoMoves, Basics, Threads DEF Labels
  <2>. QED
    BY <1>1, <1>4, <2>1, ReaderKept DEF JInv, OwnInv, ReaderLabels
<1>. QED
  BY <1>2, <1>3, <1>4 DEF TryPublish

\* While the reader can still publish, the command loop is not at the anchor.
LEMMA NoTouchWhilePublishing ==
    ASSUME IInv, JInv, pc[Reader] = "write"
    PROVE  /\ pc[Main] \notin {"apply", "prepare", "dispatch"}
           /\ active = gen[Reader] \/ state = "SHUTDOWN"
           /\ require => gen[Reader] \notin blocked
<1>1. active = gen[Reader] \/ state = "SHUTDOWN"
  BY Publishing DEF JInv, OwnInv
<1>2. gen[Reader] = generation /\ generation # 0
  BY Publishing
<1>. QED
  BY <1>1, <1>2 DEF JInv, RevokeInv, TouchInv, ReaderLabels

LEMMA WriteKeeps == ASSUME IInv, JInv, Write PROVE JInv'
<1>1. /\ UNCHANGED <<finished, published, frozen, superseded, search, blocked>>
      /\ pc[Reader] = "write"
  BY DEF Write, clock, measure, backend
<1>2. CASE Rest(Reader) /\ UNCHANGED <<shell, output>>
  BY <1>1, <1>2, LeavePublication DEF output
<1>3. CASE Goto(Reader, "enter") /\ UNCHANGED <<shell, output>>
  <2>1. Moved({Reader}) /\ pc'[Reader] = "enter" /\ gen'[Reader] = gen[Reader]
    BY <1>3, GotoMoves, Basics, Threads DEF Labels
  <2>. QED
    BY <1>1, <1>3, <2>1, ReaderKept DEF JInv, OwnInv, ReaderLabels, output
<1>4. CASE /\ Answer(gen[Reader], IF require THEN "hybrid" ELSE "anchor")
           /\ postOut' = gen[Reader] /\ UNCHANGED <<state, generation, active>>
           /\ Goto(Reader, "commit")
  <2>1. Moved({Reader}) /\ pc'[Reader] = "commit" /\ gen'[Reader] = gen[Reader]
    BY <1>4, GotoMoves, Basics, Threads DEF Labels
  <2>2. pc'[Main] = pc[Main] /\ gen'[Main] = gen[Main]
    BY <2>1, Threads DEF Moved
  <2>3. gen[Reader] \in Gen /\ gen[Reader] = generation
    BY <1>1, Publishing
  <2>4. pc[Main] \notin {"apply", "prepare", "dispatch"} /\ state # "READY"
    BY <1>1, <2>3, NoTouchWhilePublishing, GenFacts, Basics DEF DataInv, ActiveInv
  <2>5. /\ line'[gen[Reader]] \in MoveLines
        /\ \A g \in Gen : g # gen[Reader] => line'[g] = line[g]
    BY <1>4, <2>3 DEF Answer, IInv, TypeOK, OutputType, MoveLines
  <2>6. OutputInv'
    BY <1>1, <1>4, <2>1, <2>2, <2>5 DEF JInv, OutputInv
  <2>7. FrozenInv'
    BY <1>1, <1>4, <2>3, <2>4, <2>5 DEF JInv, FrozenInv
  <2>8. OwnInv' /\ RevokeInv'
    BY <2>1 DEF OwnInv, RevokeInv
  <2>9. TouchInv'
    BY <1>1, <2>2, <2>4 DEF JInv, TouchInv
  <2>. QED
    BY <2>6, <2>7, <2>8, <2>9 DEF JInv
<1>. QED
  BY <1>2, <1>3, <1>4 DEF Write

LEMMA CommitKeeps == ASSUME IInv, JInv, Commit PROVE JInv'
<1>1. Moved({Reader}) /\ pc'[Reader] = "emitted" /\ gen'[Reader] = gen[Reader]
  BY GotoMoves, Basics, Threads DEF Commit, Labels
<1>2. /\ UNCHANGED <<shell, line, frozen, superseded, search, blocked>> /\ pc[Reader] = "commit"
      /\ finished \subseteq finished' /\ published \subseteq published'
  BY DEF Commit, measure, backend, output
<1>. QED
  BY <1>1, <1>2, ReaderKept DEF ReaderLabels

LEMMA EmittedKeeps == ASSUME IInv, JInv, Emitted PROVE JInv'
<1>1. /\ UNCHANGED <<state, generation, active, postOut, line, finished, published>>
      /\ UNCHANGED <<superseded, search, blocked, require>>
      /\ frozen \subseteq frozen' /\ pc[Reader] = "emitted" /\ gen[Reader] \in Gen
  BY GenFacts, Threads, Basics DEF Emitted, shell, clock, backend, output, Local, ReaderLabels
<1>2. CASE Goto(Reader, "ready")
  <2>1. Moved({Reader}) /\ pc'[Reader] \notin Busy
    BY <1>2, GotoMoves, FreeLabels, Basics, Threads
  <2>. QED
    BY <1>1, <2>1, Kept, Threads
<1>3. CASE /\ pc' = [pc EXCEPT ![Reader] = "idle", ![Ready(gen[Reader])] = "ready"]
           /\ gen' = [gen EXCEPT ![Reader] = 0] /\ UNCHANGED <<tok, ret>>
  <2>1. Ready(gen[Reader]) \in Thread /\ Ready(gen[Reader]) \notin {Main, Reader}
    BY <1>1, Threads
  <2>2. Moved({Reader, Ready(gen[Reader])}) /\ pc'[Reader] = "idle"
    BY <1>1, <1>3, <2>1, Basics, Threads, GenFacts DEF Moved, FrameType, Labels
  <2>3. pc'[Reader] \notin Busy
    BY <2>2 DEF Busy, ReaderLabels
  <2>. QED
    BY <1>1, <2>1, <2>2, <2>3, Kept, Threads
<1>. QED
  BY <1>2, <1>3 DEF Emitted

\* A new reply: the search that ended is not the one the command loop prepares.
LEMMA BestMoveKeeps == ASSUME IInv, JInv, BestMove PROVE JInv'
<1>1. /\ pc'[Reader] = "complete" /\ gen'[Reader] = search /\ search' = 0
      /\ pc'[Main] = pc[Main] /\ gen'[Main] = gen[Main]
  BY Basics, Threads DEF BestMove, FrameType
<1>2. /\ UNCHANGED <<state, generation, active, postOut, line, finished, published, frozen>>
      /\ superseded' = superseded /\ search # 0
  BY DEF BestMove, shell, clock, measure, output
<1>3. OwnInv' /\ RevokeInv'
  BY <1>1 DEF OwnInv, RevokeInv
<1>4. OutputInv' /\ FrozenInv'
  BY <1>1, <1>2 DEF JInv, OutputInv, FrozenInv
<1>5. TouchInv'
  <2>1. pc[Main] \in {"prepare", "dispatch"} => generation # 0
    BY Basics, Threads DEF JInv, TouchInv, Local
  <2>. QED
    BY <1>1, <1>2, <2>1 DEF JInv, TouchInv
<1>. QED
  BY <1>3, <1>4, <1>5 DEF JInv

-----------------------------------------------------------------------------
(* Readiness, new generations and the way to the anchor *)

\* A readiness that comes back finds its generation frozen and finished.
LEMMA OpensKeeps ==
    ASSUME IInv, JInv, NEW t \in Thread, pc[t] # "off", Return(t),
           NEW g \in 0 .. MaxGen, OpenReadiness(g) \/ UNCHANGED shell,
           Searching(g) => g \in frozen /\ (g = gen[Reader] /\ Reader # t => g \in finished
                                            \/ pc[Reader] \notin {"enter", "write"}),
           UNCHANGED <<clock, measure, search, require, line>>
    PROVE  JInv'
<1>1. /\ generation' = generation
      /\ UNCHANGED <<finished, published, frozen, superseded, blocked, search, require, line>>
  BY DEF OpenReadiness, shell, clock, measure
<1>2. Moved({t}) /\ \A u \in {t} \cap {Main, Reader} : pc'[u] \notin Busy
  BY <1>1, CalmMove
<1>3. CASE UNCHANGED shell
  <2>1. UNCHANGED <<state, active, postOut>>
    BY <1>3 DEF shell
  <2>. QED
    BY <1>1, <1>2, <2>1, Kept
<1>4. CASE Searching(g) /\ OpenReadiness(g)
  <2>1. /\ state' \in {"READY", "UNHEALTHY"} /\ active' = 0 /\ postOut' = 0
        /\ state = "SEARCHING" /\ active = g /\ g = generation /\ g \in frozen /\ g # 0
    BY <1>4, Basics DEF OpenReadiness, Searching, DataInv, ActiveInv
  <2>2. /\ Reader # t => pc'[Reader] = pc[Reader] /\ gen'[Reader] = gen[Reader]
        /\ Main # t => pc'[Main] = pc[Main] /\ gen'[Main] = gen[Main]
        /\ Reader = t => pc'[Reader] \notin ReaderLabels \cup {"accounting"}
        /\ Main = t => pc'[Main] \notin {"apply", "prepare", "dispatch", "accounting"}
    BY <1>2, Threads DEF Moved, Busy
  <2>3. OwnInv'
    BY <1>1, <1>4, <2>1, <2>2 DEF JInv, OwnInv, ReaderLabels
  <2>4. RevokeInv'
    BY <1>1, <2>2 DEF JInv, RevokeInv, ReaderLabels
  <2>5. OutputInv'
    BY <1>1, <2>1, <2>2 DEF JInv, OutputInv
  <2>6. FrozenInv'
    BY <1>1, <2>1 DEF JInv, FrozenInv
  <2>7. TouchInv'
    BY <1>1, <2>1, <2>2 DEF JInv, TouchInv
  <2>. QED
    BY <2>3, <2>4, <2>5, <2>6, <2>7 DEF JInv
<1>. QED
  BY <1>3, <1>4 DEF OpenReadiness

LEMMA FenceKeeps == ASSUME IInv, JInv, Fence PROVE JInv'
<1>1. /\ Main \in Thread /\ pc[Main] # "off" /\ Return(Main) /\ active \in 0 .. MaxGen
      /\ UNCHANGED <<clock, measure, search, require, line>>
  BY Threads DEF Fence, backend, output, IInv, TypeOK, ShellType
<1>2. CASE state = "SEARCHING" /\ active # 0 /\ postOut = active
  <2>1. active \in frozen /\ line[active] \in MoveLines /\ active \in Gen
    BY <1>1, <1>2, GenFacts DEF Fence, JInv, OutputInv
  <2>2. pc[Reader] \in {"enter", "write"} => active \in finished
    BY <2>1, Basics DEF GateInv, DataInv, ClockInv
  <2>. QED
    BY <1>1, <1>2, <2>1, <2>2, OpensKeeps DEF Fence
<1>3. CASE ~(state = "SEARCHING" /\ active # 0 /\ postOut = active)
  <2>1. UNCHANGED kept
    BY <1>3 DEF Fence, kept, output, clock, measure, backend
  <2>. QED
    BY <1>1, <2>1, CalmKept
<1>. QED
  BY <1>2, <1>3

LEMMA OpenReadyKeeps == ASSUME IInv, JInv, NEW t \in Thread, OpenReady(t) PROVE JInv'
<1>1. /\ gen[t] \in published /\ gen[t] \in 0 .. MaxGen /\ pc[t] # "off" /\ Return(t)
      /\ OpenReadiness(gen[t]) /\ (Searching(gen[t]) => gen[t] \in frozen)
      /\ UNCHANGED <<clock, measure, search, require, line>>
  BY Basics DEF OpenReady, MeasurementClosed, Local, backend, output
<1>2. gen[t] \in finished
  BY <1>1, Basics DEF DataInv, ClockInv
<1>. QED
  BY <1>1, <1>2, OpensKeeps

LEMMA RuntimeFailedKeeps == ASSUME IInv, JInv, NEW t \in Thread, RuntimeFailed(t) PROVE JInv'
<1>1. UNCHANGED kept /\ pc[t] = "broken"
  BY DEF RuntimeFailed, kept, output, clock, measure, backend
<1>2. CASE Goto(t, "unhealthy")
  BY <1>1, <1>2, CallKept, FreeLabels
<1>3. CASE /\ gen' = [gen EXCEPT ![t] = active]
           /\ pc' = [pc EXCEPT ![t] = IF active \in published THEN "accounting" ELSE "fail"]
           /\ UNCHANGED <<tok, ret>>
  <2>1. active \in 0 .. MaxGen /\ {"accounting", "fail"} \subseteq Labels
    BY DEF IInv, TypeOK, ShellType, Labels
  <2>2. Moved({t}) /\ gen'[t] = active /\ pc'[t] \in {"accounting", "fail"}
        /\ (pc'[t] = "accounting" => active \in published)
    BY <1>3, <2>1, Basics DEF Moved, FrameType
  <2>3. /\ UNCHANGED <<state, generation, active, postOut, line>>
        /\ UNCHANGED <<finished, published, frozen, superseded, search, blocked, require>>
    BY <1>1 DEF kept, shell, output
  <2>4. /\ Reader # t => pc'[Reader] = pc[Reader] /\ gen'[Reader] = gen[Reader]
        /\ Main # t => pc'[Main] = pc[Main] /\ gen'[Main] = gen[Main]
    BY <2>2, Threads DEF Moved
  <2>5. OwnInv' /\ RevokeInv'
    BY <2>2, <2>3, <2>4 DEF JInv, OwnInv, RevokeInv
  <2>6. OutputInv' /\ FrozenInv'
    BY <2>2, <2>3, <2>4 DEF JInv, OutputInv, FrozenInv
  <2>7. TouchInv'
    BY <2>2, <2>3, <2>4 DEF JInv, TouchInv, ReaderLabels
  <2>. QED
    BY <2>5, <2>6, <2>7 DEF JInv
<1>. QED
  BY <1>2, <1>3 DEF RuntimeFailed

\* READY means that every move that is out has been measured.
LEMMA ReadyIsFrozen ==
    ASSUME IInv, JInv, state = "READY"
    PROVE  active = 0 /\ \A g \in Gen : line[g] \in MoveLines => g \in frozen
BY Basics DEF JInv, FrozenInv, DataInv, ActiveInv

LEMMA SyncKeeps == ASSUME IInv, JInv, Sync PROVE JInv'
<1>1. CASE state # "READY"
  BY <1>1, LoopKeeps
<1>2. CASE state = "READY"
  <2>1. Goto(Main, "apply") /\ UNCHANGED kept
    BY <1>2 DEF Sync, kept, output, clock, measure, backend
  <2>2. Moved({Main}) /\ pc'[Main] = "apply" /\ gen'[Main] = gen[Main]
    BY <2>1, GotoMoves, Basics, Threads DEF Labels
  <2>3. /\ UNCHANGED <<state, generation, active, postOut, line>>
        /\ UNCHANGED <<finished, published, frozen, superseded, search, blocked, require>>
        /\ pc'[Reader] = pc[Reader] /\ gen'[Reader] = gen[Reader]
    BY <2>1, <2>2, Threads DEF kept, shell, output, Moved
  <2>4. OwnInv' /\ RevokeInv' /\ OutputInv' /\ FrozenInv'
    BY <2>2, <2>3 DEF JInv, OwnInv, RevokeInv, OutputInv, FrozenInv
  <2>5. TouchInv'
    BY <1>2, <2>2, <2>3, ReadyIsFrozen DEF JInv, TouchInv
  <2>. QED
    BY <2>4, <2>5 DEF JInv
<1>. QED
  BY <1>1, <1>2

LEMMA GoKeeps == ASSUME IInv, JInv, Go PROVE JInv'
<1>1. /\ UNCHANGED <<clock, measure, backend, require, line>>
      /\ pc[Main] = "go" /\ Main \in Thread
  BY Threads DEF Go, output
<1>2. CASE Rest(Main) /\ UNCHANGED <<shell, line>>
  <2>1. UNCHANGED kept
    BY <1>1, <1>2 DEF kept, output, clock, measure, backend
  <2>. QED
    BY <1>1, <1>2, <2>1, CalmKept
<1>3. CASE /\ state = "READY" /\ generation + 1 \in Gen
           /\ state' = "SEARCHING" /\ generation' = generation + 1
           /\ active' = generation + 1 /\ postOut' = 0
           /\ gen' = [gen EXCEPT ![Main] = generation + 1]
           /\ pc' = [pc EXCEPT ![Main] = "prepare", ![Watch(generation + 1)] = "soft"]
  <2>1. Watch(generation + 1) \in Thread /\ Watch(generation + 1) \notin {Main, Reader}
    BY <1>3, Threads
  <2>2. /\ pc'[Main] = "prepare" /\ gen'[Main] = generation + 1
        /\ pc'[Reader] = pc[Reader] /\ gen'[Reader] = gen[Reader]
    BY <1>1, <1>3, <2>1, Basics, Threads DEF FrameType
  <2>3. UNCHANGED <<line, finished, published, frozen, superseded, search, blocked, require>>
    BY <1>1 DEF clock, measure, backend
  <2>4. active = 0 /\ \A g \in Gen : line[g] \in MoveLines => g \in frozen
    BY <1>3, ReadyIsFrozen
  <2>5. search # generation + 1 /\ (pc[Reader] # "off" => gen[Reader] # generation + 1)
    <3>1. search <= generation /\ (pc[Reader] # "off" => gen[Reader] <= generation)
      BY Basics, Threads DEF DataInv, ActiveInv, Local
    <3>. QED
      BY <3>1, Basics, Threads, GenFacts DEF IInv, TypeOK, BackendType
  <2>6. OwnInv'
    BY <1>3, <2>2, <2>3, <2>4, Basics, Threads DEF JInv, OwnInv, Local, ReaderLabels
  <2>7. RevokeInv'
    BY <2>2, <2>3 DEF JInv, RevokeInv
  <2>8. OutputInv' /\ FrozenInv'
    BY <1>3, <2>2, <2>3, <2>4 DEF JInv, OutputInv, FrozenInv
  <2>9. TouchInv'
    BY <1>3, <2>2, <2>3, <2>4, <2>5 DEF JInv, TouchInv, ReaderLabels
  <2>. QED
    BY <2>6, <2>7, <2>8, <2>9 DEF JInv
<1>. QED
  BY <1>2, <1>3 DEF Go, output

LEMMA PrepareKeeps == ASSUME IInv, JInv, Prepare PROVE JInv'
<1>1. UNCHANGED kept /\ pc[Main] = "prepare" /\ Main \in Thread
  BY Threads DEF Prepare, kept, output, clock, backend
<1>2. CASE Goto(Main, "fail")
  BY <1>1, <1>2, CallKept, FreeLabels
<1>3. CASE Goto(Main, "dispatch")
  <2>1. Moved({Main}) /\ pc'[Main] = "dispatch" /\ gen'[Main] = gen[Main]
    BY <1>3, GotoMoves, Basics, Threads DEF Labels
  <2>2. /\ UNCHANGED <<state, generation, active, postOut, line>>
        /\ UNCHANGED <<finished, published, frozen, superseded, search, blocked, require>>
        /\ pc'[Reader] = pc[Reader] /\ gen'[Reader] = gen[Reader]
    BY <1>1, <2>1, Threads DEF kept, shell, output, Moved
  <2>3. OwnInv' /\ RevokeInv' /\ OutputInv' /\ FrozenInv'
    BY <2>1, <2>2 DEF JInv, OwnInv, RevokeInv, OutputInv, FrozenInv
  <2>4. TouchInv'
    BY <1>1, <2>1, <2>2 DEF JInv, TouchInv
  <2>. QED
    BY <2>3, <2>4 DEF JInv
<1>. QED
  BY <1>2, <1>3 DEF Prepare

\* The predecessor of a dispatched generation was measured: nothing is superseded.
LEMMA DispatchKeeps == ASSUME IInv, JInv, Dispatch PROVE JInv'
<1>1. /\ UNCHANGED <<state, generation, active, postOut, line>>
      /\ UNCHANGED <<finished, published, frozen, blocked, require>>
      /\ pc[Main] = "dispatch" /\ Main \in Thread
  BY Threads DEF Dispatch, shell, clock, output
<1>2. superseded' = superseded
  <2>1. gen[Main] = generation /\ superseded = {}
    BY <1>1 DEF JInv, TouchInv
  <2>2. generation - 1 \in frozen \cup {0}
    <3>1. CASE generation \in {0, 1} /\ generation # 0
      BY <3>1
    <3>2. CASE generation \notin {0, 1}
      <4>1. generation - 1 \in Gen /\ generation - 1 < generation
        BY <3>2, GenFacts DEF IInv, TypeOK, ShellType
      <4>2. line[generation - 1] \in MoveLines
        BY <4>1, Basics DEF DataInv, ReadyInv, ClockInv
      <4>. QED
        BY <1>1, <4>1, <4>2 DEF JInv, TouchInv
    <3>3. generation # 0
      BY <1>1, <2>1, Basics, Threads DEF Local
    <3>. QED
      BY <3>1, <3>2, <3>3
  <2>. QED
    BY <2>1, <2>2 DEF Dispatch
<1>3. Moved({Main}) /\ pc'[Main] \notin Busy
  <2>1. gen[Main] \in 0 .. MaxGen /\ {"fail", "idle"} \subseteq Calm \ {"apply"}
        /\ generation' = generation /\ published \subseteq published'
    BY <1>1, Basics, CalmLabels
  <2>2. CASE Goto(Main, "fail") \/ Rest(Main)
    BY <1>1, <2>1, <2>2, CalmMove
  <2>3. CASE Call(Main, "broken", gen[Main], "raised")
    BY <1>1, <2>1, <2>3, CallMoves, FreeLabels, Basics
  <2>. QED
    BY <2>2, <2>3 DEF Dispatch
<1>. QED
  BY <1>1, <1>2, <1>3, Kept

-----------------------------------------------------------------------------
(* The second invariant and its theorems *)

LEMMA InitSecond == Init => JInv
<1>1. Init => pc[Main] = "idle" /\ pc[Reader] = "idle"
  BY Threads DEF Init
<1>. QED
  BY <1>1, GenFacts DEF Init, JInv, OwnInv, RevokeInv, OutputInv, FrozenInv, TouchInv, MoveLines

LEMMA StepSecond == IInv /\ JInv /\ [Next]_vars => JInv'
<1>. SUFFICES ASSUME IInv, JInv, [Next]_vars PROVE JInv'
  OBVIOUS
<1>1. ASSUME NEW t \in Thread, ClockFail(t) PROVE JInv'
  BY <1>1, FailCheckKeeps, FailClockKeeps, FailRetireKeeps, FailKillKeeps, FailWriteKeeps DEF ClockFail
<1>2. ASSUME NEW t \in Thread, Failure(t) PROVE JInv'
  BY <1>2, RuntimeFailedKeeps, FailedAfterOutputKeeps, FailedUnclockedKeeps DEF Failure
<1>3. CASE MainStep
  BY <1>1, <1>2, <1>3, Threads, FenceKeeps, SyncKeeps, LoopKeeps, GoKeeps, PrepareKeeps,
     DispatchKeeps, StopSpawnKeeps, LeaveKeeps DEF MainStep
<1>4. CASE ReaderStep
  BY <1>1, <1>2, <1>4, Threads, CompleteKeeps, DecideKeeps, SealWorkKeeps, TryPublishKeeps,
     WriteKeeps, CommitKeeps, EmittedKeeps, EofKeeps, OpenReadyKeeps DEF ReaderStep
<1>5. ASSUME NEW t \in Kinds \X Gen, WorkerStep(t) PROVE JInv'
  <2>1. t \in Thread /\ t[2] \in Gen
    BY Threads
  <2>. QED
    BY <1>1, <1>5, <2>1, WorkerKeeps, BlockAuthorityKeeps, OpenReadyKeeps DEF WorkerStep
<1>6. CASE (\E c \in Commands : Command(c)) \/ Stop \/ Quit \/ BestMove
  BY <1>6, LoopKeeps, StopKeeps, LeaveKeeps, BestMoveKeeps
<1>7. CASE AnchorDies \/ \E g \in Gen : TimePass(g) \/ Freeze(g)
  BY <1>7, WorldKeeps
<1>8. CASE Terminated \/ UNCHANGED vars
  <2>1. UNCHANGED kept /\ UNCHANGED frame
    BY <1>8 DEF Terminated, vars, kept, output, clock, measure, backend, threads
  <2>2. Moved({})
    BY <2>1, Basics DEF Moved, frame, FrameType
  <2>. QED
    BY <2>1, <2>2, FrameKept
<1>. QED
  BY <1>3, <1>4, <1>5, <1>6, <1>7, <1>8 DEF Next

\* What the threads find out about each other at a move and at the anchor is an
\* inductive invariant too, beside IInv.
THEOREM SecondInvariance == Spec => [](IInv /\ JInv)
<1>1. Init => IInv /\ JInv
  BY InitInv, InitSecond
<1>2. IInv /\ JInv /\ [Next]_vars => (IInv /\ JInv)'
  BY StepInv, StepSecond
<1>. QED
  BY <1>1, <1>2, PTL DEF Spec

\* No command and no dispatch reaches the anchor while the measurement of a
\* published generation is open, whoever opened readiness: the reader, the
\* readiness thread or the command loop at its fence.
THEOREM AnchorIsMeasured == Spec => []TouchesFrozenOnly
<1>1. IInv /\ JInv => TouchesFrozenOnly
  BY DEF JInv, TouchInv, TouchesFrozenOnly, FrozenInv, MoveLines, ReaderLabels
<1>. QED
  BY <1>1, SecondInvariance, PTL

\* Only the reader writes a move and only a failing thread the null move.
LEMMA WhoWrites ==
    IInv /\ [Next]_vars =>
        UNCHANGED <<answers, line>> \/ Write \/ \E t \in Thread : FailWrite(t)
<1>. SUFFICES ASSUME IInv, [Next]_vars, ~Write, ~ \E t \in Thread : FailWrite(t)
              PROVE  UNCHANGED <<answers, line>>
  OBVIOUS
<1>1. ASSUME NEW t \in Thread, ClockFail(t) PROVE UNCHANGED <<answers, line>>
  <2>1. CASE FailKill(t)
    BY <2>1, Unanswered, Basics DEF FailKill, Local, FailLabels, shell, output
  <2>. QED
    BY <1>1, <2>1 DEF ClockFail, FailCheck, FailClock, FailRetire, output
<1>2. ASSUME NEW t \in Thread, Failure(t) PROVE UNCHANGED <<answers, line>>
  <2>1. CASE FailedUnclocked(t)
    BY <2>1, Unanswered, Basics DEF FailedUnclocked, Local, output
  <2>. QED
    BY <1>2, <2>1 DEF Failure, RuntimeFailed, FailedAfterOutput, output
<1>3. CASE MainStep
  BY <1>1, <1>2, <1>3, Threads DEF MainStep, Fence, Sync, IsReady, Synchronize, SyncRaised, Go,
     Prepare, Dispatch, DispatchRaised, StopSpawn, Finish, Close, output
<1>4. CASE ReaderStep
  BY <1>1, <1>2, <1>4, Threads DEF ReaderStep, Complete, Decide, SealWork, TryPublish, Commit,
     Emitted, Eof, OpenReady, output
<1>5. ASSUME NEW t \in Kinds \X Gen, WorkerStep(t) PROVE UNCHANGED <<answers, line>>
  BY <1>1, <1>5, Threads DEF WorkerStep, WatchSoft, WatchHard, ClockStop, BlockAuthority,
     SendStop, OpenReady, output
<1>6. CASE \/ \E c \in Commands : Command(c)
           \/ Stop \/ Quit \/ BestMove \/ AnchorDies
           \/ \E g \in Gen : TimePass(g) \/ Freeze(g)
           \/ Terminated \/ UNCHANGED vars
  BY <1>6 DEF Command, Stop, Quit, BestMove, AnchorDies, TimePass, Freeze, Terminated, vars,
     output
<1>. QED
  BY <1>3, <1>4, <1>5, <1>6 DEF Next

\* A line that changes is the null move of a failing thread, or a move of the
\* active generation, HYBRID only while its authority is not revoked.
LEMMA LineChange ==
    ASSUME IInv, JInv, [Next]_vars, NEW g \in Gen,
           answers'[g] # answers[g] \/ line'[g] # line[g]
    PROVE  \/ line'[g] = "null"
           \/ /\ active = g \/ state = "SHUTDOWN"
              /\ line'[g] = "hybrid" => g \notin blocked
<1>1. CASE UNCHANGED <<answers, line>>
  BY <1>1
<1>2. ASSUME NEW t \in Thread, FailWrite(t) PROVE line'[g] = "null"
  <2>1. g = gen[t]
    BY <1>2 DEF FailWrite, Answer, IInv, TypeOK, OutputType
  <2>. QED
    BY <1>2, <2>1 DEF FailWrite, Answer, IInv, TypeOK, OutputType
<1>3. CASE Write
  <2>1. pc[Reader] = "write" /\ (UNCHANGED output
            \/ Answer(gen[Reader], IF require THEN "hybrid" ELSE "anchor"))
    BY <1>3 DEF Write
  <2>2. g = gen[Reader] /\ line'[g] = IF require THEN "hybrid" ELSE "anchor"
    BY <2>1, <1>1 DEF Answer, IInv, TypeOK, OutputType, output
  <2>. QED
    BY <2>1, <2>2, NoTouchWhilePublishing
<1>. QED
  BY <1>1, <1>2, <1>3, WhoWrites

\* A move is written only for the generation that is active, or while the shell
\* quits: a reader that sealed its work an arbitrary time ago still owns it.
THEOREM OwnMovesOnly == Spec => MoveForActiveGeneration
<1>1. IInv /\ JInv /\ [Next]_vars =>
          [\A g \in Gen : answers'[g] # answers[g] /\ line'[g] # "null" =>
               active = g \/ state = "SHUTDOWN"]_vars
  BY LineChange
<1>. QED
  BY <1>1, SecondInvariance, PTL DEF Spec, MoveForActiveGeneration

\* Once a stop has taken its generation's authority no HYBRID line of it is
\* written, however far the reader had come.
THEOREM RevokedIsAnchor == Spec => RevokedStaysAnchor
<1>1. IInv /\ JInv /\ [Next]_vars =>
          [\A g \in Gen : line'[g] = "hybrid" /\ line[g] # "hybrid" => g \notin blocked]_vars
  BY LineChange
<1>. QED
  BY <1>1, SecondInvariance, PTL DEF Spec, RevokedStaysAnchor
=============================================================================
