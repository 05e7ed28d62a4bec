-------------------------- MODULE RunHandoffProofs --------------------------
(***************************************************************************)
(* The inductive invariant of RunHandoff and what follows from it, for any *)
(* set of owners, number of searches and number of rounds.                 *)
(***************************************************************************)
EXTENDS RunHandoff, TLAPS

Searches == {"dispatch", "await", "drain"}     \* a stage may be pending
Released == {"handoff", "observe", "seal", "clear"}
Frozen   == Released \cup {"quiet", "done"}

\* The run in the slot is under way, one handed off has been quiesced, and every
\* run that is under way is one or the other.
SlotInv ==
  /\ slot # 0 => pc[slot] \notin {"none", "done"}
  /\ \A g \in Gens :
       /\ pc[g] \notin {"none", "done"} => slot = g \/ g \in finalizing
       /\ g \in finalizing => pc[g] \in Released /\ Is(g, "quiesced")
       /\ Finished(g) => pc[g] = "done"

\* What a frozen interval and a quiesced run have behind them.
FrozenInv ==
  \A g \in Gens :
    /\ Is(g, "quiesced") => pc[g] \in Released \cup {"done"} /\ Is(g, "frozen")
    /\ Installed(g) /\ Is(g, "frozen") =>
         pc[g] \in Frozen /\ (pc[g] # "done" => open[g] = {})
    /\ pc[g] = "quiet" => Is(g, "frozen")

\* A search that an available engine runs is a stage its worker waits for.
EngineInv ==
  /\ \A g \in Gens : pending[g] # {} => pc[g] \in Searches
  /\ \A o \in Owners : alive[o] /\ engine[o] # 0 =>
       slot = engine[o] /\ o \in pending[engine[o]]

\* The barrier leads to a state change only when no worker has the engines.
BarrierInv ==
  /\ main = "drain" => sampled # 0 /\ slot \in {0, sampled}
  /\ main = "send" => slot = 0 \/ \A o \in Owners : ~alive[o]

\* A generation that is to be installed is new to everybody.
Unanswered(g) == events[g] \cap {"answered", "emitted", "complete", "frozen"} = {}
ToInstall == main = "install" \/ (main \in {"barrier", "drain"} /\ then = "install")
FreshInv ==
  /\ anchor <= gen
  /\ \A g \in Gens : g > gen => pc[g] = "none" /\ Unanswered(g)
  /\ ToInstall => anchor # gen /\ gen # 0 /\ pc[gen] = "none" /\ Unanswered(gen)
  /\ \A g \in Gens : Is(g, "emitted") \/ Is(g, "complete") \/ Is(g, "frozen") => Is(g, "answered")

HInv == TypeOK /\ SlotInv /\ FrozenInv /\ EngineInv /\ BarrierInv /\ FreshInv


LEMMA SetEvents ==
  ASSUME TypeOK, NEW g \in Gens, NEW E \in SUBSET EventNames, Set(g, E)
  PROVE  /\ events' \in [Gens -> SUBSET EventNames] /\ events'[g] = events[g] \cup E
         /\ \A h \in Gens : h # g => events'[h] = events[h]
BY DEF TypeOK, Set

LEMMA GotoLabel ==
  ASSUME TypeOK, NEW g \in Gens, NEW p \in WorkerAt, Goto(g, p)
  PROVE  /\ pc' \in [Gens -> WorkerAt] /\ pc'[g] = p
         /\ \A h \in Gens : h # g => pc'[h] = pc[h]
BY DEF TypeOK, Goto

LEMMA Ranges ==
  /\ MaxGen \in Nat /\ MaxRound \in Nat
  /\ \A g : g \in Gens <=> g \in 0..MaxGen /\ g # 0
  /\ \A g \in 0..MaxGen : g \in Nat
BY HandoffAssumption DEF Gens

USE DEF shellVars, coordVars, stageVars, workerVars, rest, still

\* A worker that only moves on, without a stage and on the same side of the freeze.
LEMMA MoveKeeps ==
  ASSUME HInv, NEW g \in Gens, NEW p \in WorkerAt, Goto(g, p),
         UNCHANGED <<still, slot, finalizing, stageVars, open, events, ledger>>,
         {pc[g], p} \cap {"none", "quiet", "done"} = {},
         pc[g] \in Released <=> p \in Released,
         pending[g] = {} \/ p \in Searches
  PROVE  HInv'
<1> USE DEF HInv
<1>1. /\ pc' \in [Gens -> WorkerAt] /\ pc'[g] = p
      /\ \A h \in Gens : h # g => pc'[h] = pc[h]
  BY GotoLabel
<1>2. TypeOK'
  BY <1>1 DEF TypeOK
<1>3. SlotInv'
  BY <1>1, Ranges DEF TypeOK, SlotInv, Is, Finished
<1>4. FrozenInv'
  BY <1>1 DEF FrozenInv, Is, Installed, Frozen
<1>5. EngineInv'
  BY <1>1 DEF EngineInv
<1>6. BarrierInv' /\ FreshInv'
  BY <1>1, Ranges DEF TypeOK, BarrierInv, FreshInv, Unanswered, ToInstall, Is
<1> QED
  BY <1>2, <1>3, <1>4, <1>5, <1>6

LEMMA AwaitStep == ASSUME HInv, NEW g \in Gens, Await(g) PROVE HInv'
BY MoveKeeps DEF Await, WorkerAt, Released, Searches

LEMMA AnchorWaitStep == ASSUME HInv, NEW g \in Gens, AnchorWait(g) PROVE HInv'
BY MoveKeeps DEF AnchorWait, WorkerAt, Released, Searches, EngineInv, HInv

LEMMA ResourceWaitStep == ASSUME HInv, NEW g \in Gens, ResourceWait(g) PROVE HInv'
BY MoveKeeps DEF ResourceWait, WorkerAt, Released, Searches, EngineInv, HInv

LEMMA PublicationWaitStep == ASSUME HInv, NEW g \in Gens, PublicationWait(g) PROVE HInv'
BY MoveKeeps DEF PublicationWait, WorkerAt, Released, Searches, EngineInv, HInv

LEMMA ObserveWaitStep == ASSUME HInv, NEW g \in Gens, ObserveWait(g) PROVE HInv'
BY MoveKeeps DEF ObserveWait, WorkerAt, Released, Searches, EngineInv, HInv

LEMMA SealStep == ASSUME HInv, NEW g \in Gens, Seal(g) PROVE HInv'
BY MoveKeeps DEF Seal, WorkerAt, Released, Searches, EngineInv, HInv

LEMMA RaiseStep == ASSUME HInv, NEW g \in Gens, Raise(g) PROVE HInv'
BY SMTT(60), HandoffAssumption DEF Raise, Goto, HInv, TypeOK, SlotInv, FrozenInv, EngineInv, BarrierInv,
   FreshInv, Is, Set, Installed, Finished, Unanswered, ToInstall, Searches, Released, Frozen,
   Gens, EventNames, WorkerAt

LEMMA PublishStep == ASSUME HInv, NEW g \in Gens, Publish(g) PROVE HInv'
BY SMTT(60), HandoffAssumption DEF Publish, Searching, Goto, HInv, TypeOK, SlotInv, FrozenInv, EngineInv,
   BarrierInv, FreshInv, Is, Set, Installed, Finished, Unanswered, ToInstall, Searches,
   Released, Frozen, Gens, EventNames, WorkerAt

LEMMA ReadyStep == ASSUME HInv, NEW g \in Gens, Ready(g) PROVE HInv'
BY SMTT(60), HandoffAssumption DEF Ready, Searching, Goto, HInv, TypeOK, SlotInv, FrozenInv, EngineInv,
   BarrierInv, FreshInv, Is, Set, Installed, Finished, Unanswered, ToInstall, Searches,
   Released, Frozen, Gens, EventNames, WorkerAt

LEMMA ObservationEndStep == ASSUME HInv, NEW g \in Gens, ObservationEnd(g) PROVE HInv'
BY SMTT(60), HandoffAssumption DEF ObservationEnd, Goto, HInv, TypeOK, SlotInv, FrozenInv, EngineInv,
   BarrierInv, FreshInv, Is, Set, Installed, Finished, Unanswered, ToInstall, Searches,
   Released, Frozen, Gens, EventNames, WorkerAt

LEMMA SoftExpiryStep == ASSUME HInv, NEW g \in Gens, SoftExpiry(g) PROVE HInv'
BY SMTT(60), HandoffAssumption DEF SoftExpiry, Searching, Goto, HInv, TypeOK, SlotInv, FrozenInv,
   EngineInv, BarrierInv, FreshInv, Is, Set, Installed, Finished, Unanswered, ToInstall,
   Searches, Released, Frozen, Gens, EventNames, WorkerAt

LEMMA HardExpiryStep == ASSUME HInv, NEW g \in Gens, HardExpiry(g) PROVE HInv'
BY SMTT(60), HandoffAssumption DEF HardExpiry, Searching, Goto, HInv, TypeOK, SlotInv, FrozenInv,
   EngineInv, BarrierInv, FreshInv, Is, Set, Installed, Finished, Unanswered, ToInstall,
   Searches, Released, Frozen, Gens, EventNames, WorkerAt

LEMMA ForceLossStep == ASSUME HInv, NEW g \in Gens, ForceLoss(g) PROVE HInv'
BY SMTT(60), HandoffAssumption DEF ForceLoss, Goto, HInv, TypeOK, SlotInv, FrozenInv, EngineInv,
   BarrierInv, FreshInv, Is, Set, Installed, Finished, Unanswered, ToInstall, Searches,
   Released, Frozen, Gens, EventNames, WorkerAt

LEMMA GoStep == ASSUME HInv, Go PROVE HInv'
BY SMTT(60), HandoffAssumption DEF Go, Goto, HInv, TypeOK, SlotInv, FrozenInv, EngineInv, BarrierInv,
   FreshInv, Is, Set, Installed, Finished, Unanswered, ToInstall, Searches, Released, Frozen,
   Gens, EventNames, WorkerAt

LEMMA SyncStep == ASSUME HInv, Sync PROVE HInv'
BY HandoffAssumption DEF Sync, Goto, HInv, TypeOK, SlotInv, FrozenInv, EngineInv, BarrierInv,
   FreshInv, Is, Set, Installed, Finished, Unanswered, ToInstall, Searches, Released, Frozen,
   Gens, EventNames, WorkerAt

LEMMA BarrierTimeoutStep == ASSUME HInv, BarrierTimeout PROVE HInv'
BY SMTT(60), HandoffAssumption DEF BarrierTimeout, Leave, Goto, HInv, TypeOK, SlotInv, FrozenInv,
   EngineInv, BarrierInv, FreshInv, Is, Set, Installed, Finished, Unanswered, ToInstall,
   Searches, Released, Frozen, Gens, EventNames, WorkerAt

LEMMA SendStep == ASSUME HInv, Send PROVE HInv'
BY HandoffAssumption DEF Send, Goto, HInv, TypeOK, SlotInv, FrozenInv, EngineInv, BarrierInv,
   FreshInv, Is, Set, Installed, Finished, Unanswered, ToInstall, Searches, Released, Frozen,
   Gens, EventNames, WorkerAt

LEMMA CloseStep == ASSUME HInv, Close PROVE HInv'
BY HandoffAssumption DEF Close, Goto, HInv, TypeOK, SlotInv, FrozenInv, EngineInv, BarrierInv,
   FreshInv, Is, Set, Installed, Finished, Unanswered, ToInstall, Searches, Released, Frozen,
   Gens, EventNames, WorkerAt

LEMMA DetachStep == ASSUME HInv, Detach PROVE HInv'
BY HandoffAssumption DEF Detach, Goto, HInv, TypeOK, SlotInv, FrozenInv, EngineInv, BarrierInv,
   FreshInv, Is, Set, Installed, Finished, Unanswered, ToInstall, Searches, Released, Frozen,
   Gens, EventNames, WorkerAt

LEMMA ExecuteStep == ASSUME HInv, NEW g \in Gens, Execute(g) PROVE HInv'
<1> USE DEF HInv
<1>1. TypeOK'
  BY SMTT(60), Ranges DEF Execute, Cancelled, Set, Goto, TypeOK, Gens, EventNames, WorkerAt
<1>2. SlotInv'
  BY Ranges DEF Execute, Cancelled, Set, Goto, TypeOK, SlotInv, Is, Finished, Released,
     WorkerAt, EventNames
<1>3. FrozenInv'
  BY Ranges DEF Execute, Cancelled, Set, Goto, TypeOK, SlotInv, FrozenInv, EngineInv, FreshInv,
     Is, Installed, Frozen, Released, Searches, WorkerAt, EventNames
<1>4. EngineInv'
  BY Ranges DEF Execute, Cancelled, Set, Goto, TypeOK, SlotInv, EngineInv, FrozenInv, Searches,
     Is, Released, WorkerAt
<1>5. BarrierInv'
  BY Ranges DEF Execute, Cancelled, Set, Goto, TypeOK, SlotInv, BarrierInv, EngineInv, Is
<1>6. FreshInv'
  BY SMTT(60), Ranges DEF Execute, Cancelled, Set, Goto, TypeOK, FreshInv, Unanswered, ToInstall, Is,
     WorkerAt, EventNames
<1> QED
  BY <1>1, <1>2, <1>3, <1>4, <1>5, <1>6

LEMMA QualifyStep == ASSUME HInv, NEW g \in Gens, Qualify(g) PROVE HInv'
<1> USE DEF HInv
<1>1. TypeOK'
  <2>1. pc' \in [Gens -> WorkerAt]
    BY GotoLabel DEF Qualify, WorkerAt
  <2>2. round' \in [Gens -> 0..MaxRound]
    BY HandoffAssumption DEF Qualify, TypeOK
  <2>3. todo' \in [Gens -> SUBSET Owners]
    BY DEF Qualify, TypeOK
  <2>5. clean' \in [Gens -> BOOLEAN]
    <3>1. \E b \in BOOLEAN : clean' = clean \/ clean' = [clean EXCEPT ![g] = b]
      BY Zenon DEF Qualify
    <3> QED
      BY <3>1 DEF TypeOK
  <2>4. UNCHANGED <<still, slot, finalizing, committed, pending, open, events, ledger>>
    BY DEF Qualify
  <2> QED
    BY <2>1, <2>2, <2>3, <2>4, <2>5 DEF TypeOK
<1>2. SlotInv'
  BY Ranges DEF Qualify, Cancelled, Set, Goto, TypeOK, SlotInv, Is, Finished, Released,
     WorkerAt, EventNames
<1>3. FrozenInv'
  BY Ranges DEF Qualify, Cancelled, Set, Goto, TypeOK, SlotInv, FrozenInv, EngineInv, FreshInv,
     Is, Installed, Frozen, Released, Searches, WorkerAt, EventNames
<1>4. EngineInv'
  BY Ranges DEF Qualify, Cancelled, Set, Goto, TypeOK, SlotInv, EngineInv, FrozenInv, Searches,
     Is, Released, WorkerAt
<1>5. BarrierInv'
  BY Ranges DEF Qualify, Cancelled, Set, Goto, TypeOK, SlotInv, BarrierInv, EngineInv, Is
<1>6. FreshInv'
  BY Ranges DEF Qualify, Cancelled, Set, Goto, TypeOK, FreshInv, Unanswered, ToInstall, Is,
     WorkerAt, EventNames
<1> QED
  BY <1>1, <1>2, <1>3, <1>4, <1>5, <1>6

LEMMA RoundOverStep == ASSUME HInv, NEW g \in Gens, RoundOver(g) PROVE HInv'
<1> USE DEF HInv
<1>1. TypeOK'
  <2>1. pc' \in [Gens -> WorkerAt]
    BY GotoLabel DEF RoundOver, WorkerAt
  <2>2. round' \in [Gens -> 0..MaxRound]
    BY Ranges DEF RoundOver, TypeOK
  <2>3. todo' \in [Gens -> SUBSET Owners]
    BY DEF RoundOver, TypeOK
  <2>4. UNCHANGED <<still, slot, finalizing, committed, pending, clean, open, events, ledger>>
    BY DEF RoundOver
  <2> QED
    BY <2>1, <2>2, <2>3, <2>4 DEF TypeOK
<1>2. SlotInv'
  BY Ranges DEF RoundOver, Cancelled, Set, Goto, TypeOK, SlotInv, Is, Finished, Released,
     WorkerAt, EventNames
<1>3. FrozenInv'
  BY Ranges DEF RoundOver, Cancelled, Set, Goto, TypeOK, SlotInv, FrozenInv, EngineInv,
     FreshInv, Is, Installed, Frozen, Released, Searches, WorkerAt, EventNames
<1>4. EngineInv'
  BY Ranges DEF RoundOver, Cancelled, Set, Goto, TypeOK, SlotInv, EngineInv, FrozenInv,
     Searches, Is, Released, WorkerAt
<1>5. BarrierInv'
  BY Ranges DEF RoundOver, Cancelled, Set, Goto, TypeOK, SlotInv, BarrierInv, EngineInv, Is
<1>6. FreshInv'
  BY Ranges DEF RoundOver, Cancelled, Set, Goto, TypeOK, FreshInv, Unanswered, ToInstall, Is,
     WorkerAt, EventNames
<1> QED
  BY <1>1, <1>2, <1>3, <1>4, <1>5, <1>6

LEMMA CutLooseStep == ASSUME HInv, NEW g \in Gens, CutLoose(g) PROVE HInv'
<1> USE DEF HInv
<1>1. TypeOK'
  BY SMTT(60), Ranges DEF CutLoose, Set, Goto, TypeOK, Gens, EventNames, WorkerAt
<1>2. SlotInv'
  BY Ranges DEF CutLoose, Set, Goto, TypeOK, SlotInv, Is, Finished, Released, WorkerAt,
     EventNames
<1>3. FrozenInv'
  BY Ranges DEF CutLoose, Set, Goto, TypeOK, SlotInv, FrozenInv, EngineInv, FreshInv, Is,
     Installed, Frozen, Released, Searches, WorkerAt, EventNames
<1>4. EngineInv'
  BY Ranges DEF CutLoose, Set, Goto, TypeOK, SlotInv, EngineInv, FrozenInv, Searches, Is,
     Released, WorkerAt
<1>5. BarrierInv'
  BY Ranges DEF CutLoose, Set, Goto, TypeOK, SlotInv, BarrierInv, EngineInv, Is
<1>6. FreshInv'
  BY SMTT(60), Ranges DEF CutLoose, Set, Goto, TypeOK, FreshInv, Unanswered, ToInstall, Is, WorkerAt,
     EventNames
<1> QED
  BY <1>1, <1>2, <1>3, <1>4, <1>5, <1>6

LEMMA DrainedStep == ASSUME HInv, NEW g \in Gens, Drained(g) PROVE HInv'
<1> USE DEF HInv
<1>1. TypeOK'
  BY Ranges DEF Drained, Set, Goto, TypeOK, Gens, EventNames, WorkerAt
<1>2. SlotInv'
  BY Ranges DEF Drained, Set, Goto, TypeOK, SlotInv, Is, Finished, Released, WorkerAt,
     EventNames
<1>3. FrozenInv'
  BY Ranges DEF Drained, Set, Goto, TypeOK, SlotInv, FrozenInv, EngineInv, FreshInv, Is,
     Installed, Frozen, Released, Searches, WorkerAt, EventNames
<1>4. EngineInv'
  <2>1. pc[g] = "drain" /\ slot' = slot /\ engine' = engine /\ slot = g
    BY Ranges DEF Drained, SlotInv, FrozenInv, Released, TypeOK
  <2>2. \A h \in Gens : pending'[h] = IF h = g THEN {} ELSE pending[h]
    BY DEF Drained, TypeOK
  <2>3. \A h \in Gens : h # g => pc'[h] = pc[h]
    BY DEF Drained, Goto, TypeOK
  <2>4. \A o \in Owners : alive'[o] => alive[o] /\ o \notin pending[g]
    BY DEF Drained
  <2> QED
    BY <2>1, <2>2, <2>3, <2>4 DEF EngineInv
<1>5. BarrierInv'
  BY Ranges DEF Drained, Set, Goto, TypeOK, SlotInv, BarrierInv, EngineInv, Is
<1>6. FreshInv'
  BY Ranges DEF Drained, Set, Goto, TypeOK, FreshInv, Unanswered, ToInstall, Is, WorkerAt,
     EventNames
<1> QED
  BY <1>1, <1>2, <1>3, <1>4, <1>5, <1>6

LEMMA RouterEndStep == ASSUME HInv, NEW g \in Gens, RouterEnd(g) PROVE HInv'
<1> USE DEF HInv
<1>1. TypeOK'
  BY ZenonT(60), Ranges DEF RouterEnd, Set, Goto, TypeOK, Gens, EventNames, WorkerAt
<1>2. SlotInv'
  BY Ranges DEF RouterEnd, Set, Goto, TypeOK, SlotInv, Is, Finished, Released, WorkerAt,
     EventNames
<1>3. FrozenInv'
  BY Ranges DEF RouterEnd, Set, Goto, TypeOK, SlotInv, FrozenInv, EngineInv, FreshInv, Is,
     Installed, Frozen, Released, Searches, WorkerAt, EventNames
<1>4. EngineInv'
  BY Ranges DEF RouterEnd, Set, Goto, TypeOK, SlotInv, EngineInv, FrozenInv, Searches, Is,
     Released, WorkerAt
<1>5. BarrierInv'
  BY Ranges DEF RouterEnd, Set, Goto, TypeOK, SlotInv, BarrierInv, EngineInv, Is
<1>6. FreshInv'
  BY Ranges DEF RouterEnd, Set, Goto, TypeOK, FreshInv, Unanswered, ToInstall, Is, WorkerAt,
     EventNames
<1> QED
  BY <1>1, <1>2, <1>3, <1>4, <1>5, <1>6

LEMMA FreezeStep == ASSUME HInv, NEW g \in Gens, Freeze(g) PROVE HInv'
<1> USE DEF HInv
<1>1. TypeOK'
  BY SMTT(60), Ranges DEF Freeze, Set, Goto, TypeOK, Gens, EventNames, WorkerAt
<1>2. SlotInv'
  BY Ranges DEF Freeze, Set, Goto, TypeOK, SlotInv, Is, Finished, Released, WorkerAt, EventNames
<1>3. FrozenInv'
  BY Ranges DEF Freeze, Set, Goto, TypeOK, SlotInv, FrozenInv, EngineInv, FreshInv, Is,
     Installed, Frozen, Released, Searches, WorkerAt, EventNames
<1>4. EngineInv'
  BY Ranges DEF Freeze, Set, Goto, TypeOK, SlotInv, EngineInv, FrozenInv, Searches, Is,
     Released, WorkerAt
<1>5. BarrierInv'
  BY Ranges DEF Freeze, Set, Goto, TypeOK, SlotInv, BarrierInv, EngineInv, Is
<1>6. FreshInv'
  BY Ranges DEF Freeze, Set, Goto, TypeOK, FreshInv, Unanswered, ToInstall, Is, WorkerAt,
     EventNames
<1> QED
  BY <1>1, <1>2, <1>3, <1>4, <1>5, <1>6

LEMMA QuietStep == ASSUME HInv, NEW g \in Gens, Quiet(g) PROVE HInv'
<1> USE DEF HInv
<1>1. TypeOK'
  BY Ranges DEF Quiet, Set, Goto, TypeOK, Gens, EventNames, WorkerAt
<1>2. SlotInv'
  BY Ranges DEF Quiet, Set, Goto, TypeOK, SlotInv, Is, Finished, Released, WorkerAt, EventNames
<1>3. FrozenInv'
  BY Ranges DEF Quiet, Set, Goto, TypeOK, SlotInv, FrozenInv, EngineInv, FreshInv, Is,
     Installed, Frozen, Released, Searches, WorkerAt, EventNames
<1>4. EngineInv'
  BY Ranges DEF Quiet, Set, Goto, TypeOK, SlotInv, EngineInv, FrozenInv, Searches, Is, Released,
     WorkerAt
<1>5. BarrierInv'
  BY Ranges DEF Quiet, Set, Goto, TypeOK, SlotInv, BarrierInv, EngineInv, Is
<1>6. FreshInv'
  BY Ranges DEF Quiet, Set, Goto, TypeOK, FreshInv, Unanswered, ToInstall, Is, WorkerAt,
     EventNames
<1> QED
  BY <1>1, <1>2, <1>3, <1>4, <1>5, <1>6

LEMMA HandOffStep == ASSUME HInv, NEW g \in Gens, HandOff(g) PROVE HInv'
<1> USE DEF HInv
<1>1. TypeOK'
  <2>1. pc' \in [Gens -> WorkerAt]
    BY GotoLabel DEF HandOff, WorkerAt
  <2>2. slot' \in 0..MaxGen /\ finalizing' \in SUBSET Gens
    BY Ranges DEF HandOff, Release, TypeOK
  <2>3. UNCHANGED <<still, stageVars, open, events, ledger>>
    BY DEF HandOff
  <2> QED
    BY <2>1, <2>2, <2>3 DEF TypeOK
<1>2. SlotInv'
  BY Ranges DEF HandOff, Release, Set, Goto, TypeOK, SlotInv, Is, Finished, Released, WorkerAt,
     EventNames
<1>3. FrozenInv'
  BY Ranges DEF HandOff, Release, Set, Goto, TypeOK, SlotInv, FrozenInv, EngineInv, FreshInv,
     Is, Installed, Frozen, Released, Searches, WorkerAt, EventNames
<1>4. EngineInv'
  BY Ranges DEF HandOff, Release, Set, Goto, TypeOK, SlotInv, EngineInv, FrozenInv, Searches,
     Is, Released, WorkerAt
<1>5. BarrierInv'
  BY Ranges DEF HandOff, Release, Set, Goto, TypeOK, SlotInv, BarrierInv, EngineInv, Is
<1>6. FreshInv'
  BY Ranges DEF HandOff, Release, Set, Goto, TypeOK, FreshInv, Unanswered, ToInstall, Is,
     WorkerAt, EventNames
<1> QED
  BY <1>1, <1>2, <1>3, <1>4, <1>5, <1>6

LEMMA ClearStep == ASSUME HInv, NEW g \in Gens, Clear(g) PROVE HInv'
<1> USE DEF HInv
<1>1. TypeOK'
  BY Ranges DEF Clear, Set, Goto, TypeOK, Gens, EventNames, WorkerAt
<1>2. SlotInv'
  BY Ranges DEF Clear, Set, Goto, TypeOK, SlotInv, Is, Finished, Released, WorkerAt, EventNames
<1>3. FrozenInv'
  BY Ranges DEF Clear, Set, Goto, TypeOK, SlotInv, FrozenInv, EngineInv, FreshInv, Is,
     Installed, Frozen, Released, Searches, WorkerAt, EventNames
<1>4. EngineInv'
  BY Ranges DEF Clear, Set, Goto, TypeOK, SlotInv, EngineInv, FrozenInv, Searches, Is, Released,
     WorkerAt
<1>5. BarrierInv'
  BY Ranges DEF Clear, Set, Goto, TypeOK, SlotInv, BarrierInv, EngineInv, Is
<1>6. FreshInv'
  BY Ranges DEF Clear, Set, Goto, TypeOK, FreshInv, Unanswered, ToInstall, Is, WorkerAt,
     EventNames
<1> QED
  BY <1>1, <1>2, <1>3, <1>4, <1>5, <1>6

LEMMA AnchorCompleteStep == ASSUME HInv, NEW g \in Gens, AnchorComplete(g) PROVE HInv'
<1> USE DEF HInv
<1>1. TypeOK'
  BY Ranges DEF AnchorComplete, Searching, Set, Goto, TypeOK, Gens, EventNames, WorkerAt
<1>2. SlotInv'
  BY Ranges DEF AnchorComplete, Searching, Set, Goto, TypeOK, SlotInv, Is, Finished, Released,
     WorkerAt, EventNames
<1>3. FrozenInv'
  BY Ranges DEF AnchorComplete, Searching, Set, Goto, TypeOK, SlotInv, FrozenInv, EngineInv,
     FreshInv, Is, Installed, Frozen, Released, Searches, WorkerAt, EventNames
<1>4. EngineInv'
  BY Ranges DEF AnchorComplete, Searching, Set, Goto, TypeOK, SlotInv, EngineInv, FrozenInv,
     Searches, Is, Released, WorkerAt
<1>5. BarrierInv'
  BY Ranges DEF AnchorComplete, Searching, Set, Goto, TypeOK, SlotInv, BarrierInv, EngineInv, Is
<1>6. FreshInv'
  BY Ranges DEF AnchorComplete, Searching, Set, Goto, TypeOK, FreshInv, Unanswered, ToInstall,
     Is, WorkerAt, EventNames
<1> QED
  BY <1>1, <1>2, <1>3, <1>4, <1>5, <1>6

LEMMA EmittedStep == ASSUME HInv, NEW g \in Gens, Emitted(g) PROVE HInv'
<1> USE DEF HInv
<1>1. TypeOK'
  BY SMTT(60), Ranges DEF Emitted, Set, Goto, TypeOK, Gens, EventNames, WorkerAt
<1>2. SlotInv'
  BY Ranges DEF Emitted, Set, Goto, TypeOK, SlotInv, Is, Finished, Released, WorkerAt,
     EventNames
<1>3. FrozenInv'
  <2>1. UNCHANGED <<pc, slot, finalizing>> /\ Is(g, "answered") /\ Is(g, "emitted")
    BY DEF Emitted, FreshInv
  <2>2. CASE slot = g
    <3>1. /\ events'[g] = events[g] \cup {"tail", "published", "sampled"}
          /\ \A h \in Gens : h # g => events'[h] = events[h]
      BY <2>2, SetEvents DEF Emitted, EventNames
    <3>2. \A h \in Gens : open'[h] = {} \/ open[h] # {}
      BY <2>2 DEF Emitted, TypeOK
    <3> QED
      BY <2>1, <3>1, <3>2 DEF FrozenInv, Is, Installed
  <2>3. CASE slot # g
    <3>1. /\ events'[g] = events[g] \cup {"tail", "frozen"} /\ open' = open
          /\ \A h \in Gens : h # g => events'[h] = events[h]
      BY <2>3, SetEvents DEF Emitted, EventNames
    <3>2. pc[g] \in {"none", "done"} \/ Is(g, "quiesced")
      BY <2>3 DEF SlotInv
    <3> QED
      BY <2>1, <3>1, <3>2 DEF FrozenInv, Is, Installed, Frozen
  <2> QED
    BY <2>2, <2>3
<1>4. EngineInv'
  BY Ranges DEF Emitted, Set, Goto, TypeOK, SlotInv, EngineInv, FrozenInv, Searches, Is,
     Released, WorkerAt
<1>5. BarrierInv'
  BY Ranges DEF Emitted, Set, Goto, TypeOK, SlotInv, BarrierInv, EngineInv, Is
<1>6. FreshInv'
  BY Ranges DEF Emitted, Set, Goto, TypeOK, FreshInv, Unanswered, ToInstall, Is, WorkerAt,
     EventNames
<1> QED
  BY <1>1, <1>2, <1>3, <1>4, <1>5, <1>6

LEMMA CancelStep == ASSUME HInv, NEW g \in Gens, Cancel(g) PROVE HInv'
<1> USE DEF HInv
<1>1. TypeOK'
  BY Ranges DEF Cancel, Searching, Set, Goto, TypeOK, Gens, EventNames, WorkerAt
<1>2. SlotInv'
  BY Ranges DEF Cancel, Searching, Set, Goto, TypeOK, SlotInv, Is, Finished, Released, WorkerAt,
     EventNames
<1>3. FrozenInv'
  BY Ranges DEF Cancel, Searching, Set, Goto, TypeOK, SlotInv, FrozenInv, EngineInv, FreshInv,
     Is, Installed, Frozen, Released, Searches, WorkerAt, EventNames
<1>4. EngineInv'
  BY Ranges DEF Cancel, Searching, Set, Goto, TypeOK, SlotInv, EngineInv, FrozenInv, Searches,
     Is, Released, WorkerAt
<1>5. BarrierInv'
  BY Ranges DEF Cancel, Searching, Set, Goto, TypeOK, SlotInv, BarrierInv, EngineInv, Is
<1>6. FreshInv'
  BY Ranges DEF Cancel, Searching, Set, Goto, TypeOK, FreshInv, Unanswered, ToInstall, Is,
     WorkerAt, EventNames
<1> QED
  BY <1>1, <1>2, <1>3, <1>4, <1>5, <1>6

LEMMA WithholdStep == ASSUME HInv, NEW g \in Gens, NEW o \in Owners, Withhold(g, o) PROVE HInv'
<1> USE DEF HInv
<1>1. TypeOK'
  BY Ranges DEF Withhold, Set, Goto, TypeOK, Gens, EventNames, WorkerAt
<1>2. SlotInv'
  BY Ranges DEF Withhold, Set, Goto, TypeOK, SlotInv, Is, Finished, Released, WorkerAt,
     EventNames
<1>3. FrozenInv'
  BY Ranges DEF Withhold, Set, Goto, TypeOK, SlotInv, FrozenInv, EngineInv, FreshInv, Is,
     Installed, Frozen, Released, Searches, WorkerAt, EventNames
<1>4. EngineInv'
  BY Ranges DEF Withhold, Set, Goto, TypeOK, SlotInv, EngineInv, FrozenInv, Searches, Is,
     Released, WorkerAt
<1>5. BarrierInv'
  BY Ranges DEF Withhold, Set, Goto, TypeOK, SlotInv, BarrierInv, EngineInv, Is
<1>6. FreshInv'
  BY Ranges DEF Withhold, Set, Goto, TypeOK, FreshInv, Unanswered, ToInstall, Is, WorkerAt,
     EventNames
<1> QED
  BY <1>1, <1>2, <1>3, <1>4, <1>5, <1>6

LEMMA CommitStep == ASSUME HInv, NEW g \in Gens, NEW o \in Owners, Commit(g, o) PROVE HInv'
<1> USE DEF HInv
<1>1. TypeOK'
  BY Ranges DEF Commit, Cancelled, Set, Goto, TypeOK, Gens, EventNames, WorkerAt
<1>2. SlotInv'
  BY Ranges DEF Commit, Cancelled, Set, Goto, TypeOK, SlotInv, Is, Finished, Released, WorkerAt,
     EventNames
<1>3. FrozenInv'
  BY Ranges DEF Commit, Cancelled, Set, Goto, TypeOK, SlotInv, FrozenInv, EngineInv, FreshInv,
     Is, Installed, Frozen, Released, Searches, WorkerAt, EventNames
<1>4. EngineInv'
  BY Ranges DEF Commit, Cancelled, Set, Goto, TypeOK, SlotInv, EngineInv, FrozenInv, Searches,
     Is, Released, WorkerAt
<1>5. BarrierInv'
  BY Ranges DEF Commit, Cancelled, Set, Goto, TypeOK, SlotInv, BarrierInv, EngineInv, Is
<1>6. FreshInv'
  BY Ranges DEF Commit, Cancelled, Set, Goto, TypeOK, FreshInv, Unanswered, ToInstall, Is,
     WorkerAt, EventNames
<1> QED
  BY <1>1, <1>2, <1>3, <1>4, <1>5, <1>6

LEMMA WriteStep == ASSUME HInv, NEW g \in Gens, NEW o \in Owners, Write(g, o) PROVE HInv'
<1> USE DEF HInv
<1>1. TypeOK'
  <2>1. committed' \in [Gens -> SUBSET Owners] /\ pending' \in [Gens -> SUBSET Owners]
    BY DEF Write, TypeOK
  <2>2. todo' \in [Gens -> SUBSET Owners] /\ clean' \in [Gens -> BOOLEAN]
    BY DEF Write, TypeOK
  <2>3. engine' \in [Owners -> 0..MaxGen]
    BY Ranges DEF Write, TypeOK
  <2>4. open' \in [Gens -> SUBSET (Owners \cup {Anchor})]
    BY DEF Write, TypeOK
  <2>5. UNCHANGED <<shellVars, anchor, healthy, coordVars, round, ledger>>
    BY DEF Write
  <2>6. pc' \in [Gens -> WorkerAt] /\ alive' \in [Owners -> BOOLEAN]
    BY DEF Write, Goto, TypeOK, WorkerAt
  <2>7. events' \in [Gens -> SUBSET EventNames]
    BY DEF Write, Set, TypeOK, EventNames
  <2> QED
    BY <2>1, <2>2, <2>3, <2>4, <2>5, <2>6, <2>7 DEF TypeOK
<1>2. SlotInv'
  BY Ranges DEF Write, Permitted, Set, Goto, TypeOK, SlotInv, Is, Finished, Released, WorkerAt,
     EventNames
<1>3. FrozenInv'
  BY Ranges DEF Write, Permitted, Set, Goto, TypeOK, SlotInv, FrozenInv, EngineInv, FreshInv,
     Is, Installed, Frozen, Released, Searches, WorkerAt, EventNames
<1>4. EngineInv'
  BY Ranges DEF Write, Permitted, Set, Goto, TypeOK, SlotInv, EngineInv, FrozenInv, Searches,
     Is, Released, WorkerAt
<1>5. BarrierInv'
  BY Ranges DEF Write, Permitted, Set, Goto, TypeOK, SlotInv, BarrierInv, EngineInv, Is
<1>6. FreshInv'
  BY Ranges DEF Write, Permitted, Set, Goto, TypeOK, FreshInv, Unanswered, ToInstall, Is,
     WorkerAt, EventNames
<1> QED
  BY <1>1, <1>2, <1>3, <1>4, <1>5, <1>6

LEMMA StageDoneStep == ASSUME HInv, NEW o \in Owners, StageDone(o) PROVE HInv'
<1> USE DEF HInv
<1>1. TypeOK'
  <2>1. engine' \in [Owners -> 0..MaxGen]
    BY Ranges DEF StageDone, TypeOK
  <2>2. /\ pending' = pending \/ pending' = [pending EXCEPT ![engine[o]] = @ \ {o}]
        /\ open' = open \/ open' = [open EXCEPT ![engine[o]] = @ \ {o}]
        /\ \E b \in BOOLEAN : clean' = clean \/ clean' = [clean EXCEPT ![engine[o]] = b]
        /\ \E b \in BOOLEAN : alive' = alive \/ alive' = [alive EXCEPT ![o] = b]
    BY Zenon DEF StageDone
  <2>3. pending' \in [Gens -> SUBSET Owners] /\ open' \in [Gens -> SUBSET (Owners \cup {Anchor})]
    BY <2>2 DEF TypeOK
  <2>4. clean' \in [Gens -> BOOLEAN] /\ alive' \in [Owners -> BOOLEAN]
    BY <2>2 DEF TypeOK
  <2>5. UNCHANGED <<shellVars, anchor, healthy, coordVars, pc, round, todo, committed, events,
                    ledger>>
    BY DEF StageDone
  <2> QED
    BY <2>1, <2>3, <2>4, <2>5 DEF TypeOK
<1>2. SlotInv'
  BY Ranges DEF StageDone, Set, Goto, TypeOK, SlotInv, Is, Finished, Released, WorkerAt,
     EventNames
<1>3. FrozenInv'
  BY Ranges DEF StageDone, Set, Goto, TypeOK, SlotInv, FrozenInv, EngineInv, FreshInv, Is,
     Installed, Frozen, Released, Searches, WorkerAt, EventNames
<1>4. EngineInv'
  BY SMTT(60), Ranges DEF StageDone, Set, Goto, TypeOK, SlotInv, EngineInv, FrozenInv, Searches, Is,
     Released, WorkerAt
<1>5. BarrierInv'
  BY Ranges DEF StageDone, Set, Goto, TypeOK, SlotInv, BarrierInv, EngineInv, Is
<1>6. FreshInv'
  BY Ranges DEF StageDone, Set, Goto, TypeOK, FreshInv, Unanswered, ToInstall, Is, WorkerAt,
     EventNames
<1> QED
  BY <1>1, <1>2, <1>3, <1>4, <1>5, <1>6

LEMMA ShadowExitStep == ASSUME HInv, NEW o \in Owners, ShadowExit(o) PROVE HInv'
<1> USE DEF HInv
<1>1. TypeOK'
  <2>1. engine' \in [Owners -> 0..MaxGen] /\ alive' \in [Owners -> BOOLEAN]
    BY Ranges DEF ShadowExit, TypeOK
  <2>2. /\ pending' = pending \/ pending' = [pending EXCEPT ![slot] = @ \ {o}]
        /\ open' = open \/ open' = [open EXCEPT ![slot] = @ \ {o}]
        /\ clean' = clean \/ clean' = [clean EXCEPT ![slot] = FALSE]
    BY Zenon DEF ShadowExit
  <2>3. pending' \in [Gens -> SUBSET Owners]
    BY <2>2 DEF TypeOK
  <2>6. clean' \in [Gens -> BOOLEAN]
    BY <2>2 DEF TypeOK
  <2>4. open' \in [Gens -> SUBSET (Owners \cup {Anchor})]
    BY <2>2 DEF TypeOK
  <2>5. UNCHANGED <<shellVars, anchor, healthy, coordVars, pc, round, todo, committed, events,
                    ledger>>
    BY DEF ShadowExit
  <2> QED
    BY <2>1, <2>3, <2>4, <2>5, <2>6 DEF TypeOK
<1>2. SlotInv'
  BY Ranges DEF ShadowExit, Set, Goto, TypeOK, SlotInv, Is, Finished, Released, WorkerAt,
     EventNames
<1>3. FrozenInv'
  BY Ranges DEF ShadowExit, Set, Goto, TypeOK, SlotInv, FrozenInv, EngineInv, FreshInv, Is,
     Installed, Frozen, Released, Searches, WorkerAt, EventNames
<1>4. EngineInv'
  BY Ranges DEF ShadowExit, Set, Goto, TypeOK, SlotInv, EngineInv, FrozenInv, Searches, Is,
     Released, WorkerAt
<1>5. BarrierInv'
  BY Ranges DEF ShadowExit, Set, Goto, TypeOK, SlotInv, BarrierInv, EngineInv, Is
<1>6. FreshInv'
  BY Ranges DEF ShadowExit, Set, Goto, TypeOK, FreshInv, Unanswered, ToInstall, Is, WorkerAt,
     EventNames
<1> QED
  BY <1>1, <1>2, <1>3, <1>4, <1>5, <1>6

LEMMA BarrierSampleStep == ASSUME HInv, BarrierSample PROVE HInv'
<1> USE DEF HInv
<1>1. TypeOK'
  BY SMTT(60), Ranges DEF BarrierSample, Leave, Set, Goto, TypeOK, Gens, EventNames, WorkerAt
<1>2. SlotInv'
  BY Ranges DEF BarrierSample, Leave, Set, Goto, TypeOK, SlotInv, Is, Finished, Released,
     WorkerAt, EventNames
<1>3. FrozenInv'
  BY Ranges DEF BarrierSample, Leave, Set, Goto, TypeOK, SlotInv, FrozenInv, EngineInv,
     FreshInv, Is, Installed, Frozen, Released, Searches, WorkerAt, EventNames
<1>4. EngineInv'
  BY Ranges DEF BarrierSample, Leave, Set, Goto, TypeOK, SlotInv, EngineInv, FrozenInv,
     Searches, Is, Released, WorkerAt
<1>5. BarrierInv'
  BY Ranges DEF BarrierSample, Leave, Set, Goto, TypeOK, SlotInv, BarrierInv, EngineInv, Is
<1>6. FreshInv'
  BY Ranges DEF BarrierSample, Leave, Set, Goto, TypeOK, FreshInv, Unanswered, ToInstall, Is,
     WorkerAt, EventNames
<1> QED
  BY <1>1, <1>2, <1>3, <1>4, <1>5, <1>6

LEMMA BarrierDoneStep == ASSUME HInv, BarrierDone PROVE HInv'
<1> USE DEF HInv
<1>1. TypeOK'
  <2>1. slot' \in 0..MaxGen /\ finalizing' \in SUBSET Gens
    BY Ranges DEF BarrierDone, Release, TypeOK
  <2>2. main' \in {"install", "send", "detach", "idle", "start"} /\ then' = "idle" /\ sampled' = 0
    BY DEF BarrierDone, Leave, TypeOK
  <2>3. UNCHANGED <<shell, gen, anchor, healthy, closed, workerVars, open, events, engine, alive,
                    ledger>>
    BY DEF BarrierDone
  <2> QED
    BY <2>1, <2>2, <2>3, Ranges DEF TypeOK
<1>2. SlotInv'
  <2>1. UNCHANGED <<pc, events>>
    BY DEF BarrierDone
  <2>2. \/ UNCHANGED <<slot, finalizing>>
        \/ /\ slot' = 0 /\ slot # 0 /\ slot = sampled /\ Is(slot, "quiesced")
           /\ finalizing' = finalizing \cup {slot}
    BY DEF BarrierDone, Release
  <2>3. slot # 0 => slot \in Gens /\ (Is(slot, "quiesced") => pc[slot] \in Released)
    BY Ranges DEF TypeOK, SlotInv, FrozenInv
  <2> QED
    BY <2>1, <2>2, <2>3 DEF SlotInv, Is, Finished
<1>3. FrozenInv'
  BY Ranges DEF BarrierDone, Leave, Release, Retained, Set, Goto, TypeOK, SlotInv, FrozenInv,
     EngineInv, FreshInv, Is, Installed, Frozen, Released, Searches, WorkerAt, EventNames
<1>4. EngineInv'
  BY Ranges DEF BarrierDone, Leave, Release, Retained, Set, Goto, TypeOK, SlotInv, EngineInv,
     FrozenInv, Searches, Is, Released, WorkerAt
<1>5. BarrierInv'
  BY Ranges DEF BarrierDone, Leave, Release, Retained, Set, Goto, TypeOK, SlotInv, BarrierInv,
     EngineInv, Is
<1>6. FreshInv'
  BY Ranges DEF BarrierDone, Leave, Release, Retained, Set, Goto, TypeOK, FreshInv, Unanswered,
     ToInstall, Is, WorkerAt, EventNames
<1> QED
  BY <1>1, <1>2, <1>3, <1>4, <1>5, <1>6

LEMMA InstallStep == ASSUME HInv, Install PROVE HInv'
<1> USE DEF HInv
<1>1. TypeOK'
  <2>1. slot' \in 0..MaxGen /\ open' \in [Gens -> SUBSET (Owners \cup {Anchor})]
    BY Ranges DEF Install, TypeOK
  <2>2. pc' \in [Gens -> WorkerAt] /\ main' = "start"
    BY DEF Install, TypeOK, WorkerAt
  <2>3. UNCHANGED <<shell, gen, then, sampled, anchor, healthy, closed, finalizing, stageVars,
                    events, engine, alive, ledger>>
    BY DEF Install
  <2> QED
    BY <2>1, <2>2, <2>3 DEF TypeOK
<1>2. SlotInv'
  <2>1. CASE UNCHANGED <<slot, pc, open>>
    BY <2>1, Ranges DEF Install, SlotInv, Is, Finished
  <2>2. CASE /\ slot' = gen /\ pc' = [pc EXCEPT ![gen] = "new"] /\ open' = [open EXCEPT ![gen] = {Anchor}]
             /\ slot = 0
    <3>1. gen \in Gens /\ pc[gen] = "none" /\ Unanswered(gen)
      BY Ranges DEF Install, FreshInv, ToInstall, TypeOK
    <3>2. /\ \A h \in Gens : pc'[h] = IF h = gen THEN "new" ELSE pc[h]
          /\ \A h \in Gens : open'[h] = IF h = gen THEN {Anchor} ELSE open[h]
          /\ UNCHANGED <<finalizing, events>>
      BY <2>2 DEF Install, TypeOK
    <3> QED
      BY <2>2, <3>1, <3>2, Ranges DEF SlotInv, Is, Finished, Released
  <2>3. slot # 0 => ~Finished(slot)
    BY Ranges DEF SlotInv, TypeOK
  <2> QED
    BY <2>1, <2>2, <2>3 DEF Install
<1>3. FrozenInv'
  <2>1. CASE UNCHANGED <<slot, pc, open>>
    BY <2>1, Ranges DEF Install, FrozenInv, Is, Installed
  <2>2. CASE /\ slot' = gen /\ pc' = [pc EXCEPT ![gen] = "new"] /\ open' = [open EXCEPT ![gen] = {Anchor}]
             /\ slot = 0
    <3>1. gen \in Gens /\ pc[gen] = "none" /\ Unanswered(gen)
      BY Ranges DEF Install, FreshInv, ToInstall, TypeOK
    <3>2. /\ \A h \in Gens : pc'[h] = IF h = gen THEN "new" ELSE pc[h]
          /\ \A h \in Gens : open'[h] = IF h = gen THEN {Anchor} ELSE open[h]
          /\ UNCHANGED <<finalizing, events>>
      BY <2>2 DEF Install, TypeOK
    <3> QED
      BY <2>2, <3>1, <3>2, Ranges DEF FrozenInv, SlotInv, Is, Installed, Unanswered
  <2>3. slot # 0 => ~Finished(slot)
    BY Ranges DEF SlotInv, TypeOK
  <2> QED
    BY <2>1, <2>2, <2>3 DEF Install
<1>4. EngineInv'
  BY Ranges DEF Install, Cancelled, Finished, Set, Goto, TypeOK, SlotInv, EngineInv, FrozenInv,
     Searches, Is, Released, WorkerAt
<1>5. BarrierInv'
  BY Ranges DEF Install, Cancelled, Finished, Set, Goto, TypeOK, SlotInv, BarrierInv, EngineInv,
     Is
<1>6. FreshInv'
  BY Ranges DEF Install, Cancelled, Finished, Set, Goto, TypeOK, FreshInv, Unanswered,
     ToInstall, Is, WorkerAt, EventNames
<1> QED
  BY <1>1, <1>2, <1>3, <1>4, <1>5, <1>6

LEMMA StartAnchorStep == ASSUME HInv, StartAnchor PROVE HInv'
<1> USE DEF HInv
<1>1. TypeOK'
  <2>1. pc' \in [Gens -> WorkerAt]
    BY DEF StartAnchor, TypeOK, WorkerAt
  <2>2. anchor' \in 0..MaxGen /\ shell' \in {"ready", "searching", "failed", "shutdown"}
    BY DEF StartAnchor, TypeOK
  <2>3. events' \in [Gens -> SUBSET EventNames]
    BY DEF StartAnchor, Set, TypeOK, EventNames
  <2>4. main' = "idle" /\ UNCHANGED <<gen, then, sampled, healthy, coordVars, stageVars, open,
                                      engine, alive, ledger>>
    BY DEF StartAnchor
  <2> QED
    BY <2>1, <2>2, <2>3, <2>4 DEF TypeOK
<1>2. SlotInv'
  BY Ranges DEF StartAnchor, Set, Goto, TypeOK, SlotInv, Is, Finished, Released, WorkerAt,
     EventNames
<1>3. FrozenInv'
  BY Ranges DEF StartAnchor, Set, Goto, TypeOK, SlotInv, FrozenInv, EngineInv, FreshInv, Is,
     Installed, Frozen, Released, Searches, WorkerAt, EventNames
<1>4. EngineInv'
  BY Ranges DEF StartAnchor, Set, Goto, TypeOK, SlotInv, EngineInv, FrozenInv, Searches, Is,
     Released, WorkerAt
<1>5. BarrierInv'
  BY Ranges DEF StartAnchor, Set, Goto, TypeOK, SlotInv, BarrierInv, EngineInv, Is
<1>6. FreshInv'
  BY Ranges DEF StartAnchor, Set, Goto, TypeOK, FreshInv, Unanswered, ToInstall, Is, WorkerAt,
     EventNames
<1> QED
  BY <1>1, <1>2, <1>3, <1>4, <1>5, <1>6

LEMMA QuitStep == ASSUME HInv, Quit PROVE HInv'
<1> USE DEF HInv
<1>1. TypeOK'
  BY Ranges DEF Quit, Set, Goto, TypeOK, Gens, EventNames, WorkerAt
<1>2. SlotInv'
  BY SMTT(60), Ranges DEF Quit, Set, Goto, TypeOK, SlotInv, Is, Finished, Released, WorkerAt, EventNames
<1>3. FrozenInv'
  BY SMTT(60), Ranges DEF Quit, Set, Goto, TypeOK, SlotInv, FrozenInv, EngineInv, FreshInv, Is, Installed,
     Frozen, Released, Searches, WorkerAt, EventNames
<1>4. EngineInv'
  BY Ranges DEF Quit, Set, Goto, TypeOK, SlotInv, EngineInv, FrozenInv, Searches, Is, Released,
     WorkerAt
<1>5. BarrierInv'
  BY Ranges DEF Quit, Set, Goto, TypeOK, SlotInv, BarrierInv, EngineInv, Is
<1>6. FreshInv'
  BY Ranges DEF Quit, Set, Goto, TypeOK, FreshInv, Unanswered, ToInstall, Is, WorkerAt,
     EventNames
<1> QED
  BY <1>1, <1>2, <1>3, <1>4, <1>5, <1>6

LEMMA UnhealthyStep == ASSUME HInv, Unhealthy PROVE HInv'
<1> USE DEF HInv
<1>1. TypeOK'
  BY Ranges DEF Unhealthy, Set, Goto, TypeOK, Gens, EventNames, WorkerAt
<1>2. SlotInv'
  BY Ranges DEF Unhealthy, Set, Goto, TypeOK, SlotInv, Is, Finished, Released, WorkerAt,
     EventNames
<1>3. FrozenInv'
  BY Ranges DEF Unhealthy, Set, Goto, TypeOK, SlotInv, FrozenInv, EngineInv, FreshInv, Is,
     Installed, Frozen, Released, Searches, WorkerAt, EventNames
<1>4. EngineInv'
  BY Ranges DEF Unhealthy, Set, Goto, TypeOK, SlotInv, EngineInv, FrozenInv, Searches, Is,
     Released, WorkerAt
<1>5. BarrierInv'
  BY Ranges DEF Unhealthy, Set, Goto, TypeOK, SlotInv, BarrierInv, EngineInv, Is
<1>6. FreshInv'
  BY Ranges DEF Unhealthy, Set, Goto, TypeOK, FreshInv, Unanswered, ToInstall, Is, WorkerAt,
     EventNames
<1> QED
  BY <1>1, <1>2, <1>3, <1>4, <1>5, <1>6

LEMMA RuntimeFailedStep == ASSUME HInv, RuntimeFailed PROVE HInv'
<1> USE DEF HInv
<1>1. TypeOK'
  BY SMTT(60), Ranges DEF RuntimeFailed, Set, Goto, TypeOK, Gens, EventNames, WorkerAt
<1>2. SlotInv'
  BY Ranges DEF RuntimeFailed, Set, Goto, TypeOK, SlotInv, Is, Finished, Released, WorkerAt,
     EventNames
<1>3. FrozenInv'
  BY SMTT(60), Ranges DEF RuntimeFailed, Set, Goto, TypeOK, SlotInv, FrozenInv, EngineInv, FreshInv, Is,
     Installed, Frozen, Released, Searches, WorkerAt, EventNames
<1>4. EngineInv'
  BY Ranges DEF RuntimeFailed, Set, Goto, TypeOK, SlotInv, EngineInv, FrozenInv, Searches, Is,
     Released, WorkerAt
<1>5. BarrierInv'
  BY Ranges DEF RuntimeFailed, Set, Goto, TypeOK, SlotInv, BarrierInv, EngineInv, Is
<1>6. FreshInv'
  BY Ranges DEF RuntimeFailed, Set, Goto, TypeOK, FreshInv, Unanswered, ToInstall, Is, WorkerAt,
     EventNames
<1> QED
  BY <1>1, <1>2, <1>3, <1>4, <1>5, <1>6

-----------------------------------------------------------------------------
(* The invariant *)

LEMMA InitInv == Init => HInv
<1> SUFFICES ASSUME Init PROVE HInv
  OBVIOUS
<1>0. 0 \in 0..MaxGen /\ 0 \in 0..MaxRound /\ "none" \in WorkerAt
  BY Ranges DEF WorkerAt
<1>1. TypeOK
  <2>1. /\ pc \in [Gens -> WorkerAt] /\ round \in [Gens -> 0..MaxRound]
        /\ clean \in [Gens -> BOOLEAN] /\ events \in [Gens -> SUBSET EventNames]
    BY <1>0 DEF Init
  <2>2. /\ todo \in [Gens -> SUBSET Owners] /\ committed \in [Gens -> SUBSET Owners]
        /\ pending \in [Gens -> SUBSET Owners] /\ open \in [Gens -> SUBSET Owners]
    BY DEF Init
  <2>3. engine \in [Owners -> 0..MaxGen] /\ alive \in [Owners -> BOOLEAN]
    BY <1>0 DEF Init
  <2> QED
    BY <1>0, <2>1, <2>2, <2>3 DEF Init, TypeOK
<1>2. SlotInv /\ FrozenInv
  BY DEF Init, SlotInv, FrozenInv, Is, Finished, Installed
<1>3. EngineInv /\ BarrierInv
  BY DEF Init, EngineInv, BarrierInv
<1>4. FreshInv
  BY DEF Init, FreshInv, Unanswered, ToInstall, Is
<1> QED
  BY <1>1, <1>2, <1>3, <1>4 DEF HInv

LEMMA StutterStep == ASSUME HInv, UNCHANGED vars PROVE HInv'
<1> USE DEF HInv, vars
<1>1. TypeOK'
  BY DEF TypeOK
<1>2. SlotInv' /\ FrozenInv'
  BY DEF SlotInv, FrozenInv, Is, Finished, Installed
<1>3. EngineInv' /\ BarrierInv'
  BY DEF EngineInv, BarrierInv
<1>4. FreshInv'
  BY DEF FreshInv, Unanswered, ToInstall, Is
<1> QED
  BY <1>1, <1>2, <1>3, <1>4

LEMMA StepInv == HInv /\ [Next]_vars => HInv'
<1> SUFFICES ASSUME HInv, [Next]_vars PROVE HInv'
  OBVIOUS
<1>1. CASE Main
  BY <1>1, GoStep, SyncStep, BarrierSampleStep, BarrierDoneStep, BarrierTimeoutStep, SendStep,
     InstallStep, StartAnchorStep, QuitStep, CloseStep, DetachStep, ForceLossStep DEF Main
<1>2. ASSUME NEW g \in Gens, Worker(g) PROVE HInv'
  <2>1. CASE Execute(g) \/ Qualify(g) \/ Await(g) \/ RoundOver(g) \/ CutLoose(g) \/ Raise(g)
    BY <2>1, ExecuteStep, QualifyStep, AwaitStep, RoundOverStep, CutLooseStep, RaiseStep
  <2>2. CASE Drained(g) \/ AnchorWait(g) \/ ResourceWait(g) \/ PublicationWait(g) \/ RouterEnd(g)
    BY <2>2, DrainedStep, AnchorWaitStep, ResourceWaitStep, PublicationWaitStep, RouterEndStep
  <2>3. CASE Freeze(g) \/ Quiet(g) \/ HandOff(g) \/ ObserveWait(g) \/ Seal(g) \/ Clear(g)
    BY <2>3, FreezeStep, QuietStep, HandOffStep, ObserveWaitStep, SealStep, ClearStep
  <2>4. CASE \E o \in Owners : Withhold(g, o) \/ Commit(g, o) \/ Write(g, o)
    BY <2>4, WithholdStep, CommitStep, WriteStep
  <2> QED
    BY <1>2, <2>1, <2>2, <2>3, <2>4 DEF Worker
<1>3. ASSUME NEW g \in Gens,
             Reader(g) \/ ObservationEnd(g) \/ SoftExpiry(g) \/ HardExpiry(g) \/ Cancel(g)
      PROVE  HInv'
  BY <1>3, AnchorCompleteStep, PublishStep, EmittedStep, ReadyStep, ObservationEndStep,
     SoftExpiryStep, HardExpiryStep, CancelStep DEF Reader
<1>4. CASE Unhealthy \/ RuntimeFailed \/ \E o \in Owners : StageDone(o) \/ ShadowExit(o)
  BY <1>4, UnhealthyStep, RuntimeFailedStep, StageDoneStep, ShadowExitStep
<1>5. CASE UNCHANGED vars
  BY <1>5, StutterStep
<1> QED
  BY <1>1, <1>2, <1>3, <1>4, <1>5 DEF Next

\* HInv is an inductive invariant of the runs' life, for every set of owners and
\* every number of searches and rounds.
THEOREM Invariance == Spec => []HInv
  BY InitInv, StepInv, PTL DEF Spec

\* Every variable keeps its type.
THEOREM TypeCorrect == Spec => []TypeOK
<1>1. HInv => TypeOK
  BY DEF HInv
<1> QED
  BY <1>1, Invariance, PTL

-----------------------------------------------------------------------------
(* Theorems *)

\* A run whose worker has not cleared it sits in the slot or is retained, through
\* every go, barrier, hand-off and close: none can be overwritten or forgotten
\* (shadow.py: _quiesce_clock, _handoff_replay_only, prepare_run).
THEOREM RunsAreKept == Spec => []NoRunIsLost
<1>1. HInv => NoRunIsLost
  BY DEF HInv, SlotInv, NoRunIsLost, Installed
<1> QED
  BY <1>1, Invariance, PTL

\* An engine that counts as available and is searching is awaited by the worker of
\* the run in the slot, and no state change is on its way to it: the barrier has
\* either seen that run quiesced or excluded every engine.
THEOREM EnginesAreAwaited == Spec => []EnginesAreSupervised
<1>1. ASSUME HInv, NEW o \in Owners, alive[o], engine[o] # 0
      PROVE  /\ slot = engine[o] /\ o \in pending[slot]
             /\ pc[slot] \in {"dispatch", "await", "drain"} /\ main # "send"
  <2>1. slot = engine[o] /\ o \in pending[engine[o]] /\ engine[o] \in Gens
    BY <1>1, Ranges DEF HInv, EngineInv, TypeOK
  <2>2. pc[engine[o]] \in Searches /\ slot # 0
    BY <1>1, <2>1 DEF HInv, EngineInv
  <2> QED
    BY <1>1, <2>1, <2>2 DEF HInv, BarrierInv, Searches
<1>2. HInv => EnginesAreSupervised
  BY <1>1 DEF EnginesAreSupervised
<1> QED
  BY <1>2, Invariance, PTL

\* Steps of a run's own worker, seen from a run g with a frozen interval.
LEMMA WorkerIsQuiet ==
  ASSUME HInv, NEW g \in Gens, Installed(g), Is(g, "frozen"), NEW h \in Gens, Worker(h)
  PROVE  /\ open'[g] = open[g] /\ (ledger' = g => ledger = g)
         /\ \A o \in Owners : engine'[o] = g => engine[o] = g
<1>1. pc[g] \in Frozen
  BY DEF HInv, FrozenInv
<1>2. CASE UNCHANGED <<open, engine, ledger>>
  BY <1>2
<1>3. CASE Execute(h) \/ RouterEnd(h) \/ Drained(h)
  BY <1>1, <1>3 DEF Execute, RouterEnd, Drained, Frozen, Released, HInv, TypeOK
<1>4. ASSUME NEW o \in Owners, Commit(h, o) \/ Write(h, o)
      PROVE  /\ open'[g] = open[g] /\ ledger' = ledger /\ h # g
             /\ \A u \in Owners : engine'[u] \in {engine[u], h}
  BY <1>1, <1>4 DEF Commit, Write, Frozen, Released, HInv, TypeOK
<1>5. CASE Qualify(h) \/ Await(h) \/ RoundOver(h) \/ CutLoose(h) \/ Raise(h) \/ AnchorWait(h)
           \/ ResourceWait(h) \/ PublicationWait(h)
  BY <1>2, <1>5 DEF Qualify, Await, RoundOver, CutLoose, Raise, AnchorWait, ResourceWait,
     PublicationWait
<1>6. CASE Freeze(h) \/ Quiet(h) \/ HandOff(h) \/ ObserveWait(h) \/ Seal(h) \/ Clear(h)
           \/ \E o \in Owners : Withhold(h, o)
  BY <1>2, <1>6 DEF Freeze, Quiet, HandOff, ObserveWait, Seal, Clear, Withhold
<1> QED
  BY <1>3, <1>4, <1>5, <1>6 DEF Worker

\* The other threads' steps, seen from such a run.
LEMMA OthersAreQuiet ==
  ASSUME HInv, NEW g \in Gens, Installed(g), Is(g, "frozen"), Next,
         ~ \E h \in Gens : Worker(h)
  PROVE  /\ open'[g] = open[g] /\ (ledger' = g => ledger = g)
         /\ \A o \in Owners : engine'[o] = g => engine[o] = g
<1>1. pc[g] \in Frozen /\ (pc[g] # "done" => open[g] = {}) /\ pending[g] = {} /\ g # 0
  BY Ranges DEF HInv, FrozenInv, EngineInv, Searches, Frozen, Released
<1>2. CASE UNCHANGED <<open, engine, ledger>>
  BY <1>2
<1>3. CASE Install
  <2>1. g # gen
    BY <1>3 DEF Install, Installed, HInv, FreshInv, ToInstall
  <2>2. UNCHANGED <<engine, ledger>> /\ (open' = open \/ open' = [open EXCEPT ![gen] = {Anchor}])
    BY <1>3 DEF Install
  <2> QED
    BY <2>1, <2>2 DEF HInv, TypeOK
<1>4. ASSUME NEW h \in Gens, Emitted(h) PROVE open'[g] = open[g] /\ UNCHANGED <<engine, ledger>>
  <2>1. slot = g => open[g] = {}
    BY <1>1 DEF HInv, SlotInv
  <2>2. \/ open' = open
        \/ slot = h /\ open' = [open EXCEPT ![h] = @ \ {Anchor}]
    BY <1>4 DEF Emitted
  <2> QED
    BY <1>4, <2>1, <2>2 DEF Emitted, HInv, TypeOK
<1>5. ASSUME NEW o \in Owners, StageDone(o)
      PROVE  /\ open'[g] = open[g] /\ ledger' = ledger
             /\ \A u \in Owners : engine'[u] \in {engine[u], 0}
  <2>1. /\ ledger' = ledger /\ engine' = [engine EXCEPT ![o] = 0]
        /\ \/ open' = open
           \/ o \in pending[engine[o]] /\ open' = [open EXCEPT ![engine[o]] = @ \ {o}]
    BY <1>5 DEF StageDone
  <2> QED
    BY <1>1, <2>1 DEF HInv, TypeOK
<1>6. ASSUME NEW o \in Owners, ShadowExit(o)
      PROVE  /\ open'[g] = open[g] /\ ledger' = ledger
             /\ \A u \in Owners : engine'[u] \in {engine[u], 0}
  <2>1. /\ ledger' = ledger /\ engine' = [engine EXCEPT ![o] = 0]
        /\ \/ open' = open
           \/ o \in pending[slot] /\ open' = [open EXCEPT ![slot] = @ \ {o}]
    BY <1>6 DEF ShadowExit
  <2> QED
    BY <1>1, <2>1 DEF HInv, TypeOK
<1>7. CASE Main /\ ~Install
  BY <1>2, <1>7 DEF Main, Go, Sync, BarrierSample, BarrierDone, BarrierTimeout, Send, StartAnchor,
     Quit, Close, Detach, ForceLoss
<1>8. ASSUME NEW h \in Gens, \/ AnchorComplete(h) \/ Publish(h) \/ Ready(h) \/ ObservationEnd(h)
                             \/ SoftExpiry(h) \/ HardExpiry(h) \/ Cancel(h)
      PROVE  UNCHANGED <<open, engine, ledger>>
  BY <1>8 DEF AnchorComplete, Publish, Ready, ObservationEnd, SoftExpiry, HardExpiry, Cancel
<1>9. CASE Unhealthy \/ RuntimeFailed
  BY <1>2, <1>9 DEF Unhealthy, RuntimeFailed
<1> QED
  BY <1>1, <1>2, <1>3, <1>4, <1>5, <1>6, <1>7, <1>8, <1>9 DEF Next, Reader

\* A run that has frozen its interval never again starts a search, opens or closes a
\* measured stage or takes the router, and neither does anybody for it: what the
\* next generation does with the engines is not measured twice.
THEOREM FrozenStaysQuiet == Spec => FrozenIsQuiet
<1>1. HInv /\ [Next]_vars =>
        [\A g \in Gens : Installed(g) /\ Is(g, "frozen") =>
           /\ open'[g] = open[g]
           /\ \A o \in Owners : engine'[o] = g => engine[o] = g
           /\ ledger' = g => ledger = g]_vars
  BY WorkerIsQuiet, OthersAreQuiet
<1> QED
  BY <1>1, Invariance, PTL DEF Spec, FrozenIsQuiet
=============================================================================
