----------------------------- MODULE WorkGrants -----------------------------
(***************************************************************************)
(* The CPU budget of one run: BudgetLedger (controller/budget.py), the     *)
(* router's work grants (controller/routing.py) and the coordinator's side *)
(* of them (controller/shadow.py).  A stage is admitted with a reservation *)
(* before its go is written, and its reservation is settled or released    *)
(* exactly once: by its engine's reader thread when it answers, by the     *)
(* worker when it gives up on it, or when the router closes the run.       *)
(* Three registries follow a grant: `held` at the coordinator, `rows` at   *)
(* the router and `open` in the ledger; only the ledger has a lock that    *)
(* both threads take.                                                      *)
(***************************************************************************)
EXTENDS Naturals, FiniteSets

CONSTANTS Solo,      \* stages admitted one by one (EXPLORE), charged to the solver share
          Bundle,    \* stages admitted all or none (staged VERIFY)
          SoloCost, MemberCost, AnchorCost,          \* declared cost of each
          CpuMs, SolverCap, VerifyCap, ControllerCap, \* the envelope
          MaxActual, \* bound: what a search may really have used
          MaxCharge  \* bound: controller CPU charged over the run

Stages == Solo \cup Bundle
Anchor == "anchor"

ASSUME GrantAssumption ==
  /\ IsFiniteSet(Stages) /\ Solo \cap Bundle = {} /\ Anchor \notin Stages
  /\ {SoloCost, MemberCost, AnchorCost} \subseteq Nat \ {0}
  /\ {CpuMs, SolverCap, VerifyCap, ControllerCap, MaxActual, MaxCharge} \subseteq Nat

VARIABLES
  pc,         \* where the run's worker is
  todo,       \* stages of the current phase it has not come to
  hand,       \* stages it is dispatching, rolling back, has given up on or has to close
  held,       \* active.grant_admissions
  rows,       \* router._work_grant_reservations
  keys,       \* router._work_grant_keys
  unresolved, \* router._work_grant_unresolved
  engine,     \* per stage: "idle", "written", "answered", "popped" or "done"
  fate,       \* per reservation: "none", "settled", "released", or "closed" for want of evidence
  open,       \* ledger._open
  reserved,   \* ledger._purpose_reserved_cpu
  spent,      \* ledger._purpose_spent_cpu
  replay,     \* what replay_budget_journal makes of the journal so far
  excess,     \* history: spending nobody reserved (overruns and charges)
  claimed,    \* envelope_claim.claimed of route.json, FALSE until it is written
  inFlight    \* history: settlements in a reader's hands when it was written

ledgerVars == <<open, reserved, spent, replay, excess>>
claimVars  == <<claimed, inFlight>>
vars == <<pc, todo, hand, held, rows, keys, unresolved, engine, fate, ledgerVars, claimVars>>

Purposes == {"solver", "verify", "controller"}

Init ==
  /\ pc = "start" /\ todo = Solo /\ hand = {}
  /\ held = {} /\ rows = {} /\ keys = {} /\ unresolved = FALSE
  /\ engine = [s \in Stages |-> "idle"]
  /\ fate = [s \in Stages \cup {Anchor} |-> "none"]
  /\ open = {} /\ reserved = [p \in Purposes |-> 0] /\ spent = [p \in Purposes |-> 0]
  /\ replay = [open |-> {}, spent |-> [p \in Purposes |-> 0], ok |-> TRUE]
  /\ excess = 0 /\ claimed = FALSE /\ inFlight = {}

----------------------------------------------------------------------------
(* The ledger.  Each operation runs under its lock and appends one event,  *)
(* of which the journal's replay keeps the open reservations and the       *)
(* spending.                                                               *)

Purpose(s) == IF s \in Bundle THEN "verify" ELSE "solver"
Cap(p) == CASE p = "solver" -> SolverCap [] p = "verify" -> VerifyCap [] OTHER -> ControllerCap
Cost(s) == IF s = Anchor THEN AnchorCost ELSE IF s \in Bundle THEN MemberCost ELSE SoloCost

CommittedTo(p) == reserved[p] + spent[p]
Committed == CommittedTo("solver") + CommittedTo("verify") + CommittedTo("controller")

CanReserve(s) == /\ CommittedTo(Purpose(s)) + Cost(s) <= Cap(Purpose(s))
                 /\ Committed + Cost(s) <= CpuMs

\* The sum the replay takes over its open rows of one purpose.
OpenCost(S, p) ==
  IF p = "verify" THEN MemberCost * Cardinality(S \cap Bundle)
  ELSE IF p = "solver" THEN SoloCost * Cardinality(S \cap Solo)
                            + IF Anchor \in S THEN AnchorCost ELSE 0
  ELSE 0

ReplayCommittedTo(p) == OpenCost(replay.open, p) + replay.spent[p]

ReplayReserve(s) ==
  LET affordable == /\ ReplayCommittedTo(Purpose(s)) + Cost(s) <= Cap(Purpose(s))
                    /\ ReplayCommittedTo("solver") + ReplayCommittedTo("verify")
                       + ReplayCommittedTo("controller") + Cost(s) <= CpuMs
  IN replay' = [replay EXCEPT !.open = @ \cup {s},
                              !.ok = @ /\ s \notin replay.open /\ affordable]

ReplayClose(s, cpu) ==
  replay' = [replay EXCEPT !.open = @ \ {s}, !.spent[Purpose(s)] = @ + cpu,
                           !.ok = @ /\ s \in replay.open]

Reserve(s) ==
  /\ open' = open \cup {s}
  /\ reserved' = [reserved EXCEPT ![Purpose(s)] = @ + Cost(s)]
  /\ ReplayReserve(s) /\ UNCHANGED <<spent, excess>>

\* max(0.0, a - b)
Less(a, b) == IF a > b THEN a - b ELSE 0

\* What was really used is recorded, even beyond the declaration.
Settle(s, actual, how) ==
  /\ s \in open /\ open' = open \ {s}
  /\ reserved' = [reserved EXCEPT ![Purpose(s)] = Less(@, Cost(s))]
  /\ spent' = [spent EXCEPT ![Purpose(s)] = @ + actual]
  /\ excess' = excess + Less(actual, Cost(s))
  /\ ReplayClose(s, actual)
  /\ fate' = [fate EXCEPT ![s] = how]

ReleaseUnjournaled(s) == \* mutant: a release is not appended to the journal
  IF s \in open
  THEN /\ open' = open \ {s}
       /\ reserved' = [reserved EXCEPT ![Purpose(s)] = Less(@, Cost(s))]
       /\ UNCHANGED <<replay, spent, excess>>
       /\ fate' = [fate EXCEPT ![s] = "released"]
  ELSE UNCHANGED <<ledgerVars, fate>>

\* Unspent capacity is returned; releasing what is closed changes nothing.
Release(s) ==
  IF s \in open
  THEN /\ open' = open \ {s}
       /\ reserved' = [reserved EXCEPT ![Purpose(s)] = Less(@, Cost(s))]
       /\ ReplayClose(s, 0) /\ UNCHANGED <<spent, excess>>
       /\ fate' = [fate EXCEPT ![s] = "released"]
  ELSE UNCHANGED <<ledgerVars, fate>>

\* charge_elapsed and controller_overhead never ask for room.
Charge ==
  /\ pc \notin {"claim", "over", "lost"} /\ spent["controller"] < MaxCharge
  /\ spent' = [spent EXCEPT !["controller"] = @ + 1] /\ excess' = excess + 1
  /\ replay' = [replay EXCEPT !.spent["controller"] = @ + 1]
  /\ UNCHANGED <<pc, todo, hand, held, rows, keys, unresolved, engine, fate, open, reserved,
                 claimVars>>

----------------------------------------------------------------------------
(* The worker admits and dispatches.                                       *)

\* on_run_start: the anchor is already searching; without room the run falls back.
Start ==
  /\ pc = "start" /\ pc' = "solo"
  /\ IF CanReserve(Anchor) THEN Reserve(Anchor) ELSE UNCHANGED ledgerVars
  /\ UNCHANGED <<todo, hand, held, rows, keys, unresolved, engine, fate, claimVars>>

Fallback == Anchor \notin open

\* _authorize_work_grant_unlocked; denial for another reason is always possible.
Authorize(s) ==
  /\ s \notin keys /\ ~Fallback /\ CanReserve(s)
  /\ Reserve(s) /\ rows' = rows \cup {s} /\ keys' = keys \cup {s}

AdmitSolo(s) ==
  /\ pc = "solo" /\ s \in todo /\ hand = {}
  /\ Authorize(s) /\ held' = held \cup {s}
  /\ todo' = todo \ {s} /\ hand' = {s} /\ pc' = "dispatch"
  /\ UNCHANGED <<unresolved, engine, fate, claimVars>>

DenySolo(s) ==
  /\ pc = "solo" /\ s \in todo /\ todo' = todo \ {s}
  /\ UNCHANGED <<pc, hand, held, rows, keys, unresolved, engine, fate, ledgerVars, claimVars>>

\* A bundle is admitted member by member under the router's grant lock.
AdmitMember(s) ==
  /\ pc = "bundle" /\ s \in todo /\ Authorize(s)
  /\ todo' = todo \ {s} /\ hand' = hand \cup {s}
  /\ IF todo = {s} THEN pc' = "admitted" ELSE UNCHANGED pc
  /\ UNCHANGED <<held, unresolved, engine, fate, claimVars>>

DenyMember ==
  /\ pc = "bundle" /\ pc' = "rollback"
  /\ UNCHANGED <<todo, hand, held, rows, keys, unresolved, engine, fate, ledgerVars, claimVars>>

Rollback(s) ==
  /\ pc = "rollback" /\ s \in hand /\ hand' = hand \ {s}
  /\ rows' = rows \ {s} /\ keys' = keys \ {s} /\ Release(s)
  /\ UNCHANGED <<pc, todo, held, unresolved, engine, claimVars>>

\* The coordinator takes the admissions; configuring the phase may yet fail.
Prepare ==
  /\ pc = "admitted" /\ held' = held \cup hand
  /\ todo' = hand /\ hand' = {} /\ pc' \in {"fire", "drop"}
  /\ UNCHANGED <<rows, keys, unresolved, engine, fate, ledgerVars, claimVars>>

Fire(s) ==
  /\ pc = "fire" /\ s \in todo
  /\ \/ todo' = todo \ {s} /\ hand' = {s} /\ pc' = "dispatch"
     \/ pc' = "drop" /\ UNCHANGED <<todo, hand>>      \* its engine is not available
  /\ UNCHANGED <<held, rows, keys, unresolved, engine, fate, ledgerVars, claimVars>>

\* The coordinator's _release_work_grant, down to the ledger.
ReleaseGrant(s) ==
  /\ held' = held \ {s}
  /\ IF s \in held /\ s \in rows THEN rows' = rows \ {s} /\ Release(s)
                                 ELSE UNCHANGED <<rows, ledgerVars, fate>>

\* After a failed dispatch EXPLORE goes on with the next owner; a bundle stops.
After(s, ok) == /\ hand' = {}
                /\ pc' = IF s \in Solo THEN "solo" ELSE IF ok THEN "fire" ELSE "drop"

\* Nothing was written: the grant is released.
Withdraw(s) ==
  /\ pc = "dispatch" /\ hand = {s} /\ ReleaseGrant(s) /\ After(s, FALSE)
  /\ UNCHANGED <<todo, keys, unresolved, engine, claimVars>>

Write(s) ==
  /\ pc = "dispatch" /\ hand = {s} /\ After(s, TRUE)
  /\ engine' = [engine EXCEPT ![s] = "written"]
  /\ UNCHANGED <<todo, held, rows, keys, unresolved, fate, ledgerVars, claimVars>>

WriteFailsFree(s) ==     \* mutant: a failed dispatch counts as no work at all
  /\ pc = "dispatch" /\ hand = {s} /\ After(s, FALSE)
  /\ engine' = [engine EXCEPT ![s] = "done"] /\ ReleaseGrant(s)
  /\ UNCHANGED <<todo, keys, unresolved, claimVars>>

\* The engine may have got some of it: the grant is settled at its declaration.
WriteFails(s) ==
  /\ pc = "dispatch" /\ hand = {s} /\ After(s, FALSE)
  /\ engine' = [engine EXCEPT ![s] = "done"]
  /\ held' = held \ {s} /\ rows' = rows \ {s} /\ Settle(s, Cost(s), "settled")
  /\ UNCHANGED <<todo, keys, unresolved, claimVars>>

\* The members that did not cross the dispatch boundary are released.
Drop(s) ==
  /\ pc = "drop" /\ s \in todo /\ todo' = todo \ {s} /\ ReleaseGrant(s)
  /\ UNCHANGED <<pc, hand, keys, unresolved, engine, claimVars>>

----------------------------------------------------------------------------
(* The worker waits, gives up, and closes the run.                         *)

Pending(s) == engine[s] \in {"written", "answered", "popped"}

\* Every EXPLORE stage is over: the bundle if all of them ran, or the end.
SoloOver ==
  /\ pc = "solo" /\ todo = {} /\ \A s \in Solo : ~Pending(s)
  /\ \/ pc' = "end" /\ UNCHANGED todo
     \/ pc' = "bundle" /\ todo' = Bundle /\ Bundle # {} /\ \A s \in Solo : engine[s] = "done"
  /\ UNCHANGED <<hand, held, rows, keys, unresolved, engine, fate, ledgerVars, claimVars>>

Awaiting == pc \in {"fire", "drop"} /\ todo = {}

\* The worker settles a bundle member that ignored its stop; its EXPLORE counterpart
\* is left for the end of the run.
GiveUp(s) ==
  /\ Awaiting /\ s \in Bundle \ hand /\ Pending(s)
  /\ hand' = hand \cup {s} /\ held' = held \ {s}
  /\ IF s \in held /\ s \in rows
     THEN rows' = rows \ {s} /\ \E actual \in 0..MaxActual : Settle(s, actual, "settled")
     ELSE UNCHANGED <<rows, ledgerVars, fate>>
  /\ UNCHANGED <<pc, todo, keys, unresolved, engine, claimVars>>

BundleOver ==
  /\ \/ Awaiting /\ \A s \in Bundle \ hand : ~Pending(s)
     \/ pc = "rollback" /\ hand = {}
  /\ pc' = "end" /\ hand' = {}
  /\ UNCHANGED <<todo, held, rows, keys, unresolved, engine, fate, ledgerVars, claimVars>>

\* A stage deadline or a stop cuts EXPLORE short, an exception any phase.
Abort ==
  /\ pc \in {"solo", "dispatch", "fire", "drop"}
  /\ pc' = "end" /\ hand' = {}
  /\ UNCHANGED <<todo, held, rows, keys, unresolved, engine, fate, ledgerVars, claimVars>>

EndBeginHeld ==          \* mutant: the coordinator's admissions are taken for the grants left
  /\ pc = "end" /\ pc' = "closing" /\ hand' = held \cap rows
  /\ UNCHANGED <<todo, held, rows, keys, unresolved, engine, fate, ledgerVars, claimVars>>

\* on_run_end lists the grants that are left ...
EndBegin ==
  /\ pc = "end" /\ pc' = "closing" /\ hand' = rows
  /\ UNCHANGED <<todo, held, rows, keys, unresolved, engine, fate, ledgerVars, claimVars>>

CloseQuietly(s) ==       \* mutant: closing at the declaration does not latch
  /\ pc = "closing" /\ s \in hand /\ Settle(s, Cost(s), "closed")
  /\ rows' = rows \ {s} /\ hand' = hand \ {s}
  /\ UNCHANGED <<pc, todo, held, keys, unresolved, engine, claimVars>>

\* ... and closes each at its declaration.  The ledger raises if a reader has settled it
\* in the meantime, and the route is not written.
CloseLeft(s) ==
  /\ pc = "closing" /\ s \in hand
  /\ IF s \in open
     THEN /\ Settle(s, Cost(s), "closed") /\ rows' = rows \ {s} /\ hand' = hand \ {s}
          /\ unresolved' = TRUE /\ UNCHANGED pc
     ELSE /\ pc' = "lost" /\ UNCHANGED <<rows, hand, unresolved, ledgerVars, fate>>
  /\ UNCHANGED <<todo, held, keys, engine, claimVars>>

\* The anchor's own cost, measured or as declared.
CloseAnchor ==
  /\ pc = "closing" /\ hand = {} /\ pc' = "claim"
  /\ IF Fallback THEN UNCHANGED <<ledgerVars, fate>>
                 ELSE \E actual \in 0..MaxActual : Settle(Anchor, actual, "settled")
  /\ UNCHANGED <<todo, hand, held, rows, keys, unresolved, engine, claimVars>>

WithinCaps == \A p \in Purposes : CommittedTo(p) <= Cap(p)

\* The claim also needs what lies outside the budget (wall clock, measurement, GPU).
Claim ==
  /\ pc = "claim" /\ pc' = "over"
  /\ claimed' \in {FALSE, /\ fate[Anchor] = "settled" /\ ~unresolved
                          /\ Committed <= CpuMs /\ WithinCaps}
  /\ inFlight' = {s \in Stages : engine[s] = "popped"}
  /\ UNCHANGED <<todo, hand, held, rows, keys, unresolved, engine, fate, ledgerVars>>

----------------------------------------------------------------------------
(* The engines' reader threads.                                            *)

\* The answer: the admission is taken from the coordinator, if it still has it ...
Answer(s) ==
  /\ engine[s] = "written" /\ held' = held \ {s}
  /\ engine' = [engine EXCEPT ![s] = IF s \in held THEN "answered" ELSE "done"]
  /\ UNCHANGED <<pc, todo, hand, rows, keys, unresolved, fate, ledgerVars, claimVars>>

\* ... then the row from the router ...
Pop(s) ==
  /\ engine[s] = "answered" /\ rows' = rows \ {s}
  /\ engine' = [engine EXCEPT ![s] = IF s \in rows THEN "popped" ELSE "done"]
  /\ UNCHANGED <<pc, todo, hand, held, keys, unresolved, fate, ledgerVars, claimVars>>

\* ... then the ledger is told; that it raises is only noted.
SettleStage(s) ==
  /\ engine[s] = "popped" /\ engine' = [engine EXCEPT ![s] = "done"]
  /\ IF s \in open THEN \E actual \in 0..MaxActual : Settle(s, actual, "settled")
                   ELSE UNCHANGED <<ledgerVars, fate>>
  /\ UNCHANGED <<pc, todo, hand, held, rows, keys, unresolved, claimVars>>

\* An engine that exits leaves its grant behind.
Exit(s) ==
  /\ engine[s] = "written" /\ engine' = [engine EXCEPT ![s] = "done"]
  /\ UNCHANGED <<pc, todo, hand, held, rows, keys, unresolved, fate, ledgerVars, claimVars>>

----------------------------------------------------------------------------
Worker(s) ==
  \/ AdmitSolo(s) \/ DenySolo(s) \/ AdmitMember(s) \/ Rollback(s) \/ Fire(s) \/ Withdraw(s)
  \/ Write(s) \/ WriteFails(s) \/ Drop(s) \/ GiveUp(s) \/ CloseLeft(s)

Reader(s) == Answer(s) \/ Pop(s) \/ SettleStage(s) \/ Exit(s)

Next ==
  \/ Start \/ Charge \/ DenyMember \/ Prepare \/ SoloOver \/ BundleOver \/ Abort
  \/ EndBegin \/ CloseAnchor \/ Claim
  \/ \E s \in Stages : Worker(s) \/ Reader(s)

Spec == Init /\ [][Next]_vars

----------------------------------------------------------------------------
TypeOK ==
  /\ pc \in {"start", "solo", "dispatch", "bundle", "rollback", "admitted", "fire", "drop",
             "end", "closing", "claim", "over", "lost"}
  /\ {todo, hand, held, rows, keys, inFlight} \subseteq SUBSET Stages
  /\ unresolved \in BOOLEAN /\ claimed \in BOOLEAN /\ excess \in Nat
  /\ engine \in [Stages -> {"idle", "written", "answered", "popped", "done"}]
  /\ fate \in [Stages \cup {Anchor} -> {"none", "settled", "released", "closed"}]
  /\ open \subseteq Stages \cup {Anchor}
  /\ reserved \in [Purposes -> Nat] /\ spent \in [Purposes -> Nat]
  /\ replay \in [open : SUBSET (Stages \cup {Anchor}), spent : [Purposes -> Nat], ok : BOOLEAN]

\* The journal alone reproduces the accounts, and finds every reservation affordable when
\* it was admitted (orchestration_integrity.py:593).
ReplayAgrees ==
  /\ replay.ok /\ replay.open = open /\ replay.spent = spent
  /\ \A p \in Purposes : reserved[p] = OpenCost(open, p)

\* Threads that reserve together never exceed the envelope: what is committed beyond it is
\* an overrun or a controller charge, recorded and never reserved (budget.py:294).
NoOvercommit == Committed <= CpuMs + excess

\* Work whose go reached an engine is never released as if it had cost nothing.
WorkIsPaid == \A s \in Stages : engine[s] # "idle" => fate[s] # "released"

\* Outside the grant lock a bundle has all its reservations or none: "zero partial bundle
\* authority survives" (routing.py:994).
BundleIsWhole ==
  pc \notin {"bundle", "rollback"} =>
    Bundle \subseteq keys \/ Bundle \cap (keys \cup rows \cup open) = {}

\* Once the router has closed the run no capacity stays reserved, except what a reader has
\* taken out of the router's hands and is about to settle.
NothingLeftOpen ==
  pc \in {"claim", "over"} => open \subseteq {s \in Stages : engine[s] = "popped"}

\* A run that claims its envelope is within every cap for good, and whoever saw a search
\* end settled it, if no settlement was in a reader's hands when the claim was made: the
\* declaration of a search "is not evidence of actual consumption" (routing.py:1344).
ClaimIsBacked ==
  claimed /\ inFlight = {} =>
    /\ open = {} /\ Committed <= CpuMs /\ WithinCaps
    /\ \A s \in Stages : engine[s] # "idle" => fate[s] = "settled"
=============================================================================
