------------------------------ MODULE RefineRun ------------------------------
(***************************************************************************)
(* The REFINE phase of a shadow run (controller/shadow.py) with the        *)
(* artifact it fills (controller/refinement.py), the engines it takes to   *)
(* other positions and back (controller/runtime.py), and the barrier of    *)
(* the command loop that may overtake it.                                  *)
(*                                                                         *)
(* The run's worker takes one scope after another: the targets of the      *)
(* plan, then the nominated prefixes below them.  For each it asks the     *)
(* oracle for the children, splits the shard, takes the owners' engines    *)
(* to the scope, has each search its own children, and brings them back.   *)
(* Answers and exits come on one reader thread per engine.  An owner       *)
(* stands for its engine.                                                  *)
(*                                                                         *)
(* Every configuration that refines is offline (config/*refine*, specialist*)
(* ...): the barrier is quiesce, not _quiesce_clock.  Stream files,        *)
(* manifests and resource stages are left out; so is the text of a reason. *)
(***************************************************************************)
EXTENDS Naturals, Sequences, FiniteSets

CONSTANTS
    NumOwners,      \* owners, in the plan's order
    Oracle,         \* the engine that answers perft, also an owner's
    NumTargets,     \* the plan's targets, in order
    RootOwner,      \* the owner that nominated the first of them
    MaxChildren,    \* bound: children of a target, see Width
    MaxDepth,       \* settings.max_depth
    MaxExpansions,  \* settings.max_expansions
    MaxDeaths,      \* bound: engines that die of themselves
    None

Owners == 1 .. NumOwners

ASSUME OwnersAssumption == NumOwners \in Nat /\ {Oracle, RootOwner} \subseteq Owners
ASSUME BoundsAssumption ==
    /\ {NumTargets, MaxChildren, MaxDepth, MaxExpansions, MaxDeaths} \subseteq Nat
    /\ NumTargets <= NumOwners
ASSUME NoneAssumption == None \notin Nat \cup Seq(Nat)

VARIABLES
    w,          \* the worker's step
    scope,      \* the prefix it is working on
    job,        \* set_shadow_position: why, which engine, to where
    todo,       \* owners its loop has still to serve
    prepared,   \* prepared_instances
    children,   \* what the oracle answered, or None
    clean,      \* dispatched_all, and restored so far
    queue,      \* targets to come, or nominations: the prefix and its owner
    nominated,  \* what the targets nominated
    phase,      \* "target" or "recursive"
    expansions, \* expansions_started
    shard,      \* the prefix ledger: prefix -> owner and state
    stage,      \* <<scope, owner>> -> disposition, once it is recorded
    disp,       \* scope -> disposition, once it is registered
    abort,      \* scopes whose abort_requested is set
    refine,     \* the artifact's disposition
    positioned, \* active.refinement_positioned
    asking,     \* active.refinement_oracle_active
    tokens,     \* active.specialist_tokens
    cancelled, anchor,            \* active.cancelled, active.anchor_completed
    alive, health, pos, search,   \* of each engine: process, record, position, subscription
    reader,     \* of each engine: the reader's step, the scope, the disposition so far
    m,          \* the command loop's step
    drained,    \* what quiesce returned
    serve,      \* what the loop of its step has still to serve
    command     \* _position_command

item     == <<scope, job, todo, prepared, children, clean>>
plan     == <<queue, nominated, phase, expansions>>
artifact == <<stage, disp, abort, refine>>
run      == <<positioned, asking, tokens>>
ends     == <<cancelled, anchor>>
engines  == <<alive, health, pos, search>>
main     == <<m, drained, serve, command>>
vars     == <<w, item, plan, shard, artifact, run, ends, engines, reader, main>>

\* A position is a prefix below the run's own; no move has the number 0.
Old   == <<>>
New   == <<0>>      \* after the next command
Idle  == [at |-> "idle", of |-> None, as |-> "completed"]
NoJob == [why |-> "none", i |-> None, to |-> Old]

\* Bound: a position deeper down has fewer children.
Width(p)    == MaxChildren \div Len(p)
Children(p) == {Append(p, k) : k \in 1 .. MaxChildren}
Kids(p)     == Children(p) \cap DOMAIN shard
Share(p, o) == {c \in Kids(p) : shard[c].owner = o}
Required(p) == {o \in Owners : Share(p, o) # {}}

\* Owners explore disjoint roots: each target was nominated by another one.
SourceOwner(k) == ((RootOwner + k - 2) % NumOwners) + 1

\* partition_children: child k goes to the owners in turn.
Deal(k) == ((k - 1) % NumOwners) + 1

Put(f, k, v) == [x \in DOMAIN f \cup {k} |-> IF x = k THEN v ELSE f[x]]
Mark(S, o, as) == [p \in DOMAIN shard |-> IF p \in S THEN [owner |-> o, state |-> as] ELSE shard[p]]

Running(s)   == {o \in Owners : <<s, o>> \in DOMAIN stage /\ stage[<<s, o>>] = "running"}
Active       == {q \in DOMAIN stage : stage[q] = "running"}
Available(i) == health[i] /\ alive[i]
Bounded      == cancelled \/ anchor     \* the decision boundary, or a cancellation
First(S)     == CHOOSE o \in S : \A p \in S : o <= p     \* in the plan's order
OracleKey(p) == <<p, "oracle">>
Gone         == w \in {"done", "gone"}  \* the run is finished, orderly or not

Init ==
    /\ w = "pick" /\ scope = <<>> /\ job = NoJob /\ todo = {} /\ prepared = {}
    /\ children = None /\ clean = TRUE
    /\ queue = [k \in 1 .. NumTargets |-> [of |-> <<k>>, by |-> SourceOwner(k)]] /\ nominated = <<>>
    /\ phase = "target" /\ expansions = 0
    /\ shard = [p \in {<<k>> : k \in 1 .. NumTargets} |->
                  [owner |-> SourceOwner(p[1]), state |-> "sealed"]]
    /\ stage = <<>> /\ disp = <<>> /\ abort = {} /\ refine = "running"
    /\ positioned = {} /\ asking = FALSE /\ tokens = {}
    /\ cancelled = FALSE /\ anchor = FALSE
    /\ alive = [i \in Owners |-> TRUE] /\ health = [i \in Owners |-> TRUE]
    /\ pos = [i \in Owners |-> Old] /\ search = [i \in Owners |-> None]
    /\ reader = [i \in Owners |-> Idle]
    /\ m = "idle" /\ drained = FALSE /\ serve = {} /\ command = Old

-----------------------------------------------------------------------------
(* The worker: which scope is next *)

PickTarget ==
    /\ w = "pick" /\ phase = "target" /\ queue # <<>>
    /\ scope' = Head(queue).of /\ queue' = Tail(queue)
    /\ IF Bounded THEN w' = "end" /\ refine' = "incomplete"
                  ELSE w' = "ask" /\ UNCHANGED refine
    /\ UNCHANGED <<job, todo, prepared, children, clean, nominated, phase, expansions,
                   shard, stage, disp, abort, run, ends, engines, reader, main>>

\* Every target was completed: the nominations follow, if the plan goes deeper
\* than two moves.
Deepen ==
    /\ w = "pick" /\ phase = "target" /\ queue = <<>>
    /\ IF refine = "running" /\ MaxDepth > 2
       THEN phase' = "recursive" /\ queue' = nominated /\ nominated' = <<>> /\ UNCHANGED w
       ELSE w' = "end" /\ UNCHANGED <<phase, queue, nominated>>
    /\ UNCHANGED <<item, expansions, shard, artifact, run, ends, engines, reader, main>>

\* A boundary or a cap ends the phase normally, a depth cap skips the
\* nomination; a nomination that is no sealed leaf of its owner is an error.
PickNomination ==
    /\ w = "pick" /\ phase = "recursive"
    /\ IF queue = <<>> \/ Bounded
       THEN w' = "end" /\ UNCHANGED <<scope, queue, refine>>
       ELSE LET next == Head(queue) IN
            /\ queue' = Tail(queue)
            /\ CASE Len(next.of) >= MaxDepth -> UNCHANGED <<w, scope, refine>>
                 [] Len(next.of) < MaxDepth /\ expansions >= MaxExpansions ->
                       w' = "end" /\ UNCHANGED <<scope, refine>>
                 [] OTHER ->
                       /\ scope' = next.of
                       /\ IF shard[next.of] = [owner |-> next.by, state |-> "sealed"]
                          THEN w' = "ask" /\ UNCHANGED refine
                          ELSE w' = "end" /\ refine' = "incomplete"
    /\ UNCHANGED <<job, todo, prepared, children, clean, nominated, phase, expansions,
                   shard, stage, disp, abort, run, ends, engines, reader, main>>

\* Leave a scope without having searched it: fatal for a target, the end of
\* one expansion for a nomination.
Forgo ==
    IF phase = "target" THEN w' = "end" /\ refine' = "incomplete" /\ UNCHANGED expansions
                        ELSE w' = "pick" /\ expansions' = expansions + 1 /\ UNCHANGED refine

\* Under the coordinator's lock: the boundary, the budget, the reservation.
Ask ==
    /\ w = "ask"
    /\ \/ /\ Bounded /\ Forgo /\ UNCHANGED <<job, children, asking, tokens>>
       \/ /\ ~Bounded                               \* denied by the budget
          /\ w' = "end" /\ refine' = (IF phase = "target" THEN "incomplete" ELSE refine)
          /\ UNCHANGED <<job, children, expansions, asking, tokens>>
       \/ /\ ~Bounded
          /\ tokens' = tokens \cup {OracleKey(scope)} /\ asking' = TRUE
          /\ job' = [why |-> "ask", i |-> Oracle, to |-> scope] /\ w' = "write"
          /\ children' = None
          /\ UNCHANGED <<refine, expansions>>
    /\ UNCHANGED <<scope, todo, prepared, clean, queue, nominated, phase, shard, stage,
                   disp, abort, positioned, ends, engines, reader, main>>

-----------------------------------------------------------------------------
(* set_shadow_position: a write, then readyok.  What follows depends on why. *)

\* A scope and the run are incomplete.
Incomplete(s) == refine' = "incomplete" /\ disp' = [disp EXCEPT ![s] = "incomplete"]

Failed ==
    /\ w' = CASE job.why = "ask"      -> "back"
              [] job.why = "askback"  -> "asked"
              [] job.why = "place"    -> "restore"
              [] job.why \in {"restore", "mend"} -> "unplaced"
    /\ CASE job.why \in {"place", "restore"} -> Incomplete(scope) /\ clean' = FALSE
         [] job.why = "mend" -> refine' = "incomplete" /\ UNCHANGED <<disp, clean>>
         [] OTHER -> UNCHANGED <<refine, disp, clean>>
    /\ children' = IF job.why \in {"ask", "askback"} THEN None ELSE children

\* Unavailable or still searching: refused, with nothing recorded of the
\* engine.  A write that times out kills it.
PositionWrite ==
    /\ w = "write"
    /\ LET i == job.i IN
       \/ /\ ~Available(i) \/ search[i] # None
          /\ Failed /\ UNCHANGED <<alive, health, pos>>
       \/ /\ Available(i) /\ search[i] = None
          /\ pos' = [pos EXCEPT ![i] = job.to] /\ w' = "ready"
          /\ UNCHANGED <<alive, health, refine, disp, clean, children>>
       \/ /\ Available(i) /\ search[i] = None
          /\ alive' = [alive EXCEPT ![i] = FALSE] /\ health' = [health EXCEPT ![i] = FALSE]
          /\ Failed /\ UNCHANGED pos
    /\ UNCHANGED <<scope, job, todo, prepared, plan, shard, stage, abort, run, ends, search,
                   reader, main>>

\* readyok, or its timeout, or the end of the engine.
PositionReady ==
    /\ w = "ready"
    /\ \/ /\ alive[job.i]
          /\ w' = CASE job.why = "ask"     -> "perft"
                    [] job.why = "askback" -> "asked"
                    [] job.why = "place"   -> "placed"
                    [] job.why \in {"restore", "mend"} -> "unplaced"
          /\ UNCHANGED <<health, refine, disp, clean, children>>
       \/ Failed /\ health' = [health EXCEPT ![job.i] = FALSE]
    /\ UNCHANGED <<scope, job, todo, prepared, plan, shard, stage, abort, run, ends, alive,
                   pos, search, reader, main>>

\* legal_root_moves, at the scope.
Perft ==
    /\ w = "perft" /\ w' = "back"
    /\ \/ /\ alive[Oracle] /\ search[Oracle] = None
          /\ \E n \in 0 .. Width(scope) : children' = n
          /\ UNCHANGED health
       \/ UNCHANGED children /\ health' = [health EXCEPT ![Oracle] = FALSE]
    /\ UNCHANGED <<scope, job, todo, prepared, clean, plan, shard, artifact, run, ends,
                   alive, pos, search, reader, main>>

\* Mutant: the oracle is left where it was asked.
MutOracleBack ==
    /\ w = "back" /\ w' = "asked"
    /\ UNCHANGED <<item, plan, shard, artifact, run, ends, engines, reader, main>>

\* restore_shadow_position reads the position under the manager's lock.
OracleBack ==
    /\ w = "back" /\ w' = "write"
    /\ job' = [why |-> "askback", i |-> Oracle, to |-> command]
    /\ UNCHANGED <<scope, todo, prepared, children, clean, plan, shard, artifact, run, ends,
                   engines, reader, main>>

\* The finally clause: settle, then the flag.
Asked ==
    /\ w = "asked"
    /\ tokens' = tokens \ {OracleKey(scope)} /\ asking' = FALSE /\ job' = NoJob
    /\ IF children = None THEN w' = "end" /\ refine' = "incomplete"
                          ELSE w' = "split" /\ UNCHANGED refine
    /\ UNCHANGED <<scope, todo, prepared, children, clean, plan, shard, stage, disp, abort,
                   positioned, ends, engines, reader, main>>

-----------------------------------------------------------------------------
(* The worker: split, take the engines there, dispatch *)

Terminal ==
    /\ w = "split" /\ children = 0
    /\ disp' = Put(disp, scope, "terminal")
    /\ w' = "pick"
    /\ expansions' = IF phase = "recursive" THEN expansions + 1 ELSE expansions
    /\ UNCHANGED <<item, queue, nominated, phase, shard, stage, abort, refine, run, ends,
                   engines, reader, main>>

\* split_shard leaves every child with the parent's owner, and transfer_shards
\* hands the shares on; then a stream is opened for each owner with a share.
Split ==
    /\ w = "split" /\ children > 0
    /\ prepared' = {} /\ children' = None
    /\ UNCHANGED <<scope, job, plan, stage, abort, run, ends, engines, reader, main>>
    /\ LET kids == {Append(scope, k) : k \in 1 .. children} IN
       shard' = [p \in DOMAIN shard \cup kids |->
                   IF p \in kids THEN [owner |-> Deal(p[Len(p)]), state |-> "leased"]
                   ELSE IF p = scope THEN [shard[p] EXCEPT !.state = "retired"]
                   ELSE shard[p]]
    /\ \/ /\ disp' = Put(disp, scope, "running") /\ todo' = Required(scope)'
          /\ w' = "place" /\ clean' = TRUE /\ UNCHANGED refine
       \/ /\ disp' = Put(disp, scope, "incomplete") /\ refine' = "incomplete" /\ todo' = {}
          /\ w' = "restore" /\ clean' = FALSE

Place ==
    /\ w = "place"
    /\ IF todo = {}
       THEN /\ w' = "dispatch" /\ todo' = Required(scope)
            /\ UNCHANGED <<job, clean, refine, disp>>
       ELSE IF Bounded \/ ~Available(First(todo))
       THEN w' = "restore" /\ clean' = FALSE /\ Incomplete(scope) /\ todo' = {} /\ UNCHANGED job
       ELSE /\ job' = [why |-> "place", i |-> First(todo), to |-> scope] /\ w' = "write"
            /\ todo' = todo \ {First(todo)} /\ UNCHANGED <<clean, refine, disp>>
    /\ UNCHANGED <<scope, prepared, children, plan, shard, stage, abort, run, ends, engines,
                   reader, main>>

\* The engine is known to be away only now that it is there.
Placed ==
    /\ w = "placed" /\ w' = "place"
    /\ prepared' = prepared \cup {job.i} /\ positioned' = positioned \cup {job.i}
    /\ job' = NoJob
    /\ UNCHANGED <<scope, todo, children, clean, plan, shard, artifact, asking, tokens,
                   ends, engines, reader, main>>

\* A stage could not be dispatched: the scope is aborted, and what is already
\* searching is asked to stop.
DispatchFails ==
    /\ Incomplete(scope) /\ clean' = FALSE /\ w' = "await" /\ todo' = {}
    /\ abort' = abort \cup {scope}

Leased(p, o) == \A c \in Share(p, o) : shard[c].state = "leased"

\* Under the lock: the boundary, the health, the budget, the owner's shards one
\* by one up to the first one refused, the stage.
Dispatch ==
    /\ w = "dispatch"
    /\ IF todo = {} THEN w' = "await" /\ UNCHANGED <<clean, refine, disp, abort, shard,
                                                       stage, tokens, todo>>
       ELSE LET o == First(todo) IN
            \/ /\ DispatchFails                   \* refused, or denied by the budget
               /\ UNCHANGED <<shard, stage, tokens>>
            \/ /\ ~Bounded /\ Available(o)
               /\ IF Leased(scope, o)
                  THEN /\ shard' = Mark(Share(scope, o), o, "active")
                       /\ stage' = Put(stage, <<scope, o>>, "running")
                       /\ tokens' = tokens \cup {<<scope, o>>}
                       /\ w' = "go" /\ UNCHANGED <<clean, refine, disp, abort, todo>>
                  ELSE /\ DispatchFails /\ UNCHANGED <<stage, tokens>>
                       /\ \E some \in SUBSET Share(scope, o) :
                             shard' = Mark(some, o, "active")
    /\ UNCHANGED <<scope, job, prepared, children, plan, positioned, asking, ends, engines,
                   reader, main>>

\* Mutant: the last disposition stands.
MutRecord(p, o, d) == [stage EXCEPT ![<<p, o>>] = d]

\* record_completion: the first disposition stands.
Record(p, o, d) == IF stage[<<p, o>>] = "running" THEN [stage EXCEPT ![<<p, o>>] = d] ELSE stage

\* start_shadow_search: the permit is read again where the bytes are written.
\* Unavailable, rejected before the write, failed, or started; or the engine dies
\* under the write: the exception of a broken pipe is caught by _run_worker only.
Go ==
    /\ w = "go"
    /\ LET o == First(todo) IN
       \/ /\ ~Available(o) \/ search[o] # None
          /\ stage' = Record(scope, o, "failed") /\ tokens' = tokens \ {<<scope, o>>}
          /\ health' = [health EXCEPT ![o] = health[o] /\ search[o] = None]
          /\ DispatchFails /\ UNCHANGED <<alive, search>>
       \/ /\ Available(o) /\ Bounded
          /\ stage' = Record(scope, o, "stopped") /\ tokens' = tokens \ {<<scope, o>>}
          /\ DispatchFails /\ UNCHANGED <<alive, health, search>>
       \/ /\ Available(o) /\ search[o] = None /\ ~Bounded
          /\ stage' = Record(scope, o, "failed") /\ tokens' = tokens \ {<<scope, o>>}
          /\ alive' = [alive EXCEPT ![o] = FALSE] /\ health' = [health EXCEPT ![o] = FALSE]
          /\ DispatchFails /\ UNCHANGED search
       \/ /\ Available(o) /\ search[o] = None /\ ~Bounded
          /\ alive' = [alive EXCEPT ![o] = FALSE] /\ w' = "error"
          /\ UNCHANGED <<stage, tokens, health, search, clean, refine, disp, abort, todo>>
       \/ /\ Available(o) /\ search[o] = None /\ ~Bounded
          /\ search' = [search EXCEPT ![o] = scope]
          /\ todo' = todo \ {o} /\ w' = "dispatch"
          /\ UNCHANGED <<stage, tokens, alive, health, clean, refine, disp, abort>>
    /\ UNCHANGED <<scope, job, prepared, children, plan, shard, positioned, asking, ends,
                   pos, reader, main>>

-----------------------------------------------------------------------------
(* The worker: wait, bring the engines back, close the scope *)

\* All done; or a stage is over its deadline, and all are asked to stop: a reader
\* that is past its look at abort still completes its stage.
Await ==
    /\ w = "await"
    /\ IF Running(scope) = {}
       THEN w' = "restore" /\ UNCHANGED <<abort, disp>>
       ELSE /\ w' = "drain" /\ abort' = abort \cup {scope}
            /\ disp' = [disp EXCEPT ![scope] = "incomplete"]
    /\ UNCHANGED <<item, plan, shard, stage, refine, run, ends, engines, reader, main>>

\* Mutant: the drain has no deadline.
MutDrain ==
    /\ w = "drain" /\ Running(scope) = {} /\ w' = "restore"
    /\ UNCHANGED <<item, plan, shard, artifact, run, ends, engines, reader, main>>

\* What has not drained in time is failed, one stage after another.  Nothing is
\* returned: what completed all the same is closed as if in time.  (The phase is
\* set once, at the end; only this worker reads it.)
Drain ==
    /\ w = "drain" /\ Incomplete(scope)
    /\ IF Running(scope) = {}
       THEN w' = "restore" /\ UNCHANGED <<stage, tokens, health>>
       ELSE \E o \in Running(scope) :
               /\ health' = [health EXCEPT ![o] = FALSE]
               /\ stage' = Record(scope, o, "failed") /\ tokens' = tokens \ {<<scope, o>>}
               /\ UNCHANGED w
    /\ UNCHANGED <<item, plan, shard, abort, positioned, asking, ends, alive, pos, search,
                   reader, main>>

\* In the course of the phase, or ("mend") to clean up after an exception.
Restore ==
    /\ w \in {"restore", "mend"}
    /\ IF prepared = {}
       THEN /\ w' = IF w = "restore" THEN "close" ELSE "over"
            /\ UNCHANGED <<job, prepared, clean, positioned>>
       ELSE LET i == First(prepared) IN
            IF Available(i)
            THEN /\ job' = [why |-> w, i |-> i, to |-> command] /\ w' = "write"
                 /\ UNCHANGED <<prepared, clean, positioned>>
            ELSE /\ clean' = FALSE /\ prepared' = prepared \ {i}
                 /\ positioned' = positioned \ {i} /\ UNCHANGED <<w, job>>
    /\ UNCHANGED <<scope, todo, children, plan, shard, artifact, asking, tokens, ends,
                   engines, reader, main>>

\* The finally clause: also an engine that did not come back is discarded.
Unplaced ==
    /\ w = "unplaced" /\ w' = job.why
    /\ prepared' = prepared \ {job.i} /\ positioned' = positioned \ {job.i}
    /\ job' = NoJob
    /\ UNCHANGED <<scope, todo, children, clean, plan, shard, artifact, asking, tokens,
                   ends, engines, reader, main>>

\* A completed stage nominates the child its bestmove names, in the owners' order.
InOrder(S) ==
    {by \in [1 .. Cardinality(S) -> S] : \A j, k \in DOMAIN by : j < k => by[j] < by[k]}
Nominations(pick) ==
    {[k \in DOMAIN by |-> [of |-> pick[by[k]], by |-> by[k]]] :
         by \in InOrder({o \in Owners : pick[o] # None})}

Close ==
    /\ w = "close"
    /\ IF clean /\ \A o \in Required(scope) : stage[<<scope, o>>] = "completed"
       THEN /\ disp' = [disp EXCEPT ![scope] = "completed"] /\ w' = "pick"
            /\ \E pick \in [Owners -> Kids(scope) \cup {None}] :
                  /\ \A o \in Owners : pick[o] # None => pick[o] \in Share(scope, o)
                  /\ \E more \in Nominations(pick) :
                        IF phase = "target"
                        THEN nominated' = nominated \o more /\ UNCHANGED <<queue, expansions>>
                        ELSE queue' = queue \o more /\ expansions' = expansions + 1
                             /\ UNCHANGED nominated
            /\ UNCHANGED refine
       ELSE /\ Incomplete(scope) /\ w' = "end" /\ UNCHANGED <<queue, nominated, expansions>>
    /\ UNCHANGED <<item, phase, shard, stage, abort, run, ends, engines, reader, main>>

\* Mutant: the disposition is not read.
MutEnd ==
    /\ w = "end" /\ w' = "complete"
    /\ UNCHANGED <<item, plan, shard, artifact, run, ends, engines, reader, main>>

\* _execute_refinement returns: the disposition is read, then written.
End ==
    /\ w = "end" /\ w' = (IF refine = "running" THEN "complete" ELSE "over")
    /\ UNCHANGED <<item, plan, shard, artifact, run, ends, engines, reader, main>>

Complete ==
    /\ w = "complete" /\ w' = "over" /\ refine' = "completed"
    /\ UNCHANGED <<item, plan, shard, stage, disp, abort, run, ends, engines, reader, main>>

-----------------------------------------------------------------------------
(* The worker: what _run_worker does after an exception, and at the end *)

\* The request is cancelled, and every engine is asked to stop.
CleanUp ==
    /\ w = "error" /\ w' = "cleanup" /\ cancelled' = TRUE /\ todo' = Running(scope)
    /\ UNCHANGED <<scope, job, prepared, children, clean, plan, shard, artifact, run, anchor,
                   engines, reader, main>>

\* A stage that has not drained in time is failed; but the scope is set through
\* set_target_disposition, which raises for an expansion and ends the cleanup.
Abandon ==
    /\ w = "cleanup" /\ todo # {}
    /\ LET o == First(todo) IN
       /\ todo' = todo \ {o}
       /\ IF o \notin Running(scope)
          THEN UNCHANGED <<w, stage, tokens, health, disp, refine>>
          ELSE /\ health' = [health EXCEPT ![o] = FALSE]
               /\ stage' = Record(scope, o, "failed") /\ tokens' = tokens \ {<<scope, o>>}
               /\ IF phase = "target" THEN Incomplete(scope) /\ UNCHANGED w
                                      ELSE w' = "stranded" /\ UNCHANGED <<disp, refine>>
    /\ UNCHANGED <<scope, job, prepared, children, clean, plan, shard, abort, positioned,
                   asking, ends, alive, pos, search, reader, main>>

\* _restore_all_refinement_positions takes its list from the record.
MendAll == w' = "mend" /\ prepared' = positioned

\* Every stage is over.
Recover ==
    /\ w = "cleanup" /\ todo = {} /\ MendAll
    /\ UNCHANGED <<scope, job, todo, children, clean, plan, shard, artifact, run, ends, engines,
                   reader, main>>

\* The run ends when the anchor has: what an exception left behind is brought
\* back now, unless a stage is still active.
Finish ==
    /\ w \in {"over", "stranded"} /\ anchor
    /\ IF Active = {} /\ positioned # {}
       THEN MendAll
       ELSE w' = (IF w = "over" THEN "done" ELSE "gone") /\ UNCHANGED prepared
    /\ UNCHANGED <<scope, job, todo, children, clean, plan, shard, artifact, run, ends, engines,
                   reader, main>>

Worker ==
    \/ PickTarget \/ Deepen \/ PickNomination \/ Ask \/ PositionWrite \/ PositionReady \/ Perft
    \/ OracleBack \/ Asked \/ Terminal \/ Split \/ Place \/ Placed \/ Dispatch \/ Go \/ Await
    \/ Drain \/ Restore \/ Unplaced \/ Close \/ End \/ Complete \/ CleanUp \/ Abandon \/ Recover
    \/ Finish

-----------------------------------------------------------------------------
(* The readers *)

Step(i, r) == reader' = [reader EXCEPT ![i] = r]

\* bestmove: the subscription ends, then the callback runs, unless its run is gone.
Answer(i) ==
    /\ reader[i].at = "idle" /\ search[i] # None
    /\ search' = [search EXCEPT ![i] = None]
    /\ Step(i, IF Gone THEN Idle ELSE [Idle EXCEPT !.at = "audit", !.of = search[i]])
    /\ UNCHANGED <<w, item, plan, shard, artifact, run, ends, alive, health, pos, main>>

\* The bestmove and the telemetry stay within the children, or not; the
\* resource stage is settled either way.
Audit(i) ==
    /\ reader[i].at = "audit"
    /\ \E verdict \in {"completed", "failed"} :
           Step(i, [reader[i] EXCEPT !.at = IF verdict = "failed" THEN "record" ELSE "judge",
                                     !.as = verdict])
    /\ tokens' = tokens \ {<<reader[i].of, i>>}
    /\ UNCHANGED <<w, item, plan, shard, artifact, positioned, asking, ends, engines, main>>

Judge(i) ==
    /\ reader[i].at = "judge"
    /\ Step(i, IF cancelled \/ reader[i].of \in abort
               THEN [reader[i] EXCEPT !.at = "record", !.as = "stopped"]
               ELSE [reader[i] EXCEPT !.at = "seal"])
    /\ UNCHANGED <<w, item, plan, shard, artifact, run, ends, engines, main>>

\* Mutant: a completion is recorded, but its children are not sealed.
MutSeal(i) ==
    /\ reader[i].at = "seal" /\ Step(i, [reader[i] EXCEPT !.at = "reread"])
    /\ UNCHANGED <<w, item, plan, shard, artifact, run, ends, engines, main>>

\* seal_shard, of one child after another.
Seal(i) ==
    /\ reader[i].at = "seal"
    /\ LET share == Share(reader[i].of, i) IN
       IF \A c \in share : shard[c].state = "active"
       THEN /\ shard' = Mark(share, i, "sealed")
            /\ Step(i, [reader[i] EXCEPT !.at = "reread"])
       ELSE /\ UNCHANGED shard
            /\ Step(i, [reader[i] EXCEPT !.at = "record", !.as = "failed"])
    /\ UNCHANGED <<w, item, plan, artifact, run, ends, engines, main>>

\* A cancellation is read again, without the lock.
Reread(i) ==
    /\ reader[i].at = "reread"
    /\ Step(i, [reader[i] EXCEPT !.at = "record", !.as = IF cancelled THEN "stopped" ELSE @])
    /\ UNCHANGED <<w, item, plan, shard, artifact, run, ends, engines, main>>

\* record_completion.
Report(i) ==
    /\ reader[i].at = "record" /\ Step(i, Idle)
    /\ LET s == reader[i].of  as == reader[i].as IN
       /\ stage' = Record(s, i, as)
       /\ IF as = "failed" THEN health' = [health EXCEPT ![i] = FALSE] /\ Incomplete(s)
                           ELSE UNCHANGED <<health, refine, disp>>
    /\ UNCHANGED <<w, item, plan, shard, abort, run, ends, alive, pos, search, main>>

\* The end of the output: the subscription ends and the engine is unhealthy.
Exit(i) ==
    /\ ~alive[i] /\ reader[i].at = "idle"
    /\ search' = [search EXCEPT ![i] = None] /\ health' = [health EXCEPT ![i] = FALSE]
    /\ Step(i, [Idle EXCEPT !.at = IF Gone THEN "ended" ELSE "exit"])
    /\ UNCHANGED <<w, item, plan, shard, artifact, run, ends, alive, pos, main>>

\* on_shadow_exit: the stage the engine was working on is failed.
ExitStage(i) ==
    /\ reader[i].at = "exit" /\ Step(i, [Idle EXCEPT !.at = "ended"])
    /\ LET mine == {q \in Active : q[2] = i} IN
       IF mine = {} THEN UNCHANGED <<stage, tokens, refine, disp>>
       ELSE \E q \in mine :
               /\ stage' = Record(q[1], i, "failed") /\ tokens' = tokens \ {q}
               /\ Incomplete(q[1])
    /\ UNCHANGED <<w, item, plan, shard, abort, positioned, asking, ends, engines, main>>

Reader(i) ==
    \/ Answer(i) \/ Audit(i) \/ Judge(i) \/ Seal(i) \/ Reread(i) \/ Report(i)
    \/ Exit(i) \/ ExitStage(i)

-----------------------------------------------------------------------------
(* What happens to the run *)

Die(i) ==
    /\ alive[i] /\ Cardinality({j \in Owners : ~alive[j]}) < MaxDeaths
    /\ alive' = [alive EXCEPT ![i] = FALSE]
    /\ UNCHANGED <<w, item, plan, shard, artifact, run, ends, health, pos, search, reader, main>>

\* note_anchor_complete.
AnchorComplete ==
    /\ ~anchor /\ anchor' = TRUE
    /\ UNCHANGED <<w, item, plan, shard, artifact, run, cancelled, engines, reader, main>>

\* The user's stop, on_anchor_complete = "cancel", or a failure of the runtime.
Cancel ==
    /\ ~cancelled /\ cancelled' = TRUE
    /\ UNCHANGED <<w, item, plan, shard, artifact, run, anchor, engines, reader, main>>

-----------------------------------------------------------------------------
(* The command loop: quiesce, then set_position *)

Barrier ==
    /\ m = "idle" /\ anchor
    /\ cancelled' = TRUE /\ m' = "wait"
    /\ UNCHANGED <<w, item, plan, shard, artifact, run, anchor, engines, reader, drained, serve,
                   command>>

\* Drained; or its timeout: what is still running by then is failed.
Waited ==
    /\ m = "wait"
    /\ \/ Gone /\ drained' = TRUE /\ serve' = Owners /\ m' = "sync"
       \/ /\ drained' = FALSE /\ m' = "fail"
          /\ serve' = Active
    /\ UNCHANGED <<w, item, plan, shard, artifact, run, ends, engines, reader, command>>

FailStage ==
    /\ m = "fail"
    /\ IF serve = {}
       THEN m' = "quarantine" /\ UNCHANGED <<stage, disp, refine, tokens, health, serve>>
       ELSE \E q \in serve :
            /\ health' = [health EXCEPT ![q[2]] = FALSE]
            /\ stage' = Record(q[1], q[2], "failed") /\ tokens' = tokens \ {q}
            /\ Incomplete(q[1]) /\ serve' = serve \ {q} /\ UNCHANGED m
    /\ UNCHANGED <<w, item, plan, shard, abort, positioned, asking, ends, alive, pos, search,
                   reader, drained, command>>

\* An engine that is known to be away is discarded;
Quarantine ==
    /\ m = "quarantine" /\ m' = "clear"
    /\ health' = [i \in Owners |-> health[i] /\ i \notin positioned]
    /\ refine' = IF positioned = {} THEN refine ELSE "incomplete"
    /\ UNCHANGED <<w, item, plan, shard, stage, disp, abort, run, ends, alive, pos, search,
                   reader, drained, serve, command>>

\* and the oracle, if it has not returned.
Clear ==
    /\ m = "clear" /\ m' = "sync" /\ serve' = Owners
    /\ positioned' = {}
    /\ IF asking THEN health' = [health EXCEPT ![Oracle] = FALSE] /\ refine' = "incomplete"
                 ELSE UNCHANGED <<health, refine>>
    /\ UNCHANGED <<w, item, plan, shard, stage, disp, abort, asking, tokens, ends, alive, pos,
                   search, reader, drained, command>>

\* Each engine that is available is sent the position, whatever it is doing; a
\* write that fails discards it.  The position is recorded at the end.
Sync ==
    /\ m = "sync"
    /\ IF serve = {}
       THEN m' = "done" /\ command' = New /\ UNCHANGED <<serve, alive, health, pos>>
       ELSE LET i == First(serve) IN
            /\ serve' = serve \ {i} /\ UNCHANGED <<m, command>>
            /\ \/ ~Available(i) /\ UNCHANGED <<alive, health, pos>>
               \/ /\ Available(i)
                  /\ pos' = [pos EXCEPT ![i] = New] /\ UNCHANGED <<alive, health>>
               \/ /\ Available(i) /\ UNCHANGED pos
                  /\ alive' = [alive EXCEPT ![i] = FALSE] /\ health' = [health EXCEPT ![i] = FALSE]
    /\ UNCHANGED <<w, item, plan, shard, artifact, run, ends, search, reader, drained>>

CommandLoop == Barrier \/ Waited \/ FailStage \/ Quarantine \/ Clear \/ Sync

Next ==
    \/ Worker \/ CommandLoop \/ AnchorComplete \/ Cancel
    \/ \E i \in Owners : Reader(i) \/ Die(i)

Spec == Init /\ [][Next]_vars

\* The worker runs, and every wait of its own has a deadline; nothing is asked
\* of the engines, the readers, the anchor or the command loop.
FairSpec == Spec /\ WF_vars(Worker)

-----------------------------------------------------------------------------
(* Properties *)

\* An engine that is trusted searches the position its stage was dispatched for,
\* also while the command loop overtakes the run (uci_frontend.py:569 "never
\* reaches a process still executing the previous generation").  Only a run that
\* finished after its cleanup raised may leave one to the next position.
SearchAtItsPosition ==
    \A i \in Owners :
        health[i] /\ search[i] # None => pos[i] = search[i] \/ (w = "gone" /\ drained)

\* When REFINE is over, no engine that is trusted is left at a child position,
\* and after a barrier that drained every one stands where the command loop put
\* it (runtime.py:2759 "callers must restore the worker before releasing the
\* generation").
EnginesComeBack ==
    \A i \in Owners : Available(i) =>
        /\ w \in {"over", "done"} => pos[i] \in {Old, New}
        /\ m = "done" /\ drained => pos[i] = command

\* What an engine that is trusted works on, or waits at, is where it stands.
EnginesInPlace == SearchAtItsPosition /\ EnginesComeBack

\* The barrier is past a wait that timed out.
GaveUp == m \notin {"idle", "wait"} /\ ~drained

\* Every owner of a share completed its stage, and all children are sealed, or were
\* split since.
Whole(s) == /\ \A o \in Required(s) : <<s, o>> \in DOMAIN stage /\ stage[<<s, o>>] = "completed"
            /\ \A c \in Kids(s) : shard[c].state \in {"sealed", "retired"}

\* A completed scope is whole, and so is every scope of a completed phase.  None of
\* these is recorded otherwise than completed or terminal, unless the barrier gave
\* up while a reader stood between its last look at the cancellation and the
\* record (shadow.py:6312).  A phase that is over left no reservation.
ScopesCloseWhole ==
    /\ \A s \in DOMAIN disp : disp[s] = "completed" \/ refine = "completed" => Whole(s)
    /\ refine = "completed" /\ ~GaveUp =>
           \A s \in DOMAIN disp : disp[s] \in {"completed", "terminal"}
    /\ w \in {"over", "done"} => tokens = {}

\* The ledger has no reason to refuse what REFINE asks of it: a share is leased
\* until its stage is dispatched, so no activation stops half way
\* (shadow.py:6121), and a nomination is a sealed leaf of its owner until it is
\* taken, whoever else seals or splits.
LedgerAgrees ==
    /\ w = "dispatch" => \A o \in todo : Leased(scope, o)
    /\ \A k \in DOMAIN queue :
           shard[queue[k].of] = [owner |-> queue[k].by, state |-> "sealed"]

\* The open scope ran over its deadline, and every reader was past its look at
\* abort: all its stages completed, and all engines came back.
LateAndWhole(s) == s = scope /\ s \in abort /\ clean /\ Whole(s)

\* What was recorded of a stage is never taken back, nor, until the barrier gives
\* up, what was recorded of a scope or the phase.  Only a stage's setter looks at
\* what is there (refinement.py:624, 741), and worker and readers call all three,
\* some after a wait: a failed scope is not completed by the worker, nor a completed
\* one failed by a reader or an exit, and a phase that was read as running is still
\* running when it is set to completed.  One scope is taken back, for the better:
\* the late one that is whole after all; the phase stays incomplete.
DispositionsStand ==
    [][/\ \A q \in DOMAIN stage :
             q \in DOMAIN stage' /\ (stage[q] # "running" => stage'[q] = stage[q])
       /\ \A s \in DOMAIN disp :
             /\ s \in DOMAIN disp'
             /\ \/ GaveUp' \/ disp[s] = "running" \/ disp'[s] = disp[s]
                \/ LateAndWhole(s) /\ disp'[s] = "completed" /\ refine' = "incomplete"
       /\ GaveUp' \/ (refine # "running" => refine' = refine)]_vars

\* The phase ends, even if no engine ever answers.
RefinementEnds == <>(w \in {"over", "done", "stranded"})
=============================================================================
