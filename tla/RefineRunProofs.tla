--------------------------- MODULE RefineRunProofs ---------------------------
(***************************************************************************)
(* The inductive invariant of RefineRun and what follows from it, for any  *)
(* number of owners, targets, children, expansions and deaths.             *)
(***************************************************************************)
EXTENDS RefineRun, FiniteSetTheorems, SequenceTheorems, WellFoundedInduction, TLAPS

Prefixes == Seq(Nat \ {0}) \ {<<>>}
Entries  == [of : Prefixes, by : Owners]

Wrecked   == {"error", "cleanup", "stranded", "gone"} \* an exception ended the phase
Searching == {"dispatch", "go", "await", "drain",     \* a stage may be running
              "error", "cleanup", "stranded", "gone"}
Away      == {"place", "placed", "restore", "mend", "unplaced"} \cup Searching
Over      == {"pick", "end", "complete", "over", "done"}
Asking    == {"ask", "perft", "back", "asked", "split"}
Trips     == {"write", "ready"}
Reached   == {"sync", "done"}     \* the barrier lets the command loop pass
Working   == {"audit", "judge", "seal", "reread", "record"}

Trip(S)  == w \in Trips /\ job.why \in S
Opened   == w \in Away \cup {"close"} \/ Trip({"place", "restore", "mend"})   \* the scope is split
Unopened == w \in Asking \/ Trip({"ask", "askback"})
\* An exception was raised, or the phase is over.
Ruined   == \/ w \in Wrecked \cup {"mend", "over", "done"}
            \/ w \in Trips \cup {"unplaced"} /\ job.why = "mend"
Live     == refine = "running" /\ ~Ruined
\* The run finished after its cleanup raised, and the command loop goes on.
Left     == w = "gone" /\ drained
Placing  == w \in {"place", "placed"} \/ Trip({"place"})
Busy(i)  == reader[i].at \in Working

WorkerType ==
    /\ w \in Over \cup Away \cup Asking \cup Trips \cup {"close"}
    /\ scope \in Prefixes \cup {<<>>} /\ todo \subseteq Owners /\ prepared \subseteq Owners
    /\ job \in [why : {"none", "ask", "askback", "place", "restore", "mend"},
                i : Owners \cup {None}, to : Prefixes \cup {Old, New}]
    /\ children \in 0 .. MaxChildren \cup {None} /\ clean \in BOOLEAN
PlanType ==
    /\ queue \in Seq(Entries) /\ nominated \in Seq(Entries)
    /\ phase \in {"target", "recursive"} /\ expansions \in Nat
LedgerType ==
    /\ DOMAIN shard \subseteq Prefixes
    /\ shard \in [DOMAIN shard -> [owner : Owners,
                                   state : {"leased", "active", "sealed", "retired"}]]
ArtifactType ==
    /\ DOMAIN stage \subseteq Prefixes \X Owners
    /\ stage \in [DOMAIN stage -> {"running", "completed", "stopped", "failed"}]
    /\ DOMAIN disp \subseteq Prefixes
    /\ disp \in [DOMAIN disp -> {"running", "completed", "incomplete", "terminal"}]
    /\ refine \in {"running", "incomplete", "completed"}
EngineType ==
    /\ alive \in [Owners -> BOOLEAN] /\ health \in [Owners -> BOOLEAN]
    /\ pos \in [Owners -> Prefixes \cup {Old, New}]
    /\ search \in [Owners -> Prefixes \cup {None}]
ReaderType ==
    reader \in [Owners -> [at : Working \cup {"idle", "exit", "ended"},
                          of : Prefixes \cup {None}, as : {"completed", "failed", "stopped"}]]
RunType ==
    /\ positioned \subseteq Owners /\ asking \in BOOLEAN
    /\ cancelled \in BOOLEAN /\ anchor \in BOOLEAN /\ drained \in BOOLEAN
    /\ m \in {"idle", "wait", "fail", "quarantine", "clear", "sync", "done"}
    /\ command \in {Old, New}
TypeOK == /\ WorkerType /\ PlanType /\ LedgerType /\ ArtifactType
          /\ EngineType /\ ReaderType /\ RunType

\* What the worker's call to an engine is about.
JobInv ==
    /\ w \in Trips => job.why # "none"
    /\ w \in {"perft", "back"} => job.why = "ask"
    /\ w = "placed" => job.why = "place"
    /\ w = "unplaced" => job.why \in {"restore", "mend"}
    /\ w \in Trips \cup {"perft", "back", "placed", "unplaced"} =>
         /\ job.i \in Owners
         /\ job.why \in {"ask", "askback"} => job.i = Oracle
         /\ job.why \in {"ask", "place"} => job.to = scope
         /\ job.why \in {"askback", "restore", "mend"} => job.to \in {Old, New}
    /\ w = "split" => children \in 0 .. MaxChildren
    /\ asking <=> (w \in {"perft", "back", "asked"} \/ Trip({"ask", "askback"}))

\* A stage belongs to an owner of a share; one that runs is the worker's.
StageInv ==
    \A q \in DOMAIN stage : /\ q[1] \in DOMAIN disp /\ q[2] \in Required(q[1])
                            /\ stage[q] = "running" => q[1] = scope /\ w \in Searching

\* What is still to be served has no stage, but for the one being dispatched.
TodoInv ==
    /\ Placing => \A o \in Owners : <<scope, o>> \notin DOMAIN stage
    /\ w = "dispatch" => \A o \in todo : <<scope, o>> \notin DOMAIN stage
    /\ w = "go" => /\ todo # {} /\ <<scope, First(todo)>> \in DOMAIN stage
                   /\ \/ stage[<<scope, First(todo)>>] = "running"
                      \/ ~health[First(todo)] \/ cancelled
                   /\ \A o \in todo \ {First(todo)} : <<scope, o>> \notin DOMAIN stage
                   /\ \A o \in todo : search[o] # scope /\ (Busy(o) => reader[o].of # scope)

\* What an engine searches, or its reader reports, is a stage that runs, until the
\* engine is discarded or the phase has gone wrong.
Served(i) ==
    /\ search[i] # None =>
         /\ <<search[i], i>> \in DOMAIN stage
         /\ health[i] \/ Live => stage[<<search[i], i>>] = "running"
         /\ Busy(i) => search[i] # reader[i].of
         /\ health[i] => pos[i] = search[i] \/ Left
    /\ Busy(i) =>
         /\ <<reader[i].of, i>> \in DOMAIN stage
         /\ health[i] \/ Live => stage[<<reader[i].of, i>>] = "running"
         /\ reader[i].at # "audit" => <<reader[i].of, i>> \notin tokens
    /\ reader[i].at \in {"exit", "ended"} => ~health[i]
SearchInv == \A i \in Owners : Served(i)

\* The command loop passes only once no engine that is trusted searches.
BarrierInv ==
    /\ m # "idle" => cancelled
    /\ m = "fail" =>
         /\ serve \subseteq DOMAIN stage
         /\ \A i \in Owners : health[i] /\ search[i] # None => <<search[i], i>> \in serve
    /\ m \in {"quarantine", "clear", "sync", "done"} =>
         Left \/ \A i \in Owners : health[i] => search[i] = None
    /\ m = "sync" => serve \subseteq Owners
    /\ m \in {"idle", "wait"} => ~drained
    /\ drained => w \in {"done", "gone"} /\ m \in Reached
    /\ drained => \A i \in Owners : i \notin serve /\ Available(i) => pos[i] = New
    /\ m = "done" => serve = {} /\ command = New
    /\ m # "done" => command = Old

\* An engine that is away is the worker's to bring back.
PlaceInv ==
    /\ w \notin Away /\ ~Trip({"place", "restore", "mend"}) => prepared = {}
    /\ Placing => \A o \in Required(scope) :
                     o \in prepared \/ o \in todo \/ (w # "place" /\ o = job.i)
    /\ w \in {"dispatch", "go"} => todo \subseteq prepared
    /\ Placing \/ w \in {"dispatch", "go"} =>
         \A i \in prepared : Available(i) /\ m \notin Reached => pos[i] = scope
    /\ w = "placed" \/ (w = "ready" /\ job.why = "place") =>
         (Available(job.i) /\ m \notin Reached => pos[job.i] = scope)
    /\ \A i \in Owners : Available(i) /\ pos[i] \notin {Old, New} =>
         \/ /\ i \in prepared
            /\ ~(i = job.i /\ (w = "unplaced" \/ (w = "ready" /\ job.why \in {"restore", "mend"})))
         \/ /\ w \in {"perft", "back", "placed"} \cup Trips /\ i = job.i
            /\ w = "write" => job.why = "askback"
            /\ w = "ready" => job.why \in {"ask", "place"}

\* The shards below a target are the children of scopes that were split.
TreeInv ==
    /\ DOMAIN disp \subseteq DOMAIN shard
    /\ \A c \in DOMAIN shard :
         /\ Len(c) > 1 => \E s \in DOMAIN disp : c \in Children(s)
         /\ shard[c].state = "retired" => c \in DOMAIN disp
    /\ w \notin Over => /\ scope \in DOMAIN shard
                        /\ \A p \in DOMAIN disp : p \notin Children(scope)
    /\ Unopened => scope \notin DOMAIN disp
    /\ Opened => scope \in DOMAIN disp
    /\ \A s \in DOMAIN disp : disp[s] = "terminal" => Kids(s) = {}

\* What a share has reached.
Closed(s, o) == \A c \in Share(s, o) : shard[c].state \in {"sealed", "retired"}
ShareInv ==
    /\ Placing => \A o \in Owners : Leased(scope, o)
    /\ w = "dispatch" => \A o \in todo : Leased(scope, o)
    /\ w = "go" => \A o \in todo \ {First(todo)} : Leased(scope, o)
    /\ \A i \in Owners :
         reader[i].at \in {"reread", "record"} /\ reader[i].as = "completed" => Closed(reader[i].of, i)
    /\ \A q \in DOMAIN stage : stage[q] = "completed" => Closed(q[1], q[2])

\* What is to come is a sealed leaf of the owner that asked for it, once.
Fits(e) ==
    /\ e.of \in DOMAIN shard /\ shard[e.of] = [owner |-> e.by, state |-> "sealed"]
    /\ e.of \notin DOMAIN disp
    /\ w \notin Over => e.of # scope /\ e.of \notin Children(scope)
QueueInv ==
    /\ \A k \in DOMAIN queue : Fits(queue[k])
    /\ \A k \in DOMAIN nominated : Fits(nominated[k])
    /\ \A j, k \in DOMAIN queue : j # k => queue[j].of # queue[k].of
    /\ \A j, k \in DOMAIN nominated : j # k => nominated[j].of # nominated[k].of
    /\ \A j \in DOMAIN queue, k \in DOMAIN nominated : queue[j].of # nominated[k].of

\* While the phase is not incomplete, every scope but the open one is done; the
\* barrier takes back the name only.
AllDone ==
    \A s \in DOMAIN disp :
        /\ GaveUp \/ disp[s] \in {"completed", "terminal"}
        /\ \A o \in Required(s) : <<s, o>> \in DOMAIN stage /\ stage[<<s, o>>] = "completed"
DoneInv ==
    /\ \A s \in DOMAIN disp : disp[s] = "completed" =>
         \A o \in Required(s) : <<s, o>> \in DOMAIN stage /\ stage[<<s, o>>] = "completed"
    /\ Live =>
         \A s \in DOMAIN disp : disp[s] \in {"completed", "terminal"} \/ (s = scope /\ Opened)
    /\ refine = "completed" => w \in {"over", "done"}
    /\ w = "complete" \/ refine = "completed" =>
         AllDone /\ \A i \in Owners : search[i] = None /\ ~Busy(i)

\* A reservation is a stage that runs, or the oracle's.
TokenInv ==
    \A t \in tokens : \/ t \in DOMAIN stage /\ stage[t] = "running"
                      \/ asking /\ t = OracleKey(scope)

\* Who waits has a share; while all went well, every share that waits no longer
\* has a stage.
CleanInv ==
    /\ w \in {"dispatch", "go"} =>
         /\ todo \subseteq Required(scope)
         /\ \A o \in Required(scope) : o \in todo \/ <<scope, o>> \in DOMAIN stage
    /\ clean /\ (\/ w \in {"await", "drain", "restore", "close"}
                 \/ w \in Trips \cup {"unplaced"} /\ job.why = "restore") =>
         \A o \in Required(scope) : <<scope, o>> \in DOMAIN stage

\* What is away is on the record that an exception is cleaned up from, or
\* discarded by the barrier.
CrashInv ==
    /\ positioned \subseteq prepared
    /\ m = "idle" /\ (Placing \/ w \in {"dispatch", "go"}) => prepared \subseteq positioned
    /\ w \in Wrecked => \A i \in prepared : ~health[i] \/ (i \in positioned /\ m # "clear")
    /\ w = "cleanup" => Running(scope) \subseteq todo

RInv == /\ TypeOK /\ JobInv /\ StageInv /\ TodoInv /\ SearchInv /\ BarrierInv
        /\ PlaceInv /\ TreeInv /\ ShareInv /\ QueueInv /\ DoneInv /\ TokenInv
        /\ CleanInv /\ CrashInv

USE DEF item, plan, artifact, run, ends, engines, main

-----------------------------------------------------------------------------
(* Prefixes, shares and the operators of the model *)

LEMMA OwnerFacts == NumOwners \in Nat /\ Owners \subseteq Nat /\ Oracle \in Owners /\ IsFiniteSet(Owners)
<1>1. IsFiniteSet(1 .. NumOwners)
  BY OwnersAssumption, FS_Interval
<1> QED
  BY <1>1, OwnersAssumption DEF Owners

LEMMA DealOwner == \A k \in Nat \ {0} : Deal(k) \in Owners /\ SourceOwner(k) \in Owners
<1>1. \A a \in Nat, b \in Nat \ {0} : (a % b) + 1 \in 1 .. b
  OBVIOUS
<1> QED
  BY <1>1, OwnersAssumption DEF Owners, Deal, SourceOwner

\* A child names its parent and its number; a target is no child.
LEMMA ChildOf ==
  ASSUME NEW p \in Prefixes, NEW c \in Children(p)
  PROVE  c \in Prefixes /\ Len(c) > 1 /\ c # p /\ (\A q \in Prefixes : c \in Children(q) => q = p)
<1>0. MaxChildren \in Nat
  BY BoundsAssumption
<1>1. PICK k \in 1 .. MaxChildren : c = Append(p, k)
  BY DEF Children
<1>2. ASSUME NEW q \in Prefixes, NEW j \in 1 .. MaxChildren, c = Append(q, j)
      PROVE  /\ c \in Seq(Nat \ {0}) /\ Len(c) = Len(q) + 1 /\ Len(q) \in Nat \ {0}
             /\ \A n \in 1 .. Len(q) : c[n] = q[n]
  <2>1. q \in Seq(Nat \ {0}) /\ q # <<>> /\ j \in Nat \ {0}
    BY <1>0 DEF Prefixes
  <2>2. Len(q) \in Nat \ {0}
    BY <2>1, EmptySeq
  <2> QED
    BY <1>2, <2>1, <2>2, AppendProperties
<1>3. c \in Prefixes /\ Len(c) > 1 /\ c # p
  BY <1>1, <1>2, EmptySeq DEF Prefixes
<1>4. ASSUME NEW q \in Prefixes, c \in Children(q) PROVE q = p
  <2>1. PICK j \in 1 .. MaxChildren : c = Append(q, j)
    BY <1>4 DEF Children
  <2>2. /\ Len(c) = Len(q) + 1 /\ Len(q) \in Nat \ {0}
        /\ \A n \in 1 .. Len(q) : c[n] = q[n]
    BY <1>2, <2>1
  <2>3. /\ Len(c) = Len(p) + 1 /\ Len(p) \in Nat \ {0}
        /\ \A n \in 1 .. Len(p) : c[n] = p[n]
    BY <1>1, <1>2
  <2>4. Len(q) = Len(p) /\ \A n \in 1 .. Len(q) : q[n] = p[n]
    BY <2>2, <2>3
  <2> QED
    BY <2>4, SeqEqual DEF Prefixes
<1> QED
  BY <1>3, <1>4

\* Positions of the command loop are no prefixes.
LEMMA NotAPrefix == Old \notin Prefixes /\ New \notin Prefixes /\ <<>> \notin Prefixes
<1>1. New[1] = 0 /\ Len(New) = 1
  BY DEF New
<1>2. \A p \in Seq(Nat \ {0}) : Len(p) = 1 => p[1] \in Nat \ {0}
  BY ElementOfSeq
<1> QED
  BY <1>1, <1>2 DEF Old, Prefixes

LEMMA NoneApart == None \notin Prefixes /\ None \notin Owners
<1>1. Prefixes \subseteq Seq(Nat)
  <2>1. \A s \in Seq(Nat \ {0}) : s \in Seq(Nat)
    BY SeqDef
  <2> QED
    BY <2>1 DEF Prefixes
<1> QED
  BY <1>1, OwnerFacts, NoneAssumption

\* Every set of owners that has one has a first.
LEMMA FirstIn == ASSUME NEW S \in SUBSET Owners, S # {} PROVE First(S) \in S
<1> DEFINE R == OpToRel(<, Nat)
<1>1. S \subseteq Nat
  BY OwnerFacts
<1>2. PICK p \in S : \A q \in S : <<q, p>> \notin R
  <2>1. IsWellFoundedOn(R, Nat)
    BY NatLessThanWellFounded
  <2> HIDE DEF R
  <2> QED
    BY <1>1, <2>1, WFMin
<1>3. \A q \in S : p <= q
  <2>1. \A q \in S : ~(q < p)
    BY <1>1, <1>2, Zenon DEF OpToRel
  <2> QED
    BY <1>1, <2>1
<1> QED
  BY <1>3 DEF First

LEMMA ShareSame ==
  ASSUME DOMAIN shard' = DOMAIN shard, \A p \in DOMAIN shard : shard'[p].owner = shard[p].owner
  PROVE  \A s : /\ Kids(s)' = Kids(s) /\ Required(s)' = Required(s)
                /\ \A o : Share(s, o)' = Share(s, o)
<1>1. \A s : Kids(s)' = Kids(s)
  BY DEF Kids, Children
<1>2. \A s, o : Share(s, o)' = Share(s, o)
  BY <1>1 DEF Share, Kids
<1> QED
  BY <1>1, <1>2 DEF Required

LEMMA Apart ==
  ASSUME NEW s \in Prefixes, NEW t \in Prefixes, s # t
  PROVE  /\ Kids(s) \cap Kids(t) = {} /\ (\A o, p : Share(s, o) \cap Share(t, p) = {})
         /\ s \notin Kids(s)
BY ChildOf DEF Kids, Share

LEMMA Marked ==
  ASSUME TypeOK, NEW s, NEW o \in Owners, NEW S \in SUBSET Share(s, o),
         NEW as \in {"active", "sealed"}
  PROVE  /\ DOMAIN Mark(S, o, as) = DOMAIN shard
         /\ Mark(S, o, as) \in [DOMAIN shard -> [owner : Owners,
                                     state : {"leased", "active", "sealed", "retired"}]]
         /\ \A p \in DOMAIN shard : /\ Mark(S, o, as)[p].owner = shard[p].owner
                                    /\ p \in S => Mark(S, o, as)[p].state = as
                                    /\ p \notin S => Mark(S, o, as)[p] = shard[p]
BY DEF TypeOK, LedgerType, Mark, Share, Kids

LEMMA Recorded ==
  ASSUME TypeOK, NEW p, NEW o, NEW d \in {"completed", "stopped", "failed"}
  PROVE  /\ DOMAIN Record(p, o, d) = DOMAIN stage
         /\ Record(p, o, d) \in [DOMAIN stage -> {"running", "completed", "stopped", "failed"}]
         /\ \A q \in DOMAIN stage :
              Record(p, o, d)[q] = IF q = <<p, o>> /\ stage[q] = "running" THEN d ELSE stage[q]
BY DEF TypeOK, ArtifactType, Record

LEMMA WidthFits ==
  /\ MaxChildren \in Nat
  /\ \A p \in Prefixes : Width(p) \in 0 .. MaxChildren
<1>1. \A p \in Prefixes : Len(p) \in Nat \ {0}
  BY EmptySeq DEF Prefixes
<1>2. \A a \in Nat, b \in Nat \ {0} : a \div b \in 0 .. a
  OBVIOUS
<1> QED
  BY <1>1, <1>2, BoundsAssumption DEF Width

LEMMA Putting ==
  ASSUME NEW f, NEW k, NEW v
  PROVE  /\ DOMAIN Put(f, k, v) = DOMAIN f \cup {k} /\ Put(f, k, v)[k] = v
         /\ \A x \in DOMAIN f : x # k => Put(f, k, v)[x] = f[x]
BY DEF Put

LEMMA PutType ==
  ASSUME NEW S, NEW f, f \in [DOMAIN f -> S], NEW k, NEW v \in S
  PROVE  Put(f, k, v) \in [DOMAIN Put(f, k, v) -> S]
BY DEF Put

\* The head of a queue, and what remains.
LEMMA HeadOf ==
  ASSUME NEW q \in Seq(Entries), q # <<>>
  PROVE  /\ Head(q) \in Entries /\ Tail(q) \in Seq(Entries)
         /\ 1 \in DOMAIN q /\ Head(q) = q[1]
         /\ \A k \in DOMAIN Tail(q) : k + 1 \in DOMAIN q /\ Tail(q)[k] = q[k + 1] /\ k \in Nat \ {0}
<1>1. Len(q) \in Nat \ {0} /\ DOMAIN q = 1 .. Len(q)
  BY LenProperties, EmptySeq
<1>2. /\ Head(q) \in Entries /\ Tail(q) \in Seq(Entries) /\ Len(Tail(q)) = Len(q) - 1
      /\ \A k \in 1 .. Len(Tail(q)) : Tail(q)[k] = q[k + 1]
  BY HeadTailProperties
<1>3. DOMAIN Tail(q) = 1 .. Len(Tail(q))
  BY <1>2, LenProperties
<1> QED
  BY <1>1, <1>2, <1>3

\* A scope that is no longer good: its disposition and the phase's.
LEMMA Spoiled ==
  ASSUME TypeOK, NEW s, Incomplete(s)
  PROVE  /\ DOMAIN disp' = DOMAIN disp /\ refine' = "incomplete"
         /\ \A x \in DOMAIN disp : disp'[x] = IF x = s THEN "incomplete" ELSE disp[x]
         /\ stage' = stage => ArtifactType'
         /\ \A p, o : stage' = Record(p, o, "failed") => ArtifactType'
<1>1. /\ DOMAIN disp' = DOMAIN disp /\ refine' = "incomplete"
      /\ disp' \in [DOMAIN disp -> {"running", "completed", "incomplete", "terminal"}]
      /\ \A x \in DOMAIN disp : disp'[x] = IF x = s THEN "incomplete" ELSE disp[x]
  BY DEF Incomplete, TypeOK, ArtifactType
<1>2. \A p, o : stage' = Record(p, o, "failed") =>
        /\ DOMAIN stage' = DOMAIN stage
        /\ stage' \in [DOMAIN stage -> {"running", "completed", "stopped", "failed"}]
  BY Recorded
<1> QED
  BY <1>1, <1>2 DEF TypeOK, ArtifactType

\* One reader moves.
LEMMA Stepped ==
  ASSUME TypeOK, NEW i \in Owners, NEW r, Step(i, r),
         r \in [at : Working \cup {"idle", "exit", "ended"}, of : Prefixes \cup {None},
                as : {"completed", "failed", "stopped"}]
  PROVE  ReaderType' /\ reader'[i] = r /\ \A j \in Owners : j # i => reader'[j] = reader[j]
BY DEF Step, TypeOK, ReaderType

LEMMA ScopeType ==
  ASSUME RInv, w \notin Over
  PROVE  scope \in Prefixes /\ scope \in DOMAIN shard
BY DEF RInv, TypeOK, LedgerType, TreeInv

\* The owners of the scope's shares, as the ledger moves on.
LEMMA ScopeSame ==
  ASSUME DOMAIN shard' = DOMAIN shard, \A p \in DOMAIN shard : shard'[p].owner = shard[p].owner,
         scope' = scope
  PROVE  Required(scope)' = Required(scope) /\ Kids(scope)' = Kids(scope)
<1>1. Kids(scope)' = Kids(scope)
  BY DEF Kids
<1>2. \A o : Share(scope, o)' = Share(scope, o)
  BY <1>1 DEF Share, Kids
<1> QED
  BY <1>1, <1>2 DEF Required

\* Nothing below a scope that is still to come exists.
LEMMA NextScope ==
  ASSUME RInv, NEW e \in Entries, Fits(e)
  PROVE  \A p \in DOMAIN shard : p \notin Children(e.of)
<1> SUFFICES ASSUME NEW p \in DOMAIN shard, p \in Children(e.of) PROVE FALSE
  OBVIOUS
<1>1. e.of \in Prefixes /\ e.of \notin DOMAIN disp
  BY DEF Entries, Fits
<1>2. Len(p) > 1 /\ \A q \in Prefixes : p \in Children(q) => q = e.of
  BY <1>1, ChildOf
<1>3. PICK s \in DOMAIN disp : p \in Children(s)
  BY <1>2 DEF RInv, TreeInv
<1>4. s \in Prefixes
  BY DEF RInv, TypeOK, ArtifactType
<1> QED
  BY <1>1, <1>2, <1>3, <1>4

LEMMA Joined ==
  ASSUME NEW a \in Seq(Entries), NEW b \in Seq(Entries)
  PROVE  /\ a \o b \in Seq(Entries)
         /\ \A k \in DOMAIN (a \o b) :
              \/ k \in DOMAIN a /\ (a \o b)[k] = a[k]
              \/ k \notin DOMAIN a /\ k - Len(a) \in DOMAIN b /\ (a \o b)[k] = b[k - Len(a)]
         /\ \A j, k \in DOMAIN (a \o b) : j # k => j - Len(a) # k - Len(a)
<1>1. a \o b \in Seq(Entries)
  OBVIOUS
<1>2. Len(a \o b) = Len(a) + Len(b) /\ Len(a) \in Nat /\ Len(b) \in Nat
  OBVIOUS
<1>3. DOMAIN (a \o b) = 1 .. Len(a \o b) /\ DOMAIN a = 1 .. Len(a) /\ DOMAIN b = 1 .. Len(b)
  BY <1>1, LenProperties
<1>4. \A k \in 1 .. Len(a) + Len(b) :
         (a \o b)[k] = IF k <= Len(a) THEN a[k] ELSE b[k - Len(a)]
  BY ConcatProperties
<1>5. ASSUME NEW k \in DOMAIN (a \o b)
      PROVE  \/ k \in DOMAIN a /\ (a \o b)[k] = a[k]
             \/ k \notin DOMAIN a /\ k - Len(a) \in DOMAIN b /\ (a \o b)[k] = b[k - Len(a)]
  BY <1>2, <1>3, <1>4
<1>6. ASSUME NEW j \in DOMAIN (a \o b), NEW k \in DOMAIN (a \o b), j # k
      PROVE  j - Len(a) # k - Len(a)
  BY <1>2, <1>3, <1>6
<1> QED
  BY <1>1, <1>5, <1>6

\* What a scope nominates: a sealed leaf of each of some owners.
LEMMA Nominated ==
  ASSUME RInv, w = "close", clean, \A o \in Required(scope) : stage[<<scope, o>>] = "completed",
         NEW pick \in [Owners -> Kids(scope) \cup {None}],
         \A o \in Owners : pick[o] # None => pick[o] \in Share(scope, o),
         NEW more \in Nominations(pick)
  PROVE  /\ more \in Seq(Entries)
         /\ \A k \in DOMAIN more :
              /\ more[k].of \in Kids(scope) /\ more[k].of \notin DOMAIN disp
              /\ shard[more[k].of] = [owner |-> more[k].by, state |-> "sealed"]
         /\ \A j, k \in DOMAIN more : j # k => more[j].of # more[k].of
<1> USE DEF RInv
<1> DEFINE S == {o \in Owners : pick[o] # None}
<1>1. Cardinality(S) \in Nat
  BY OwnerFacts, FS_Subset, FS_CardinalityType
<1> DEFINE n == Cardinality(S)
<1>n. n \in Nat
  BY <1>1
<1> HIDE DEF n
<1>2. PICK by \in [1 .. n -> S] :
        /\ \A j, k \in 1 .. n : j < k => by[j] < by[k]
        /\ more = [k \in 1 .. n |-> [of |-> pick[by[k]], by |-> by[k]]]
  BY DEF Nominations, InOrder, n
<1>3. scope \in Prefixes /\ Kids(scope) \subseteq Prefixes /\ scope \in DOMAIN disp
  BY ScopeType DEF Over, Kids, TypeOK, LedgerType, TreeInv, Opened
<1>4. ASSUME NEW o \in S
      PROVE  /\ pick[o] \in Kids(scope) /\ pick[o] \notin DOMAIN disp /\ o \in Owners
             /\ shard[pick[o]].owner = o /\ shard[pick[o]] = [owner |-> o, state |-> "sealed"]
  <2>1. pick[o] \in Share(scope, o) /\ pick[o] \in Kids(scope) /\ shard[pick[o]].owner = o
    BY DEF Share
  <2>2. o \in Required(scope)
    BY <2>1 DEF Required
  <2>3. pick[o] \notin DOMAIN disp
    BY <2>1 DEF TreeInv, Kids, Over
  <2>4. <<scope, o>> \in DOMAIN stage /\ stage[<<scope, o>>] = "completed"
    BY <2>2 DEF CleanInv
  <2>5. shard[pick[o]].state \in {"sealed", "retired"}
    BY <2>1, <2>4 DEF ShareInv, Closed
  <2>6. shard[pick[o]].state # "retired"
    BY <2>1, <2>3 DEF TreeInv, Kids
  <2> QED
    BY <2>1, <2>3, <2>5, <2>6 DEF TypeOK, LedgerType, Kids
<1>4a. \A o \in S : /\ pick[o] \in Kids(scope) /\ pick[o] \notin DOMAIN disp /\ o \in Owners
                     /\ shard[pick[o]].owner = o /\ shard[pick[o]] = [owner |-> o, state |-> "sealed"]
  BY <1>4
<1>5. \A k \in 1 .. n : more[k].of = pick[by[k]] /\ more[k].by = by[k] /\ by[k] \in S
  BY <1>2
<1>5a. \A k \in 1 .. n : more[k] \in Entries
  BY <1>2, <1>3, <1>4a DEF Entries
<1> HIDE DEF S
<1>6. more \in Seq(Entries) /\ DOMAIN more = 1 .. n
  <2>1. more \in [1 .. n -> Entries]
    BY <1>2, <1>5a
  <2> QED
    BY <1>n, <2>1, SeqDef
<1>7. ASSUME NEW j \in 1 .. n, NEW k \in 1 .. n, j # k PROVE more[j].of # more[k].of
  <2>1. by[j] # by[k]
    <3>1. by[j] \in Nat /\ by[k] \in Nat /\ j \in Nat /\ k \in Nat
      <4>1. by[j] \in S /\ by[k] \in S
        BY <1>n, <1>5
      <4>2. by[j] \in Owners /\ by[k] \in Owners
        BY <1>4a, <4>1
      <4>3. by[j] \in Nat /\ by[k] \in Nat
        BY <4>2, OwnerFacts
      <4> QED
        BY <1>n, <4>3
    <3>2. by[j] < by[k] \/ by[k] < by[j]
      BY <1>2, <1>7, <3>1
    <3> QED
      BY <3>1, <3>2
  <2>2. by[j] \in S /\ by[k] \in S /\ more[j].of = pick[by[j]] /\ more[k].of = pick[by[k]]
    BY <1>n, <1>5
  <2>3. shard[more[j].of].owner = by[j] /\ shard[more[k].of].owner = by[k]
    <3>1. shard[pick[by[j]]].owner = by[j] /\ shard[pick[by[k]]].owner = by[k]
      <4>1. \A o \in S : shard[pick[o]].owner = o
        BY <1>4a
      <4> QED
        BY <2>2, <4>1
    <3> QED
      BY <2>2, <3>1
  <2> QED
    BY <2>1, <2>3
<1> QED
  BY <1>4a, <1>5, <1>6, <1>7

\* Entries of one that are apart from those of the other stay apart when joined.
LEMMA JoinedApart ==
  ASSUME NEW a \in Seq(Entries), NEW b \in Seq(Entries), NEW K,
         \A k \in DOMAIN a : a[k].of \notin K, \A k \in DOMAIN b : b[k].of \in K,
         \A j, k \in DOMAIN a : j # k => a[j].of # a[k].of,
         \A j, k \in DOMAIN b : j # k => b[j].of # b[k].of
  PROVE  /\ \A j, k \in DOMAIN (a \o b) : j # k => (a \o b)[j].of # (a \o b)[k].of
         /\ \A k \in DOMAIN (a \o b) : \/ \E i \in DOMAIN a : (a \o b)[k] = a[i]
                                      \/ \E i \in DOMAIN b : (a \o b)[k] = b[i]
<1> DEFINE n == a \o b
           left(k) == k - Len(a)
<1>1. \A k \in DOMAIN n : \/ k \in DOMAIN a /\ n[k] = a[k]
                          \/ left(k) \in DOMAIN b /\ n[k] = b[left(k)]
  BY Joined
<1>2. \A j, k \in DOMAIN n : j # k => left(j) # left(k)
  BY Joined
<1> HIDE DEF left, n
<1>3. ASSUME NEW j \in DOMAIN n, NEW k \in DOMAIN n, j # k PROVE n[j].of # n[k].of
  <2>1. CASE j \in DOMAIN a /\ n[j] = a[j] /\ k \in DOMAIN a /\ n[k] = a[k]
    BY <1>3, <2>1
  <2>2. CASE j \in DOMAIN a /\ n[j] = a[j] /\ left(k) \in DOMAIN b /\ n[k] = b[left(k)]
    BY <2>2
  <2>3. CASE left(j) \in DOMAIN b /\ n[j] = b[left(j)] /\ k \in DOMAIN a /\ n[k] = a[k]
    BY <2>3
  <2>4. CASE /\ left(j) \in DOMAIN b /\ n[j] = b[left(j)]
             /\ left(k) \in DOMAIN b /\ n[k] = b[left(k)]
    BY <1>2, <1>3, <2>4
  <2> QED
    BY <1>1, <2>1, <2>2, <2>3, <2>4
<1>4. \A k \in DOMAIN n : (\E i \in DOMAIN a : n[k] = a[i]) \/ (\E i \in DOMAIN b : n[k] = b[i])
  <2> SUFFICES ASSUME NEW k \in DOMAIN n
               PROVE  (\E i \in DOMAIN a : n[k] = a[i]) \/ (\E i \in DOMAIN b : n[k] = b[i])
    OBVIOUS
  <2>1. CASE k \in DOMAIN a /\ n[k] = a[k]
    BY <2>1
  <2>2. CASE left(k) \in DOMAIN b /\ n[k] = b[left(k)]
    <3>1. \E i \in DOMAIN b : n[k] = b[i]
      BY <2>2
    <3> QED
      BY <3>1
  <2> QED
    BY <1>1, <2>1, <2>2
<1> QED
  BY <1>3, <1>4 DEF n

LEMMA InSeq == ASSUME NEW q \in Seq(Entries) PROVE \A k \in DOMAIN q : q[k] \in Entries
OBVIOUS

\* The head of the queue is dropped.
LEMMA Dropped ==
  ASSUME RInv, queue # <<>>, queue' = Tail(queue), nominated' = nominated, w' \in Over,
         shard' = shard, disp' = disp
  PROVE  QueueInv'
<1> USE DEF RInv
<1>1. /\ \A k \in DOMAIN queue' : k + 1 \in DOMAIN queue /\ queue'[k] = queue[k + 1] /\ k \in Nat
  BY HeadOf DEF TypeOK, PlanType
<1>2. (\A k \in DOMAIN queue : Fits(queue[k]))'
  BY <1>1 DEF QueueInv, Fits
<1>3. (\A k \in DOMAIN nominated : Fits(nominated[k]))'
  BY DEF QueueInv, Fits
<1>4. \A j, k \in DOMAIN queue' : j # k => queue'[j].of # queue'[k].of
  <2>1. \A j, k \in Nat : j # k => j + 1 # k + 1
    OBVIOUS
  <2> QED
    BY <1>1, <2>1 DEF QueueInv
<1>5. \A j \in DOMAIN queue', k \in DOMAIN nominated : queue'[j].of # nominated[k].of
  BY <1>1 DEF QueueInv
<1> QED
  BY <1>2, <1>3, <1>4, <1>5 DEF QueueInv

\* The head of the queue is taken as the next scope.
LEMMA Taken ==
  ASSUME RInv, w \in Over, queue # <<>>, queue' = Tail(queue), nominated' = nominated,
         scope' = Head(queue).of, shard' = shard, disp' = disp
  PROVE  QueueInv'
<1> USE DEF RInv
<1>0. /\ 1 \in DOMAIN queue /\ Head(queue) = queue[1] /\ Head(queue) \in Entries
      /\ \A k \in DOMAIN queue' : k + 1 \in DOMAIN queue /\ queue'[k] = queue[k + 1] /\ k \in Nat \ {0}
  BY HeadOf DEF TypeOK, PlanType
<1>1. \A p \in DOMAIN shard : p \notin Children(scope')
  BY <1>0, NextScope DEF QueueInv
<1>2. \A k \in Nat \ {0} : k + 1 # 1
  OBVIOUS
<1>3. \A k \in DOMAIN queue' : queue'[k].of # scope' /\ Fits(queue'[k])
  BY <1>0, <1>2 DEF QueueInv
<1>4. \A k \in DOMAIN nominated : nominated[k].of # scope' /\ Fits(nominated[k])
  BY <1>0 DEF QueueInv
<1>5. (\A k \in DOMAIN queue : Fits(queue[k]))'
  BY <1>1, <1>3 DEF Fits
<1>6. (\A k \in DOMAIN nominated : Fits(nominated[k]))'
  BY <1>1, <1>4 DEF Fits
<1>7. \A j, k \in DOMAIN queue' : j # k => queue'[j].of # queue'[k].of
  <2>1. \A j, k \in Nat : j # k => j + 1 # k + 1
    OBVIOUS
  <2> QED
    BY <1>0, <2>1 DEF QueueInv
<1>8. \A j \in DOMAIN queue', k \in DOMAIN nominated : queue'[j].of # nominated[k].of
  BY <1>0 DEF QueueInv
<1> QED
  BY <1>5, <1>6, <1>7, <1>8 DEF QueueInv

\* A scope that is not yet split has no children.
LEMMA Childless ==
  ASSUME RInv, w = "split"
  PROVE  /\ scope \in Prefixes /\ scope \in DOMAIN shard /\ scope \notin DOMAIN disp
         /\ \A p \in DOMAIN shard : p \notin Children(scope)
<1> USE DEF RInv
<1>1. scope \in Prefixes /\ scope \in DOMAIN shard /\ scope \notin DOMAIN disp
  BY ScopeType DEF Over, TreeInv, Unopened, Asking
<1> SUFFICES ASSUME NEW p \in DOMAIN shard, p \in Children(scope) PROVE FALSE
  BY <1>1
<1>2. Len(p) > 1 /\ \A q \in Prefixes : p \in Children(q) => q = scope
  BY <1>1, ChildOf
<1>3. PICK s \in DOMAIN disp : p \in Children(s)
  BY <1>2 DEF TreeInv
<1>4. s \in Prefixes
  BY DEF TypeOK, ArtifactType
<1> QED
  BY <1>1, <1>2, <1>3, <1>4

LEMMA StageEnds ==
  ASSUME RInv, NEW s, NEW i \in Owners, NEW d \in {"failed", "stopped"}, <<s, i>> \in DOMAIN stage,
         stage' = Record(s, i, d), tokens' = tokens \ {<<s, i>>},
         Incomplete(s) \/ (UNCHANGED <<disp, refine>> /\ w = "cleanup" /\ w' = "stranded"),
         w # "complete" \/ GaveUp,
         \/ w' = w /\ todo' = todo
         \/ w = "go" /\ w' = "await" /\ todo' = {} /\ clean' = FALSE
         \/ w = "cleanup" /\ w' \in {w, "stranded"} /\ s = scope /\ d = "failed" /\ todo' = todo \ {i},
         clean' \in {clean, FALSE},
         UNCHANGED <<scope, job, prepared, children, plan, shard, positioned, asking, pos, search,
                     m, command, drained, cancelled>>,
         ~health'[i] \/ cancelled \/ w' # "go",
         \A j \in Owners :
           /\ (alive'[j] => alive[j]) /\ (health'[j] => health[j])
           /\ reader'[j].at \in Working => reader'[j] = reader[j]
           /\ reader'[j].at \in {"exit", "ended"} => ~health'[j],
         health'[i] => search[i] # s /\ (reader'[i].at \in Working => reader[i].of # s)
  PROVE  /\ JobInv' /\ StageInv' /\ TodoInv' /\ SearchInv' /\ PlaceInv'
         /\ TreeInv' /\ ShareInv' /\ QueueInv' /\ DoneInv' /\ TokenInv' /\ CleanInv' /\ CrashInv'
<1> USE DEF RInv
<1>a. /\ DOMAIN stage' = DOMAIN stage
      /\ \A q \in DOMAIN stage :
           /\ q # <<s, i>> \/ stage[q] # "running" => stage'[q] = stage[q]
           /\ q = <<s, i>> /\ stage[q] = "running" => stage'[q] = d
  BY Recorded
<1>b. /\ DOMAIN disp' = DOMAIN disp /\ refine' # "completed"
      /\ \A x \in DOMAIN disp : disp'[x] \in {disp[x], "incomplete"}
  BY Spoiled DEF DoneInv
<1>c. ~Live' /\ (Left => Left')
  BY Spoiled DEF Live, Ruined, Left, Wrecked
<1>2. JobInv'
  BY DEF JobInv, Trip, Trips
<1>3. StageInv'
  BY <1>a, <1>b DEF StageInv, Required, Share, Kids, Searching
<1>4. TodoInv'
  <2>1. CASE w' = w /\ todo' = todo
    <3>1. w = "go" => First(todo) \in Owners
      BY FirstIn DEF TodoInv, TypeOK, WorkerType
    <3>2. w = "go" => \/ stage'[<<scope, First(todo)>>] = "running"
                       \/ ~health'[First(todo)] \/ cancelled
      BY <1>a, <2>1, <3>1 DEF TodoInv
    <3> QED
      BY <1>a, <2>1, <3>2 DEF TodoInv, Placing, Trip, Busy, TypeOK, WorkerType
  <2>2. CASE w' = "await"
    BY <2>2 DEF TodoInv, Placing, Trip, Trips
  <2>3. CASE w' \in {"cleanup", "stranded"}
    BY <2>3 DEF TodoInv, Placing, Trip, Trips
  <2> QED
    BY <2>1, <2>2, <2>3
<1>5. SearchInv'
  <2>1. \A j \in Owners : health'[j] => health[j] /\ (j # i \/ search[j] # s)
    OBVIOUS
  <2>2. ASSUME NEW j \in Owners, search[j] # None
        PROVE  /\ <<search[j], j>> \in DOMAIN stage'
               /\ health'[j] => stage'[<<search[j], j>>] = "running" /\ (pos[j] = search[j] \/ Left)
               /\ reader'[j].at \in Working => search[j] # reader'[j].of
    <3>1. /\ <<search[j], j>> \in DOMAIN stage
          /\ health[j] => stage[<<search[j], j>>] = "running" /\ (pos[j] = search[j] \/ Left)
      BY <2>2 DEF SearchInv, Served
    <3>2. health'[j] => stage'[<<search[j], j>>] = stage[<<search[j], j>>]
      BY <1>a, <3>1
    <3>3. reader'[j].at \in Working => search[j] # reader'[j].of
      BY <2>2 DEF SearchInv, Served, Busy
    <3> QED
      BY <1>a, <3>1, <3>3
  <2>3. ASSUME NEW j \in Owners, reader'[j].at \in Working
        PROVE  /\ <<reader'[j].of, j>> \in DOMAIN stage'
               /\ health'[j] => stage'[<<reader'[j].of, j>>] = "running"
               /\ reader'[j].at # "audit" => <<reader'[j].of, j>> \notin tokens'
    <3>1. reader'[j] = reader[j] /\ (health'[j] => j # i \/ reader[j].of # s)
      BY <2>3
    <3>2. /\ <<reader[j].of, j>> \in DOMAIN stage
          /\ health[j] => stage[<<reader[j].of, j>>] = "running"
          /\ reader[j].at # "audit" => <<reader[j].of, j>> \notin tokens
      BY <2>3, <3>1 DEF SearchInv, Served, Busy
    <3>3. health'[j] => stage'[<<reader[j].of, j>>] = stage[<<reader[j].of, j>>]
      BY <1>a, <3>1, <3>2
    <3> QED
      BY <1>a, <3>1, <3>2
  <2>4. \A j \in Owners : reader'[j].at \in {"exit", "ended"} => ~health'[j]
    OBVIOUS
  <2> HIDE DEF RInv
  <2> SUFFICES ASSUME NEW j \in Owners PROVE Served(j)'
    BY DEF SearchInv
  <2> QED
    BY <1>c, <2>2, <2>3, <2>4 DEF Served, Busy
<1>7. PlaceInv'
  BY DEF TypeOK, PlaceInv, JobInv, WorkerType, Required, Share, Kids, Available, Trip, Placing,
     Away, Trips, Searching
<1>8. TreeInv'
  BY <1>b DEF TreeInv, Kids, Trip, Opened, Unopened, Over, Away, Asking, Trips, Searching
<1>9. ShareInv'
  BY <1>a DEF ShareInv, Closed, Leased, Share, Kids, Trip, Placing, Trips, Working
<1>10. QueueInv'
  BY <1>b DEF QueueInv, Fits, Over
<1>11. DoneInv'
  <2>1. \A x : Required(x)' = Required(x)
    BY DEF Required, Share, Kids
  <2>2. ASSUME w' = "complete"
        PROVE  AllDone' /\ \A j \in Owners : search'[j] = None /\ ~(reader'[j].at \in Working)
    <3>1. w = "complete" /\ GaveUp'
      BY <2>2 DEF GaveUp
    <3> QED
      BY <1>a, <1>b, <2>1, <3>1 DEF DoneInv, AllDone, Busy
  <2> QED
    BY <1>a, <1>b, <1>c, <2>1, <2>2 DEF DoneInv, Busy
<1>12. TokenInv'
  BY <1>a DEF TokenInv
<1>13. CleanInv'
  <2>1. Required(scope)' = Required(scope)
    BY ScopeSame
  <2>2. CASE w' = w /\ todo' = todo
    <3>1. clean' => clean
      OBVIOUS
    <3> QED
      BY <1>a, <2>1, <2>2, <3>1 DEF CleanInv, Trip
  <2>3. CASE w' = "await" /\ clean' = FALSE
    BY <2>3 DEF CleanInv
  <2>4. CASE w' \in {"cleanup", "stranded"}
    BY <2>4 DEF CleanInv, Trips
  <2> QED
    BY <2>2, <2>3, <2>4
<1>14. CrashInv'
  <2>1. w' = "cleanup" => Running(scope)' \subseteq todo'
    BY <1>a DEF CrashInv, Running
  <2> QED
    BY <2>1 DEF TypeOK, WorkerType, CrashInv, Placing, Trip, Trips, Wrecked
<1> QED
  BY <1>2, <1>3, <1>4, <1>5, <1>7, <1>8, <1>9, <1>10, <1>11, <1>12, <1>13, <1>14

\* What the engines search and the readers report is left alone.
LEMMA SearchKept ==
  ASSUME RInv, UNCHANGED <<search, stage, reader>>, Live' => Live, Left => Left',
         \A i \in Owners : /\ health'[i] => health[i]
                           /\ health'[i] /\ search[i] # None => pos'[i] = pos[i]
                           /\ Busy(i) /\ <<reader[i].of, i>> \notin tokens =>
                                <<reader[i].of, i>> \notin tokens'
  PROVE  SearchInv'
<1>1. \A i \in Owners : Served(i)
  BY DEF RInv, SearchInv
<1> SUFFICES ASSUME NEW i \in Owners PROVE Served(i)'
  BY DEF SearchInv
<1>2. Served(i)
  BY <1>1
<1> QED
  BY <1>2 DEF Served, Busy

\* The command loop stands still, and no engine is trusted again.
LEMMA BarrierKept ==
  ASSUME RInv, UNCHANGED main, cancelled => cancelled', DOMAIN stage \subseteq DOMAIN stage',
         drained => w' = w,
         \A i \in Owners : /\ (health'[i] => health[i]) /\ (alive'[i] => alive[i])
                           /\ search'[i] \in {search[i], None} /\ (drained => pos'[i] = pos[i])
  PROVE  BarrierInv'
<1>1. BarrierInv
  BY DEF RInv
<1>2. Left => Left'
  BY <1>1 DEF Left, BarrierInv
<1>3. \A i \in Owners : (health'[i] => search'[i] = None) \/ (health[i] /\ search[i] # None)
  OBVIOUS
<1> QED
  BY <1>1, <1>2, <1>3 DEF BarrierInv, Available

\* The worker is between two scopes, or past the last one, or has cleaned up: no stage
\* runs and no engine is away.
LEMMA WorkerBetween ==
  ASSUME RInv, w \in Over \ {"done"} \/ (w = "mend" /\ prepared = {}), w' \in Over \cup {"ask"},
         UNCHANGED <<job, todo, prepared, children, clean, shard, stage, disp, run, ends, engines,
                     reader, main>>,
         scope' \in Prefixes \cup {<<>>}, PlanType', QueueInv', DoneInv', Ruined => Ruined',
         refine' \in {refine, "incomplete", "completed"},
         w' = "ask" => /\ scope' \in DOMAIN shard /\ scope' \notin DOMAIN disp
                       /\ \A p \in DOMAIN disp : p \notin Children(scope')
  PROVE  RInv'
<1> USE DEF RInv
<1>1. \A x : Kids(x)' = Kids(x) /\ Required(x)' = Required(x) /\ \A o : Share(x, o)' = Share(x, o)
  BY DEF Kids, Required, Share
<1>2. /\ w \notin Searching \cup Trips /\ prepared = {} /\ w' \notin Searching \cup Away \cup Trips
      /\ w' \notin {"perft", "back", "asked", "split", "close"} /\ ~asking
  BY DEF PlaceInv, JobInv, Over, Searching, Away, Trips, Trip
<1>3. \A q \in DOMAIN stage : stage[q] # "running"
  BY <1>2 DEF StageInv
<1>4. TypeOK'
  <2>1. WorkerType'
    BY DEF TypeOK, WorkerType, Asking
  <2>2. LedgerType' /\ EngineType' /\ ReaderType'
    BY DEF TypeOK, LedgerType, EngineType, ReaderType
  <2>3. ArtifactType' /\ RunType'
    BY DEF TypeOK, ArtifactType, RunType
  <2> QED
    BY <2>1, <2>2, <2>3 DEF TypeOK
<1>5. JobInv'
  BY <1>2 DEF JobInv, Trip, Away
<1>6. StageInv'
  BY <1>1, <1>3 DEF StageInv
<1>7. TodoInv' /\ CleanInv'
  BY <1>2 DEF TodoInv, CleanInv, Placing, Trip, Away, Searching
<1>c. (Live' => Live) /\ ~Left /\ ~Left'
  BY DEF Live, Left, Over
<1>8. SearchInv'
  BY <1>c, SearchKept
<1>9. BarrierInv'
  BY BarrierKept DEF BarrierInv, Over
<1>10. PlaceInv'
  <2>1. w \notin {"perft", "back", "placed", "unplaced"}
    BY <1>2 DEF Over
  <2>2. \A i \in Owners : Available(i) => pos[i] \in {Old, New}
    BY <1>2, <2>1 DEF PlaceInv
  <2>3. ~Placing' /\ ~Trip({"place", "restore", "mend"})' /\ w' \notin {"dispatch", "go", "placed", "ready"}
    BY <1>2 DEF Placing, Trip, Away, Searching, Trips
  <2> QED
    BY <1>2, <2>1, <2>2, <2>3 DEF PlaceInv, Available
<1>11. TreeInv'
  <2>1. ~Opened' /\ (Unopened' => w' = "ask") /\ (w' \notin Over => w' = "ask")
    BY <1>2 DEF Opened, Unopened, Trip, Asking
  <2> QED
    BY <1>1, <2>1 DEF TreeInv
<1>12. ShareInv'
  BY <1>1, <1>2 DEF ShareInv, Placing, Trip, Closed, Away, Searching
<1>13. TokenInv'
  BY <1>2 DEF TokenInv
<1>14. CrashInv'
  BY <1>2 DEF CrashInv, Placing, Trip, Wrecked, Searching, Away
<1> QED
  BY <1>4, <1>5, <1>6, <1>7, <1>8, <1>9, <1>10, <1>11, <1>12, <1>13, <1>14

LEMMA PickTargetStep ==
  ASSUME RInv, PickTarget
  PROVE  RInv'
<1> USE DEF RInv
<1>a. /\ w = "pick" /\ queue # <<>> /\ scope' = Head(queue).of /\ queue' = Tail(queue)
      /\ \/ w' = "end" /\ refine' = "incomplete"
         \/ w' = "ask" /\ refine' = refine
      /\ UNCHANGED <<job, todo, prepared, children, clean, nominated, phase, expansions,
                   shard, stage, disp, abort, run, ends, engines, reader, main>>
  BY DEF PickTarget
<1>b. /\ Head(queue) \in Entries /\ Fits(Head(queue)) /\ scope' \in Prefixes
      /\ scope' \in DOMAIN shard /\ scope' \notin DOMAIN disp
      /\ \A p \in DOMAIN shard : p \notin Children(scope')
  <2>1. Head(queue) \in Entries /\ 1 \in DOMAIN queue /\ Head(queue) = queue[1]
    BY <1>a DEF TypeOK, PlanType
  <2>2. Fits(Head(queue))
    BY <2>1 DEF QueueInv
  <2> QED
    BY <1>a, <2>1, <2>2, NextScope DEF Fits, Entries
<1>1. PlanType'
  BY <1>a DEF TypeOK, PlanType
<1>2. QueueInv'
  BY <1>a, Taken DEF Over
<1>3. DoneInv'
  BY <1>a DEF DoneInv, Required, Share, Kids, Trip, Opened, Away, Trips,
     Searching, Live, Ruined, Wrecked
<1> QED
  BY <1>a, <1>b, <1>1, <1>2, <1>3, WorkerBetween DEF TreeInv, Over, Ruined, Wrecked, Trips

LEMMA DeepenStep ==
  ASSUME RInv, Deepen
  PROVE  RInv'
<1> USE DEF RInv
<1>1. PlanType'
  BY DEF Deepen, PlanType, TypeOK
<1>2. QueueInv'
  BY DEF Deepen, QueueInv, Fits, Over
<1>3. DoneInv'
  BY DEF Deepen, DoneInv, Required, Share, Kids, Trip, Opened, Away, Trips,
     Searching, Live, Ruined, Wrecked
<1> QED
  BY <1>1, <1>2, <1>3, WorkerBetween DEF Deepen, TypeOK, WorkerType, Over,
     Ruined, Wrecked, Trips

LEMMA PickNomination_Ends ==
  ASSUME RInv, w = "pick", w' = "end", UNCHANGED <<scope, refine>>,
         queue' = queue \/ (queue # <<>> /\ queue' = Tail(queue)),
         UNCHANGED <<job, todo, prepared, children, clean, nominated, phase, expansions,
                     shard, stage, disp, abort, run, ends, engines, reader, main>>
  PROVE  RInv'
<1> USE DEF RInv
<1>1. PlanType'
  BY DEF TypeOK, PlanType
<1>2. QueueInv'
  <2>1. CASE queue' = queue
    BY <2>1 DEF QueueInv, Fits, Over
  <2>2. CASE queue # <<>> /\ queue' = Tail(queue)
    BY <2>2, Dropped DEF Over
  <2> QED
    BY <2>1, <2>2
<1>3. DoneInv'
  BY DEF DoneInv, Required, Share, Kids, Trip, Opened, Away, Trips,
     Searching, Live, Ruined, Wrecked
<1> QED
  BY <1>1, <1>2, <1>3, WorkerBetween DEF TypeOK, WorkerType, Over,
     Ruined, Wrecked, Trips

LEMMA PickNomination_Skips ==
  ASSUME RInv, w = "pick", UNCHANGED <<w, scope, refine>>, queue # <<>>, queue' = Tail(queue),
         UNCHANGED <<job, todo, prepared, children, clean, nominated, phase, expansions,
                     shard, stage, disp, abort, run, ends, engines, reader, main>>
  PROVE  RInv'
<1> USE DEF RInv
<1>1. PlanType'
  BY HeadOf DEF TypeOK, PlanType
<1>2. QueueInv'
  BY Dropped DEF Over
<1>3. DoneInv'
  BY DEF DoneInv, Required, Share, Kids, Trip, Opened, Away, Trips, Searching, Live, Ruined
<1> QED
  BY <1>1, <1>2, <1>3, ScopeType, WorkerBetween DEF TypeOK, WorkerType, ArtifactType,
     TreeInv, Over, Ruined, Wrecked, Trips

LEMMA PickNomination_Takes ==
  ASSUME RInv, w = "pick", queue # <<>>, scope' = Head(queue).of, queue' = Tail(queue),
         w' = "ask", refine' = refine,
         UNCHANGED <<job, todo, prepared, children, clean, nominated, phase, expansions,
                   shard, stage, disp, abort, run, ends, engines, reader, main>>
  PROVE  RInv'
<1> USE DEF RInv
<1>b. /\ Head(queue) \in Entries /\ Fits(Head(queue)) /\ scope' \in Prefixes
      /\ scope' \in DOMAIN shard /\ scope' \notin DOMAIN disp
      /\ \A p \in DOMAIN shard : p \notin Children(scope')
  <2>1. Head(queue) \in Entries /\ 1 \in DOMAIN queue /\ Head(queue) = queue[1]
    BY DEF TypeOK, PlanType
  <2>2. Fits(Head(queue))
    BY <2>1 DEF QueueInv
  <2> QED
    BY <2>1, <2>2, NextScope DEF Fits, Entries
<1>1. PlanType'
  BY DEF TypeOK, PlanType
<1>2. QueueInv'
  BY Taken DEF Over
<1>3. DoneInv'
  BY DEF DoneInv, Required, Share, Kids, Trip, Opened, Away, Trips,
     Searching, Live, Ruined, Wrecked
<1> QED
  BY <1>b, <1>1, <1>2, <1>3, WorkerBetween DEF TreeInv, Over, Ruined, Wrecked, Trips

LEMMA PickNominationStep == ASSUME RInv, PickNomination PROVE RInv'
<1>a. w = "pick" /\ UNCHANGED <<job, todo, prepared, children, clean, nominated, phase, expansions,
                                shard, stage, disp, abort, run, ends, engines, reader, main>>
  BY DEF PickNomination
<1>1. CASE queue = <<>> \/ Bounded
  <2>1. w' = "end" /\ UNCHANGED <<scope, queue, refine>>
    BY <1>1 DEF PickNomination
  <2> QED
    BY <1>a, <2>1, PickNomination_Ends
<1>2. CASE ~(queue = <<>> \/ Bounded)
  <2>1. queue # <<>> /\ queue' = Tail(queue)
    BY <1>2 DEF PickNomination
  <2>2. CASE Len(Head(queue).of) >= MaxDepth
    <3>0. Len(Head(queue).of) \in Nat /\ MaxDepth \in Nat /\ ~(Len(Head(queue).of) < MaxDepth)
      <4>1. Head(queue) \in Entries
        BY <2>1, HeadOf DEF RInv, TypeOK, PlanType
      <4> QED
        BY <2>2, <4>1, BoundsAssumption DEF Entries, Prefixes
    <3>1. UNCHANGED <<w, scope, refine>>
      BY <1>2, <2>2, <3>0 DEF PickNomination
    <3> QED
      BY <1>a, <2>1, <3>1, PickNomination_Skips
  <2>3. CASE ~(Len(Head(queue).of) >= MaxDepth) /\ Len(Head(queue).of) < MaxDepth /\ expansions >= MaxExpansions
    <3>1. w' = "end" /\ UNCHANGED <<scope, refine>>
      BY <1>2, <2>3 DEF PickNomination
    <3> QED
      BY <1>a, <2>1, <3>1, PickNomination_Ends
  <2>4. CASE /\ ~(Len(Head(queue).of) >= MaxDepth)
             /\ ~(Len(Head(queue).of) < MaxDepth /\ expansions >= MaxExpansions)
    <3>1. shard[Head(queue).of] = [owner |-> Head(queue).by, state |-> "sealed"]
      <4>1. 1 \in DOMAIN queue /\ Head(queue) = queue[1]
        BY <2>1, HeadOf DEF RInv, TypeOK, PlanType
      <4> QED
        BY <4>1 DEF RInv, QueueInv, Fits
    <3>2. /\ scope' = Head(queue).of
          /\ IF shard[Head(queue).of] = [owner |-> Head(queue).by, state |-> "sealed"]
             THEN w' = "ask" /\ UNCHANGED refine
             ELSE w' = "end" /\ refine' = "incomplete"
      BY <1>2, <2>4 DEF PickNomination
    <3> QED
      BY <1>a, <2>1, <3>1, <3>2, PickNomination_Takes
  <2> QED
    BY <2>2, <2>3, <2>4
<1> QED
  BY <1>1, <1>2

LEMMA AskStep ==
  ASSUME RInv, Ask
  PROVE  RInv'
<1> USE DEF RInv
<1>a. /\ w = "ask" /\ w' \in {"end", "pick", "write"} /\ scope \in Prefixes /\ scope \notin DOMAIN disp
      /\ UNCHANGED <<scope, todo, prepared, clean, queue, nominated, phase, shard, stage,
                   disp, abort, positioned, ends, engines, reader, main>>
  BY ScopeType DEF Ask, Forgo, Over, TreeInv, Unopened, Asking
<1>b. /\ expansions' \in Nat /\ refine' \in {refine, "incomplete"}
      /\ \/ w' # "write" /\ UNCHANGED <<job, children, asking, tokens>>
         \/ /\ w' = "write" /\ job' = [why |-> "ask", i |-> Oracle, to |-> scope]
            /\ tokens' = tokens \cup {OracleKey(scope)} /\ asking' = TRUE /\ children' = None
            /\ refine' = refine
  BY DEF Ask, Forgo, TypeOK, PlanType
<1>c. (Live' => Live) /\ ~Left
  BY <1>a, <1>b DEF Live, Ruined, Wrecked, Trips, Left
<1>1. TypeOK'
  <2>1. WorkerType'
    BY <1>a, <1>b, OwnerFacts DEF WorkerType, TypeOK, Over, Trips
  <2>2. PlanType'
    BY <1>a, <1>b DEF PlanType, TypeOK
  <2>3. LedgerType'
    BY <1>a DEF LedgerType, TypeOK
  <2>4. ArtifactType'
    BY <1>a, <1>b DEF ArtifactType, TypeOK
  <2>5. EngineType'
    BY <1>a DEF EngineType, TypeOK
  <2>6. ReaderType'
    BY <1>a DEF ReaderType, TypeOK
  <2>7. RunType'
    BY <1>a, <1>b, OwnerFacts DEF RunType, TypeOK, JobInv, Trips
  <2> QED
    BY <2>1, <2>2, <2>3, <2>4, <2>5, <2>6, <2>7 DEF TypeOK
<1>2. JobInv'
  BY <1>a, <1>b, OwnerFacts DEF JobInv, Trip, Trips
<1>3. StageInv'
  BY <1>a DEF StageInv, Required, Share, Kids
<1>4. TodoInv'
  BY <1>a DEF TodoInv, StageInv
<1>5. SearchInv'
  <2>1. \A i \in Owners : Busy(i) => reader[i].of # scope
    BY <1>a DEF SearchInv, Served, StageInv
  <2>2. \A i \in Owners : Busy(i) /\ <<reader[i].of, i>> \notin tokens => <<reader[i].of, i>> \notin tokens'
    BY <1>b, <2>1 DEF OracleKey
  <2> QED
    BY <1>a, <1>b, <1>c, <2>2, SearchKept
<1>6. BarrierInv'
  BY <1>a, BarrierKept DEF BarrierInv
<1>7. PlaceInv'
  BY <1>a, <1>b DEF PlaceInv, Available, Trip, Placing, Away, Trips, Searching
<1>8. TreeInv'
  BY <1>a, <1>b DEF TreeInv, Kids, Trip, Opened, Over, Away, Trips, Searching
<1>9. ShareInv'
  <2>1. ~Placing' /\ w' \notin {"dispatch", "go"}
    <3>1. w' = "write" => job'.why = "ask"
      BY <1>b
    <3> QED
      BY <1>a, <3>1 DEF Placing, Trip, Trips
  <2> QED
    BY <1>a, <2>1 DEF ShareInv, Closed, Share, Kids
<1>10. QueueInv'
  BY <1>a DEF QueueInv, Fits, Over
<1>11. DoneInv'
  BY <1>a, <1>b, <1>c DEF DoneInv, Required, Share, Kids
<1>12. TokenInv'
  BY <1>a, <1>b DEF TokenInv
<1>13. CleanInv'
  BY <1>a, <1>b DEF CleanInv, Trip, Trips
<1>14. CrashInv'
  BY <1>a, <1>b DEF CrashInv, Placing, Trip, Trips, Wrecked, PlaceInv, Away, Searching
<1> QED
  BY <1>1, <1>2, <1>3, <1>4, <1>5, <1>6, <1>7, <1>8, <1>9, <1>10, <1>11, <1>12, <1>13, <1>14

\* The worker goes on with its scope: no stage is dispatched and none is recorded,
\* engines that search stay where they are.
LEMMA WorkerGoesOn ==
  ASSUME RInv, w \notin Over \cup {"gone"}, w' \notin Over \cup {"go"}, Ruined => Ruined',
         UNCHANGED <<scope, plan, shard, stage, search, reader, main, anchor, asking, tokens>>,
         cancelled' \in {cancelled, TRUE},
         WorkerType', EngineType', positioned' \subseteq Owners, JobInv', TodoInv', PlaceInv',
         CleanInv', CrashInv',
         Opened' <=> Opened, Unopened' <=> Unopened, Placing' => Placing,
         w' = "dispatch" => Placing,
         w \in Searching /\ w' \notin Searching => Running(scope) = {},
         \/ Opened /\ Incomplete(scope)
         \/ /\ disp' = disp \/ (Opened /\ disp' = [disp EXCEPT ![scope] = "incomplete"])
            /\ refine' \in {refine, "incomplete"},
         \A i \in Owners : /\ (alive'[i] => alive[i]) /\ (health'[i] => health[i])
                           /\ health'[i] /\ search[i] # None => pos'[i] = pos[i]
  PROVE  RInv'
<1> USE DEF RInv
<1>1. \A x : Kids(x)' = Kids(x) /\ Required(x)' = Required(x) /\ \A o : Share(x, o)' = Share(x, o)
  BY DEF Kids, Required, Share
<1>2. /\ DOMAIN disp' = DOMAIN disp /\ \A x \in DOMAIN disp : x # scope => disp'[x] = disp[x]
      /\ \A x \in DOMAIN disp : disp'[x] \in {disp[x], "incomplete"}
      /\ refine' \in {refine, "incomplete"} /\ refine # "completed" /\ ~drained
      /\ ArtifactType'
  <2>1. refine # "completed" /\ ~drained
    BY DEF DoneInv, BarrierInv, Over
  <2>2. CASE /\ disp' = disp \/ (Opened /\ disp' = [disp EXCEPT ![scope] = "incomplete"])
             /\ refine' \in {refine, "incomplete"}
    BY <2>1, <2>2 DEF TypeOK, ArtifactType
  <2>3. CASE Opened /\ Incomplete(scope)
    BY <2>1, <2>3, Spoiled
  <2> QED
    BY <2>2, <2>3
<1>c. (Live' => Live) /\ ~Left
  BY <1>2 DEF Live, Left
<1>3. TypeOK'
  BY <1>2 DEF TypeOK, PlanType, LedgerType, ReaderType, RunType
<1>4. StageInv'
  <2>1. \A o \in Owners : <<scope, o>> \in DOMAIN stage /\ stage[<<scope, o>>] = "running" => w' \in Searching
    BY DEF StageInv, Running
  <2> QED
    BY <1>1, <1>2, <2>1 DEF StageInv, ArtifactType
<1>5. SearchInv'
  BY <1>c, SearchKept
<1>6. BarrierInv'
  <2>1. cancelled => cancelled'
    BY Zenon DEF TypeOK, RunType
  <2> QED
    BY <1>2, <2>1, BarrierKept
<1>7. TreeInv' /\ QueueInv'
  <2>1. TreeInv'
    BY <1>1, <1>2 DEF TreeInv
  <2>2. QueueInv'
    BY <1>2 DEF QueueInv, Fits
  <2> QED
    BY <2>1, <2>2
<1>8. ShareInv'
  <2>1. \A x, o : Leased(x, o)' = Leased(x, o) /\ Closed(x, o)' = Closed(x, o)
    BY <1>1 DEF Leased, Closed
  <2>2. w' = "dispatch" => \A o \in todo' : Leased(scope, o)
    BY DEF ShareInv, WorkerType
  <2> QED
    BY <2>1, <2>2 DEF ShareInv
<1>9. DoneInv'
  BY <1>1, <1>2, <1>c DEF DoneInv, Over
<1>10. TokenInv'
  BY DEF TokenInv
<1> QED
  BY <1>3, <1>4, <1>5, <1>6, <1>7, <1>8, <1>9, <1>10

LEMMA PositionWrite_Failed ==
  ASSUME RInv, w \in Trips, Failed, pos' = pos,
         alive' \in [Owners -> BOOLEAN], health' \in [Owners -> BOOLEAN],
         \A j \in Owners : (alive'[j] => alive[j]) /\ (health'[j] => health[j]),
         ~(alive'[job.i] /\ health'[job.i]),
         UNCHANGED <<scope, job, todo, prepared, plan, shard, stage, abort, run, ends, search,
                     reader, main>>
  PROVE  RInv'
<1> USE DEF RInv
<1>a. /\ job.i \in Owners /\ w \notin Over /\ w' \notin Over /\ w \notin Searching /\ w' \notin Searching
      /\ \/ job.why = "ask" /\ w' = "back"
         \/ job.why = "askback" /\ w' = "asked"
         \/ job.why = "place" /\ w' = "restore"
         \/ job.why \in {"restore", "mend"} /\ w' = "unplaced"
  <2>1. job.i \in Owners /\ job.why \in {"ask", "askback", "place", "restore", "mend"}
    BY DEF JobInv, TypeOK, WorkerType
  <2>2. w' = IF job.why = "ask" THEN "back" ELSE IF job.why = "askback" THEN "asked"
             ELSE IF job.why = "place" THEN "restore" ELSE "unplaced"
    BY <2>1 DEF Failed
  <2> QED
    BY <2>1, <2>2 DEF Over, Trips, Searching
<1>b. /\ children' \in {None, children} /\ clean' \in {clean, FALSE}
      /\ \/ job.why \in {"ask", "askback"} /\ refine' = refine /\ disp' = disp
         \/ job.why = "mend" /\ refine' = "incomplete" /\ disp' = disp
         \/ job.why \in {"place", "restore"} /\ Incomplete(scope)
  BY <1>a DEF Failed
<1>c. /\ DOMAIN disp' = DOMAIN disp /\ refine' \in {refine, "incomplete"} /\ ArtifactType'
      /\ \/ job.why \in {"ask", "askback", "mend"} /\ disp' = disp
         \/ /\ job.why \in {"place", "restore"} /\ refine' = "incomplete"
            /\ \A x \in DOMAIN disp : disp'[x] = IF x = scope THEN "incomplete" ELSE disp[x]
  BY <1>b, Spoiled DEF TypeOK, ArtifactType
<1>1. WorkerType'
  BY <1>a, <1>b, <1>c DEF WorkerType, RunType, TypeOK, JobInv, Over, Away, Asking, Trips,
     Searching
<1>2. EngineType'
  BY DEF EngineType, TypeOK
<1>3. JobInv'
  BY <1>a DEF JobInv, Trip, Trips
<1>4. TodoInv'
  BY <1>a DEF TodoInv, Trip, Placing
<1>5. PlaceInv'
  BY <1>a DEF PlaceInv, Available, Trip, Placing, Away, Trips
<1>6. CleanInv'
  <2>1. Required(scope)' = Required(scope)
    BY ScopeSame
  <2>2. /\ w' \notin {"dispatch", "go", "await", "drain", "close"} /\ w' \notin Trips
        /\ w' = "restore" \/ (w' = "unplaced" /\ job.why = "restore") => clean' = FALSE
    BY <1>a DEF Failed, Trips
  <2> QED
    BY <1>a, <2>2 DEF CleanInv
<1>7. /\ positioned' \subseteq Owners /\ (Opened' <=> Opened) /\ (Unopened' <=> Unopened)
      /\ (Placing' => Placing) /\ (w' = "dispatch" => Placing)
  BY <1>a DEF TypeOK, RunType, Trip, Placing, Opened, Unopened, Away, Asking, Trips
<1>8. /\ w \notin Over /\ w' \notin Over \cup {"go"}
      /\ w \in Searching /\ w' \notin Searching => Running(scope) = {}
  BY <1>a
<1>9. \A j \in Owners : /\ (alive'[j] => alive[j]) /\ (health'[j] => health[j])
                     /\ health'[j] /\ search[j] # None => pos'[j] = pos[j]
  OBVIOUS
<1>10. CrashInv' /\ (Ruined => Ruined') /\ w # "gone"
  BY <1>a DEF CrashInv, Ruined, Placing, Trip, Trips, Wrecked
<1> QED
  BY <1>a, <1>b, <1>1, <1>2, <1>3, <1>4, <1>5, <1>6, <1>7, <1>10, WorkerGoesOn DEF Opened, Trip

LEMMA PositionWrite_Sent ==
  ASSUME RInv, w = "write", Available(job.i), search[job.i] = None,
         pos' = [pos EXCEPT ![job.i] = job.to], w' = "ready",
         UNCHANGED <<alive, health, refine, disp, clean, children>>,
         UNCHANGED <<scope, job, todo, prepared, plan, shard, stage, abort, run, ends, search,
                     reader, main>>
  PROVE  RInv'
<1> USE DEF RInv
<1>a. job.i \in Owners /\ ~drained /\ job.to \in Prefixes \cup {Old, New}
  BY DEF JobInv, BarrierInv, TypeOK, WorkerType, Trips
<1>b. pos'[job.i] = job.to /\ \A j \in Owners : j # job.i => pos'[j] = pos[j]
  BY <1>a DEF TypeOK, EngineType
<1>1. WorkerType'
  BY DEF WorkerType, TypeOK, Trips
<1>2. EngineType'
  BY <1>a DEF EngineType, TypeOK
<1>3. JobInv'
  BY DEF JobInv, Trip, Trips
<1>4. TodoInv'
  BY DEF TodoInv, Trip, Placing, Trips
<1>5. PlaceInv'
  BY <1>b DEF TypeOK, PlaceInv, JobInv, WorkerType, Required, Share, Kids, Available, Trip,
     Placing, Away, Trips, Searching
<1>6. CleanInv'
  BY DEF CleanInv, Required, Share, Kids, Trip, Trips
<1>7. /\ positioned' \subseteq Owners /\ (Opened' <=> Opened) /\ (Unopened' <=> Unopened)
      /\ (Placing' => Placing) /\ (w' = "dispatch" => Placing)
  BY DEF TypeOK, RunType, Trip, Placing, Opened, Unopened, Away, Asking, Trips, Searching
<1>8. /\ w \notin Over /\ w' \notin Over \cup {"go"}
      /\ w \in Searching /\ w' \notin Searching => Running(scope) = {}
  BY DEF Over, Searching
<1>9. \A j \in Owners : /\ (alive'[j] => alive[j]) /\ (health'[j] => health[j])
                     /\ health'[j] /\ search[j] # None => pos'[j] = pos[j]
  OBVIOUS
<1>10. CrashInv' /\ (Ruined => Ruined') /\ w # "gone"
  BY DEF CrashInv, Ruined, Placing, Trip, Trips, Wrecked, Running
<1> QED
  BY <1>1, <1>2, <1>3, <1>4, <1>5, <1>6, <1>7, <1>8, <1>10, WorkerGoesOn

LEMMA PositionWriteStep == ASSUME RInv, PositionWrite PROVE RInv'
<1>a. w = "write" /\ job.i \in Owners /\ alive \in [Owners -> BOOLEAN] /\ health \in [Owners -> BOOLEAN]
  BY DEF PositionWrite, RInv, JobInv, Trips, TypeOK, EngineType
<1>b. UNCHANGED <<scope, job, todo, prepared, plan, shard, stage, abort, run, ends, search,
                  reader, main>>
  BY DEF PositionWrite
<1>1. CASE (~Available(job.i) \/ search[job.i] # None) /\ Failed /\ UNCHANGED <<alive, health, pos>>
  <2>1. ~(alive[job.i] /\ health[job.i])
    BY <1>a, <1>1 DEF Available, RInv, SearchInv, Served, StageInv, Searching
  <2> QED
    BY <1>a, <1>b, <1>1, <2>1, PositionWrite_Failed DEF Trips
<1>2. CASE /\ Available(job.i) /\ search[job.i] = None
           /\ pos' = [pos EXCEPT ![job.i] = job.to] /\ w' = "ready"
           /\ UNCHANGED <<alive, health, refine, disp, clean, children>>
  BY <1>a, <1>b, <1>2, PositionWrite_Sent
<1>3. CASE /\ alive' = [alive EXCEPT ![job.i] = FALSE] /\ health' = [health EXCEPT ![job.i] = FALSE]
           /\ Failed /\ UNCHANGED pos
  BY <1>a, <1>b, <1>3, PositionWrite_Failed DEF Trips
<1> QED
  BY <1>1, <1>2, <1>3 DEF PositionWrite

LEMMA PositionReady_Answers ==
  ASSUME RInv, w = "ready",
                      \/ job.why = "ask" /\ w' = "perft"
                      \/ job.why = "askback" /\ w' = "asked"
                      \/ job.why = "place" /\ w' = "placed"
                      \/ job.why \in {"restore", "mend"} /\ w' = "unplaced",
         UNCHANGED <<scope, job, todo, prepared, children, clean, plan, shard, artifact, run,
                     ends, engines, reader, main>>
  PROVE  RInv'
<1> USE DEF RInv
<1>1. WorkerType'
  BY DEF WorkerType, TypeOK, Away, Asking
<1>2. EngineType'
  BY DEF EngineType, TypeOK
<1>3. JobInv'
  BY DEF JobInv, Trip, Trips
<1>4. TodoInv'
  BY DEF TodoInv, Trip, Placing, Trips
<1>5. PlaceInv'
  BY DEF TypeOK, PlaceInv, WorkerType, Required, Share, Kids, Available, Trip, Placing, Over,
     Away, Asking, Searching
<1>6. CleanInv'
  BY DEF CleanInv, Required, Share, Kids, Trip, Trips
<1>7. /\ positioned' \subseteq Owners /\ (Opened' <=> Opened) /\ (Unopened' <=> Unopened)
      /\ (Placing' => Placing) /\ (w' = "dispatch" => Placing)
  BY DEF TypeOK, RunType, WorkerType, Trip, Placing, Opened, Unopened, Over, Away, Asking,
     Searching
<1>8. /\ w \notin Over /\ w' \notin Over \cup {"go"}
      /\ w \in Searching /\ w' \notin Searching => Running(scope) = {}
  BY DEF Over, Searching
<1>9. \A j \in Owners : /\ (alive'[j] => alive[j]) /\ (health'[j] => health[j])
                     /\ health'[j] /\ search[j] # None => pos'[j] = pos[j]
  OBVIOUS
<1>10. CrashInv' /\ (Ruined => Ruined') /\ w # "gone"
  BY DEF CrashInv, Ruined, Placing, Trip, Trips, Wrecked, Running
<1> QED
  BY <1>1, <1>2, <1>3, <1>4, <1>5, <1>6, <1>7, <1>8, <1>10, WorkerGoesOn

LEMMA PositionReadyStep == ASSUME RInv, PositionReady PROVE RInv'
<1>a. /\ w = "ready" /\ job.i \in Owners /\ alive \in [Owners -> BOOLEAN] /\ health \in [Owners -> BOOLEAN]
      /\ job.why \in {"ask", "askback", "place", "restore", "mend"}
  BY DEF PositionReady, RInv, JobInv, Trips, TypeOK, EngineType, WorkerType
<1>b. UNCHANGED <<scope, job, todo, prepared, plan, shard, stage, abort, run, ends, search,
                  reader, main, alive, pos>>
  BY DEF PositionReady
<1>1. CASE /\ w' = CASE job.why = "ask"     -> "perft"
                    [] job.why = "askback" -> "asked"
                    [] job.why = "place"   -> "placed"
                    [] job.why \in {"restore", "mend"} -> "unplaced"
           /\ UNCHANGED <<health, refine, disp, clean, children>>
  <2>1. \/ job.why = "ask" /\ w' = "perft"
        \/ job.why = "askback" /\ w' = "asked"
        \/ job.why = "place" /\ w' = "placed"
        \/ job.why \in {"restore", "mend"} /\ w' = "unplaced"
    BY <1>a, <1>1
  <2>2. UNCHANGED <<health, refine, disp, clean, children>>
    BY <1>1
  <2> QED
    BY <1>a, <1>b, <2>1, <2>2, PositionReady_Answers
<1>2. CASE Failed /\ health' = [health EXCEPT ![job.i] = FALSE]
  BY <1>a, <1>b, <1>2, PositionWrite_Failed DEF Trips
<1> QED
  BY <1>1, <1>2 DEF PositionReady

LEMMA PerftStep ==
  ASSUME RInv, Perft
  PROVE  RInv'
<1> USE DEF RInv
<1>a. w = "perft" /\ w' = "back" /\ Oracle \in Owners
      /\ UNCHANGED <<scope, job, todo, prepared, clean, plan, shard, artifact, run, ends,
                   alive, pos, search, reader, main>>
  BY OwnerFacts DEF Perft
<1>b. /\ \A j \in Owners : (health'[j] => health[j]) /\ health' \in [Owners -> BOOLEAN]
      /\ children' \in 0 .. MaxChildren \/ children' = children
  <2>1. Width(scope) \in 0 .. MaxChildren /\ MaxChildren \in Nat
    BY <1>a, WidthFits, ScopeType DEF Over
  <2>2. health' = health \/ health' = [health EXCEPT ![Oracle] = FALSE]
    BY DEF Perft
  <2>3. children' \in 0 .. Width(scope) \/ children' = children
    BY DEF Perft
  <2>4. CASE health' = health
    BY <2>1, <2>3, <2>4 DEF TypeOK, EngineType
  <2>5. CASE health' = [health EXCEPT ![Oracle] = FALSE]
    BY <1>a, <2>1, <2>3, <2>5 DEF TypeOK, EngineType
  <2> QED
    BY <2>2, <2>4, <2>5
<1>1. WorkerType'
  BY <1>a, <1>b DEF WorkerType, TypeOK, Asking
<1>2. EngineType'
  BY <1>a, <1>b DEF EngineType, TypeOK
<1>3. JobInv'
  BY <1>a DEF JobInv
<1>4. TodoInv'
  BY <1>a DEF TodoInv, Trip, Placing, Trips
<1>5. PlaceInv'
  BY <1>a, <1>b DEF PlaceInv, JobInv, Available, Trip, Placing, Away, Searching
<1>6. CleanInv'
  BY <1>a DEF CleanInv, Trip, Trips
<1>7. /\ positioned' \subseteq Owners /\ (Opened' <=> Opened) /\ (Unopened' <=> Unopened)
      /\ (Placing' => Placing) /\ (w' = "dispatch" => Placing)
  BY <1>a DEF TypeOK, JobInv, RunType, Trip, Placing, Opened, Unopened, Away, Asking, Searching
<1>8. /\ w \notin Over /\ w' \notin Over \cup {"go"}
      /\ w \in Searching /\ w' \notin Searching => Running(scope) = {}
  BY <1>a DEF Over, Searching
<1>9. \A j \in Owners : /\ (alive'[j] => alive[j]) /\ (health'[j] => health[j])
                     /\ health'[j] /\ search[j] # None => pos'[j] = pos[j]
  BY <1>a
<1>10. CrashInv' /\ (Ruined => Ruined') /\ w # "gone"
  BY DEF Perft, CrashInv, Ruined, Placing, Trip, Trips, Wrecked, Running
<1> QED
  BY <1>a, <1>b, <1>1, <1>2, <1>3, <1>4, <1>5, <1>6, <1>7, <1>8, <1>10, WorkerGoesOn

LEMMA OracleBackStep ==
  ASSUME RInv, OracleBack
  PROVE  RInv'
<1> USE DEF RInv
<1>1. WorkerType'
  BY DEF OracleBack, WorkerType, RunType, TypeOK, JobInv, Trips
<1>2. EngineType'
  BY DEF OracleBack, EngineType, TypeOK
<1>3. JobInv'
  BY DEF OracleBack, TypeOK, JobInv, RunType, Trip, Trips
<1>4. TodoInv'
  BY DEF OracleBack, TodoInv, Trip, Placing
<1>5. PlaceInv'
  BY DEF OracleBack, PlaceInv, JobInv, Available, Trip, Placing, Away, Trips, Searching
<1>6. CleanInv'
  BY DEF OracleBack, CleanInv, Trip
<1>7. /\ positioned' \subseteq Owners /\ (Opened' <=> Opened) /\ (Unopened' <=> Unopened)
      /\ (Placing' => Placing) /\ (w' = "dispatch" => Placing)
  BY DEF OracleBack, TypeOK, RunType, WorkerType, Trip, Placing, Opened, Unopened, Over, Away,
     Trips, Searching
<1>8. /\ w \notin Over /\ w' \notin Over \cup {"go"}
      /\ w \in Searching /\ w' \notin Searching => Running(scope) = {}
  BY DEF OracleBack, Over, Searching
<1>9. \A j \in Owners : /\ (alive'[j] => alive[j]) /\ (health'[j] => health[j])
                     /\ health'[j] /\ search[j] # None => pos'[j] = pos[j]
  BY DEF OracleBack
<1>10. CrashInv' /\ (Ruined => Ruined') /\ w # "gone"
  BY DEF OracleBack, CrashInv, Ruined, Placing, Trip, Trips, Wrecked, Running
<1> QED
  BY <1>1, <1>2, <1>3, <1>4, <1>5, <1>6, <1>7, <1>8, <1>10, WorkerGoesOn DEF OracleBack

LEMMA AskedStep ==
  ASSUME RInv, Asked
  PROVE  RInv'
<1> USE DEF RInv
<1>a. (Live' => Live) /\ ~Left
  BY DEF Asked, NoJob, Live, Ruined, Wrecked, Trips, Left
<1>1. TypeOK'
  <2>1. WorkerType'
    BY DEF Asked, WorkerType, TypeOK, Over, Asking, NoJob
  <2>2. PlanType'
    BY DEF Asked, PlanType, TypeOK
  <2>3. LedgerType'
    BY DEF Asked, LedgerType, TypeOK
  <2>4. ArtifactType'
    BY DEF Asked, ArtifactType, TypeOK
  <2>5. EngineType'
    BY DEF Asked, EngineType, TypeOK
  <2>6. ReaderType'
    BY DEF Asked, ReaderType, TypeOK
  <2>7. RunType'
    BY DEF Asked, RunType, TypeOK
  <2> QED
    BY <2>1, <2>2, <2>3, <2>4, <2>5, <2>6, <2>7 DEF TypeOK
<1>2. JobInv'
  BY DEF Asked, TypeOK, JobInv, WorkerType, Trip, Trips
<1>3. StageInv'
  BY DEF Asked, StageInv, Required, Share, Kids, Searching
<1>4. TodoInv'
  BY DEF Asked, TodoInv, NoJob, Trip, Placing
<1>5. SearchInv'
  BY <1>a, SearchKept DEF Asked
<1>6. BarrierInv'
  BY BarrierKept DEF Asked, BarrierInv
<1>7. PlaceInv'
  BY DEF Asked, PlaceInv, Available, Trip, Placing, Away, Trips, Searching
<1>8. TreeInv'
  BY DEF Asked, TreeInv, Kids, NoJob, Trip, Opened, Unopened, Over, Away, Asking, Searching
<1>9. ShareInv'
  BY DEF Asked, ShareInv, Closed, Share, Kids, NoJob, Trip, Placing
<1>10. QueueInv'
  BY DEF Asked, QueueInv, Fits, Over
<1>11. DoneInv'
  BY <1>a DEF Asked, DoneInv, TreeInv, Required, Share, Kids, Unopened, Asking
<1>12. TokenInv'
  BY DEF Asked, TokenInv
<1>13. CleanInv'
  BY DEF Asked, CleanInv, NoJob, Trip
<1>14. CrashInv'
  BY DEF Asked, NoJob, CrashInv, Placing, Trip, Wrecked
<1> QED
  BY <1>1, <1>2, <1>3, <1>4, <1>5, <1>6, <1>7, <1>8, <1>9, <1>10, <1>11, <1>12, <1>13, <1>14

LEMMA TerminalStep ==
  ASSUME RInv, Terminal
  PROVE  RInv'
<1> USE DEF RInv
<1>a. /\ w = "split" /\ w' = "pick" /\ expansions' \in Nat
      /\ UNCHANGED <<item, queue, nominated, phase, shard, stage, abort, refine, run, ends,
                     engines, reader, main>>
  BY DEF Terminal, TypeOK, PlanType
<1>b. /\ scope \in Prefixes /\ scope \in DOMAIN shard /\ scope \notin DOMAIN disp
      /\ \A p \in DOMAIN shard : p \notin Children(scope)
  BY <1>a, Childless
<1>c. /\ DOMAIN disp' = DOMAIN disp \cup {scope} /\ disp'[scope] = "terminal"
      /\ \A s \in DOMAIN disp : s # scope /\ disp'[s] = disp[s]
      /\ disp' \in [DOMAIN disp' -> {"running", "completed", "incomplete", "terminal"}]
  BY <1>b DEF Terminal, Put, TypeOK, ArtifactType
<1>d. Kids(scope) = {} /\ \A s : Kids(s)' = Kids(s) /\ Required(s)' = Required(s)
  BY <1>a, <1>b, ShareSame DEF Kids
<1>e. (Live' => Live) /\ ~Left
  BY <1>a DEF Live, Ruined, Wrecked, Trips, Left
<1>1. TypeOK'
  <2>1. WorkerType'
    BY <1>a DEF WorkerType, TypeOK, Over
  <2>2. PlanType'
    BY <1>a DEF TypeOK, PlanType
  <2>3. LedgerType'
    BY <1>a DEF LedgerType, TypeOK
  <2>4. ArtifactType'
    BY <1>a, <1>b, <1>c DEF TypeOK, ArtifactType
  <2>5. EngineType'
    BY <1>a DEF EngineType, TypeOK
  <2>6. ReaderType'
    BY <1>a DEF ReaderType, TypeOK
  <2>7. RunType'
    BY <1>a DEF RunType, TypeOK
  <2> QED
    BY <2>1, <2>2, <2>3, <2>4, <2>5, <2>6, <2>7 DEF TypeOK
<1>2. JobInv'
  BY <1>a DEF JobInv, Trip, Trips
<1>3. StageInv'
  BY <1>a, <1>c, <1>d DEF StageInv
<1>4. TodoInv'
  BY <1>a DEF TodoInv, Trip, Placing, Trips
<1>5. SearchInv'
  BY <1>a, <1>e, SearchKept
<1>6. BarrierInv'
  BY <1>a, BarrierKept DEF BarrierInv
<1>7. PlaceInv'
  BY <1>a, <1>d DEF PlaceInv, Required, Share, Available, Trip, Away, Trips, Searching
<1>8. TreeInv'
  BY <1>a, <1>b, <1>c, <1>d DEF TreeInv, Trip, Unopened, Asking, Trips
<1>9. ShareInv'
  BY <1>a, <1>d DEF ShareInv, Closed, Share, Trip, Placing, Trips
<1>10. QueueInv'
  <2>1. \A e : Fits(e) => Fits(e)'
    BY <1>a, <1>c DEF Fits, Over
  <2> QED
    BY <1>a, <2>1 DEF QueueInv
<1>11. DoneInv'
  <2>1. refine # "completed"
    BY <1>a DEF DoneInv
  <2> QED
    BY <1>a, <1>c, <1>d, <1>e DEF DoneInv
<1>12. TokenInv'
  BY <1>a DEF TokenInv
<1>13. CleanInv'
  BY <1>a, <1>d DEF CleanInv, Required, Share
<1>14. CrashInv'
  BY <1>a DEF CrashInv, Placing, Trip, Trips, Wrecked
<1> QED
  BY <1>1, <1>2, <1>3, <1>4, <1>5, <1>6, <1>7, <1>8, <1>9, <1>10, <1>11, <1>12, <1>13, <1>14

LEMMA SplitStep ==
  ASSUME RInv, Split
  PROVE  RInv'
<1> USE DEF RInv
<1> DEFINE kids == {Append(scope, k) : k \in 1 .. children}
<1>a. /\ w = "split" /\ prepared' = {} /\ children' = None
      /\ UNCHANGED <<scope, job, plan, stage, abort, run, ends, engines, reader, main>>
      /\ shard' = [p \in DOMAIN shard \cup kids |->
                     IF p \in kids THEN [owner |-> Deal(p[Len(p)]), state |-> "leased"]
                     ELSE IF p = scope THEN [shard[p] EXCEPT !.state = "retired"]
                     ELSE shard[p]]
      /\ \/ w' = "place" /\ todo' = Required(scope)' /\ clean' = TRUE /\ refine' = refine
         \/ w' = "restore" /\ todo' = {} /\ clean' = FALSE /\ refine' = "incomplete"
      /\ disp' = Put(disp, scope, "running") \/ disp' = Put(disp, scope, "incomplete")
  BY DEF Split
<1>b. /\ scope \in Prefixes /\ scope \in DOMAIN shard /\ scope \notin DOMAIN disp
      /\ \A p \in DOMAIN shard : p \notin Children(scope)
  BY <1>a, Childless
<1>c. /\ DOMAIN disp' = DOMAIN disp \cup {scope} /\ disp'[scope] \in {"running", "incomplete"}
      /\ \A s \in DOMAIN disp : s # scope /\ disp'[s] = disp[s]
      /\ disp' \in [DOMAIN disp' -> {"running", "completed", "incomplete", "terminal"}]
  BY <1>a, <1>b DEF Put, TypeOK, ArtifactType
<1>d. \A c \in kids : c \in Children(scope) /\ c \in Prefixes /\ Deal(c[Len(c)]) \in Owners
  <2> SUFFICES ASSUME NEW c \in kids
               PROVE  c \in Children(scope) /\ c \in Prefixes /\ Deal(c[Len(c)]) \in Owners
    OBVIOUS
  <2>1. PICK k \in 1 .. children : c = Append(scope, k)
    OBVIOUS
  <2>2. children \in 0 .. MaxChildren /\ MaxChildren \in Nat
    BY <1>a, WidthFits DEF JobInv
  <2>3. k \in 1 .. MaxChildren /\ k \in Nat \ {0}
    BY <2>2
  <2>4. c \in Children(scope)
    BY <2>1, <2>3 DEF Children
  <2>5. scope \in Seq(Nat \ {0})
    BY <1>b DEF Prefixes
  <2>6. c[Len(c)] = k
    <3>1. Len(c) = Len(scope) + 1 /\ c[Len(scope) + 1] = k
      BY <2>1
    <3> QED
      BY <3>1
  <2> QED
    BY <1>b, <2>4, ChildOf, DealOwner
<1>e. /\ DOMAIN shard' = DOMAIN shard \cup kids
      /\ \A p \in DOMAIN shard : p \notin kids /\ shard'[p].owner = shard[p].owner
      /\ \A p \in DOMAIN shard : p # scope => shard'[p] = shard[p]
      /\ shard'[scope].state = "retired"
      /\ \A p \in kids : shard'[p].owner \in Owners /\ shard'[p].state = "leased"
      /\ LedgerType'
  <2> HIDE DEF kids
  <2>1. \A p \in DOMAIN shard : p \notin kids
    BY <1>b, <1>d
  <2>2. \A p \in DOMAIN shard : p # scope => shard'[p] = shard[p]
    BY <1>a, <2>1
  <2>3. /\ shard[scope] \in [owner : Owners, state : {"leased", "active", "sealed", "retired"}]
        /\ shard'[scope] = [shard[scope] EXCEPT !.state = "retired"]
    BY <1>a, <1>b, <2>1 DEF TypeOK, LedgerType
  <2>4. \A p \in kids : shard'[p] = [owner |-> Deal(p[Len(p)]), state |-> "leased"]
    BY <1>a
  <2>5. DOMAIN shard' = DOMAIN shard \cup kids
    BY <1>a
  <2>6. shard'[scope].owner = shard[scope].owner /\ shard'[scope].state = "retired"
    BY <2>3
  <2>7. \A p \in DOMAIN shard' :
           shard'[p] \in [owner : Owners, state : {"leased", "active", "sealed", "retired"}]
    <3> DEFINE T == [owner : Owners, state : {"leased", "active", "sealed", "retired"}]
    <3>1. \A p \in DOMAIN shard : p # scope => shard'[p] \in T
      BY <2>2 DEF TypeOK, LedgerType
    <3>2. shard'[scope] \in T
      BY <2>3
    <3>3. ASSUME NEW p \in kids PROVE shard'[p] \in T
      <4>1. PICK o \in Owners : shard'[p] = [owner |-> o, state |-> "leased"]
        BY <1>d, <2>4
      <4> QED
        BY <4>1
    <3> QED
      BY <2>5, <3>1, <3>2, <3>3
  <2>8. LedgerType'
    <3>1. DOMAIN shard' \subseteq Prefixes
      BY <1>d, <2>5 DEF TypeOK, LedgerType
    <3>2. shard' = [p \in DOMAIN shard' |-> shard'[p]]
      BY <1>a
    <3> QED
      BY <2>7, <3>1, <3>2 DEF LedgerType
  <2> QED
    BY <1>d, <2>1, <2>2, <2>4, <2>5, <2>6, <2>8
<1>f. \A s \in Prefixes : s # scope => /\ Kids(s)' = Kids(s) /\ Required(s)' = Required(s)
                                       /\ \A o : Share(s, o)' = Share(s, o)
  <2> SUFFICES ASSUME NEW s \in Prefixes, s # scope
               PROVE  /\ Kids(s)' = Kids(s) /\ Required(s)' = Required(s)
                      /\ \A o : Share(s, o)' = Share(s, o)
    OBVIOUS
  <2>1. \A c \in kids : c \notin Children(s)
    BY <1>b, <1>d, ChildOf
  <2>2. Children(s)' = Children(s)
    OBVIOUS
  <2>3. Kids(s)' = Kids(s)
    BY <1>e, <2>1 DEF Kids
  <2>4. \A o : Share(s, o)' = Share(s, o)
    BY <1>e, <2>3 DEF Share, Kids
  <2> QED
    BY <2>3, <2>4 DEF Required
<1>g. Kids(scope)' = kids /\ \A o : Leased(scope, o)'
  <2>1. Children(scope)' = Children(scope)
    BY <1>a
  <2>2. Kids(scope)' = kids
    BY <1>a, <1>b, <1>d DEF Kids
  <2> QED
    BY <1>e, <2>2 DEF Leased, Share
<1>h. /\ DOMAIN disp \subseteq Prefixes
      /\ \A q \in DOMAIN stage : q[1] \in DOMAIN disp /\ q[1] \in Prefixes /\ q[1] # scope
  BY <1>b DEF TypeOK, ArtifactType, StageInv
<1>i. \A o : <<scope, o>> \notin DOMAIN stage
  BY <1>h
<1>j. Required(scope)' \subseteq Owners
  BY DEF Required
<1>k. \A p \in DOMAIN shard : shard'[p].state \in {shard[p].state, "retired"}
  BY <1>e
<1> HIDE DEF kids
<1>l. (Live' => Live) /\ ~Left
  BY <1>a DEF Live, Ruined, Wrecked, Trips, Left
<1>1. TypeOK'
  <2>1. WorkerType'
    BY <1>a, <1>b, <1>j DEF TypeOK, WorkerType, Away
  <2>2. PlanType'
    BY <1>a DEF PlanType, TypeOK
  <2>3. LedgerType'
    BY <1>e
  <2>4. ArtifactType'
    <3>1. refine' \in {"running", "incomplete", "completed"}
      BY <1>a DEF TypeOK, ArtifactType
    <3>2. DOMAIN disp' \subseteq Prefixes
      BY <1>b, <1>c, <1>h
    <3> QED
      BY <1>a, <1>c, <3>2 DEF TypeOK, ArtifactType
  <2>5. EngineType'
    BY <1>a DEF EngineType, TypeOK
  <2>6. ReaderType'
    BY <1>a DEF ReaderType, TypeOK
  <2>7. RunType'
    BY <1>a DEF RunType, TypeOK
  <2> QED
    BY <2>1, <2>2, <2>3, <2>4, <2>5, <2>6, <2>7 DEF TypeOK
<1>2. JobInv'
  BY <1>a DEF JobInv, Trip, Trips
<1>3. StageInv'
  BY <1>a, <1>c, <1>f, <1>h DEF StageInv
<1>4. TodoInv'
  BY <1>a, <1>i DEF TodoInv
<1>5. SearchInv'
  BY <1>a, <1>l, SearchKept
<1>6. BarrierInv'
  BY <1>a, BarrierKept DEF BarrierInv
<1>7. PlaceInv'
  BY <1>a, <1>b, <1>c, <1>e, <1>f, <1>g, <1>h, <1>i, <1>j DEF TypeOK, PlaceInv, JobInv,
     SearchInv, Served, StageInv, BarrierInv, EngineType, WorkerType, RunType, Required, Share, Kids,
     Available, Trip, Placing, Busy, Over, Away, Asking, Trips, Searching, Reached, Working
<1>8. TreeInv'
  <2>1. DOMAIN disp' \subseteq DOMAIN shard'
    BY <1>b, <1>c, <1>e DEF TreeInv
  <2>2. ASSUME NEW c \in DOMAIN shard', Len(c) > 1
        PROVE  \E s \in DOMAIN disp' : c \in Children(s)
    <3>1. CASE c \in DOMAIN shard
      BY <1>c, <2>2, <3>1 DEF TreeInv
    <3>2. CASE c \in kids
      BY <1>c, <1>d, <3>2
    <3> QED
      BY <1>e, <3>1, <3>2
  <2>3. ASSUME NEW c \in DOMAIN shard', shard'[c].state = "retired" PROVE c \in DOMAIN disp'
    BY <1>c, <1>e, <2>3 DEF TreeInv
  <2>4. \A p \in DOMAIN disp' : p \notin Children(scope)
    <3>1. scope \notin Children(scope)
      BY <1>b
    <3> QED
      BY <1>b, <1>c DEF TreeInv
  <2>5. \A s \in DOMAIN disp' : disp'[s] = "terminal" => Kids(s)' = {}
    BY <1>c, <1>f, <1>h DEF TreeInv
  <2>6. \A s : Children(s)' = Children(s)
    OBVIOUS
  <2>7. ~Unopened'
    BY <1>a DEF Unopened, Asking, Trip, Trips
  <2>8. scope' = scope /\ scope \in DOMAIN shard' /\ scope \in DOMAIN disp'
    BY <1>a, <1>b, <1>c
  <2> QED
    BY <2>1, <2>2, <2>3, <2>4, <2>5, <2>7, <2>8 DEF TreeInv
<1>9. ShareInv'
  <2>1. ASSUME NEW s \in Prefixes, s # scope, NEW o, Closed(s, o) PROVE Closed(s, o)'
    <3>1. Share(s, o)' = Share(s, o) /\ Share(s, o) \subseteq DOMAIN shard
      BY <1>f, <2>1 DEF Share, Kids
    <3> QED
      BY <1>k, <2>1, <3>1 DEF Closed
  <2>2. \A i \in Owners : Busy(i) => <<reader[i].of, i>> \in DOMAIN stage /\ reader[i].of \in Prefixes
    BY <1>h DEF SearchInv, Served
  <2>3. \A i \in Owners : Busy(i) => reader[i].of # scope /\ reader[i].of \in Prefixes
    BY <1>i, <2>2
  <2>4. \A i \in Owners : (reader[i].at \in {"reread", "record"} /\ reader[i].as = "completed" =>
            Closed(reader[i].of, i))'
    BY <1>a, <2>1, <2>3 DEF ShareInv, Busy, Working
  <2>5. \A q \in DOMAIN stage : stage[q] = "completed" => Closed(q[1], q[2])'
    BY <1>h, <2>1 DEF ShareInv
  <2>6. \A o \in Owners : Leased(scope, o)'
    BY <1>g
  <2>7. w' \notin {"dispatch", "go"}
    BY <1>a
  <2> QED
    BY <1>a, <2>4, <2>5, <2>6 DEF ShareInv
<1>10. QueueInv'
  <2>1. \A e : Fits(e) => Fits(e)'
    <3> SUFFICES ASSUME NEW e, Fits(e) PROVE Fits(e)'
      OBVIOUS
    <3>1. /\ e.of \in DOMAIN shard /\ shard[e.of] = [owner |-> e.by, state |-> "sealed"]
          /\ e.of \notin DOMAIN disp /\ e.of # scope /\ e.of \notin Children(scope)
      BY <1>a DEF Fits, Over
    <3>2. e.of \in DOMAIN shard' /\ shard'[e.of] = shard[e.of] /\ e.of \notin DOMAIN disp'
      BY <1>c, <1>e, <3>1
    <3>3. Children(scope)' = Children(scope)
      BY <1>a
    <3> QED
      BY <1>a, <3>1, <3>2 DEF Fits
  <2> QED
    BY <1>a, <2>1 DEF QueueInv
<1>11. DoneInv'
  <2>1. refine # "completed" /\ refine' # "completed"
    BY <1>a DEF DoneInv
  <2>2. \A s \in DOMAIN disp' : disp'[s] = "completed" =>
           \A o \in Required(s)' : <<s, o>> \in DOMAIN stage /\ stage[<<s, o>>] = "completed"
    BY <1>c, <1>f, <1>h DEF DoneInv
  <2>3. Live' =>
         \A s \in DOMAIN disp' : disp'[s] \in {"completed", "terminal"} \/ s = scope
    BY <1>c, <1>l DEF DoneInv
  <2>4. Opened'
    BY <1>a DEF Opened, Away
  <2> QED
    BY <1>a, <2>2, <2>3, <2>4 DEF DoneInv
<1>12. TokenInv'
  BY <1>a DEF TokenInv
<1>13. CleanInv'
  BY <1>a DEF CleanInv, Trip, Trips
<1>14. CrashInv'
  BY <1>a DEF CrashInv, Placing, Trip, Trips, Wrecked, PlaceInv, Away, Searching
<1> QED
  BY <1>1, <1>2, <1>3, <1>4, <1>5, <1>6, <1>7, <1>8, <1>9, <1>10, <1>11, <1>12, <1>13, <1>14

LEMMA Place_Next ==
  ASSUME RInv, w = "place", todo = {}, w' = "dispatch", todo' = Required(scope),
         UNCHANGED <<job, clean, refine, disp>>,
         UNCHANGED <<scope, prepared, children, plan, shard, stage, abort, run, ends, engines,
                     reader, main>>
  PROVE  RInv'
<1> USE DEF RInv
<1>a. Required(scope) \subseteq Owners /\ Placing /\ Required(scope)' = Required(scope)
  BY ScopeSame DEF Required, Placing
<1>b. Required(scope) \subseteq prepared
  BY <1>a DEF PlaceInv
<1>1. WorkerType'
  BY <1>a DEF WorkerType, TypeOK, Away, Searching
<1>2. EngineType'
  BY DEF EngineType, TypeOK
<1>3. JobInv'
  BY DEF JobInv, Trip, Trips
<1>4. TodoInv'
  BY <1>a DEF TodoInv
<1>5. PlaceInv'
  BY <1>a, <1>b, OwnerFacts, ScopeType DEF TypeOK, PlaceInv, JobInv, SearchInv, Served, StageInv,
     BarrierInv, EngineType, WorkerType, RunType, Required, Share, Kids, Available, Trip,
     Placing, Busy, Over, Away, Asking, Trips, Searching, Reached, Working
<1>6. CleanInv'
  BY <1>a DEF CleanInv, Trip, Trips
<1>7. /\ positioned' \subseteq Owners /\ (Opened' <=> Opened) /\ (Unopened' <=> Unopened)
      /\ (Placing' => Placing) /\ (w' = "dispatch" => Placing)
  BY <1>a DEF TypeOK, RunType, Trip, Opened, Unopened, Away, Asking, Trips, Searching
<1>8. /\ w \notin Over /\ w' \notin Over \cup {"go"}
      /\ w \in Searching /\ w' \notin Searching => Running(scope) = {}
  BY DEF Over, Searching
<1>9. \A j \in Owners : /\ (alive'[j] => alive[j]) /\ (health'[j] => health[j])
                     /\ health'[j] /\ search[j] # None => pos'[j] = pos[j]
  OBVIOUS
<1>10. CrashInv' /\ (Ruined => Ruined') /\ w # "gone"
  BY DEF CrashInv, Ruined, Placing, Trip, Trips, Wrecked, Running
<1> QED
  BY <1>1, <1>2, <1>3, <1>4, <1>5, <1>6, <1>7, <1>8, <1>10, WorkerGoesOn

LEMMA Place_Fails ==
  ASSUME RInv, w = "place", w' = "restore", clean' = FALSE, Incomplete(scope), todo' = {},
         UNCHANGED job,
         UNCHANGED <<scope, prepared, children, plan, shard, stage, abort, run, ends, engines,
                     reader, main>>
  PROVE  RInv'
<1> USE DEF RInv
<1>a. /\ DOMAIN disp' = DOMAIN disp /\ refine' = "incomplete" /\ ArtifactType'
      /\ \A x \in DOMAIN disp : disp'[x] = IF x = scope THEN "incomplete" ELSE disp[x]
  BY Spoiled
<1>1. WorkerType'
  BY <1>a, ScopeType DEF WorkerType, RunType, TypeOK, JobInv, Over, Away, Asking, Trips,
     Searching
<1>2. EngineType'
  BY DEF EngineType, TypeOK
<1>3. JobInv'
  BY DEF JobInv, Trip, Trips
<1>4. TodoInv'
  BY DEF TodoInv, Placing
<1>5. PlaceInv'
  BY DEF PlaceInv, Available, Trip, Placing, Away, Trips
<1>6. CleanInv'
  BY DEF CleanInv
<1>7. /\ positioned' \subseteq Owners /\ (Opened' <=> Opened) /\ (Unopened' <=> Unopened)
      /\ (Placing' => Placing) /\ (w' = "dispatch" => Placing)
  BY DEF TypeOK, RunType, Trip, Placing, Opened, Unopened, Away, Asking, Trips
<1>8. /\ w \notin Over /\ w' \notin Over \cup {"go"}
      /\ w \in Searching /\ w' \notin Searching => Running(scope) = {}
  BY DEF Over, Searching
<1>9. \A j \in Owners : /\ (alive'[j] => alive[j]) /\ (health'[j] => health[j])
                     /\ health'[j] /\ search[j] # None => pos'[j] = pos[j]
  OBVIOUS
<1>10. CrashInv' /\ (Ruined => Ruined') /\ w # "gone"
  BY DEF CrashInv, Ruined, Placing, Trip, Trips, Wrecked, Running
<1> QED
  BY <1>1, <1>2, <1>3, <1>4, <1>5, <1>6, <1>7, <1>8, <1>10, WorkerGoesOn DEF Opened, Away

LEMMA Place_Goes ==
  ASSUME RInv, w = "place", NEW o \in todo, job' = [why |-> "place", i |-> o, to |-> scope],
         w' = "write", todo' = todo \ {o}, UNCHANGED <<clean, refine, disp>>,
         UNCHANGED <<scope, prepared, children, plan, shard, stage, abort, run, ends, engines,
                     reader, main>>
  PROVE  RInv'
<1> USE DEF RInv
<1>a. o \in Owners /\ scope \in Prefixes /\ Required(scope)' = Required(scope)
  BY ScopeType, ScopeSame DEF TypeOK, WorkerType, Over
<1>b. job'.why = "place" /\ job'.i = o /\ job'.to = scope
  OBVIOUS
<1>1. WorkerType'
  BY <1>a DEF WorkerType, TypeOK, Trips
<1>2. EngineType'
  BY DEF EngineType, TypeOK
<1>3. JobInv'
  BY <1>a DEF JobInv, Trip, Trips
<1>4. TodoInv'
  BY DEF TodoInv, Placing
<1>5. PlaceInv'
  BY <1>a DEF PlaceInv, Available, Trip, Placing, Trips
<1>6. CleanInv'
  BY DEF CleanInv, Trip
<1>7. /\ positioned' \subseteq Owners /\ (Opened' <=> Opened) /\ (Unopened' <=> Unopened)
      /\ (Placing' => Placing) /\ (w' = "dispatch" => Placing)
  BY DEF TypeOK, RunType, WorkerType, Trip, Placing, Opened, Unopened, Over, Asking, Trips
<1>8. /\ w \notin Over /\ w' \notin Over \cup {"go"}
      /\ w \in Searching /\ w' \notin Searching => Running(scope) = {}
  BY DEF Over, Searching
<1>9. \A j \in Owners : /\ (alive'[j] => alive[j]) /\ (health'[j] => health[j])
                     /\ health'[j] /\ search[j] # None => pos'[j] = pos[j]
  OBVIOUS
<1>10. CrashInv' /\ (Ruined => Ruined') /\ w # "gone"
  BY DEF CrashInv, Ruined, Placing, Trip, Trips, Wrecked, Running
<1> QED
  BY <1>1, <1>2, <1>3, <1>4, <1>5, <1>6, <1>7, <1>8, <1>10, WorkerGoesOn

LEMMA PlaceStep == ASSUME RInv, Place PROVE RInv'
<1>1. CASE todo = {}
  BY <1>1, Place_Next DEF Place
<1>2. CASE todo # {} /\ (Bounded \/ ~Available(First(todo)))
  BY <1>2, Place_Fails DEF Place
<1>3. CASE todo # {} /\ ~(Bounded \/ ~Available(First(todo)))
  <2>1. First(todo) \in todo
    BY <1>3, FirstIn DEF RInv, TypeOK, WorkerType
  <2> QED
    BY <1>3, <2>1, Place_Goes DEF Place
<1> QED
  BY <1>1, <1>2, <1>3

LEMMA PlacedStep ==
  ASSUME RInv, Placed
  PROVE  RInv'
<1> USE DEF RInv
<1>1. WorkerType'
  BY OwnerFacts, NotAPrefix DEF Placed, WorkerType, RunType, TypeOK, JobInv, Over, Away,
     Asking, Trips, Searching, NoJob
<1>2. EngineType'
  BY DEF Placed, EngineType, TypeOK
<1>3. JobInv'
  BY DEF Placed, JobInv, Trip, Trips
<1>4. TodoInv'
  BY DEF Placed, TodoInv, Placing
<1>5. PlaceInv'
  BY DEF Placed, PlaceInv, Required, Share, Kids, Available, Placing, Away
<1>6. CleanInv'
  BY DEF Placed, CleanInv, NoJob, Trip
<1>7. /\ positioned' \subseteq Owners /\ (Opened' <=> Opened) /\ (Unopened' <=> Unopened)
      /\ (Placing' => Placing) /\ (w' = "dispatch" => Placing)
  BY DEF Placed, TypeOK, JobInv, RunType, Trip, Placing, Opened, Unopened, Away, Asking, Trips
<1>8. /\ w \notin Over /\ w' \notin Over \cup {"go"}
      /\ w \in Searching /\ w' \notin Searching => Running(scope) = {}
  BY DEF Placed, Over, Searching
<1>9. \A j \in Owners : /\ (alive'[j] => alive[j]) /\ (health'[j] => health[j])
                     /\ health'[j] /\ search[j] # None => pos'[j] = pos[j]
  BY DEF Placed
<1>10. CrashInv' /\ (Ruined => Ruined') /\ w # "gone"
  BY DEF Placed, CrashInv, Ruined, Placing, Trip, Trips, Wrecked, Running
<1> QED
  BY <1>1, <1>2, <1>3, <1>4, <1>5, <1>6, <1>7, <1>8, <1>10, WorkerGoesOn DEF Placed

LEMMA Dispatch_Over ==
  ASSUME RInv, w = "dispatch", todo = {}, w' = "await",
         UNCHANGED <<clean, refine, disp, abort, shard, stage, tokens, todo>>,
         UNCHANGED <<scope, job, prepared, children, plan, positioned, asking, ends, engines,
                     reader, main>>
  PROVE  RInv'
<1> USE DEF RInv
<1>1. WorkerType'
  BY DEF WorkerType, TypeOK, Away, Searching
<1>2. EngineType'
  BY DEF EngineType, TypeOK
<1>3. JobInv'
  BY DEF JobInv, Trip, Trips
<1>4. TodoInv'
  BY DEF TodoInv, Trip, Placing, Trips
<1>5. PlaceInv'
  BY DEF PlaceInv, Available, Trip, Placing, Away, Trips, Searching
<1>6. CleanInv'
  BY DEF CleanInv, Required, Share, Kids
<1>7. /\ positioned' \subseteq Owners /\ (Opened' <=> Opened) /\ (Unopened' <=> Unopened)
      /\ (Placing' => Placing) /\ (w' = "dispatch" => Placing)
  BY DEF TypeOK, RunType, Trip, Placing, Opened, Unopened, Away, Asking, Trips, Searching
<1>8. /\ w \notin Over /\ w' \notin Over \cup {"go"}
      /\ w \in Searching /\ w' \notin Searching => Running(scope) = {}
  BY DEF Over, Searching
<1>9. \A j \in Owners : /\ (alive'[j] => alive[j]) /\ (health'[j] => health[j])
                     /\ health'[j] /\ search[j] # None => pos'[j] = pos[j]
  OBVIOUS
<1>10. CrashInv' /\ (Ruined => Ruined') /\ w # "gone"
  BY DEF CrashInv, Ruined, Placing, Trip, Trips, Wrecked, Running
<1> QED
  BY <1>1, <1>2, <1>3, <1>4, <1>5, <1>6, <1>7, <1>8, <1>10, WorkerGoesOn

LEMMA Dispatch_Refused ==
  ASSUME RInv, w = "dispatch", DispatchFails, UNCHANGED <<shard, stage, tokens>>,
         UNCHANGED <<scope, job, prepared, children, plan, positioned, asking, ends, engines,
                     reader, main>>
  PROVE  RInv'
<1> USE DEF RInv
<1>a. /\ DOMAIN disp' = DOMAIN disp /\ refine' = "incomplete" /\ ArtifactType'
      /\ \A x \in DOMAIN disp : disp'[x] = IF x = scope THEN "incomplete" ELSE disp[x]
      /\ clean' = FALSE /\ w' = "await" /\ todo' = {}
  BY Spoiled DEF DispatchFails
<1>1. WorkerType'
  BY <1>a, ScopeType DEF WorkerType, RunType, TypeOK, JobInv, Over, Away, Asking, Trips,
     Searching
<1>2. EngineType'
  BY DEF EngineType, TypeOK
<1>3. JobInv'
  BY <1>a DEF JobInv, Trip, Trips
<1>4. TodoInv'
  BY <1>a DEF TodoInv, Trip, Placing, Trips
<1>5. PlaceInv'
  BY <1>a DEF PlaceInv, Available, Trip, Placing, Away, Trips, Searching
<1>6. CleanInv'
  BY <1>a DEF CleanInv
<1>7. /\ positioned' \subseteq Owners /\ (Opened' <=> Opened) /\ (Unopened' <=> Unopened)
      /\ (Placing' => Placing) /\ (w' = "dispatch" => Placing)
  BY <1>a DEF TypeOK, RunType, Trip, Placing, Opened, Unopened, Away, Asking, Trips, Searching
<1>8. /\ w \notin Over /\ w' \notin Over \cup {"go"}
      /\ w \in Searching /\ w' \notin Searching => Running(scope) = {}
  BY <1>a DEF Over, Searching
<1>9. \A j \in Owners : /\ (alive'[j] => alive[j]) /\ (health'[j] => health[j])
                     /\ health'[j] /\ search[j] # None => pos'[j] = pos[j]
  OBVIOUS
<1>10. CrashInv' /\ (Ruined => Ruined') /\ w # "gone"
  BY <1>a DEF CrashInv, Ruined, Placing, Trip, Trips, Wrecked, Running
<1> QED
  BY <1>1, <1>2, <1>3, <1>4, <1>5, <1>6, <1>7, <1>8, <1>10, WorkerGoesOn DEF DispatchFails, Opened,
     Away, Searching

LEMMA Dispatch_Goes ==
  ASSUME RInv, w = "dispatch", todo # {}, NEW i, i = First(todo), ~Bounded, Available(i),
         shard' = Mark(Share(scope, i), i, "active"),
         stage' = Put(stage, <<scope, i>>, "running"), tokens' = tokens \cup {<<scope, i>>},
         w' = "go", UNCHANGED <<clean, refine, disp, abort, todo>>,
         UNCHANGED <<scope, job, prepared, children, plan, positioned, asking, ends, engines,
                     reader, main>>
  PROVE  RInv'
<1> USE DEF RInv
<1>0. i \in todo /\ i \in Owners /\ scope \in Prefixes /\ scope \in DOMAIN shard
  BY FirstIn, ScopeType DEF TypeOK, WorkerType, Over
<1>a. /\ DOMAIN shard' = DOMAIN shard /\ LedgerType'
      /\ \A p \in DOMAIN shard : /\ shard'[p].owner = shard[p].owner
                                 /\ p \in Share(scope, i) => shard'[p].state = "active"
                                 /\ p \notin Share(scope, i) => shard'[p] = shard[p]
  BY <1>0, Marked DEF TypeOK, LedgerType
<1>b. /\ DOMAIN stage' = DOMAIN stage \cup {<<scope, i>>} /\ stage'[<<scope, i>>] = "running"
      /\ \A q \in DOMAIN stage : q # <<scope, i>> => stage'[q] = stage[q]
      /\ stage' \in [DOMAIN stage' -> {"running", "completed", "stopped", "failed"}]
  <2> DEFINE k == <<scope, i>>
  <2>1. stage' = Put(stage, k, "running")
    OBVIOUS
  <2> HIDE DEF k
  <2>2. /\ DOMAIN stage' = DOMAIN stage \cup {k} /\ stage'[k] = "running"
        /\ \A q \in DOMAIN stage : q # k => stage'[q] = stage[q]
        /\ stage' \in [DOMAIN stage' -> {"running", "completed", "stopped", "failed"}]
    BY <2>1 DEF Put, TypeOK, ArtifactType
  <2> QED
    BY <2>2 DEF k
<1>c. <<scope, i>> \notin DOMAIN stage /\ i \in prepared
  BY <1>0 DEF TodoInv, PlaceInv
<1>d. /\ \A s : Required(s)' = Required(s) /\ Kids(s)' = Kids(s)
      /\ \A s, o : Share(s, o)' = Share(s, o)
      /\ Required(scope)' = Required(scope)
  BY <1>a, ShareSame
<1>e. i \in Required(scope)
  BY <1>0 DEF CleanInv
<1>f. scope \in DOMAIN disp /\ \A p \in DOMAIN disp : p \notin Kids(scope)
  BY DEF TreeInv, Opened, Away, Searching, Over, Kids
<1>g. \A q \in DOMAIN stage : stage'[q] = stage[q] /\ q # <<scope, i>>
  BY <1>b, <1>c
<1>l. (Live' => Live) /\ ~Left
  BY DEF Live, Ruined, Wrecked, Trips, Left
<1>1. TypeOK'
  <2>1. WorkerType'
    BY DEF WorkerType, TypeOK, Away, Searching
  <2>2. PlanType'
    BY DEF PlanType, TypeOK
  <2>3. LedgerType'
    BY <1>a DEF LedgerType
  <2>4. ArtifactType'
    BY <1>0, <1>b DEF TypeOK, ArtifactType
  <2>5. EngineType'
    BY DEF EngineType, TypeOK
  <2>6. ReaderType'
    BY DEF ReaderType, TypeOK
  <2>7. RunType'
    BY DEF RunType, TypeOK
  <2> QED
    BY <2>1, <2>2, <2>3, <2>4, <2>5, <2>6, <2>7 DEF TypeOK
<1>2. JobInv'
  BY DEF JobInv, Trip, Trips
<1>3. StageInv'
  <2>1. ASSUME NEW q \in DOMAIN stage' PROVE q \in DOMAIN stage \/ q = <<scope, i>>
    BY <1>b
  <2> QED
    BY <1>b, <1>d, <1>e, <1>f DEF StageInv, Searching
<1>4. TodoInv'
  <2>1. \A o \in todo \ {i} : /\ <<scope, o>> \notin DOMAIN stage'
                              /\ search[o] # scope /\ (Busy(o) => reader[o].of # scope)
    <3>1. \A o \in todo : o \in Owners /\ <<scope, o>> \notin DOMAIN stage
      BY DEF TodoInv, TypeOK, WorkerType
    <3>2. scope # None
      BY <1>0, NoneApart
    <3>3. ASSUME NEW o \in todo \ {i}
          PROVE  /\ <<scope, o>> \notin DOMAIN stage' /\ search[o] # scope
                 /\ Busy(o) => reader[o].of # scope
      <4>1. <<scope, o>> \notin DOMAIN stage'
        BY <1>b, <3>1
      <4>2. search[o] # scope /\ (Busy(o) => reader[o].of # scope)
        BY <3>1, <3>2 DEF SearchInv, Served
      <4> QED
        BY <4>1, <4>2
    <3> QED
      BY <3>3
  <2>2. w' = "go" /\ todo' # {} /\ First(todo') = i /\ scope' = scope
    OBVIOUS
  <2>3. <<scope', i>> \in DOMAIN stage' /\ stage'[<<scope', i>>] = "running"
    BY <1>b
  <2>4. ~Placing'
    BY DEF Placing, Trip, Trips
  <2>5. todo' = todo /\ search' = search /\ reader' = reader /\ \A o : Busy(o)' = Busy(o)
    BY DEF Busy
  <2>6. (\A o \in todo \ {First(todo)} : <<scope, o>> \notin DOMAIN stage)'
    BY <2>1
  <2>7. (\A o \in todo : search[o] # scope /\ (Busy(o) => reader[o].of # scope))'
    <3>1. search[i] # scope /\ (Busy(i) => reader[i].of # scope)
      BY <1>0, <1>c, NoneApart DEF SearchInv, Served
    <3> QED
      BY <2>1, <2>2, <2>5, <3>1
  <2> QED
    BY <2>3, <2>4, <2>6, <2>7 DEF TodoInv
<1>5. SearchInv'
  <2>1. \A q \in DOMAIN stage : q \in DOMAIN stage' /\ stage'[q] = stage[q]
    BY <1>b, <1>g
  <2>2. \A j \in Owners : Busy(j) => <<reader[j].of, j>> # <<scope, i>>
    BY <1>c DEF SearchInv, Served
  <2>3. \A j \in Owners : (Busy(j)' <=> Busy(j)) /\ (reader'[j] = reader[j])
    BY DEF Busy
  <2> SUFFICES ASSUME NEW j \in Owners PROVE Served(j)'
    BY DEF SearchInv
  <2>4. Served(j)
    BY DEF SearchInv
  <2> QED
    BY <1>l, <2>1, <2>2, <2>3, <2>4 DEF Served
<1>6. BarrierInv'
  BY <1>b, BarrierKept DEF BarrierInv
<1>7. PlaceInv'
  BY <1>0, <1>a, <1>b, <1>c, <1>d, <1>e, <1>f, <1>g DEF TypeOK, PlaceInv, JobInv, SearchInv, Served,
     StageInv, BarrierInv, EngineType, WorkerType, RunType, Required, Share, Kids, Available,
     Trip, Placing, Busy, Over, Away, Asking, Trips, Searching, Reached, Working
<1>8. TreeInv'
  BY <1>a, <1>f DEF TreeInv, Kids, Trip, Unopened, Asking, Trips
<1>9. ShareInv'
  <2>1. ASSUME NEW o, o # i, Leased(scope, o) PROVE Leased(scope, o)'
    <3>1. \A c \in Share(scope, o) : shard'[c] = shard[c]
      BY <1>a, <2>1 DEF Share, Kids
    <3> QED
      BY <1>d, <2>1, <3>1 DEF Leased
  <2>2. \A s, o : Closed(s, o) => Closed(s, o)'
    BY <1>0, <1>a, <1>d DEF ShareInv, Leased, Closed, Share, Kids
  <2>3. ~Placing' /\ w' = "go"
    BY DEF Placing, Trip, Trips
  <2>4. \A q \in DOMAIN stage' : stage'[q] = "completed" => q \in DOMAIN stage /\ stage[q] = "completed"
    BY <1>b, <1>g
  <2> QED
    BY <2>1, <2>2, <2>3, <2>4 DEF ShareInv
<1>10. QueueInv'
  <2>1. \A e : Fits(e) => e.of \in DOMAIN shard /\ e.of \notin Share(scope, i)
    BY DEF Fits, Share, Kids, Over
  <2>2. \A e : Fits(e) => Fits(e)'
    BY <1>a, <2>1 DEF Fits, Over
  <2> QED
    BY <2>2 DEF QueueInv
<1>11. DoneInv'
  <2>1. \A q \in DOMAIN stage : q \in DOMAIN stage' /\ stage'[q] = stage[q]
    BY <1>b, <1>g
  <2>2. refine # "completed" /\ Opened' /\ Opened
    BY DEF DoneInv, Opened, Away, Searching
  <2> QED
    BY <1>d, <1>l, <2>1, <2>2 DEF DoneInv
<1>12. TokenInv'
  BY <1>b DEF TokenInv
<1>13. CleanInv'
  BY <1>0, <1>a, <1>b, <1>c, <1>d, <1>e, <1>f, <1>g DEF TypeOK, CleanInv, StageInv, PlaceInv,
     Required, Share, Kids, Available, Trip, Opened, Placing, Busy, Away, Trips, Searching,
     Reached, Working
<1>14. CrashInv'
  BY DEF CrashInv, Placing, Trip, Trips, Wrecked
<1> QED
  BY <1>1, <1>2, <1>3, <1>4, <1>5, <1>6, <1>7, <1>8, <1>9, <1>10, <1>11, <1>12, <1>13, <1>14

LEMMA DispatchStep == ASSUME RInv, Dispatch PROVE RInv'
<1>1. CASE todo = {}
  BY <1>1, Dispatch_Over DEF Dispatch
<1>2. CASE todo # {}
  <2>1. Leased(scope, First(todo)) /\ w = "dispatch"
    BY <1>2, FirstIn DEF Dispatch, RInv, ShareInv, TypeOK, WorkerType
  <2>2. CASE DispatchFails /\ UNCHANGED <<shard, stage, tokens>>
    BY <2>1, <2>2, Dispatch_Refused DEF Dispatch
  <2>3. CASE ~(DispatchFails /\ UNCHANGED <<shard, stage, tokens>>)
    BY <1>2, <2>1, <2>3, Dispatch_Goes DEF Dispatch
  <2> QED
    BY <2>2, <2>3
<1> QED
  BY <1>1, <1>2

LEMMA Go_Ends ==
  ASSUME RInv, Go, todo # {}, NEW o, o = First(todo), NEW d \in {"failed", "stopped"},
         stage' = Record(scope, o, d), tokens' = tokens \ {<<scope, o>>},
         health' \in [Owners -> BOOLEAN], alive' \in [Owners -> BOOLEAN],
         \A j \in Owners : (alive'[j] => alive[j]) /\ (health'[j] => health[j]),
         search' = search, DispatchFails
  PROVE  RInv'
<1> USE DEF RInv
<1>a. /\ o \in todo /\ o \in Owners /\ <<scope, o>> \in DOMAIN stage
      /\ search[o] # scope /\ (reader[o].at \in Working => reader[o].of # scope)
  BY FirstIn DEF Go, TodoInv, Busy, TypeOK, WorkerType
<1>b. /\ w = "go" /\ w' = "await" /\ todo' = {} /\ clean' = FALSE /\ Incomplete(scope)
      /\ UNCHANGED <<scope, job, prepared, children, plan, shard, positioned, asking, ends,
                    pos, reader, main>>
  BY DEF Go, DispatchFails
<1>c. \A j \in Owners : (alive'[j] => alive[j]) /\ (health'[j] => health[j])
  OBVIOUS
<1>e. /\ JobInv' /\ StageInv' /\ TodoInv' /\ SearchInv' /\ PlaceInv'
      /\ TreeInv' /\ ShareInv' /\ QueueInv' /\ DoneInv' /\ TokenInv' /\ CleanInv' /\ CrashInv'
  <2>1. \A j \in Owners :
           /\ (alive'[j] => alive[j]) /\ (health'[j] => health[j])
           /\ reader'[j].at \in Working => reader'[j] = reader[j]
           /\ reader'[j].at \in {"exit", "ended"} => ~health'[j]
    BY <1>b, <1>c DEF SearchInv, Served
  <2> QED
    BY <1>a, <1>b, <2>1, StageEnds
<1>1. TypeOK'
  <2>1. WorkerType'
    BY <1>a, <1>b, <1>c DEF WorkerType, RunType, TypeOK, JobInv, Over, Away, Asking, Trips,
       Searching, Working
  <2>2. PlanType'
    BY <1>b DEF PlanType, TypeOK
  <2>3. LedgerType'
    BY <1>b DEF LedgerType, TypeOK
  <2>4. ArtifactType'
    BY <1>b, Spoiled, Recorded DEF TypeOK, ArtifactType, Incomplete
  <2>5. EngineType'
    BY <1>b DEF EngineType, TypeOK
  <2>6. ReaderType'
    BY <1>b DEF ReaderType, TypeOK
  <2>7. RunType'
    BY <1>b DEF RunType, TypeOK
  <2> QED
    BY <2>1, <2>2, <2>3, <2>4, <2>5, <2>6, <2>7 DEF TypeOK
<1>6. BarrierInv'
  <2>1. m = "fail" => serve \subseteq DOMAIN stage'
    BY Recorded DEF BarrierInv
  <2> QED
    BY <1>b, <2>1, Recorded, BarrierKept DEF BarrierInv
<1> QED
  BY <1>e, <1>1, <1>6

LEMMA Go_Starts ==
  ASSUME RInv, Go, todo # {}, NEW o, o = First(todo), Available(o), ~Bounded,
         search' = [search EXCEPT ![o] = scope], todo' = todo \ {o}, w' = "dispatch",
         UNCHANGED <<stage, tokens, alive, health, clean, refine, disp, abort>>
  PROVE  RInv'
<1> USE DEF RInv
<1>a. /\ o \in todo /\ o \in Owners /\ <<scope, o>> \in DOMAIN stage
      /\ search[o] # scope /\ (reader[o].at \in Working => reader[o].of # scope)
      /\ w = "go" /\ todo \subseteq Owners
  BY FirstIn DEF Go, TodoInv, Busy, TypeOK, WorkerType
<1>b. UNCHANGED <<scope, job, prepared, children, plan, shard, positioned, asking, ends,
                  pos, reader, main>>
  BY DEF Go
<1>c. search'[o] = scope /\ \A j \in Owners : j # o => search'[j] = search[j]
  BY <1>a DEF TypeOK, EngineType
<1>d. scope \in Prefixes
  BY <1>a, ScopeType DEF Over
<1>f. m = "idle" /\ ~cancelled /\ health[o] /\ pos[o] = scope /\ stage[<<scope, o>>] = "running"
  BY <1>a DEF Bounded, Available, BarrierInv, PlaceInv, TodoInv, Reached
<1>l. (Live' => Live) /\ ~Left
  BY <1>a, <1>b DEF Live, Ruined, Wrecked, Trips, Left
<1>1. TypeOK'
  <2>1. WorkerType'
    BY <1>b DEF WorkerType, TypeOK, Away, Searching
  <2>2. PlanType'
    BY <1>b DEF PlanType, TypeOK
  <2>3. LedgerType'
    BY <1>b DEF LedgerType, TypeOK
  <2>4. ArtifactType'
    BY DEF ArtifactType, TypeOK
  <2>5. EngineType'
    BY <1>a, <1>b, <1>d DEF EngineType, TypeOK
  <2>6. ReaderType'
    BY <1>b DEF ReaderType, TypeOK
  <2>7. RunType'
    BY <1>b DEF RunType, TypeOK
  <2> QED
    BY <2>1, <2>2, <2>3, <2>4, <2>5, <2>6, <2>7 DEF TypeOK
<1>2. JobInv'
  BY <1>a, <1>b DEF JobInv, Trip, Trips
<1>3. StageInv'
  BY <1>b DEF StageInv, Required, Share, Kids, Searching
<1>4. TodoInv'
  BY <1>a, <1>b DEF TodoInv, Trip, Placing, Trips
<1>5. SearchInv'
  <2>1. <<scope, o>> \in DOMAIN stage /\ search'[o] = scope
    BY <1>a, <1>c
  <2>2. Busy(o) => reader[o].of # scope
    BY <1>a DEF Busy
  <2> QED
    <3>1. ASSUME NEW j \in Owners, search'[j] # None
          PROVE  /\ <<search'[j], j>> \in DOMAIN stage
                 /\ health[j] \/ Live => stage[<<search'[j], j>>] = "running"
                 /\ Busy(j) => search'[j] # reader[j].of
                 /\ health[j] => pos[j] = search'[j]
      <4>1. CASE j = o
        BY <1>f, <2>1, <2>2, <4>1
      <4>2. CASE j # o
        BY <1>c, <1>l, <3>1, <4>2 DEF SearchInv, Served
      <4> QED
        BY <4>1, <4>2
    <3>2. ASSUME NEW j \in Owners
          PROVE  /\ Busy(j) =>
                      /\ <<reader[j].of, j>> \in DOMAIN stage
                      /\ health[j] \/ Live => stage[<<reader[j].of, j>>] = "running"
                      /\ reader[j].at # "audit" => <<reader[j].of, j>> \notin tokens
                 /\ reader[j].at \in {"exit", "ended"} => ~health[j]
      BY <1>a DEF SearchInv, Served
    <3>3. UNCHANGED <<stage, refine, health, pos, reader, tokens>>
      BY <1>b
    <3>4. ASSUME NEW j \in Owners PROVE Served(j)'
      BY <1>l, <3>1, <3>2, <3>3 DEF Served, Busy
    <3> QED
      BY <3>4 DEF SearchInv
<1>6. BarrierInv'
  BY <1>b, <1>f DEF BarrierInv
<1>7. PlaceInv'
  BY <1>a, <1>b DEF PlaceInv, Available, Trip, Placing, Away, Trips, Searching
<1>8. TreeInv'
  BY <1>a, <1>b DEF TreeInv, Kids, Trip, Opened, Unopened, Over, Away, Asking, Trips, Searching
<1>9. ShareInv'
  BY <1>a, <1>b DEF ShareInv, Closed, Leased, Share, Kids, Trip, Placing, Trips
<1>10. QueueInv'
  BY <1>a, <1>b DEF QueueInv, Fits, Over
<1>11. DoneInv'
  BY <1>a, <1>b, <1>l DEF DoneInv, Required, Share, Kids, Opened, Away, Searching
<1>12. TokenInv'
  BY <1>b DEF TokenInv
<1>13. CleanInv'
  BY <1>a, <1>b DEF CleanInv, Required, Share, Kids, Trip, Trips
<1>14. CrashInv'
  BY <1>a, <1>b DEF CrashInv, Placing, Trip, Trips, Wrecked
<1> QED
  BY <1>1, <1>2, <1>3, <1>4, <1>5, <1>6, <1>7, <1>8, <1>9, <1>10, <1>11, <1>12, <1>13, <1>14

LEMMA Go_Breaks ==
  ASSUME RInv, Go, ~Bounded, alive' \in [Owners -> BOOLEAN], w' = "error",
         \A j \in Owners : alive'[j] => alive[j],
         UNCHANGED <<stage, tokens, health, search, clean, refine, disp, abort, todo>>
  PROVE  RInv'
<1> USE DEF RInv
<1>a. /\ w = "go" /\ m = "idle"
      /\ UNCHANGED <<scope, job, prepared, children, plan, shard, positioned, asking, ends,
                     pos, reader, main>>
  BY DEF Go, Bounded, BarrierInv
<1>1. WorkerType' /\ EngineType'
  BY <1>a DEF TypeOK, WorkerType, EngineType, Away, Searching
<1>2. JobInv' /\ TodoInv' /\ CleanInv'
  BY <1>a DEF JobInv, TodoInv, CleanInv, Trip, Trips, Placing
<1>3. PlaceInv'
  BY <1>a DEF PlaceInv, Available, Trip, Placing, Away, Trips, Searching
<1>4. /\ positioned' \subseteq Owners /\ (Opened' <=> Opened) /\ (Unopened' <=> Unopened)
      /\ (Placing' => Placing) /\ (w' = "dispatch" => Placing)
      /\ w \notin Over \cup {"gone"} /\ w' \notin Over \cup {"go"} /\ w' \in Searching
  BY <1>a DEF TypeOK, RunType, Trip, Placing, Opened, Unopened, Over, Away, Asking, Trips, Searching
<1>5. CrashInv' /\ (Ruined => Ruined')
  BY <1>a DEF CrashInv, Ruined, Placing, Trip, Trips, Wrecked
<1> QED
  BY <1>a, <1>1, <1>2, <1>3, <1>4, <1>5, WorkerGoesOn

LEMMA GoStep == ASSUME RInv, Go PROVE RInv'
<1> DEFINE o == First(todo)
<1>a. todo # {} /\ o \in Owners /\ alive \in [Owners -> BOOLEAN] /\ health \in [Owners -> BOOLEAN]
  BY FirstIn DEF Go, RInv, TodoInv, TypeOK, WorkerType, EngineType
<1>1. CASE /\ ~Available(o) \/ search[o] # None
           /\ stage' = Record(scope, o, "failed") /\ tokens' = tokens \ {<<scope, o>>}
           /\ health' = [health EXCEPT ![o] = health[o] /\ search[o] = None]
           /\ DispatchFails /\ UNCHANGED <<alive, search>>
  BY <1>a, <1>1, Go_Ends
<1>2. CASE /\ stage' = Record(scope, o, "stopped") /\ tokens' = tokens \ {<<scope, o>>}
           /\ DispatchFails /\ UNCHANGED <<alive, health, search>>
  BY <1>a, <1>2, Go_Ends
<1>3. CASE /\ stage' = Record(scope, o, "failed") /\ tokens' = tokens \ {<<scope, o>>}
           /\ alive' = [alive EXCEPT ![o] = FALSE] /\ health' = [health EXCEPT ![o] = FALSE]
           /\ DispatchFails /\ UNCHANGED search
  BY <1>a, <1>3, Go_Ends
<1>4. CASE /\ Available(o) /\ ~Bounded
           /\ search' = [search EXCEPT ![o] = scope] /\ todo' = todo \ {o} /\ w' = "dispatch"
           /\ UNCHANGED <<stage, tokens, alive, health, clean, refine, disp, abort>>
  BY <1>a, <1>4, Go_Starts
<1>5. CASE /\ ~Bounded /\ alive' = [alive EXCEPT ![o] = FALSE] /\ w' = "error"
           /\ UNCHANGED <<stage, tokens, health, search, clean, refine, disp, abort, todo>>
  BY <1>a, <1>5, Go_Breaks
<1> QED
  BY <1>1, <1>2, <1>3, <1>4, <1>5 DEF Go

LEMMA AwaitStep ==
  ASSUME RInv, Await
  PROVE  RInv'
<1> USE DEF RInv
<1>1. WorkerType'
  BY DEF Await, WorkerType, TypeOK, Away, Searching
<1>2. EngineType'
  BY DEF Await, EngineType, TypeOK
<1>3. JobInv'
  BY DEF Await, JobInv, Trip, Trips
<1>4. TodoInv'
  BY DEF Await, TodoInv, Trip, Placing, Trips
<1>5. PlaceInv'
  BY DEF Await, PlaceInv, Available, Trip, Placing, Away, Trips, Searching
<1>6. CleanInv'
  BY DEF Await, CleanInv, Required, Share, Kids
<1>7. /\ positioned' \subseteq Owners /\ (Opened' <=> Opened) /\ (Unopened' <=> Unopened)
      /\ (Placing' => Placing) /\ (w' = "dispatch" => Placing)
  BY DEF Await, TypeOK, RunType, Trip, Placing, Opened, Unopened, Away, Asking, Trips, Searching
<1>8. /\ w \notin Over /\ w' \notin Over \cup {"go"}
      /\ w \in Searching /\ w' \notin Searching => Running(scope) = {}
  BY DEF Await, Over, Searching
<1>9. \A j \in Owners : /\ (alive'[j] => alive[j]) /\ (health'[j] => health[j])
                     /\ health'[j] /\ search[j] # None => pos'[j] = pos[j]
  BY DEF Await
<1>10. CrashInv' /\ (Ruined => Ruined') /\ w # "gone"
  BY DEF Await, CrashInv, Ruined, Placing, Trip, Trips, Wrecked, Running
<1> QED
  BY <1>1, <1>2, <1>3, <1>4, <1>5, <1>6, <1>7, <1>8, <1>10, WorkerGoesOn
     DEF Await, Opened, Away, Searching

LEMMA Drain_Over ==
  ASSUME RInv, Drain, Running(scope) = {}
  PROVE  RInv'
<1> USE DEF RInv
<1>1. WorkerType'
  BY Spoiled DEF Drain, WorkerType, RunType, TypeOK, JobInv, Over, Away, Asking, Trips,
     Searching, Running
<1>2. EngineType'
  BY DEF Drain, EngineType, TypeOK
<1>3. JobInv'
  BY DEF Drain, JobInv, Trip, Trips
<1>4. TodoInv'
  BY DEF Drain, TodoInv, Trip, Placing, Trips
<1>5. PlaceInv'
  BY DEF Drain, PlaceInv, Available, Trip, Placing, Away, Trips
<1>6. CleanInv'
  BY DEF Drain, CleanInv, Required, Share, Kids, Trips
<1>7. /\ positioned' \subseteq Owners /\ (Opened' <=> Opened) /\ (Unopened' <=> Unopened)
      /\ (Placing' => Placing) /\ (w' = "dispatch" => Placing)
  BY DEF Drain, TypeOK, RunType, WorkerType, Trip, Placing, Opened, Unopened, Over, Away,
     Asking, Trips
<1>8. /\ w \notin Over /\ w' \notin Over \cup {"go"}
      /\ w \in Searching /\ w' \notin Searching => Running(scope) = {}
  BY DEF Drain, Over
<1>9. \A j \in Owners : /\ (alive'[j] => alive[j]) /\ (health'[j] => health[j])
                     /\ health'[j] /\ search[j] # None => pos'[j] = pos[j]
  BY DEF Drain
<1>10. CrashInv' /\ (Ruined => Ruined') /\ w # "gone"
  BY DEF Drain, CrashInv, Ruined, Placing, Trip, Trips, Wrecked, Running
<1> QED
  BY <1>1, <1>2, <1>3, <1>4, <1>5, <1>6, <1>7, <1>8, <1>10, WorkerGoesOn DEF Drain, Opened, Away

LEMMA Drain_One ==
  ASSUME RInv, NEW i \in Running(scope), w = "drain", w' = w, Incomplete(scope),
         health' = [health EXCEPT ![i] = FALSE], stage' = Record(scope, i, "failed"),
         tokens' = tokens \ {<<scope, i>>},
         UNCHANGED <<scope, job, todo, prepared, children, clean, plan, shard, abort, positioned,
                     asking, ends, alive, pos, search, reader, main>>
  PROVE  RInv'
<1> USE DEF RInv
<1>a. i \in Owners /\ <<scope, i>> \in DOMAIN stage /\ stage[<<scope, i>>] = "running"
  BY DEF Running
<1>b. ~health'[i] /\ \A j \in Owners : j # i => health'[j] = health[j]
  BY <1>a DEF TypeOK, EngineType
<1>e. /\ JobInv' /\ StageInv' /\ TodoInv' /\ SearchInv' /\ PlaceInv'
      /\ TreeInv' /\ ShareInv' /\ QueueInv' /\ DoneInv' /\ TokenInv' /\ CleanInv' /\ CrashInv'
  <2>1. \A j \in Owners :
           /\ (alive'[j] => alive[j]) /\ (health'[j] => health[j])
           /\ reader'[j].at \in Working => reader'[j] = reader[j]
           /\ reader'[j].at \in {"exit", "ended"} => ~health'[j]
    BY <1>b DEF SearchInv, Served
  <2> QED
    BY <1>a, <1>b, <2>1, StageEnds
<1>1. TypeOK'
  <2>1. WorkerType'
    BY <1>a, <1>b DEF WorkerType, TypeOK
  <2>2. PlanType'
    BY <1>a, <1>b DEF PlanType, TypeOK
  <2>3. LedgerType'
    BY <1>a, <1>b DEF LedgerType, TypeOK
  <2>4. ArtifactType'
    BY Spoiled
  <2>5. EngineType'
    BY <1>a, <1>b DEF EngineType, TypeOK
  <2>6. ReaderType'
    BY <1>a, <1>b DEF ReaderType, TypeOK
  <2>7. RunType'
    BY <1>a, <1>b DEF RunType, TypeOK
  <2> QED
    BY <2>1, <2>2, <2>3, <2>4, <2>5, <2>6, <2>7 DEF TypeOK
<1>6. BarrierInv'
  <2>1. m = "fail" => serve \subseteq DOMAIN stage'
    BY Recorded DEF BarrierInv
  <2> QED
    BY <1>b, <2>1, Recorded, BarrierKept DEF BarrierInv
<1> QED
  BY <1>e, <1>1, <1>6

LEMMA DrainStep == ASSUME RInv, Drain PROVE RInv'
<1>1. CASE Running(scope) = {}
  BY <1>1, Drain_Over
<1>2. CASE Running(scope) # {}
  BY <1>2, Drain_One DEF Drain
<1> QED
  BY <1>1, <1>2

LEMMA Restore_Out ==
  ASSUME RInv, Restore, w = "restore", prepared = {}
  PROVE  RInv'
<1> USE DEF RInv
<1>1. WorkerType'
  BY DEF Restore, WorkerType, TypeOK, Away
<1>2. EngineType'
  BY DEF Restore, EngineType, TypeOK
<1>3. JobInv'
  BY DEF Restore, JobInv, Trip, Trips
<1>4. TodoInv'
  BY DEF Restore, TodoInv, Trip, Placing, Trips
<1>5. PlaceInv'
  BY DEF Restore, PlaceInv, Available, Trip, Placing, Trips
<1>6. CleanInv'
  BY DEF Restore, CleanInv, Required, Share, Kids, Trips
<1>7. /\ positioned' \subseteq Owners /\ (Opened' <=> Opened) /\ (Unopened' <=> Unopened)
      /\ (Placing' => Placing) /\ (w' = "dispatch" => Placing)
  BY DEF Restore, TypeOK, RunType, WorkerType, Trip, Placing, Opened, Unopened, Over, Asking,
     Trips, Away, Searching
<1>8. /\ w \notin Over /\ w' \notin Over \cup {"go"}
      /\ w \in Searching /\ w' \notin Searching => Running(scope) = {}
  BY DEF Restore, Over, Searching
<1>9. \A j \in Owners : /\ (alive'[j] => alive[j]) /\ (health'[j] => health[j])
                     /\ health'[j] /\ search[j] # None => pos'[j] = pos[j]
  BY DEF Restore
<1>10. CrashInv' /\ (Ruined => Ruined') /\ w # "gone"
  BY DEF Restore, CrashInv, Ruined, Placing, Trip, Trips, Wrecked, Running
<1> QED
  BY <1>1, <1>2, <1>3, <1>4, <1>5, <1>6, <1>7, <1>8, <1>10, WorkerGoesOn DEF Restore

LEMMA Restore_Asks ==
  ASSUME RInv, w \in {"restore", "mend"}, NEW i \in prepared, Available(i),
         job' = [why |-> w, i |-> i, to |-> command], w' = "write",
         UNCHANGED <<prepared, clean, positioned>>,
         UNCHANGED <<scope, todo, children, plan, shard, artifact, asking, tokens, ends,
                     engines, reader, main>>
  PROVE  RInv'
<1> USE DEF RInv
<1>a. i \in Owners /\ command \in {Old, New}
  BY DEF TypeOK, WorkerType, RunType
<1>1. WorkerType'
  BY <1>a DEF WorkerType, TypeOK, Trips
<1>2. EngineType'
  BY DEF EngineType, TypeOK
<1>3. JobInv'
  BY <1>a DEF JobInv, Trip, Trips
<1>4. TodoInv'
  BY DEF TodoInv, Trip, Placing
<1>5. PlaceInv'
  BY DEF PlaceInv, Available, Trip, Placing, Trips
<1>6. CleanInv'
  BY DEF CleanInv, Required, Share, Kids
<1>7. /\ positioned' \subseteq Owners /\ (Opened' <=> Opened) /\ (Unopened' <=> Unopened)
      /\ (Placing' => Placing) /\ (w' = "dispatch" => Placing)
  BY DEF TypeOK, RunType, WorkerType, Trip, Placing, Opened, Unopened, Over, Asking, Trips
<1>8. /\ w \notin Over /\ w' \notin Over \cup {"go"}
      /\ w \in Searching /\ w' \notin Searching => Running(scope) = {}
  BY DEF Over, Searching
<1>9. \A j \in Owners : /\ (alive'[j] => alive[j]) /\ (health'[j] => health[j])
                     /\ health'[j] /\ search[j] # None => pos'[j] = pos[j]
  OBVIOUS
<1>10. CrashInv' /\ (Ruined => Ruined') /\ w # "gone"
  BY DEF CrashInv, Ruined, Placing, Trip, Trips, Wrecked, Running
<1> QED
  BY <1>1, <1>2, <1>3, <1>4, <1>5, <1>6, <1>7, <1>8, <1>10, WorkerGoesOn

LEMMA Restore_Drops ==
  ASSUME RInv, w \in {"restore", "mend"}, NEW i \in prepared, ~Available(i), w' = w, job' = job,
         clean' = FALSE, prepared' = prepared \ {i}, positioned' = positioned \ {i},
         UNCHANGED <<scope, todo, children, plan, shard, artifact, asking, tokens, ends,
                     engines, reader, main>>
  PROVE  RInv'
<1> USE DEF RInv
<1>a. i \in Owners
  BY DEF TypeOK, WorkerType
<1>1. WorkerType'
  BY <1>a DEF WorkerType, TypeOK
<1>2. EngineType'
  BY DEF EngineType, TypeOK
<1>3. JobInv'
  BY DEF JobInv, Trip
<1>4. TodoInv'
  BY DEF TodoInv, Trip, Placing
<1>5. PlaceInv'
  BY DEF PlaceInv, Available, Trip, Placing, Trips
<1>6. CleanInv'
  BY DEF CleanInv
<1>7. /\ positioned' \subseteq Owners /\ (Opened' <=> Opened) /\ (Unopened' <=> Unopened)
      /\ (Placing' => Placing) /\ (w' = "dispatch" => Placing)
  BY DEF TypeOK, RunType, Trip, Placing, Opened, Unopened
<1>8. /\ w \notin Over /\ w' \notin Over \cup {"go"}
      /\ w \in Searching /\ w' \notin Searching => Running(scope) = {}
  BY DEF Over
<1>9. \A j \in Owners : /\ (alive'[j] => alive[j]) /\ (health'[j] => health[j])
                     /\ health'[j] /\ search[j] # None => pos'[j] = pos[j]
  OBVIOUS
<1>10. CrashInv' /\ (Ruined => Ruined') /\ w # "gone"
  BY DEF CrashInv, Ruined, Placing, Trip, Trips, Wrecked, Running
<1> QED
  BY <1>1, <1>2, <1>3, <1>4, <1>5, <1>6, <1>7, <1>8, <1>10, WorkerGoesOn

LEMMA Restore_Ends ==
  ASSUME RInv, Restore, w = "mend", prepared = {}
  PROVE  RInv'
<1> USE DEF RInv
<1>1. PlanType'
  BY DEF Restore, PlanType, TypeOK
<1>2. QueueInv'
  BY DEF Restore, QueueInv, Fits, Over
<1>3. DoneInv'
  BY DEF Restore, DoneInv, Required, Share, Kids, Over, Live, Ruined
<1> QED
  BY <1>1, <1>2, <1>3, WorkerBetween DEF Restore, TypeOK, WorkerType, Over, Ruined

LEMMA RestoreStep == ASSUME RInv, Restore PROVE RInv'
<1>1. CASE prepared = {}
  BY <1>1, Restore_Out, Restore_Ends DEF Restore
<1>2. CASE prepared # {}
  <2>1. First(prepared) \in prepared /\ w \in {"restore", "mend"}
    BY <1>2, FirstIn DEF Restore, RInv, TypeOK, WorkerType
  <2>2. CASE Available(First(prepared))
    BY <1>2, <2>1, <2>2, Restore_Asks DEF Restore
  <2>3. CASE ~Available(First(prepared))
    BY <1>2, <2>1, <2>3, Restore_Drops DEF Restore
  <2> QED
    BY <2>2, <2>3
<1> QED
  BY <1>1, <1>2

LEMMA UnplacedStep ==
  ASSUME RInv, Unplaced
  PROVE  RInv'
<1> USE DEF RInv
<1>a. w = "unplaced" /\ w' \in {"restore", "mend"} /\ w' = job.why
  BY DEF Unplaced, JobInv
<1>1. WorkerType'
  BY OwnerFacts, NotAPrefix DEF Unplaced, WorkerType, RunType, TypeOK, JobInv, Over, Away,
     Asking, Trips, Searching, NoJob
<1>2. EngineType'
  BY DEF Unplaced, EngineType, TypeOK
<1>3. JobInv'
  BY DEF Unplaced, JobInv, Trip, Trips
<1>4. TodoInv'
  BY <1>a DEF Unplaced, TodoInv, Trip, Trips, Placing
<1>5. PlaceInv'
  BY <1>a DEF Unplaced, PlaceInv, Available, Trip, Placing, Away, Trips, Searching
<1>6. CleanInv'
  BY <1>a DEF Unplaced, CleanInv, Required, Share, Kids, Trips
<1>7. /\ positioned' \subseteq Owners /\ (Opened' <=> Opened) /\ (Unopened' <=> Unopened)
      /\ (Placing' => Placing) /\ (w' = "dispatch" => Placing)
  BY <1>a DEF Unplaced, TypeOK, RunType, Trip, Placing, Opened, Unopened, Away, Asking, Trips
<1>8. /\ w \notin Over /\ w' \notin Over \cup {"go"}
      /\ w \in Searching /\ w' \notin Searching => Running(scope) = {}
  BY <1>a DEF Unplaced, Over, Searching
<1>9. \A j \in Owners : /\ (alive'[j] => alive[j]) /\ (health'[j] => health[j])
                     /\ health'[j] /\ search[j] # None => pos'[j] = pos[j]
  BY DEF Unplaced
<1>10. CrashInv' /\ (Ruined => Ruined') /\ w # "gone"
  BY <1>a DEF Unplaced, CrashInv, Ruined, Placing, Trip, Trips, Wrecked, Running
<1> QED
  BY <1>1, <1>2, <1>3, <1>4, <1>5, <1>6, <1>7, <1>8, <1>10, WorkerGoesOn DEF Unplaced

LEMMA Close_Spoils ==
  ASSUME RInv, w = "close", Incomplete(scope), w' = "end", UNCHANGED <<queue, nominated, expansions>>,
         UNCHANGED <<item, phase, shard, stage, abort, run, ends, engines, reader, main>>
  PROVE  RInv'
<1> USE DEF RInv
<1>a. /\ DOMAIN disp' = DOMAIN disp /\ refine' = "incomplete" /\ ArtifactType'
      /\ \A x \in DOMAIN disp : disp'[x] = IF x = scope THEN "incomplete" ELSE disp[x]
  BY Spoiled
<1>l. (Live' => Live) /\ ~Left
  BY <1>a DEF Live, Ruined, Wrecked, Trips, Left
<1>1. TypeOK'
  <2>1. WorkerType'
    BY DEF WorkerType, TypeOK, Over
  <2>2. PlanType'
    BY DEF PlanType, TypeOK
  <2>3. LedgerType'
    BY DEF LedgerType, TypeOK
  <2>4. ArtifactType'
    BY <1>a
  <2>5. EngineType'
    BY DEF EngineType, TypeOK
  <2>6. ReaderType'
    BY DEF ReaderType, TypeOK
  <2>7. RunType'
    BY DEF RunType, TypeOK
  <2> QED
    BY <2>1, <2>2, <2>3, <2>4, <2>5, <2>6, <2>7 DEF TypeOK
<1>2. JobInv'
  BY DEF JobInv, Trip, Trips
<1>3. StageInv'
  BY <1>a DEF StageInv, Required, Share, Kids, Searching
<1>4. TodoInv'
  BY DEF TodoInv, Trip, Placing, Trips
<1>5. SearchInv'
  BY <1>l, SearchKept
<1>6. BarrierInv'
  BY BarrierKept DEF BarrierInv
<1>7. PlaceInv'
  BY DEF PlaceInv, Available, Trip, Placing, Away, Trips, Searching
<1>8. TreeInv'
  BY <1>a DEF TreeInv, Kids, Trip, Opened, Unopened, Over, Asking, Trips
<1>9. ShareInv'
  BY DEF ShareInv, Closed, Share, Kids, Trip, Placing, Trips
<1>10. QueueInv'
  BY <1>a DEF QueueInv, Fits, Over
<1>11. DoneInv'
  BY <1>a DEF DoneInv, Required, Share, Kids, Live
<1>12. TokenInv'
  BY DEF TokenInv
<1>13. CleanInv'
  BY DEF CleanInv, Required, Share, Kids
<1>14. CrashInv'
  BY DEF CrashInv, Placing, Trip, Trips, Wrecked
<1> QED
  BY <1>1, <1>2, <1>3, <1>4, <1>5, <1>6, <1>7, <1>8, <1>9, <1>10, <1>11, <1>12, <1>13, <1>14

LEMMA Close_Completes ==
  ASSUME RInv, w = "close", w' = "pick", disp' = [disp EXCEPT ![scope] = "completed"],
         clean, \A o \in Required(scope) : stage[<<scope, o>>] = "completed",
         NEW more, more \in Seq(Entries),
         \A k \in DOMAIN more :
              /\ more[k].of \in Kids(scope) /\ more[k].of \notin DOMAIN disp
              /\ shard[more[k].of] = [owner |-> more[k].by, state |-> "sealed"],
         \A j, k \in DOMAIN more : j # k => more[j].of # more[k].of,
         \/ nominated' = nominated \o more /\ UNCHANGED <<queue, expansions>>
         \/ queue' = queue \o more /\ expansions' = expansions + 1 /\ UNCHANGED nominated,
         UNCHANGED <<item, phase, shard, stage, abort, refine, run, ends, engines, reader, main>>
  PROVE  RInv'
<1> USE DEF RInv
<1>a. /\ scope \in DOMAIN disp /\ DOMAIN disp' = DOMAIN disp /\ disp'[scope] = "completed"
      /\ \A x \in DOMAIN disp : x # scope => disp'[x] = disp[x]
      /\ disp' \in [DOMAIN disp -> {"running", "completed", "incomplete", "terminal"}]
  BY DEF TypeOK, ArtifactType, TreeInv, Opened
<1>b. queue' \in Seq(Entries) /\ nominated' \in Seq(Entries) /\ expansions' \in Nat
  <2>1. queue \in Seq(Entries) /\ nominated \in Seq(Entries) /\ expansions \in Nat
    BY DEF TypeOK, PlanType
  <2>2. nominated \o more \in Seq(Entries) /\ queue \o more \in Seq(Entries) /\ expansions + 1 \in Nat
    BY <2>1
  <2> QED
    BY <2>1, <2>2
<1>c. UNCHANGED <<item, phase, shard, stage, abort, refine, run, ends, engines, reader, main>>
  OBVIOUS
<1>l. (Live' => Live) /\ ~Left
  BY DEF Live, Ruined, Wrecked, Trips, Left
<1>1. TypeOK'
  <2>1. WorkerType'
    BY DEF WorkerType, TypeOK, Over
  <2>2. PlanType'
    BY <1>b DEF PlanType, TypeOK
  <2>3. LedgerType'
    BY DEF LedgerType, TypeOK
  <2>4. ArtifactType'
    BY <1>a DEF ArtifactType, TypeOK
  <2>5. EngineType'
    BY DEF EngineType, TypeOK
  <2>6. ReaderType'
    BY DEF ReaderType, TypeOK
  <2>7. RunType'
    BY DEF RunType, TypeOK
  <2> QED
    BY <2>1, <2>2, <2>3, <2>4, <2>5, <2>6, <2>7 DEF TypeOK
<1>2. JobInv'
  BY DEF JobInv, Trip, Trips
<1>3. StageInv'
  BY DEF StageInv, Required, Share, Kids, Searching
<1>4. TodoInv'
  BY DEF TodoInv, Trip, Placing, Trips
<1>5. SearchInv'
  BY <1>l, SearchKept
<1>6. BarrierInv'
  BY BarrierKept DEF BarrierInv
<1>7. PlaceInv'
  BY DEF PlaceInv, Available, Trip, Placing, Away, Trips, Searching
<1>8. TreeInv'
  BY <1>a DEF TreeInv, Kids, Trip, Unopened, Over, Asking, Trips
<1>9. ShareInv'
  BY DEF ShareInv, Closed, Share, Kids, Trip, Placing, Trips
<1>10. QueueInv'
  <2>1. queue \in Seq(Entries) /\ nominated \in Seq(Entries)
    BY DEF TypeOK, PlanType
  <2>2. \A e \in Entries : Fits(e) =>
           /\ e.of \in DOMAIN shard /\ shard[e.of] = [owner |-> e.by, state |-> "sealed"]
           /\ e.of \notin DOMAIN disp /\ e.of \notin Kids(scope)
    BY DEF Fits, Kids, Over
  <2>4. /\ \A k \in DOMAIN queue : queue[k] \in Entries
        /\ \A k \in DOMAIN nominated : nominated[k] \in Entries
        /\ \A k \in DOMAIN more : more[k] \in Entries
        /\ \A k \in DOMAIN queue' : queue'[k] \in Entries
        /\ \A k \in DOMAIN nominated' : nominated'[k] \in Entries
    BY <1>b, <2>1
  <2>5. \A k \in DOMAIN more : /\ more[k].of \in DOMAIN shard /\ more[k].of \in Kids(scope)
                               /\ shard[more[k].of] = [owner |-> more[k].by, state |-> "sealed"]
                               /\ more[k].of \notin DOMAIN disp
    BY DEF Kids
  <2>6. /\ \A k \in DOMAIN queue : queue[k].of \notin Kids(scope)
        /\ \A k \in DOMAIN nominated : nominated[k].of \notin Kids(scope)
    BY <2>2, <2>4 DEF QueueInv
  <2>7. CASE nominated' = nominated \o more /\ queue' = queue
    <3> DEFINE n == nominated \o more
    <3>1. \A k \in DOMAIN n : \/ \E i \in DOMAIN nominated : n[k] = nominated[i]
                              \/ \E i \in DOMAIN more : n[k] = more[i]
      BY <2>1, <2>6, JoinedApart DEF QueueInv
    <3>2. \A j, k \in DOMAIN n : j # k => n[j].of # n[k].of
      BY <2>1, <2>6, JoinedApart DEF QueueInv
    <3>3. n = nominated'
      BY <2>7
    <3> HIDE DEF n
    <3>a. \A k \in DOMAIN n : /\ n[k].of \in DOMAIN shard /\ n[k].of \notin DOMAIN disp
                              /\ shard[n[k].of] = [owner |-> n[k].by, state |-> "sealed"]
      BY <2>2, <2>4, <2>5, <3>1 DEF QueueInv
    <3>4. (\A k \in DOMAIN nominated : Fits(nominated[k]))'
      BY <1>a, <3>3, <3>a DEF Fits, Over
    <3>5. (\A k \in DOMAIN queue : Fits(queue[k]))'
      BY <1>a, <2>7 DEF QueueInv, Fits, Over
    <3>7. ASSUME NEW j \in DOMAIN queue, NEW k \in DOMAIN n PROVE queue[j].of # n[k].of
      <4>1. CASE \E i \in DOMAIN nominated : n[k] = nominated[i]
        BY <4>1 DEF QueueInv
      <4>2. CASE \E i \in DOMAIN more : n[k] = more[i]
        BY <2>5, <2>6, <4>2
      <4> QED
        BY <3>1, <4>1, <4>2
    <3> QED
      BY <2>7, <3>3, <3>2, <3>4, <3>5, <3>7 DEF QueueInv
  <2>8. CASE queue' = queue \o more /\ nominated' = nominated
    <3> DEFINE n == queue \o more
    <3>1. \A k \in DOMAIN n : \/ \E i \in DOMAIN queue : n[k] = queue[i]
                              \/ \E i \in DOMAIN more : n[k] = more[i]
      BY <2>1, <2>6, JoinedApart DEF QueueInv
    <3>2. \A j, k \in DOMAIN n : j # k => n[j].of # n[k].of
      BY <2>1, <2>6, JoinedApart DEF QueueInv
    <3>3. n = queue'
      BY <2>8
    <3> HIDE DEF n
    <3>a. \A k \in DOMAIN n : /\ n[k].of \in DOMAIN shard /\ n[k].of \notin DOMAIN disp
                              /\ shard[n[k].of] = [owner |-> n[k].by, state |-> "sealed"]
      BY <2>2, <2>4, <2>5, <3>1 DEF QueueInv
    <3>4. (\A k \in DOMAIN queue : Fits(queue[k]))'
      BY <1>a, <3>3, <3>a DEF Fits, Over
    <3>5. (\A k \in DOMAIN nominated : Fits(nominated[k]))'
      BY <2>8 DEF QueueInv, Fits, Over
    <3>7. ASSUME NEW j \in DOMAIN n, NEW k \in DOMAIN nominated PROVE n[j].of # nominated[k].of
      <4>1. CASE \E i \in DOMAIN queue : n[j] = queue[i]
        BY <4>1 DEF QueueInv
      <4>2. CASE \E i \in DOMAIN more : n[j] = more[i]
        BY <2>5, <2>6, <4>2
      <4> QED
        BY <3>1, <4>1, <4>2
    <3> QED
      BY <2>8, <3>3, <3>2, <3>4, <3>5, <3>7 DEF QueueInv
  <2> QED
    BY <2>7, <2>8
<1>11. DoneInv'
  <2>1. \A o \in Required(scope) : <<scope, o>> \in DOMAIN stage
    BY DEF CleanInv
  <2>2. \A s \in DOMAIN disp' : disp'[s] = "completed" =>
           \A o \in Required(s) : <<s, o>> \in DOMAIN stage /\ stage[<<s, o>>] = "completed"
    BY <2>1 DEF DoneInv
  <2>3. \A s : Required(s)' = Required(s)
    BY ShareSame
  <2>4. Live' => \A s \in DOMAIN disp' : disp'[s] \in {"completed", "terminal"}
    BY <1>a, <1>l DEF DoneInv
  <2>5. refine # "completed"
    BY DEF DoneInv
  <2> QED
    BY <2>2, <2>3, <2>4, <2>5 DEF DoneInv
<1>12. TokenInv'
  BY DEF TokenInv
<1>13. CleanInv'
  BY DEF CleanInv, Required, Share, Kids
<1>14. CrashInv'
  BY DEF CrashInv, Placing, Trip, Trips, Wrecked
<1> QED
  BY <1>1, <1>2, <1>3, <1>4, <1>5, <1>6, <1>7, <1>8, <1>9, <1>10, <1>11, <1>12, <1>13, <1>14

LEMMA CloseStep == ASSUME RInv, Close PROVE RInv'
<1>1. CASE clean /\ \A o \in Required(scope) : stage[<<scope, o>>] = "completed"
  <2>1. w = "close" /\ w' = "pick" /\ disp' = [disp EXCEPT ![scope] = "completed"] /\ refine' = refine
    BY <1>1 DEF Close
  <2>2. PICK pick \in [Owners -> Kids(scope) \cup {None}] :
          /\ \A o \in Owners : pick[o] # None => pick[o] \in Share(scope, o)
          /\ \E more \in Nominations(pick) :
                IF phase = "target"
                THEN nominated' = nominated \o more /\ UNCHANGED <<queue, expansions>>
                ELSE queue' = queue \o more /\ expansions' = expansions + 1 /\ UNCHANGED nominated
    BY <1>1 DEF Close
  <2>3. PICK more \in Nominations(pick) :
          \/ nominated' = nominated \o more /\ UNCHANGED <<queue, expansions>>
          \/ queue' = queue \o more /\ expansions' = expansions + 1 /\ UNCHANGED nominated
    BY <2>2
  <2>4. /\ more \in Seq(Entries)
        /\ \A k \in DOMAIN more :
              /\ more[k].of \in Kids(scope) /\ more[k].of \notin DOMAIN disp
              /\ shard[more[k].of] = [owner |-> more[k].by, state |-> "sealed"]
        /\ \A j, k \in DOMAIN more : j # k => more[j].of # more[k].of
    BY <1>1, <2>1, <2>2, Nominated
  <2>5. UNCHANGED <<item, phase, shard, stage, abort, run, ends, engines, reader, main>>
    BY DEF Close
  <2> QED
    BY <1>1, <2>1, <2>3, <2>4, <2>5, Close_Completes
<1>2. CASE ~(clean /\ \A o \in Required(scope) : stage[<<scope, o>>] = "completed")
  BY <1>2, Close_Spoils DEF Close
<1> QED
  BY <1>1, <1>2

LEMMA EndStep ==
  ASSUME RInv, End
  PROVE  RInv'
<1> USE DEF RInv
<1>a. w = "end" /\ UNCHANGED <<item, plan, shard, artifact, run, ends, engines, reader, main>>
      /\ w' = (IF refine = "running" THEN "complete" ELSE "over")
  BY DEF End
<1>l. Live <=> refine = "running"
  BY <1>a DEF Live, Ruined, Wrecked, Trips
<1>1. PlanType'
  BY <1>a DEF PlanType, TypeOK
<1>2. QueueInv'
  BY <1>a DEF QueueInv, Fits, Over
<1>3. DoneInv'
  <2>1. \A x : Required(x)' = Required(x)
    BY <1>a DEF Required, Share, Kids
  <2>2. AllDone' = AllDone
    BY <1>a, <2>1 DEF AllDone, GaveUp
  <2>3. CASE refine = "running"
    <3>1. \A i \in Owners : search[i] = None /\ ~Busy(i)
      BY <1>a, <1>l, <2>3 DEF SearchInv, Served, StageInv, Searching
    <3>2. AllDone
      BY <1>a, <1>l, <2>3 DEF DoneInv, AllDone, TreeInv, Required, Share, Opened, Away, Searching,
         Trip, Trips
    <3> QED
      BY <1>a, <1>l, <2>1, <2>2, <2>3, <3>1, <3>2 DEF DoneInv, Opened, Away, Searching, Trip, Trips, Busy
  <2>4. CASE refine # "running"
    BY <1>a, <2>1, <2>4 DEF DoneInv, Live
  <2> QED
    BY <2>3, <2>4
<1> QED
  BY <1>a, <1>1, <1>2, <1>3, WorkerBetween DEF TypeOK, WorkerType, Over, Ruined, Wrecked,
     Trips

LEMMA CompleteStep ==
  ASSUME RInv, Complete
  PROVE  RInv'
<1> USE DEF RInv
<1>1. PlanType'
  BY DEF Complete, PlanType, TypeOK
<1>2. QueueInv'
  BY DEF Complete, QueueInv, Fits, Over
<1>3. DoneInv'
  BY DEF Complete, DoneInv, AllDone, GaveUp, Required, Share, Kids, Busy, Live
<1> QED
  BY <1>1, <1>2, <1>3, WorkerBetween DEF Complete, TypeOK, WorkerType, Over, Ruined,
     Wrecked, Trips

LEMMA Finish_Done ==
  ASSUME RInv, Finish, w = "over"
  PROVE  RInv'
<1> USE DEF RInv
<1>a. w' = "done" /\ UNCHANGED <<prepared, scope, job, todo, children, clean, plan, shard, artifact,
                                run, ends, engines, reader, main>>
  BY DEF Finish, CrashInv, PlaceInv, Away, Searching, Trip, Trips
<1>1. PlanType'
  BY <1>a DEF PlanType, TypeOK
<1>2. QueueInv'
  BY <1>a DEF QueueInv, Fits, Over
<1>3. DoneInv'
  BY <1>a DEF DoneInv, AllDone, GaveUp, Required, Share, Kids, Busy, Live, Ruined
<1> QED
  BY <1>a, <1>1, <1>2, <1>3, WorkerBetween DEF TypeOK, WorkerType, Over, Ruined

\* What is known to be away is to be brought back, now that no stage runs.
LEMMA Mends ==
  ASSUME RInv, w \in {"cleanup", "stranded"}, Running(scope) = {}, MendAll,
         UNCHANGED <<scope, job, todo, children, clean, plan, shard, artifact, run, ends, engines,
                     reader, main>>
  PROVE  RInv'
<1> USE DEF RInv
<1>a. w' = "mend" /\ prepared' = positioned
  BY DEF MendAll
<1>1. WorkerType' /\ EngineType'
  BY <1>a DEF TypeOK, WorkerType, EngineType, RunType, Away
<1>2. JobInv' /\ TodoInv' /\ CleanInv'
  BY <1>a DEF JobInv, TodoInv, CleanInv, Trip, Trips, Placing
<1>3. PlaceInv'
  <2>1. \A i \in prepared : Available(i) => i \in prepared'
    BY <1>a DEF CrashInv, Wrecked, Available
  <2> QED
    BY <1>a, <2>1 DEF PlaceInv, Available, Trip, Placing, Away, Trips, Searching
<1>4. /\ positioned' \subseteq Owners /\ (Opened' <=> Opened) /\ (Unopened' <=> Unopened)
      /\ (Placing' => Placing) /\ (w' = "dispatch" => Placing)
      /\ w \notin Over \cup {"gone"} /\ w' \notin Over \cup {"go"}
  BY <1>a DEF TypeOK, RunType, Trip, Placing, Opened, Unopened, Over, Away, Asking, Trips, Searching
<1>5. CrashInv' /\ (Ruined => Ruined')
  BY <1>a DEF CrashInv, Ruined, Placing, Trip, Trips, Wrecked
<1> QED
  BY <1>1, <1>2, <1>3, <1>4, <1>5, WorkerGoesOn

\* The worker steps through its cleanup, or out of it.
LEMMA WreckMoves ==
  ASSUME RInv, w \in Wrecked \ {"gone"}, w' \in Wrecked, todo' \subseteq Owners,
         cancelled' \in {cancelled, TRUE}, w' = "cleanup" => Running(scope) \subseteq todo',
         UNCHANGED <<scope, job, prepared, children, clean, plan, shard, artifact, run, anchor,
                     engines, reader, main>>
  PROVE  RInv'
<1> USE DEF RInv
<1>1. WorkerType' /\ EngineType'
  BY DEF TypeOK, WorkerType, EngineType, Away, Searching, Wrecked
<1>2. JobInv' /\ TodoInv' /\ CleanInv'
  BY DEF JobInv, TodoInv, CleanInv, Trip, Trips, Placing, Wrecked
<1>3. PlaceInv'
  BY DEF PlaceInv, Available, Trip, Placing, Away, Trips, Searching, Wrecked
<1>4. /\ positioned' \subseteq Owners /\ (Opened' <=> Opened) /\ (Unopened' <=> Unopened)
      /\ (Placing' => Placing) /\ (w' = "dispatch" => Placing)
      /\ w \notin Over \cup {"gone"} /\ w' \notin Over \cup {"go"} /\ w' \in Searching
  BY DEF TypeOK, RunType, Trip, Placing, Opened, Unopened, Over, Away, Asking, Trips, Searching,
     Wrecked
<1>5. CrashInv' /\ (Ruined => Ruined')
  BY DEF CrashInv, Ruined, Placing, Trip, Trips, Wrecked, Running
<1> QED
  BY <1>1, <1>2, <1>3, <1>4, <1>5, WorkerGoesOn

LEMMA CleanUpStep == ASSUME RInv, CleanUp PROVE RInv'
BY WreckMoves DEF CleanUp, Wrecked, Running

LEMMA Abandon_Fails ==
  ASSUME RInv, w = "cleanup", NEW o \in Running(scope), o \in todo, todo' = todo \ {o},
         health' = [health EXCEPT ![o] = FALSE],
         stage' = Record(scope, o, "failed"), tokens' = tokens \ {<<scope, o>>},
         \/ Incomplete(scope) /\ w' = w
         \/ w' = "stranded" /\ UNCHANGED <<disp, refine>>,
         UNCHANGED <<scope, job, prepared, children, clean, plan, shard, abort, positioned,
                     asking, ends, alive, pos, search, reader, main>>
  PROVE  RInv'
<1> USE DEF RInv
<1>a. o \in Owners /\ <<scope, o>> \in DOMAIN stage /\ stage[<<scope, o>>] = "running"
  BY DEF Running
<1>b. ~health'[o] /\ \A j \in Owners : j # o => health'[j] = health[j]
  BY <1>a DEF TypeOK, EngineType
<1>e. /\ JobInv' /\ StageInv' /\ TodoInv' /\ SearchInv' /\ PlaceInv'
      /\ TreeInv' /\ ShareInv' /\ QueueInv' /\ DoneInv' /\ TokenInv' /\ CleanInv' /\ CrashInv'
  <2>1. \A j \in Owners :
           /\ (alive'[j] => alive[j]) /\ (health'[j] => health[j])
           /\ reader'[j].at \in Working => reader'[j] = reader[j]
           /\ reader'[j].at \in {"exit", "ended"} => ~health'[j]
    BY <1>b DEF SearchInv, Served
  <2> QED
    BY <1>a, <1>b, <2>1, StageEnds
<1>1. TypeOK'
  <2>1. WorkerType'
    BY DEF WorkerType, TypeOK, Away, Searching
  <2>2. PlanType' /\ LedgerType' /\ ReaderType' /\ RunType'
    BY DEF TypeOK, PlanType, LedgerType, ReaderType, RunType
  <2>3. ArtifactType'
    BY Spoiled, Recorded DEF TypeOK, ArtifactType
  <2>4. EngineType'
    BY DEF EngineType, TypeOK
  <2> QED
    BY <2>1, <2>2, <2>3, <2>4 DEF TypeOK
<1>6. BarrierInv'
  <2>1. DOMAIN stage' = DOMAIN stage
    BY Recorded
  <2> QED
    BY <1>b, <2>1, BarrierKept DEF BarrierInv
<1> QED
  BY <1>e, <1>1, <1>6

LEMMA AbandonStep == ASSUME RInv, Abandon PROVE RInv'
<1>1. First(todo) \in todo /\ w = "cleanup" /\ todo \subseteq Owners
  BY FirstIn DEF Abandon, RInv, TypeOK, WorkerType
<1>2. CASE First(todo) \in Running(scope)
  BY <1>1, <1>2, Abandon_Fails DEF Abandon
<1>3. CASE First(todo) \notin Running(scope)
  BY <1>1, <1>3, WreckMoves DEF Abandon, Wrecked, RInv, CrashInv
<1> QED
  BY <1>2, <1>3

LEMMA RecoverStep == ASSUME RInv, Recover PROVE RInv'
<1>1. w = "cleanup" /\ Running(scope) = {}
  BY DEF Recover, RInv, CrashInv
<1> QED
  BY <1>1, Mends DEF Recover

LEMMA FinishStep == ASSUME RInv, Finish PROVE RInv'
<1>1. CASE w = "over"
  BY <1>1, Finish_Done
<1>2. CASE w = "stranded" /\ Active = {} /\ positioned # {}
  <2>1. Running(scope) = {}
    BY <1>2 DEF Running, Active
  <2> QED
    BY <1>2, <2>1, Mends DEF Finish
<1>3. CASE w = "stranded" /\ ~(Active = {} /\ positioned # {})
  BY <1>3, WreckMoves DEF Finish, Wrecked, RInv, TypeOK, WorkerType
<1> QED
  BY <1>1, <1>2, <1>3 DEF Finish

LEMMA AnswerStep ==
  ASSUME RInv, NEW i \in Owners, Answer(i)
  PROVE  RInv'
<1> USE DEF RInv
<1>a. /\ reader[i].at = "idle" /\ search[i] # None
      /\ UNCHANGED <<w, item, plan, shard, artifact, run, ends, alive, health, pos, main>>
  BY DEF Answer
<1>b. search'[i] = None /\ \A j \in Owners : j # i => search'[j] = search[j]
  BY DEF Answer, TypeOK, EngineType
<1>c. /\ ReaderType' /\ \A j \in Owners : j # i => reader'[j] = reader[j]
      /\ reader'[i].at \in {"idle", "audit"}
      /\ reader'[i].at = "audit" => reader'[i].of = search[i]
  <2>1. [Idle EXCEPT !.at = "audit", !.of = search[i]] \in [at : Working \cup {"idle", "exit", "ended"},
           of : Prefixes \cup {None}, as : {"completed", "failed", "stopped"}]
    BY DEF Idle, Working, TypeOK, EngineType
  <2>2. Idle \in [at : Working \cup {"idle", "exit", "ended"},
           of : Prefixes \cup {None}, as : {"completed", "failed", "stopped"}]
    BY DEF Idle
  <2>3. CASE Gone
    BY <2>3, Stepped DEF Answer, Idle
  <2>4. CASE ~Gone
    <3>1. Step(i, [Idle EXCEPT !.at = "audit", !.of = search[i]])
      BY <2>4 DEF Answer
    <3>2. ReaderType' /\ reader'[i] = [Idle EXCEPT !.at = "audit", !.of = search[i]]
          /\ \A j \in Owners : j # i => reader'[j] = reader[j]
      BY <2>1, <3>1, Stepped
    <3> QED
      BY <3>2
  <2> QED
    BY <2>3, <2>4
<1>d. /\ <<search[i], i>> \in DOMAIN stage
      /\ health[i] \/ Live => stage[<<search[i], i>>] = "running"
  BY <1>a DEF SearchInv, Served
<1>l. (Live' => Live) /\ (Left => Left')
  BY <1>a DEF Live, Ruined, Left
<1>1. TypeOK'
  <2>1. WorkerType'
    BY <1>a DEF WorkerType, TypeOK
  <2>2. PlanType'
    BY <1>a DEF PlanType, TypeOK
  <2>3. LedgerType'
    BY <1>a DEF LedgerType, TypeOK
  <2>4. ArtifactType'
    BY <1>a DEF ArtifactType, TypeOK
  <2>5. EngineType'
    BY DEF Answer, TypeOK, EngineType
  <2>6. ReaderType'
    BY <1>c
  <2>7. RunType'
    BY <1>a DEF RunType, TypeOK
  <2> QED
    BY <2>1, <2>2, <2>3, <2>4, <2>5, <2>6, <2>7 DEF TypeOK
<1>2. JobInv'
  BY <1>a DEF JobInv, Trip
<1>3. StageInv'
  BY <1>a DEF StageInv, Required, Share, Kids
<1>4. TodoInv'
  <2>1. w = "go" => \A o \in todo : search'[o] # scope /\ (Busy(o)' => reader'[o].of # scope)
    <3> SUFFICES ASSUME w = "go", NEW o \in todo
                 PROVE  search'[o] # scope /\ (Busy(o)' => reader'[o].of # scope)
      OBVIOUS
    <3>1. o \in Owners /\ scope \in Prefixes /\ search[o] # scope /\ (Busy(o) => reader[o].of # scope)
      BY ScopeType DEF TypeOK, WorkerType, TodoInv, Over
    <3>2. CASE o = i
      BY <1>b, <1>c, <3>1, NoneApart DEF Busy, Working
    <3>3. CASE o # i
      BY <1>b, <1>c, <3>1, <3>3 DEF Busy
    <3> QED
      BY <3>2, <3>3
  <2>2. todo # {} /\ w = "go" => First(todo) \in todo /\ First(todo) \in Owners
    BY FirstIn DEF TypeOK, WorkerType
  <2> QED
    BY <1>a, <2>1 DEF TodoInv, Placing, Trip
<1>5. SearchInv'
  <2> SUFFICES ASSUME NEW j \in Owners PROVE Served(j)'
    BY DEF SearchInv
  <2>1. Served(j)
    BY DEF SearchInv
  <2>2. CASE j = i
    BY <1>a, <1>b, <1>c, <1>d, <1>l, <2>2 DEF Served, Busy, Working
  <2>3. CASE j # i
    BY <1>a, <1>b, <1>c, <1>l, <2>1, <2>3 DEF Served, Busy
  <2> QED
    BY <2>2, <2>3
<1>6. BarrierInv'
  BY <1>a, <1>b, BarrierKept
<1>7. PlaceInv'
  BY <1>a DEF PlaceInv, Required, Share, Kids, Available, Trip, Placing
<1>8. TreeInv'
  BY <1>a DEF TreeInv, Kids, Trip, Opened, Unopened
<1>9. ShareInv'
  BY <1>a, <1>c DEF ShareInv, Closed, Leased, Share, Kids, Trip, Placing
<1>10. QueueInv'
  BY <1>a DEF QueueInv, Fits
<1>11. DoneInv'
  <2>1. /\ \A s : Required(s)' = Required(s)
        /\ Opened' <=> Opened
    BY <1>a DEF Required, Share, Kids, Opened, Trip
  <2>2. w # "complete" /\ refine # "completed"
    BY <1>a DEF DoneInv
  <2> QED
    BY <1>a, <1>l, <2>1, <2>2 DEF DoneInv
<1>12. TokenInv'
  BY <1>a DEF TokenInv
<1>13. CleanInv'
  BY <1>a DEF CleanInv, Required, Share, Kids, Trip
<1>14. CrashInv'
  BY <1>a DEF CrashInv, Placing, Trip, Running
<1> QED
  BY <1>1, <1>2, <1>3, <1>4, <1>5, <1>6, <1>7, <1>8, <1>9, <1>10, <1>11, <1>12, <1>13, <1>14

\* A reader goes on with the stage it works on.
LEMMA ReaderMoves ==
  ASSUME RInv, NEW i \in Owners, NEW r, Step(i, r), Busy(i),
         r \in [at : Working, of : Prefixes \cup {None}, as : {"completed", "failed", "stopped"}],
         r.of = reader[i].of, tokens' \subseteq tokens, <<r.of, i>> \notin tokens',
         r.at \in {"reread", "record"} /\ r.as = "completed" => Closed(r.of, i),
         UNCHANGED <<w, item, plan, shard, artifact, positioned, asking, ends, engines, main>>
  PROVE  RInv'
<1> USE DEF RInv
<1>a. ReaderType' /\ reader'[i] = r /\ \A j \in Owners : j # i => reader'[j] = reader[j]
  BY Stepped
<1>b. \A j \in Owners : /\ (reader'[j].at \in Working <=> Busy(j))
                        /\ Busy(j) => reader'[j].of = reader[j].of
                        /\ reader'[j].at \in {"exit", "ended"} => reader'[j] = reader[j]
  BY <1>a DEF Busy, Working
<1>c. \A x : Kids(x)' = Kids(x) /\ Required(x)' = Required(x) /\ \A o : Share(x, o)' = Share(x, o)
  BY DEF Kids, Required, Share
<1>l. (Live' => Live) /\ (Left => Left')
  BY DEF Live, Ruined, Left
<1>1. TypeOK'
  BY <1>a DEF TypeOK, WorkerType, PlanType, LedgerType, ArtifactType, EngineType, RunType
<1>2. JobInv' /\ StageInv' /\ TodoInv'
  <2>1. JobInv' /\ StageInv'
    BY <1>c DEF JobInv, StageInv, Trip
  <2>2. TodoInv'
    BY <1>b DEF TodoInv, Placing, Trip, Busy, TypeOK, WorkerType
  <2> QED
    BY <2>1, <2>2
<1>3. SearchInv'
  <2> SUFFICES ASSUME NEW j \in Owners PROVE Served(j)'
    BY DEF SearchInv
  <2>1. Served(j)
    BY DEF SearchInv
  <2> QED
    BY <1>a, <1>b, <1>l, <2>1 DEF Served, Busy
<1>4. BarrierInv' /\ PlaceInv' /\ TreeInv'
  <2>1. BarrierInv'
    BY BarrierKept
  <2>2. PlaceInv' /\ TreeInv'
    BY <1>c DEF PlaceInv, TreeInv, Available, Placing, Opened, Unopened, Trip
  <2> QED
    BY <2>1, <2>2
<1>5. ShareInv'
  BY <1>a, <1>c DEF ShareInv, Leased, Closed, Placing, Trip
<1>6. QueueInv'
  BY DEF QueueInv, Fits
<1>7. DoneInv'
  BY <1>b, <1>c, <1>l DEF DoneInv, AllDone, GaveUp, Opened, Trip, Busy
<1>8. TokenInv' /\ CleanInv'
  BY <1>c DEF TokenInv, CleanInv, Trip
<1>9. CrashInv'
  BY DEF CrashInv, Placing, Trip, Running
<1> QED
  BY <1>1, <1>2, <1>3, <1>4, <1>5, <1>6, <1>7, <1>8, <1>9

LEMMA AuditStep == ASSUME RInv, NEW i \in Owners, Audit(i) PROVE RInv'
<1>1. PICK verdict \in {"completed", "failed"} :
         Step(i, [reader[i] EXCEPT !.at = IF verdict = "failed" THEN "record" ELSE "judge",
                                   !.as = verdict])
  BY DEF Audit
<1> DEFINE r == [reader[i] EXCEPT !.at = IF verdict = "failed" THEN "record" ELSE "judge",
                                  !.as = verdict]
<1>2. /\ r \in [at : Working, of : Prefixes \cup {None}, as : {"completed", "failed", "stopped"}]
      /\ r.of = reader[i].of /\ ~(r.at \in {"reread", "record"} /\ r.as = "completed")
  BY DEF RInv, TypeOK, ReaderType, Working
<1> HIDE DEF r
<1> QED
  BY <1>1, <1>2, ReaderMoves DEF r, Audit, Busy, Working

LEMMA JudgeStep == ASSUME RInv, NEW i \in Owners, Judge(i) PROVE RInv'
<1> DEFINE r == IF cancelled \/ reader[i].of \in abort
                THEN [reader[i] EXCEPT !.at = "record", !.as = "stopped"]
                ELSE [reader[i] EXCEPT !.at = "seal"]
<1>1. /\ r \in [at : Working, of : Prefixes \cup {None}, as : {"completed", "failed", "stopped"}]
      /\ r.of = reader[i].of /\ ~(r.at \in {"reread", "record"} /\ r.as = "completed")
  BY DEF RInv, TypeOK, ReaderType, Working
<1>2. Busy(i) /\ <<reader[i].of, i>> \notin tokens
  BY DEF Judge, RInv, SearchInv, Served, Busy, Working
<1> HIDE DEF r
<1> QED
  BY <1>1, <1>2, ReaderMoves DEF r, Judge

LEMMA RereadStep == ASSUME RInv, NEW i \in Owners, Reread(i) PROVE RInv'
<1> DEFINE r == [reader[i] EXCEPT !.at = "record", !.as = IF cancelled THEN "stopped" ELSE @]
<1>1. /\ r \in [at : Working, of : Prefixes \cup {None}, as : {"completed", "failed", "stopped"}]
      /\ r.of = reader[i].of /\ (r.as = "completed" => reader[i].as = "completed")
  BY DEF RInv, TypeOK, ReaderType, Working
<1>2. Busy(i) /\ <<reader[i].of, i>> \notin tokens
  BY DEF Reread, RInv, SearchInv, Served, Busy, Working
<1>3. reader[i].as = "completed" => Closed(reader[i].of, i)
  BY DEF Reread, RInv, ShareInv
<1> HIDE DEF r
<1> QED
  BY <1>1, <1>2, <1>3, ReaderMoves DEF r, Reread

LEMMA Seal_Ok ==
  ASSUME RInv, NEW i \in Owners, NEW s, NEW share, Seal(i), s = reader[i].of, share = Share(s, i),
         \A c \in share : shard[c].state = "active", shard' = Mark(share, i, "sealed"),
         Step(i, [reader[i] EXCEPT !.at = "reread"])
  PROVE  RInv'
<1> USE DEF RInv
<1>a. /\ reader[i].at = "seal" /\ s = reader[i].of /\ share \subseteq DOMAIN shard
      /\ UNCHANGED <<w, item, plan, artifact, run, ends, engines, main>>
  BY DEF Seal, Share, Kids
<1>b. /\ DOMAIN shard' = DOMAIN shard
      /\ shard' \in [DOMAIN shard -> [owner : Owners,
                                    state : {"leased", "active", "sealed", "retired"}]]
      /\ \A p \in DOMAIN shard :
           /\ shard'[p].owner = shard[p].owner
           /\ p \in share => shard[p].state = "active" /\ shard'[p].state = "sealed"
           /\ p \notin share => shard'[p] = shard[p]
  BY Marked
<1>c. \A t : Kids(t)' = Kids(t) /\ Required(t)' = Required(t) /\ \A o : Share(t, o)' = Share(t, o)
  BY <1>b, ShareSame
<1>d. /\ ReaderType' /\ \A j \in Owners : j # i => reader'[j] = reader[j]
      /\ reader'[i] = [reader[i] EXCEPT !.at = "reread"]
      /\ reader'[i].at = "reread" /\ reader'[i].of = s /\ reader'[i].as = reader[i].as
  <2>1. [reader[i] EXCEPT !.at = "reread"] \in [at : Working \cup {"idle", "exit", "ended"},
           of : Prefixes \cup {None}, as : {"completed", "failed", "stopped"}]
    BY DEF TypeOK, ReaderType, Working
  <2>2. reader[i] \in [at : Working \cup {"idle", "exit", "ended"},
           of : Prefixes \cup {None}, as : {"completed", "failed", "stopped"}]
    BY DEF TypeOK, ReaderType
  <2>3. reader'[i] = [reader[i] EXCEPT !.at = "reread"]
        /\ ReaderType' /\ \A j \in Owners : j # i => reader'[j] = reader[j]
    BY <2>1, Stepped
  <2> QED
    BY <2>2, <2>3
<1>f. /\ \A j \in Owners : Busy(j) => reader'[j].of = reader[j].of
      /\ \A j \in Owners : (Busy(j)' <=> Busy(j))
  BY <1>a, <1>d DEF Busy, Working
<1>l. (Live' => Live) /\ (Left => Left')
  BY <1>a DEF Live, Ruined, Left
<1>1. TypeOK'
  <2>1. WorkerType'
    BY <1>a DEF WorkerType, TypeOK
  <2>2. PlanType'
    BY <1>a DEF PlanType, TypeOK
  <2>3. LedgerType'
    BY <1>b DEF LedgerType, TypeOK
  <2>4. ArtifactType'
    BY <1>a DEF ArtifactType, TypeOK
  <2>5. EngineType'
    BY <1>a DEF EngineType, TypeOK
  <2>6. ReaderType'
    BY <1>d
  <2>7. RunType'
    BY <1>a DEF RunType, TypeOK
  <2> QED
    BY <2>1, <2>2, <2>3, <2>4, <2>5, <2>6, <2>7 DEF TypeOK
<1>2. JobInv'
  BY <1>a DEF JobInv, Trip
<1>3. StageInv'
  <2>1. ASSUME NEW q \in DOMAIN stage' PROVE Required(q[1])' = Required(q[1])
    BY <1>c
  <2> QED
    BY <1>a, <2>1 DEF StageInv
<1>4. TodoInv'
  BY <1>a, <1>d DEF TypeOK, TodoInv, WorkerType, ReaderType, Trip, Placing, Busy
<1>5. SearchInv'
  <2> SUFFICES ASSUME NEW j \in Owners PROVE Served(j)'
    BY DEF SearchInv
  <2>1. Served(j)
    BY DEF SearchInv
  <2>2. CASE j = i
    BY <1>a, <1>d, <1>f, <1>l, <2>1, <2>2 DEF Served
  <2>3. CASE j # i
    BY <1>a, <1>d, <1>f, <1>l, <2>1, <2>3 DEF Served
  <2> QED
    BY <2>2, <2>3
<1>6. BarrierInv'
  BY <1>a, BarrierKept
<1>7. PlaceInv'
  <2>1. Required(scope)' = Required(scope)
    BY <1>a, <1>b, ScopeSame
  <2> QED
    BY <1>a, <2>1 DEF PlaceInv, Placing, Trip, Available
<1>8. TreeInv'
  <2>1. \A c \in DOMAIN shard : shard'[c].state = "retired" => shard[c].state = "retired"
    BY <1>b
  <2> QED
    BY <1>a, <1>b, <1>c DEF TreeInv, Opened, Unopened, Trip
<1>9. ShareInv'
  <2>4. ASSUME NEW j \in Owners, reader'[j].at \in {"reread", "record"}, reader'[j].as = "completed"
        PROVE  \A c \in Children(reader'[j].of) \cap DOMAIN shard' :
                  shard'[c].owner = j => shard'[c].state \in {"sealed", "retired"}
    <3>1. CASE j = i
      <4>1. Children(reader'[j].of) \cap DOMAIN shard' = Kids(s)
        BY <1>b, <1>d, <3>1 DEF Kids
      <4> QED
        BY <1>b, <3>1, <4>1 DEF Share
    <3>2. CASE j # i
      BY <1>b, <1>d, <2>4, <3>2 DEF ShareInv, Closed, Share, Kids
    <3> QED
      BY <3>1, <3>2
  <2>5. (\A j \in Owners :
           reader[j].at \in {"reread", "record"} /\ reader[j].as = "completed" => Closed(reader[j].of, j))'
    BY <2>4 DEF Closed, Share, Kids
  <2>6. (Placing => \A o \in Owners : Leased(scope, o))'
    BY <1>a, <1>b DEF ShareInv, Leased, Share, Kids, Placing, Trip
  <2>7. (w = "dispatch" => \A o \in todo : Leased(scope, o))'
    BY <1>a, <1>b DEF ShareInv, Leased, Share, Kids
  <2>8. (w = "go" => \A o \in todo \ {First(todo)} : Leased(scope, o))'
    BY <1>a, <1>b DEF ShareInv, Leased, Share, Kids
  <2>9. (\A q \in DOMAIN stage : stage[q] = "completed" => Closed(q[1], q[2]))'
    BY <1>a, <1>b DEF ShareInv, Closed, Share, Kids
  <2> QED
    BY <2>5, <2>6, <2>7, <2>8, <2>9 DEF ShareInv
<1>10. QueueInv'
  <2>1. \A e \in Entries : Fits(e) => Fits(e)'
    BY <1>a, <1>b DEF Fits
  <2> QED
    BY <1>a, <2>1 DEF QueueInv, TypeOK, PlanType
<1>11. DoneInv'
  BY <1>a, <1>c, <1>f, <1>l DEF DoneInv, AllDone, GaveUp, Opened, Trip
<1>12. TokenInv'
  BY <1>a DEF TokenInv
<1>13. CleanInv'
  <2>1. Required(scope)' = Required(scope)
    BY <1>a, <1>b, ScopeSame
  <2> QED
    BY <1>a, <1>c DEF CleanInv, Trip
<1>14. CrashInv'
  BY <1>a DEF CrashInv, Placing, Trip, Running
<1> QED
  BY <1>1, <1>2, <1>3, <1>4, <1>5, <1>6, <1>7, <1>8, <1>9, <1>10, <1>11, <1>12, <1>13, <1>14

LEMMA Seal_Not ==
  ASSUME RInv, NEW i \in Owners, reader[i].at = "seal",
         Step(i, [reader[i] EXCEPT !.at = "record", !.as = "failed"]),
         UNCHANGED <<shard, w, item, plan, artifact, run, ends, engines, main>>
  PROVE  RInv'
<1> DEFINE r == [reader[i] EXCEPT !.at = "record", !.as = "failed"]
<1>1. /\ r \in [at : Working, of : Prefixes \cup {None}, as : {"completed", "failed", "stopped"}]
      /\ r.of = reader[i].of /\ r.as = "failed"
  BY DEF RInv, TypeOK, ReaderType, Working
<1>2. Busy(i) /\ <<reader[i].of, i>> \notin tokens
  BY DEF RInv, SearchInv, Served, Busy, Working
<1> HIDE DEF r
<1> QED
  BY <1>1, <1>2, ReaderMoves DEF r

LEMMA SealStep == ASSUME RInv, NEW i \in Owners, Seal(i) PROVE RInv'
<1> DEFINE share == Share(reader[i].of, i)
<1>1. CASE \A c \in share : shard[c].state = "active"
  BY <1>1, Seal_Ok DEF Seal
<1>2. CASE ~(\A c \in share : shard[c].state = "active")
  BY <1>2, Seal_Not DEF Seal
<1> QED
  BY <1>1, <1>2

LEMMA Report_Fails ==
  ASSUME RInv, NEW i \in Owners, Report(i), reader[i].as = "failed"
  PROVE  RInv'
<1> USE DEF RInv
<1> DEFINE s == reader[i].of
<1>a. /\ reader[i].at = "record" /\ health' = [health EXCEPT ![i] = FALSE]
      /\ stage' = Record(s, i, "failed") /\ Incomplete(s) /\ Step(i, Idle)
      /\ UNCHANGED <<w, item, plan, shard, abort, run, ends, alive, pos, search, main>>
  BY DEF Report
<1>b. ~health'[i] /\ \A j \in Owners : j # i => health'[j] = health[j]
  BY <1>a DEF TypeOK, EngineType
<1>c. <<s, i>> \in DOMAIN stage /\ <<s, i>> \notin tokens /\ w # "complete"
  BY <1>a DEF SearchInv, Served, DoneInv, Busy, Working
<1>d. ReaderType' /\ reader'[i] = Idle /\ \A j \in Owners : j # i => reader'[j] = reader[j]
  BY <1>a, Stepped DEF Idle
<1>e. /\ JobInv' /\ StageInv' /\ TodoInv' /\ SearchInv' /\ PlaceInv'
      /\ TreeInv' /\ ShareInv' /\ QueueInv' /\ DoneInv' /\ TokenInv' /\ CleanInv' /\ CrashInv'
  <2>1. \A j \in Owners :
           /\ (alive'[j] => alive[j]) /\ (health'[j] => health[j])
           /\ reader'[j].at \in Working => reader'[j] = reader[j]
           /\ reader'[j].at \in {"exit", "ended"} => ~health'[j]
    <3>1. reader'[i].at = "idle" /\ w' = w
      BY <1>a, <1>d DEF Idle
    <3> QED
      BY <1>a, <1>b, <1>d, <3>1 DEF SearchInv, Served, Working
  <2>2. tokens' = tokens \ {<<s, i>>}
    BY <1>a, <1>c
  <2> HIDE DEF s
  <2> QED
    BY <1>a, <1>b, <1>c, <2>1, StageEnds
<1>1. TypeOK'
  <2>1. WorkerType'
    BY <1>a DEF WorkerType, TypeOK
  <2>2. PlanType'
    BY <1>a DEF PlanType, TypeOK
  <2>3. LedgerType'
    BY <1>a DEF LedgerType, TypeOK
  <2>4. ArtifactType'
    BY <1>a, Spoiled
  <2>5. EngineType'
    BY <1>a DEF EngineType, TypeOK
  <2>6. ReaderType'
    BY <1>d
  <2>7. RunType'
    BY <1>a DEF RunType, TypeOK
  <2> QED
    BY <2>1, <2>2, <2>3, <2>4, <2>5, <2>6, <2>7 DEF TypeOK
<1>6. BarrierInv'
  <2>1. DOMAIN stage' = DOMAIN stage
    BY <1>a, Recorded
  <2> QED
    BY <1>a, <1>b, <2>1, BarrierKept
<1> QED
  BY <1>e, <1>1, <1>6

LEMMA Report_Else ==
  ASSUME RInv, NEW i \in Owners, NEW s, NEW as, Report(i), as # "failed",
         s = reader[i].of, as = reader[i].as
  PROVE  RInv'
<1> USE DEF RInv
<1>a. /\ reader[i].at = "record" /\ s = reader[i].of /\ stage' = Record(s, i, as) /\ Step(i, Idle)
      /\ UNCHANGED <<w, item, plan, shard, disp, refine, abort, run, ends, engines, main>>
  BY DEF Report
<1>b. as \in {"completed", "stopped"}
  BY DEF TypeOK, ReaderType
<1>c. <<s, i>> \in DOMAIN stage /\ <<s, i>> \notin tokens
  BY <1>a DEF SearchInv, Served, Busy, Working
<1>d. ReaderType' /\ reader'[i] = Idle /\ \A j \in Owners : j # i => reader'[j] = reader[j]
  BY <1>a, Stepped DEF Idle
<1>f. /\ DOMAIN stage' = DOMAIN stage
      /\ stage' \in [DOMAIN stage -> {"running", "completed", "stopped", "failed"}]
      /\ \A q \in DOMAIN stage :
           /\ q # <<s, i>> \/ stage[q] # "running" => stage'[q] = stage[q]
           /\ q = <<s, i>> /\ stage[q] = "running" => stage'[q] = as
  BY <1>a, <1>b, Recorded
<1>g. as = "completed" => Closed(s, i)
  BY <1>a DEF ShareInv
<1>l. (Live' => Live) /\ (Left => Left')
  BY <1>a DEF Live, Ruined, Left
<1>1. TypeOK'
  <2>1. WorkerType'
    BY <1>a DEF WorkerType, TypeOK
  <2>2. PlanType'
    BY <1>a DEF PlanType, TypeOK
  <2>3. LedgerType'
    BY <1>a DEF LedgerType, TypeOK
  <2>4. ArtifactType'
    BY <1>a, <1>f DEF ArtifactType, TypeOK
  <2>5. EngineType'
    BY <1>a DEF EngineType, TypeOK
  <2>6. ReaderType'
    BY <1>d DEF ReaderType
  <2>7. RunType'
    BY <1>a DEF RunType, TypeOK
  <2> QED
    BY <2>1, <2>2, <2>3, <2>4, <2>5, <2>6, <2>7 DEF TypeOK
<1>2. JobInv'
  BY <1>a DEF JobInv, Trip
<1>3. StageInv'
  BY <1>a, <1>f DEF StageInv, Required, Share, Kids
<1>4. TodoInv'
  <2>1. w = "go" => First(todo) \in todo /\ First(todo) \in Owners
    BY FirstIn DEF TodoInv, TypeOK, WorkerType
  <2>2. w = "go" => <<scope, First(todo)>> # <<s, i>>
    BY <1>a, <2>1 DEF TodoInv, Busy, Working
  <2>3. \A o \in Owners : reader'[o].at \in Working => reader'[o] = reader[o]
    BY <1>d DEF Idle, Working
  <2> QED
    BY <1>a, <1>f, <2>2, <2>3 DEF TodoInv, Placing, Trip, Busy, TypeOK, WorkerType
<1>5. SearchInv'
  <2>1. ASSUME NEW j \in Owners, search[j] # None
        PROVE  /\ <<search[j], j>> \in DOMAIN stage'
               /\ stage'[<<search[j], j>>] = stage[<<search[j], j>>]
    BY <1>a, <1>f, <2>1 DEF SearchInv, Served, Busy, Working
  <2>2. ASSUME NEW j \in Owners, reader'[j].at \in Working \cup {"exit", "ended"}
        PROVE  j # i /\ reader'[j] = reader[j]
    BY <1>d, <2>2 DEF Idle, Working
  <2>3. ASSUME NEW j \in Owners, reader'[j].at \in Working
        PROVE  /\ <<reader[j].of, j>> \in DOMAIN stage'
               /\ stage'[<<reader[j].of, j>>] = stage[<<reader[j].of, j>>]
    BY <1>f, <2>2, <2>3 DEF SearchInv, Served, Busy
  <2> SUFFICES ASSUME NEW j \in Owners PROVE Served(j)'
    BY DEF SearchInv
  <2>4. Served(j)
    BY DEF SearchInv
  <2> QED
    BY <1>a, <1>l, <2>1, <2>2, <2>3, <2>4 DEF Served, Busy
<1>6. BarrierInv'
  BY <1>a, <1>f, BarrierKept
<1>7. PlaceInv'
  BY <1>a, <1>b, <1>c, <1>d, <1>f, <1>g DEF TypeOK, PlaceInv, JobInv, SearchInv, Served, StageInv,
     BarrierInv, EngineType, WorkerType, RunType, Required, Share, Kids, Idle, Available, Trip,
     Placing, Busy, Over, Away, Asking, Trips, Searching, Reached, Working
<1>8. TreeInv'
  BY <1>a DEF TreeInv, Kids, Trip, Opened, Unopened
<1>9. ShareInv'
  BY <1>a, <1>b, <1>c, <1>d, <1>f, <1>g DEF TypeOK, ShareInv, StageInv, TodoInv, SearchInv, Served,
     ReaderType, Closed, Leased, Share, Kids, Idle, Trip, Placing, Busy, Trips, Searching,
     Working
<1>10. QueueInv'
  BY <1>a DEF QueueInv, Fits
<1>11. DoneInv'
  <2>1. /\ \A t : Required(t)' = Required(t)
        /\ Opened' <=> Opened
    BY <1>a DEF Required, Share, Kids, Opened, Trip
  <2>2. w # "complete" /\ refine # "completed"
    BY <1>a DEF DoneInv, Busy, Working
  <2>3. \A q \in DOMAIN stage : stage[q] = "completed" => stage'[q] = "completed"
    BY <1>f
  <2> QED
    BY <1>a, <1>f, <1>l, <2>1, <2>2, <2>3 DEF DoneInv
<1>12. TokenInv'
  BY <1>a, <1>c, <1>f DEF TokenInv
<1>13. CleanInv'
  BY <1>a, <1>f DEF CleanInv, Required, Share, Kids, Trip
<1>14. CrashInv'
  BY <1>a, <1>b, <1>f DEF CrashInv, Placing, Trip, Running
<1> QED
  BY <1>1, <1>2, <1>3, <1>4, <1>5, <1>6, <1>7, <1>8, <1>9, <1>10, <1>11, <1>12, <1>13, <1>14

LEMMA ReportStep == ASSUME RInv, NEW i \in Owners, Report(i) PROVE RInv'
BY Report_Fails, Report_Else

LEMMA Exit_It ==
  ASSUME RInv, NEW i \in Owners, Exit(i)
  PROVE  RInv'
<1> USE DEF RInv
<1>a. /\ reader[i].at = "idle" /\ ~alive[i]
      /\ UNCHANGED <<w, item, plan, shard, artifact, run, ends, alive, pos, main>>
  BY DEF Exit
<1>b. /\ search'[i] = None /\ \A j \in Owners : j # i => search'[j] = search[j]
      /\ ~health'[i] /\ \A j \in Owners : j # i => health'[j] = health[j]
  BY DEF Exit, TypeOK, EngineType
<1>c. /\ ReaderType' /\ \A j \in Owners : j # i => reader'[j] = reader[j]
      /\ reader'[i].at \in {"exit", "ended"}
  <2>1. [Idle EXCEPT !.at = IF Gone THEN "ended" ELSE "exit"] \in
           [at : Working \cup {"idle", "exit", "ended"},
            of : Prefixes \cup {None}, as : {"completed", "failed", "stopped"}]
    BY DEF Idle
  <2>2. /\ ReaderType' /\ \A j \in Owners : j # i => reader'[j] = reader[j]
        /\ reader'[i] = [Idle EXCEPT !.at = IF Gone THEN "ended" ELSE "exit"]
    BY <2>1, Stepped DEF Exit
  <2> QED
    BY <2>2
<1>l. (Live' => Live) /\ (Left => Left')
  BY <1>a DEF Live, Ruined, Left
<1>1. TypeOK'
  <2>1. WorkerType'
    BY <1>a DEF WorkerType, TypeOK
  <2>2. PlanType'
    BY <1>a DEF PlanType, TypeOK
  <2>3. LedgerType'
    BY <1>a DEF LedgerType, TypeOK
  <2>4. ArtifactType'
    BY <1>a DEF ArtifactType, TypeOK
  <2>5. EngineType'
    BY DEF Exit, TypeOK, EngineType
  <2>6. ReaderType'
    BY <1>c
  <2>7. RunType'
    BY <1>a DEF RunType, TypeOK
  <2> QED
    BY <2>1, <2>2, <2>3, <2>4, <2>5, <2>6, <2>7 DEF TypeOK
<1>2. JobInv'
  BY <1>a DEF JobInv, Trip
<1>3. StageInv'
  BY <1>a DEF StageInv, Required, Share, Kids
<1>4. TodoInv'
  <2>1. w = "go" => \A o \in todo : search'[o] # scope /\ (Busy(o)' => reader'[o].of # scope)
    BY <1>b, <1>c, NoneApart, ScopeType DEF TodoInv, Busy, Working, TypeOK, WorkerType, Over
  <2>2. w = "go" => First(todo) \in todo /\ First(todo) \in Owners
    BY FirstIn DEF TypeOK, WorkerType, TodoInv
  <2>3. w = "go" => \/ stage[<<scope, First(todo)>>] = "running" \/ ~health'[First(todo)] \/ cancelled
    BY <1>b, <2>2 DEF TodoInv
  <2> QED
    BY <1>a, <2>1, <2>3 DEF TodoInv, Placing, Trip
<1>5. SearchInv'
  <2>1. ASSUME NEW j \in Owners, j # i
        PROVE  /\ search'[j] = search[j] /\ reader'[j] = reader[j] /\ health'[j] = health[j]
               /\ UNCHANGED <<stage, pos, refine, tokens, w>>
    BY <1>a, <1>b, <1>c, <2>1
  <2> SUFFICES ASSUME NEW j \in Owners PROVE Served(j)'
    BY DEF SearchInv
  <2>2. Served(j)
    BY DEF SearchInv
  <2>3. CASE j = i
    BY <1>b, <1>c, <2>3 DEF Served, Busy, Working
  <2>4. CASE j # i
    BY <1>a, <1>l, <2>1, <2>2, <2>4 DEF Served, Busy
  <2> QED
    BY <2>3, <2>4
<1>6. BarrierInv'
  BY <1>a, <1>b, BarrierKept
<1>7. PlaceInv'
  BY <1>a, <1>b DEF TypeOK, PlaceInv, JobInv, WorkerType, Required, Share, Kids, Available,
     Trip, Placing, Over, Away, Asking, Searching
<1>8. TreeInv'
  BY <1>a DEF TreeInv, Kids, Trip, Opened, Unopened
<1>9. ShareInv'
  BY <1>a, <1>c DEF ShareInv, Closed, Leased, Share, Kids, Trip, Placing
<1>10. QueueInv'
  BY <1>a DEF QueueInv, Fits
<1>11. DoneInv'
  <2>1. /\ \A t : Required(t)' = Required(t)
        /\ Opened' <=> Opened
        /\ AllDone' <=> AllDone
    BY <1>a DEF Required, Share, Kids, Opened, Trip, AllDone, GaveUp
  <2>2. \A j \in Owners : Busy(j)' => Busy(j)
    BY <1>c DEF Busy, Working
  <2> QED
    BY <1>a, <1>b, <1>l, <2>1, <2>2 DEF DoneInv
<1>12. TokenInv'
  BY <1>a DEF TokenInv
<1>13. CleanInv'
  BY <1>a DEF CleanInv, Required, Share, Kids, Trip
<1>14. CrashInv'
  BY <1>a, <1>b DEF CrashInv, Placing, Trip, Running, TypeOK, WorkerType
<1> QED
  BY <1>1, <1>2, <1>3, <1>4, <1>5, <1>6, <1>7, <1>8, <1>9, <1>10, <1>11, <1>12, <1>13, <1>14

LEMMA ExitStep == ASSUME RInv, NEW i \in Owners, Exit(i) PROVE RInv'
BY Exit_It

LEMMA ExitStage_None ==
  ASSUME RInv, NEW i \in Owners, ExitStage(i), {q \in Active : q[2] = i} = {}
  PROVE  RInv'
<1> USE DEF RInv
<1>a. UNCHANGED <<w, item, plan, shard, artifact, run, ends, engines, main>>
  BY DEF ExitStage
<1>b. /\ reader'[i].at = "ended" /\ reader[i].at = "exit"
      /\ \A j \in Owners : j # i => reader'[j] = reader[j]
  BY DEF ExitStage, Step, TypeOK, ReaderType
<1>l. (Live' => Live) /\ (Left => Left')
  BY <1>a DEF Live, Ruined, Left
<1>1. TypeOK'
  <2>1. WorkerType'
    BY DEF ExitStage, WorkerType, TypeOK
  <2>2. PlanType'
    BY DEF ExitStage, PlanType, TypeOK
  <2>3. LedgerType'
    BY DEF ExitStage, LedgerType, TypeOK
  <2>4. ArtifactType'
    BY DEF ExitStage, ArtifactType, TypeOK
  <2>5. EngineType'
    BY DEF ExitStage, EngineType, TypeOK
  <2>6. ReaderType'
    BY DEF ExitStage, Step, ReaderType, TypeOK, Idle
  <2>7. RunType'
    BY DEF ExitStage, RunType, TypeOK
  <2> QED
    BY <2>1, <2>2, <2>3, <2>4, <2>5, <2>6, <2>7 DEF TypeOK
<1>2. JobInv'
  BY DEF ExitStage, JobInv, Trip
<1>3. StageInv'
  BY DEF ExitStage, StageInv, Required, Share, Kids
<1>4. TodoInv'
  BY DEF ExitStage, Step, TodoInv, Trip, Placing, Busy, Working
<1>5. SearchInv'
  <2> SUFFICES ASSUME NEW j \in Owners PROVE Served(j)'
    BY DEF SearchInv
  <2>1. Served(j)
    BY DEF SearchInv
  <2> QED
    BY <1>a, <1>b, <1>l, <2>1 DEF Served, Busy, Working
<1>6. BarrierInv'
  BY <1>a, BarrierKept
<1>7. PlaceInv'
  BY DEF ExitStage, PlaceInv, Required, Share, Kids, Available, Trip, Placing
<1>8. TreeInv'
  BY DEF ExitStage, TreeInv, Kids, Trip, Opened, Unopened
<1>9. ShareInv'
  BY DEF ExitStage, Step, ShareInv, Closed, Leased, Share, Kids, Trip, Placing
<1>10. QueueInv'
  BY DEF ExitStage, QueueInv, Fits
<1>11. DoneInv'
  <2>1. /\ \A t : Required(t)' = Required(t)
        /\ Opened' <=> Opened
        /\ AllDone' <=> AllDone
    BY <1>a DEF Required, Share, Kids, Opened, Trip, AllDone, GaveUp
  <2>2. \A j \in Owners : Busy(j)' => Busy(j)
    BY <1>b DEF Busy, Working
  <2> QED
    BY <1>a, <1>l, <2>1, <2>2 DEF DoneInv
<1>12. TokenInv'
  BY DEF ExitStage, TokenInv
<1>13. CleanInv'
  BY DEF ExitStage, CleanInv, Required, Share, Kids, Trip
<1>14. CrashInv'
  BY <1>a DEF CrashInv, Placing, Trip, Running
<1> QED
  BY <1>1, <1>2, <1>3, <1>4, <1>5, <1>6, <1>7, <1>8, <1>9, <1>10, <1>11, <1>12, <1>13, <1>14

LEMMA ExitStage_One ==
  ASSUME RInv, NEW i \in Owners, NEW s, <<s, i>> \in Active, reader[i].at = "exit",
         Step(i, [Idle EXCEPT !.at = "ended"]), stage' = Record(s, i, "failed"),
         tokens' = tokens \ {<<s, i>>}, Incomplete(s),
         UNCHANGED <<w, item, plan, shard, abort, positioned, asking, ends, engines, main>>
  PROVE  RInv'
<1> USE DEF RInv
<1>a. <<s, i>> \in DOMAIN stage /\ stage[<<s, i>>] = "running" /\ w \in Searching
  BY DEF Active, StageInv
<1>b. ~health[i]
  BY <1>a DEF SearchInv, Served, Searching
<1>c. ReaderType' /\ reader'[i].at = "ended" /\ \A j \in Owners : j # i => reader'[j] = reader[j]
  BY Stepped, NotAPrefix DEF Idle, Working
<1>e. /\ JobInv' /\ StageInv' /\ TodoInv' /\ SearchInv' /\ PlaceInv'
      /\ TreeInv' /\ ShareInv' /\ QueueInv' /\ DoneInv' /\ TokenInv' /\ CleanInv' /\ CrashInv'
  <2>1. \A j \in Owners :
           /\ (alive'[j] => alive[j]) /\ (health'[j] => health[j])
           /\ reader'[j].at \in Working => reader'[j] = reader[j]
           /\ reader'[j].at \in {"exit", "ended"} => ~health'[j]
    BY <1>b, <1>c DEF SearchInv, Served, Working
  <2> QED
    BY <1>a, <1>b, <2>1, StageEnds DEF Searching
<1>1. TypeOK'
  <2>1. WorkerType'
    BY <1>a, <1>b DEF WorkerType, TypeOK
  <2>2. PlanType'
    BY <1>a, <1>b DEF PlanType, TypeOK
  <2>3. LedgerType'
    BY <1>a, <1>b DEF LedgerType, TypeOK
  <2>4. ArtifactType'
    BY Spoiled
  <2>5. EngineType'
    BY <1>a, <1>b DEF EngineType, TypeOK
  <2>6. ReaderType'
    BY <1>c
  <2>7. RunType'
    BY <1>a, <1>b DEF RunType, TypeOK
  <2> QED
    BY <2>1, <2>2, <2>3, <2>4, <2>5, <2>6, <2>7 DEF TypeOK
<1>6. BarrierInv'
  <2>1. DOMAIN stage' = DOMAIN stage
    BY Recorded
  <2> QED
    BY <2>1, BarrierKept
<1> QED
  BY <1>e, <1>1, <1>6

LEMMA ExitStageStep == ASSUME RInv, NEW i \in Owners, ExitStage(i) PROVE RInv'
<1> DEFINE mine == {q \in Active : q[2] = i}
<1>1. CASE mine = {}
  BY <1>1, ExitStage_None
<1>2. CASE mine # {}
  <2>1. PICK q \in mine : /\ stage' = Record(q[1], i, "failed") /\ tokens' = tokens \ {q}
                          /\ Incomplete(q[1])
    BY <1>2 DEF ExitStage
  <2>2. q = <<q[1], i>> /\ q \in Active
    BY DEF Active, RInv, TypeOK, ArtifactType
  <2> QED
    BY <2>1, <2>2, ExitStage_One DEF ExitStage
<1> QED
  BY <1>1, <1>2

\* The worker, the readers, the ledger and the stages rest; engines are only lost,
\* or sent on by the command loop.
LEMMA WorkerRests ==
  ASSUME RInv, UNCHANGED <<w, item, plan, shard, stage, disp, asking, tokens, search, reader>>,
         EngineType', RunType', BarrierInv', CrashInv', refine' \in {refine, "incomplete"},
         cancelled => cancelled', drained => drained', GaveUp => GaveUp',
         m' \notin Reached => m \notin Reached /\ pos' = pos,
         \A i \in Owners : /\ (alive'[i] => alive[i]) /\ (health'[i] => health[i])
                           /\ pos'[i] \in {pos[i], New}
                           /\ health'[i] /\ search[i] # None => pos'[i] = pos[i] \/ Left
  PROVE  RInv'
<1> USE DEF RInv
<1>1. \A x : Kids(x)' = Kids(x) /\ Required(x)' = Required(x) /\ \A o : Share(x, o)' = Share(x, o)
  BY DEF Kids, Required, Share
<1>2. TypeOK'
  BY DEF TypeOK, WorkerType, PlanType, LedgerType, ArtifactType, ReaderType
<1>3. JobInv' /\ StageInv' /\ TreeInv' /\ QueueInv'
  BY <1>1 DEF JobInv, StageInv, TreeInv, QueueInv, Fits, Opened, Unopened, Trip
<1>4. TodoInv'
  BY FirstIn DEF TodoInv, Placing, Trip, Busy, TypeOK, WorkerType
<1>l. (Live' => Live) /\ (Left => Left')
  BY DEF Live, Ruined, Left
<1>5. SearchInv'
  <2> SUFFICES ASSUME NEW j \in Owners PROVE Served(j)'
    BY DEF SearchInv
  <2>1. Served(j)
    BY DEF SearchInv
  <2> QED
    BY <1>l, <2>1 DEF Served, Busy
<1>6. PlaceInv'
  <2>1. \A i \in Owners : Available(i)' => Available(i)
    BY DEF Available
  <2>2. prepared \subseteq Owners /\ (w \in Trips \cup {"placed"} => job.i \in Owners)
    BY DEF TypeOK, WorkerType, JobInv
  <2>3. /\ Required(scope)' = Required(scope) /\ Placing' = Placing
        /\ \A S : Trip(S)' = Trip(S)
    BY <1>1 DEF Placing, Trip
  <2>4. (\A i \in Owners : Available(i) /\ pos[i] \notin {Old, New} =>
         \/ /\ i \in prepared
            /\ ~(i = job.i /\ (w = "unplaced" \/ (w = "ready" /\ job.why \in {"restore", "mend"})))
         \/ /\ w \in {"perft", "back", "placed"} \cup Trips /\ i = job.i
            /\ w = "write" => job.why = "askback"
            /\ w = "ready" => job.why \in {"ask", "place"})'
    BY <2>1 DEF PlaceInv
  <2> QED
    BY <2>1, <2>2, <2>3, <2>4, Zenon DEF PlaceInv, Trips
<1>7. ShareInv'
  BY <1>1 DEF ShareInv, Leased, Closed, Placing, Trip
<1>8. DoneInv'
  BY <1>1, <1>l DEF DoneInv, AllDone, Opened, Trip, Busy
<1>9. TokenInv' /\ CleanInv'
  BY <1>1 DEF TokenInv, CleanInv, Trip
<1> QED
  BY <1>2, <1>3, <1>4, <1>5, <1>6, <1>7, <1>8, <1>9

LEMMA DieStep == ASSUME RInv, NEW i \in Owners, Die(i) PROVE RInv'
<1>1. \A j \in Owners : alive'[j] => alive[j]
  BY DEF Die, RInv, TypeOK, EngineType
<1>2. EngineType' /\ RunType' /\ CrashInv'
  BY DEF Die, RInv, TypeOK, EngineType, RunType, CrashInv, Placing, Trip, Running
<1>3. BarrierInv'
  BY <1>1, BarrierKept DEF Die
<1> QED
  BY <1>1, <1>2, <1>3, WorkerRests DEF Die, GaveUp

LEMMA BarrierStep == ASSUME RInv, Barrier PROVE RInv'
<1>1. EngineType' /\ RunType' /\ BarrierInv' /\ CrashInv'
  BY DEF Barrier, RInv, TypeOK, EngineType, RunType, BarrierInv, Available, Reached,
     CrashInv, Placing, Trip, Running
<1> QED
  BY <1>1, WorkerRests DEF Barrier, GaveUp, Reached

LEMMA WaitedStep == ASSUME RInv, Waited PROVE RInv'
<1>1. EngineType' /\ RunType' /\ CrashInv'
  BY DEF Waited, RInv, TypeOK, EngineType, RunType, CrashInv, Placing, Trip, Running
<1>2. CASE Gone /\ drained' /\ serve' = Owners /\ m' = "sync"
  <2>1. Left' \/ \A i \in Owners : health[i] => search[i] = None
    BY <1>2 DEF Waited, RInv, SearchInv, Served, StageInv, Searching, Gone, Left
  <2>2. BarrierInv'
    BY <1>2, <2>1 DEF Waited, RInv, BarrierInv, Reached, Gone
  <2> QED
    BY <1>1, <1>2, <2>2, WorkerRests DEF Waited, GaveUp, Reached, RInv, BarrierInv
<1>3. CASE ~drained' /\ m' = "fail" /\ serve' = Active
  <2>1. \A i \in Owners : health[i] /\ search[i] # None => <<search[i], i>> \in Active
    BY DEF RInv, SearchInv, Served, Active
  <2>2. BarrierInv'
    BY <1>3, <2>1 DEF Waited, RInv, BarrierInv, Active, Reached
  <2> QED
    BY <1>1, <1>3, <2>2, WorkerRests DEF Waited, GaveUp, Reached, RInv, BarrierInv
<1> QED
  BY <1>2, <1>3 DEF Waited

LEMMA FailStage_Last == ASSUME RInv, FailStage, serve = {} PROVE RInv'
<1>1. EngineType' /\ RunType' /\ BarrierInv' /\ CrashInv'
  BY DEF FailStage, RInv, TypeOK, EngineType, RunType, BarrierInv, Reached,
     CrashInv, Placing, Trip, Running
<1> QED
  BY <1>1, WorkerRests DEF FailStage, GaveUp, Reached

LEMMA FailStage_One ==
  ASSUME RInv, FailStage, NEW q \in serve, NEW s, NEW i, q = <<s, i>>, m' = m, serve' = serve \ {q},
         health' = [health EXCEPT ![i] = FALSE], stage' = Record(s, i, "failed"),
         tokens' = tokens \ {q}, Incomplete(s)
  PROVE  RInv'
<1> USE DEF RInv
<1>a. q \in DOMAIN stage /\ i \in Owners /\ m = "fail" /\ cancelled
  BY DEF FailStage, BarrierInv, TypeOK, ArtifactType
<1>b. ~health'[i] /\ \A j \in Owners : j # i => health'[j] = health[j]
  BY <1>a DEF TypeOK, EngineType
<1>c. GaveUp
  BY <1>a DEF GaveUp, BarrierInv, Reached
<1>d. UNCHANGED <<w, item, plan, shard, abort, positioned, asking, ends, alive, pos, search,
                  reader, drained, command>>
  BY DEF FailStage
<1>e. /\ JobInv' /\ StageInv' /\ TodoInv' /\ SearchInv' /\ PlaceInv'
      /\ TreeInv' /\ ShareInv' /\ QueueInv' /\ DoneInv' /\ TokenInv' /\ CleanInv' /\ CrashInv'
  <2>1. \A j \in Owners :
           /\ (alive'[j] => alive[j]) /\ (health'[j] => health[j])
           /\ reader'[j].at \in Working => reader'[j] = reader[j]
           /\ reader'[j].at \in {"exit", "ended"} => ~health'[j]
    BY <1>b, <1>d DEF SearchInv, Served
  <2> QED
    BY <1>a, <1>b, <1>c, <1>d, <2>1, StageEnds
<1>1. TypeOK'
  <2>1. WorkerType'
    BY <1>d DEF WorkerType, TypeOK
  <2>2. PlanType'
    BY <1>d DEF PlanType, TypeOK
  <2>3. LedgerType'
    BY <1>d DEF LedgerType, TypeOK
  <2>4. ArtifactType'
    BY <1>a, <1>b, <1>c, <1>d, OwnerFacts, Spoiled DEF Incomplete, ArtifactType, TypeOK,
       JobInv, Trips, Working
  <2>5. EngineType'
    BY <1>a, <1>d DEF EngineType, TypeOK
  <2>6. ReaderType'
    BY <1>d DEF ReaderType, TypeOK
  <2>7. RunType'
    BY <1>d DEF RunType, TypeOK
  <2> QED
    BY <2>1, <2>2, <2>3, <2>4, <2>5, <2>6, <2>7 DEF TypeOK
<1>6. BarrierInv'
  <2>1. serve' \subseteq DOMAIN stage'
    BY <1>a, Recorded DEF BarrierInv
  <2>2. \A j \in Owners : health'[j] /\ search'[j] # None => <<search'[j], j>> \in serve'
    BY <1>a, <1>b, <1>d DEF BarrierInv
  <2> QED
    BY <1>a, <1>d, <2>1, <2>2 DEF BarrierInv, Reached
<1> QED
  BY <1>e, <1>1, <1>6

LEMMA FailStageStep == ASSUME RInv, FailStage PROVE RInv'
<1>1. CASE serve = {}
  BY <1>1, FailStage_Last
<1>2. CASE serve # {}
  <2>1. PICK q \in serve :
          /\ health' = [health EXCEPT ![q[2]] = FALSE] /\ stage' = Record(q[1], q[2], "failed")
          /\ tokens' = tokens \ {q} /\ Incomplete(q[1]) /\ serve' = serve \ {q} /\ m' = m
    BY <1>2 DEF FailStage
  <2>2. q = <<q[1], q[2]>>
    BY DEF FailStage, RInv, BarrierInv, TypeOK, ArtifactType
  <2> QED
    BY <2>1, <2>2, FailStage_One DEF RInv
<1> QED
  BY <1>1, <1>2

LEMMA QuarantineStep == ASSUME RInv, Quarantine PROVE RInv'
<1>1. EngineType' /\ RunType' /\ \A i \in Owners : health'[i] => health[i] /\ i \notin positioned
  BY DEF Quarantine, RInv, TypeOK, EngineType, RunType
<1>2. BarrierInv'
  BY <1>1 DEF Quarantine, RInv, BarrierInv, Reached, Left
<1>3. CrashInv'
  BY <1>1 DEF Quarantine, RInv, CrashInv, Placing, Trip, Running, TypeOK, WorkerType
<1> QED
  BY <1>1, <1>2, <1>3, WorkerRests DEF Quarantine, GaveUp, Reached

LEMMA ClearStep == ASSUME RInv, Clear PROVE RInv'
<1>1. EngineType' /\ RunType' /\ \A i \in Owners : health'[i] => health[i]
  BY DEF Clear, RInv, TypeOK, EngineType, RunType
<1>2. BarrierInv'
  BY <1>1 DEF Clear, RInv, BarrierInv, Reached, Left
<1>3. CrashInv'
  BY <1>1 DEF Clear, RInv, CrashInv, Placing, Trip, Running, TypeOK, WorkerType
<1> QED
  BY <1>1, <1>2, <1>3, WorkerRests DEF Clear, GaveUp, Reached

LEMMA Sync_Last == ASSUME RInv, Sync, serve = {} PROVE RInv'
<1>1. EngineType' /\ RunType' /\ CrashInv'
  BY DEF Sync, RInv, TypeOK, EngineType, RunType, CrashInv, Placing, Trip, Running
<1>2. BarrierInv'
  BY DEF Sync, RInv, BarrierInv, Available, Reached, Left
<1> QED
  BY <1>1, <1>2, WorkerRests DEF Sync, GaveUp, Reached

LEMMA Sync_One ==
  ASSUME RInv, Sync, NEW i \in serve, i = First(serve)
  PROVE  RInv'
<1>1. /\ i \in Owners /\ m = "sync" /\ m' = "sync" /\ serve' = serve \ {i}
      /\ Left \/ \A j \in Owners : health[j] => search[j] = None
  BY DEF Sync, RInv, BarrierInv
<1>2. /\ EngineType' /\ RunType'
      /\ \A j \in Owners : /\ (alive'[j] => alive[j]) /\ (health'[j] => health[j])
                           /\ pos'[j] \in {pos[j], New} /\ (j # i => pos'[j] = pos[j])
      /\ ~Available(i)' \/ pos'[i] = New
  BY <1>1 DEF Sync, RInv, TypeOK, EngineType, RunType, Available
<1>3. BarrierInv'
  BY <1>1, <1>2 DEF Sync, RInv, BarrierInv, Available, Reached, Left
<1>4. CrashInv'
  BY <1>1, <1>2 DEF Sync, RInv, CrashInv, Placing, Trip, Running, TypeOK, WorkerType
<1> QED
  BY <1>1, <1>2, <1>3, <1>4, WorkerRests DEF Sync, GaveUp, Reached

LEMMA SyncStep == ASSUME RInv, Sync PROVE RInv'
<1>1. serve # {} => First(serve) \in serve
  BY FirstIn DEF Sync, RInv, BarrierInv
<1> QED
  BY <1>1, Sync_Last, Sync_One

LEMMA AnchorCompleteStep == ASSUME RInv, AnchorComplete PROVE RInv'
<1>1. EngineType' /\ RunType' /\ CrashInv'
  BY DEF AnchorComplete, RInv, TypeOK, EngineType, RunType, CrashInv, Placing, Trip, Running
<1>2. BarrierInv'
  BY BarrierKept DEF AnchorComplete
<1> QED
  BY <1>1, <1>2, WorkerRests DEF AnchorComplete, GaveUp

LEMMA CancelStep == ASSUME RInv, Cancel PROVE RInv'
<1>1. EngineType' /\ RunType' /\ CrashInv'
  BY DEF Cancel, RInv, TypeOK, EngineType, RunType, CrashInv, Placing, Trip, Running
<1>2. BarrierInv'
  BY BarrierKept DEF Cancel
<1> QED
  BY <1>1, <1>2, WorkerRests DEF Cancel, GaveUp

-----------------------------------------------------------------------------
(* The initial states, and every step *)

LEMMA RInit == ASSUME Init PROVE RInv
<1> USE DEF Init
<1>a. NumTargets \in Nat /\ NumTargets <= NumOwners /\ NumOwners \in Nat
  BY OwnersAssumption, BoundsAssumption
<1>b. \A k \in 1 .. NumTargets :
         /\ k \in Nat \ {0} /\ <<k>> \in Prefixes /\ Len(<<k>>) = 1 /\ <<k>>[1] = k
         /\ SourceOwner(k) \in Owners /\ <<k>> \in DOMAIN shard
         /\ shard[<<k>>] = [owner |-> SourceOwner(k), state |-> "sealed"]
  <2> SUFFICES ASSUME NEW k \in 1 .. NumTargets
               PROVE  /\ k \in Nat \ {0} /\ <<k>> \in Prefixes /\ Len(<<k>>) = 1 /\ <<k>>[1] = k
                      /\ SourceOwner(k) \in Owners /\ <<k>> \in DOMAIN shard
                      /\ shard[<<k>>] = [owner |-> SourceOwner(k), state |-> "sealed"]
    OBVIOUS
  <2>1. k \in Nat \ {0}
    BY <1>a
  <2>2. <<k>> \in Seq(Nat \ {0}) /\ Len(<<k>>) = 1 /\ <<k>>[1] = k
    OBVIOUS
  <2>3. <<k>> \in Prefixes
    BY DEF Prefixes
  <2> QED
    BY <2>3, DealOwner
<1>c. \A c \in DOMAIN shard : \E k \in 1 .. NumTargets : c = <<k>>
  OBVIOUS
<1>1. TypeOK
  <2>1. WorkerType
    BY DEF WorkerType, Over, NoJob
  <2>2. PlanType
    <3>1. \A k \in 1 .. NumTargets : queue[k] \in Entries
      BY <1>b DEF Entries
    <3>2. queue \in [1 .. NumTargets -> Entries]
      BY <3>1
    <3>3. queue \in Seq(Entries)
      BY <1>a, <3>2
    <3> QED
      BY <3>3 DEF PlanType
  <2>3. LedgerType
    <3>1. ASSUME NEW c \in DOMAIN shard
          PROVE  /\ c \in Prefixes
                 /\ shard[c] \in [owner : Owners, state : {"leased", "active", "sealed", "retired"}]
      <4>1. PICK k \in 1 .. NumTargets : c = <<k>>
        OBVIOUS
      <4>2. c \in Prefixes /\ SourceOwner(k) \in Owners
        BY <1>b, <4>1
      <4>3. shard[c] = [owner |-> SourceOwner(k), state |-> "sealed"]
        BY <4>1, Zenon
      <4> QED
        BY <4>2, <4>3
    <3>2. shard \in [DOMAIN shard ->
                       [owner : Owners, state : {"leased", "active", "sealed", "retired"}]]
      BY <3>1
    <3> QED
      BY <3>1, Zenon DEF LedgerType
  <2>4. ArtifactType
    BY DEF ArtifactType
  <2>5. EngineType
    BY DEF EngineType
  <2>6. ReaderType
    BY DEF ReaderType, Idle
  <2>7. RunType
    BY DEF RunType
  <2> QED
    BY <2>1, <2>2, <2>3, <2>4, <2>5, <2>6, <2>7 DEF TypeOK
<1>2. JobInv /\ StageInv /\ TodoInv /\ TokenInv /\ CleanInv
  BY DEF JobInv, StageInv, TodoInv, TokenInv, CleanInv, Trip, Trips
<1>3. SearchInv /\ BarrierInv /\ PlaceInv
  BY DEF SearchInv, Served, BarrierInv, PlaceInv, Busy, Working, Idle, Trip, Trips, Placing
<1>4. TreeInv
  <2>1. DOMAIN disp = {} /\ w = "pick"
    OBVIOUS
  <2>2. ASSUME NEW c \in DOMAIN shard PROVE ~(Len(c) > 1) /\ shard[c].state # "retired"
    <3>1. PICK k \in 1 .. NumTargets : c = <<k>>
      OBVIOUS
    <3>2. shard[c] = [owner |-> SourceOwner(k), state |-> "sealed"]
      BY <3>1, Zenon
    <3>3. Len(c) = 1
      OBVIOUS
    <3>4. ~(Len(c) > 1)
      BY <3>3
    <3> QED
      BY <3>4
  <2> HIDE DEF Init
  <2>3. w \in Over /\ ~Unopened /\ ~Opened
    BY <2>1 DEF Over, Unopened, Asking, Opened, Away, Searching, Trip, Trips
  <2>4. \A c \in DOMAIN shard : ~(Len(c) > 1) /\ shard[c].state # "retired"
    BY <2>2, Zenon
  <2> QED
    BY <2>1, <2>3, <2>4 DEF TreeInv
<1>5. ShareInv
  BY DEF ShareInv, Placing, Trip, Trips, Idle
<1>6. QueueInv
  <2>1. /\ DOMAIN queue = 1 .. NumTargets
      /\ \A k \in 1 .. NumTargets : queue[k].of = <<k>> /\ queue[k].by = SourceOwner(k)
    OBVIOUS
  <2>2. \A k \in DOMAIN queue : Fits(queue[k])
    BY DEF Fits, Over
  <2>3. \A j, k \in 1 .. NumTargets : j # k => queue[j].of # queue[k].of
    OBVIOUS
  <2>4. DOMAIN nominated = {}
    OBVIOUS
  <2> QED
    BY <2>2 DEF QueueInv
<1>7. DoneInv
  BY DEF DoneInv, Live, Ruined
<1>8. CrashInv
  BY DEF CrashInv, Wrecked, Placing, Trip, Trips
<1> QED
  BY <1>1, <1>2, <1>3, <1>4, <1>5, <1>6, <1>7, <1>8 DEF RInv

LEMMA WorkerStep == ASSUME RInv, Worker PROVE RInv'
BY PickTargetStep, DeepenStep, PickNominationStep, AskStep, PositionWriteStep,
   PositionReadyStep, PerftStep, OracleBackStep, AskedStep, TerminalStep, SplitStep,
   PlaceStep, PlacedStep, DispatchStep, GoStep, AwaitStep, DrainStep, RestoreStep, UnplacedStep,
   CloseStep, EndStep, CompleteStep, CleanUpStep, AbandonStep, RecoverStep, FinishStep DEF Worker

LEMMA CommandLoopStep == ASSUME RInv, CommandLoop PROVE RInv'
BY BarrierStep, WaitedStep, FailStageStep, QuarantineStep, ClearStep, SyncStep
   DEF CommandLoop

LEMMA ReaderStep == ASSUME RInv, NEW i \in Owners, Reader(i) PROVE RInv'
BY AnswerStep, AuditStep, JudgeStep, SealStep, RereadStep, ReportStep, ExitStep,
   ExitStageStep DEF Reader

LEMMA Stutter == ASSUME RInv, UNCHANGED vars PROVE RInv'
<1> USE DEF RInv, vars
<1>1. EngineType' /\ RunType' /\ CrashInv'
  BY DEF TypeOK, EngineType, RunType, CrashInv, Placing, Trip, Running
<1>2. BarrierInv'
  BY BarrierKept
<1> QED
  BY <1>1, <1>2, WorkerRests DEF GaveUp

LEMMA Invariance == Spec => []RInv
<1>1. Init => RInv
  BY RInit
<1>2. ASSUME RInv, [Next]_vars PROVE RInv'
  <2>1. CASE Worker
    BY <1>2, <2>1, WorkerStep
  <2>2. CASE CommandLoop
    BY <1>2, <2>2, CommandLoopStep
  <2>3. CASE AnchorComplete
    BY <1>2, <2>3, AnchorCompleteStep
  <2>4. CASE Cancel
    BY <1>2, <2>4, CancelStep
  <2>5. CASE \E i \in Owners : Reader(i) \/ Die(i)
    BY <1>2, <2>5, ReaderStep, DieStep
  <2>6. CASE UNCHANGED vars
    BY <1>2, <2>6, Stutter
  <2> QED
    BY <1>2, <2>1, <2>2, <2>3, <2>4, <2>5, <2>6 DEF Next
<1> QED
  BY <1>1, <1>2, PTL DEF Spec

-----------------------------------------------------------------------------
(* What stands *)

Ended == {"failed", "stopped"}

\* Nobody is still to end a stage that was completed.
Unended ==
    \A i \in Owners : /\ search[i] # None => stage[<<search[i], i>>] # "completed"
                      /\ Busy(i) => stage[<<reader[i].of, i>>] # "completed"

\* A scope that is open was not closed before.  One that was spoilt has lost a stage,
\* unless the worker knows, or it ran over its deadline; then the phase is spoilt too
\* before the scope is closed.
OpenScope ==
    Opened => /\ disp[scope] \in {"running", "incomplete"}
              /\ disp[scope] = "incomplete" /\ clean /\ ~GaveUp =>
                   \/ scope \in abort
                   \/ \E o \in Owners : <<scope, o>> \in DOMAIN stage /\ stage[<<scope, o>>] \in Ended
              /\ scope \in abort => w = "drain" \/ refine = "incomplete"
              /\ w = "drain" => scope \in abort

\* The inductive invariant of what stands, given RInv.
StandInv == /\ Unended /\ OpenScope /\ abort \subseteq DOMAIN disp
            /\ w = "complete" /\ ~GaveUp => refine = "running"

\* Of each of the artifact's three levels: what was recorded stays.
PhaseStands == GaveUp' \/ (refine # "running" => refine' = refine)
ScopesStand == \A s \in DOMAIN disp :
                  /\ s \in DOMAIN disp'
                  /\ \/ GaveUp' \/ disp[s] = "running" \/ disp'[s] = disp[s]
                     \/ LateAndWhole(s) /\ disp'[s] = "completed" /\ refine' = "incomplete"
StagesStand == \A q \in DOMAIN stage :
                  q \in DOMAIN stage' /\ (stage[q] # "running" => stage'[q] = stage[q])
Stands == PhaseStands /\ ScopesStand /\ StagesStand

\* A stage that was not completed belongs to a scope, and a phase, that were not.
LEMMA Unfinished ==
  ASSUME RInv, NEW q \in DOMAIN stage, stage[q] # "completed"
  PROVE  /\ q[1] \in DOMAIN disp /\ disp[q[1]] \in {"running", "incomplete"}
         /\ refine # "completed" /\ w # "complete"
<1>1. q[1] \in DOMAIN disp /\ q[2] \in Required(q[1]) /\ q = <<q[1], q[2]>>
  BY DEF RInv, StageInv, TypeOK, ArtifactType
<1>2. disp[q[1]] # "completed"
  BY <1>1 DEF RInv, DoneInv
<1>3. disp[q[1]] # "terminal"
  BY <1>1 DEF RInv, TreeInv, Required, Share
<1>4. disp[q[1]] \in {"running", "incomplete"}
  BY <1>1, <1>2, <1>3 DEF RInv, TypeOK, ArtifactType
<1> QED
  BY <1>1, <1>4 DEF RInv, DoneInv, AllDone

\* A scope all of whose stages completed is whole.
LEMMA CompletedShares ==
  ASSUME RInv, NEW s,
         \A o \in Required(s) : <<s, o>> \in DOMAIN stage /\ stage[<<s, o>>] = "completed"
  PROVE  Whole(s)
<1> USE DEF RInv
<1>1. ASSUME NEW c \in Kids(s) PROVE shard[c].state \in {"sealed", "retired"}
  <2> DEFINE o == shard[c].owner
  <2>1. o \in Owners /\ c \in Share(s, o)
    BY DEF TypeOK, LedgerType, Kids, Share
  <2> HIDE DEF o
  <2>2. <<s, o>> \in DOMAIN stage /\ stage[<<s, o>>] = "completed"
    BY <2>1 DEF Required
  <2>3. Closed(s, o)
    BY <2>2 DEF ShareInv
  <2> QED
    BY <2>1, <2>3 DEF Closed
<1> QED
  BY <1>1 DEF Whole

\* To spoil a scope that is not closed takes nothing back.
LEMMA SpoilStands ==
  ASSUME RInv, NEW s \in DOMAIN disp, Incomplete(s), refine # "completed",
         disp[s] \in {"running", "incomplete"}
  PROVE  PhaseStands /\ ScopesStand
BY Spoiled DEF RInv, PhaseStands, ScopesStand, TypeOK, ArtifactType

LEMMA RecordStands ==
  ASSUME RInv, NEW p, NEW o, NEW d \in {"completed", "stopped", "failed"}, stage' = Record(p, o, d)
  PROVE  StagesStand /\ DOMAIN stage' = DOMAIN stage
BY Recorded DEF RInv, StagesStand

\* What a reader takes over was searched, and what ends badly is not completed.
LEMMA UnendedKept ==
  ASSUME RInv, Unended,
         \A i \in Owners :
            /\ search'[i] \in {search[i], None}
            /\ Busy(i)' => \/ Busy(i) /\ reader'[i].of = reader[i].of
                           \/ search[i] # None /\ reader'[i].of = search[i],
         \/ stage' = stage
         \/ \E p, o : stage' = Record(p, o, "failed") \/ stage' = Record(p, o, "stopped")
  PROVE  Unended'
<1>1. \A q \in DOMAIN stage : stage[q] # "completed" => stage'[q] # "completed"
  BY Recorded DEF RInv
<1> QED
  BY <1>1 DEF RInv, SearchInv, Served, Unended

\* Scopes and stages are left alone.
LEMMA QuietStands ==
  ASSUME RInv, StandInv, UNCHANGED <<stage, disp, abort, search, reader>>, GaveUp => GaveUp',
         refine' = refine \/ (refine # "completed" /\ refine' = "incomplete"),
         Opened' => /\ Opened /\ scope' = scope /\ clean' \in {clean, FALSE}
                    /\ w = "drain" <=> w' = "drain",
         w' = "complete" /\ ~GaveUp' => refine' = "running"
  PROVE  StandInv' /\ Stands
<1>1. Unended'
  BY UnendedKept DEF StandInv, Busy
<1>2. OpenScope'
  BY DEF StandInv, OpenScope
<1>3. Stands
  BY DEF Stands, PhaseStands, ScopesStand, StagesStand, RInv, TypeOK, ArtifactType
<1> QED
  BY <1>1, <1>2, <1>3 DEF StandInv

\* The worker spoils the scope that is open, and knows.
LEMMA WorkerSpoils ==
  ASSUME RInv, StandInv, Opened, Incomplete(scope), UNCHANGED <<scope, search, reader, m, drained>>,
         abort' \in {abort, abort \cup {scope}}, w' # "complete",
         ~Opened' \/ (clean' = FALSE /\ w' # "drain") \/ scope \in abort',
         \/ stage' = stage
         \/ \E p, o : stage' = Record(p, o, "failed") \/ stage' = Record(p, o, "stopped")
  PROVE  StandInv' /\ Stands
<1>1. scope \in DOMAIN disp /\ disp[scope] \in {"running", "incomplete"} /\ refine # "completed"
  BY DEF RInv, TreeInv, StandInv, OpenScope, DoneInv, Opened, Trip, Trips, Away, Searching
<1>2. PhaseStands /\ ScopesStand
  BY <1>1, SpoilStands
<1>3. StagesStand
  BY RecordStands DEF StagesStand
<1>4. Unended'
  BY UnendedKept DEF StandInv, Busy
<1>5. OpenScope'
  BY <1>1, Spoiled DEF RInv, StandInv, OpenScope, GaveUp
<1> QED
  BY <1>1, <1>2, <1>3, <1>4, <1>5, Spoiled DEF StandInv, Stands, RInv

\* A stage that was not completed ends badly, and spoils its scope.
LEMMA StageSpoils ==
  ASSUME RInv, StandInv, NEW q \in DOMAIN stage, stage[q] # "completed",
         stage' = Record(q[1], q[2], "failed"), Incomplete(q[1]),
         UNCHANGED <<w, scope, job, clean, abort, search, main>>,
         \A i \in Owners : Busy(i)' => reader'[i] = reader[i]
  PROVE  StandInv' /\ Stands
<1>1. /\ q[1] \in DOMAIN disp /\ disp[q[1]] \in {"running", "incomplete"}
      /\ refine # "completed" /\ w # "complete"
  BY Unfinished
<1>2. PhaseStands /\ ScopesStand
  BY <1>1, SpoilStands
<1>3. StagesStand /\ DOMAIN stage' = DOMAIN stage
  BY RecordStands
<1>4. stage'[q] \in Ended /\ q = <<q[1], q[2]>> /\ q[2] \in Owners
  BY Recorded DEF RInv, TypeOK, ArtifactType, Ended
<1>5. Unended'
  BY UnendedKept DEF StandInv, Busy
<1>6. OpenScope'
  <2> SUFFICES ASSUME Opened PROVE OpenScope'
    BY DEF Opened, OpenScope, Trip
  <2>1. disp'[scope] \in {"running", "incomplete"} /\ scope \in DOMAIN disp
    BY <1>1, Spoiled DEF RInv, TreeInv, StandInv, OpenScope
  <2>2. ASSUME disp'[scope] = "incomplete", clean, ~GaveUp, scope \notin abort
        PROVE  \E o \in Owners : <<scope, o>> \in DOMAIN stage' /\ stage'[<<scope, o>>] \in Ended
    <3>1. CASE scope = q[1]
      BY <1>3, <1>4, <3>1
    <3>2. CASE scope # q[1]
      <4>1. disp[scope] = "incomplete"
        BY <2>1, <2>2, <3>2, Spoiled DEF RInv
      <4>2. PICK o \in Owners : <<scope, o>> \in DOMAIN stage /\ stage[<<scope, o>>] \in Ended
        BY <2>2, <4>1 DEF StandInv, OpenScope
      <4>3. stage'[<<scope, o>>] = stage[<<scope, o>>]
        BY <1>3, <4>2 DEF StagesStand, Ended
      <4> QED
        BY <1>3, <4>2, <4>3
    <3> QED
      BY <3>1, <3>2
  <2> QED
    BY <2>1, <2>2 DEF StandInv, OpenScope, GaveUp, Incomplete
<1> QED
  BY <1>1, <1>2, <1>3, <1>5, <1>6, Spoiled DEF StandInv, Stands, RInv

\* A reader takes over a stage, hands it on or is done with it.
LEMMA ReaderStands ==
  ASSUME RInv, StandInv, UNCHANGED <<w, scope, job, clean, artifact, main>>,
         \A i \in Owners :
            /\ search'[i] \in {search[i], None}
            /\ Busy(i)' => \/ Busy(i) /\ reader'[i].of = reader[i].of
                           \/ search[i] # None /\ reader'[i].of = search[i]
  PROVE  StandInv' /\ Stands
<1>1. Unended'
  BY UnendedKept DEF StandInv
<1>2. Stands
  BY DEF Stands, PhaseStands, ScopesStand, StagesStand
<1> QED
  BY <1>1, <1>2 DEF StandInv, OpenScope, Opened, Trip, GaveUp
\* Every action leaves standing what was recorded.
LEMMA PickTargetStands == ASSUME RInv, StandInv, PickTarget PROVE StandInv' /\ Stands
BY QuietStands DEF PickTarget, RInv, StandInv, JobInv, PlaceInv, DoneInv, Opened, Trip,
   Trips, Away, Searching, GaveUp

LEMMA DeepenStands == ASSUME RInv, StandInv, Deepen PROVE StandInv' /\ Stands
BY QuietStands DEF Deepen, RInv, StandInv, JobInv, PlaceInv, DoneInv, Opened, Trip, Trips,
   Away, Searching, GaveUp

LEMMA PickNominationStands == ASSUME RInv, StandInv, PickNomination PROVE StandInv' /\ Stands
BY QuietStands DEF PickNomination, RInv, StandInv, JobInv, PlaceInv, DoneInv, Opened, Trip,
   Trips, Away, Searching, GaveUp

LEMMA AskStands == ASSUME RInv, StandInv, Ask PROVE StandInv' /\ Stands
BY QuietStands DEF Ask, RInv, StandInv, JobInv, PlaceInv, DoneInv, Opened, Trip, Trips,
   Away, Searching, GaveUp, Forgo, Over, TypeOK, ArtifactType

LEMMA PositionWriteStands == ASSUME RInv, StandInv, PositionWrite PROVE StandInv' /\ Stands
<1>1. CASE UNCHANGED <<refine, disp, clean>>
  <2>1. w' \notin {"complete", "drain"} /\ (Opened' => Opened) /\ clean' \in {clean, FALSE}
    BY <1>1 DEF PositionWrite, Failed, RInv, TypeOK, WorkerType, JobInv, Opened, Trip,
       Trips, Away, Searching
  <2> QED
    BY <1>1, <2>1, QuietStands DEF PositionWrite, StandInv, GaveUp
<1>2. CASE job.why \in {"place", "restore"} /\ Incomplete(scope) /\ clean' = FALSE /\ w' \notin {"complete", "drain"}
  BY <1>2, WorkerSpoils DEF PositionWrite, RInv, StandInv, Opened, Trip, Trips
<1>3. CASE job.why = "mend" /\ refine' = "incomplete" /\ UNCHANGED <<disp, clean>>
  <2>1. w' \notin {"complete", "drain"} /\ Opened /\ refine # "completed"
    BY <1>3 DEF PositionWrite, Failed, RInv, DoneInv, Opened, Trip, Trips
  <2> QED
    BY <1>3, <2>1, QuietStands DEF PositionWrite, StandInv, GaveUp
<1> QED
  BY <1>1, <1>2, <1>3 DEF PositionWrite, Failed, RInv, TypeOK, WorkerType, JobInv, Trips

LEMMA PositionReadyStands == ASSUME RInv, StandInv, PositionReady PROVE StandInv' /\ Stands
<1>1. CASE UNCHANGED <<refine, disp, clean>>
  <2>1. w' \notin {"complete", "drain"} /\ (Opened' => Opened) /\ clean' \in {clean, FALSE}
    BY <1>1 DEF PositionReady, Failed, RInv, TypeOK, WorkerType, JobInv, Opened, Trip,
       Trips, Away, Searching
  <2> QED
    BY <1>1, <2>1, QuietStands DEF PositionReady, StandInv, GaveUp
<1>2. CASE job.why \in {"place", "restore"} /\ Incomplete(scope) /\ clean' = FALSE /\ w' \notin {"complete", "drain"}
  BY <1>2, WorkerSpoils DEF PositionReady, RInv, StandInv, Opened, Trip, Trips
<1>3. CASE job.why = "mend" /\ refine' = "incomplete" /\ UNCHANGED <<disp, clean>>
  <2>1. w' \notin {"complete", "drain"} /\ Opened /\ refine # "completed"
    BY <1>3 DEF PositionReady, Failed, RInv, DoneInv, Opened, Trip, Trips
  <2> QED
    BY <1>3, <2>1, QuietStands DEF PositionReady, StandInv, GaveUp
<1> QED
  BY <1>1, <1>2, <1>3 DEF PositionReady, Failed, RInv, TypeOK, WorkerType, JobInv, Trips

LEMMA PerftStands == ASSUME RInv, StandInv, Perft PROVE StandInv' /\ Stands
BY QuietStands DEF Perft, RInv, StandInv, JobInv, PlaceInv, DoneInv, Opened, Trip, Trips,
   Away, Searching, GaveUp

LEMMA OracleBackStands == ASSUME RInv, StandInv, OracleBack PROVE StandInv' /\ Stands
BY QuietStands DEF OracleBack, RInv, StandInv, JobInv, PlaceInv, DoneInv, Opened, Trip,
   Trips, Away, Searching, GaveUp

LEMMA AskedStands == ASSUME RInv, StandInv, Asked PROVE StandInv' /\ Stands
BY QuietStands DEF Asked, RInv, StandInv, JobInv, PlaceInv, DoneInv, Opened, Trip, Trips,
   Away, Searching, GaveUp

LEMMA TerminalStands == ASSUME RInv, StandInv, Terminal PROVE StandInv' /\ Stands
<1>1. scope \notin DOMAIN disp
  BY DEF Terminal, RInv, TreeInv, Unopened, Asking
<1>2. ScopesStand
  BY <1>1 DEF Terminal, ScopesStand, Put
<1>3. Unended'
  BY UnendedKept DEF Terminal, StandInv, Busy
<1>4. ~Opened'
  BY DEF Terminal, Opened, Trip, Trips, Away, Searching
<1>5. DOMAIN disp \subseteq DOMAIN disp'
  BY DEF Terminal, Put
<1> QED
  BY <1>2, <1>3, <1>4, <1>5 DEF Terminal, StandInv, Stands, PhaseStands, StagesStand, OpenScope

LEMMA SplitStands == ASSUME RInv, StandInv, Split PROVE StandInv' /\ Stands
<1>1. scope \notin DOMAIN disp /\ prepared = {} /\ refine # "completed"
  BY DEF Split, RInv, TreeInv, PlaceInv, DoneInv, Unopened, Asking, Away, Searching, Trip,
     Trips
<1>2. ScopesStand
  BY <1>1 DEF Split, ScopesStand, Put
<1>3. Unended'
  BY UnendedKept DEF Split, StandInv, Busy
<1>4. disp'[scope] = "running" \/ (disp'[scope] = "incomplete" /\ ~clean')
  BY DEF Split, Put
<1>5. OpenScope' /\ abort' \subseteq DOMAIN disp'
  <2>1. scope \notin abort /\ abort' = abort /\ scope' = scope /\ w' # "drain"
    BY <1>1 DEF Split, StandInv
  <2>2. DOMAIN disp \subseteq DOMAIN disp'
    BY DEF Split, Put
  <2> QED
    BY <1>4, <2>1, <2>2 DEF OpenScope, StandInv
<1>6. PhaseStands
  BY <1>1 DEF Split, PhaseStands, RInv, TypeOK, ArtifactType
<1> QED
  BY <1>1, <1>2, <1>3, <1>5, <1>6 DEF Split, StandInv, Stands, StagesStand

LEMMA PlaceStands == ASSUME RInv, StandInv, Place PROVE StandInv' /\ Stands
<1>1. CASE todo # {} /\ (Bounded \/ ~Available(First(todo)))
  BY <1>1, WorkerSpoils DEF Place, RInv, StandInv, Opened, Away
<1>2. CASE todo = {} \/ ~(Bounded \/ ~Available(First(todo)))
  BY <1>2, QuietStands DEF Place, RInv, StandInv, Opened, Trip, Trips, Away, Searching,
     GaveUp
<1> QED
  BY <1>1, <1>2

LEMMA PlacedStands == ASSUME RInv, StandInv, Placed PROVE StandInv' /\ Stands
BY QuietStands DEF Placed, RInv, StandInv, JobInv, PlaceInv, DoneInv, Opened, Trip, Trips,
   Away, Searching, GaveUp

LEMMA DispatchStands == ASSUME RInv, StandInv, Dispatch PROVE StandInv' /\ Stands
<1>1. CASE todo = {}
  BY <1>1, QuietStands DEF Dispatch, RInv, StandInv, Opened, Away, Searching, GaveUp
<1>2. CASE todo # {} /\ DispatchFails /\ stage' = stage
  BY <1>2, WorkerSpoils DEF Dispatch, DispatchFails, StandInv, Opened, Away, Searching
<1>3. ASSUME NEW o \in todo, stage' = Put(stage, <<scope, o>>, "running"), w' = "go",
             UNCHANGED <<clean, refine, disp, abort>>
      PROVE  StandInv' /\ Stands
  <2>1. <<scope, o>> \notin DOMAIN stage
    BY <1>3 DEF Dispatch, RInv, TodoInv
  <2>2. DOMAIN stage \subseteq DOMAIN stage' /\ \A q \in DOMAIN stage : stage'[q] = stage[q]
    BY <1>3, <2>1 DEF Put
  <2>3. Unended'
    BY <2>2 DEF Dispatch, RInv, SearchInv, Served, StandInv, Unended, Busy
  <2>4. OpenScope'
    BY <1>3, <2>2 DEF Dispatch, StandInv, OpenScope, Opened, Away, Searching, GaveUp
  <2> QED
    BY <1>3, <2>2, <2>3, <2>4 DEF Dispatch, StandInv, Stands, PhaseStands, ScopesStand,
       StagesStand
<1> QED
  BY <1>1, <1>2, <1>3, FirstIn DEF Dispatch, RInv, TypeOK, WorkerType

LEMMA GoStands == ASSUME RInv, StandInv, Go PROVE StandInv' /\ Stands
<1>1. CASE DispatchFails /\ UNCHANGED search
  BY <1>1, WorkerSpoils DEF Go, DispatchFails, StandInv, Opened, Away, Searching
<1>2. ASSUME NEW o \in todo, o = First(todo), Available(o), ~Bounded,
             UNCHANGED <<stage, clean, refine, disp, abort>>,
             search' = [search EXCEPT ![o] = scope], w' = "dispatch"
      PROVE  StandInv' /\ Stands
  <2>1. stage[<<scope, o>>] = "running"
    BY <1>2 DEF Go, RInv, TodoInv, Available, Bounded
  <2>2. Unended'
    BY <1>2, <2>1 DEF Go, RInv, TypeOK, EngineType, StandInv, Unended, Busy
  <2>3. OpenScope'
    BY <1>2 DEF Go, StandInv, OpenScope, Opened, Away, Searching, GaveUp
  <2> QED
    BY <1>2, <2>2, <2>3 DEF Go, StandInv, Stands, PhaseStands, ScopesStand, StagesStand
<1>3. CASE w' = "error" /\ UNCHANGED <<stage, search, clean, refine, disp, abort>>
  BY <1>3, QuietStands DEF Go, Opened, Away, Searching, GaveUp
<1> QED
  BY <1>1, <1>2, <1>3, FirstIn DEF Go, RInv, TypeOK, WorkerType, TodoInv

LEMMA AwaitStands == ASSUME RInv, StandInv, Await PROVE StandInv' /\ Stands
<1>1. CASE w' = "restore" /\ UNCHANGED <<abort, disp>>
  BY <1>1, QuietStands DEF Await, Opened, Away, Searching, GaveUp
<1>2. CASE /\ w' = "drain" /\ abort' = abort \cup {scope}
           /\ disp' = [disp EXCEPT ![scope] = "incomplete"]
  <2>1. /\ scope \in DOMAIN disp /\ disp[scope] \in {"running", "incomplete"}
        /\ DOMAIN disp' = DOMAIN disp /\ disp'[scope] = "incomplete"
        /\ \A s \in DOMAIN disp : s # scope => disp'[s] = disp[s]
    BY <1>2 DEF Await, RInv, TypeOK, ArtifactType, TreeInv, StandInv, OpenScope, Opened, Away,
       Searching
  <2>2. Unended'
    BY UnendedKept DEF Await, StandInv, Busy
  <2>3. ScopesStand
    BY <2>1 DEF ScopesStand
  <2> QED
    BY <1>2, <2>1, <2>2, <2>3 DEF Await, StandInv, OpenScope, Stands, PhaseStands, StagesStand
<1> QED
  BY <1>1, <1>2 DEF Await

LEMMA DrainStands == ASSUME RInv, StandInv, Drain PROVE StandInv' /\ Stands
<1>1. Opened /\ scope \in abort
  BY DEF Drain, StandInv, OpenScope, Opened, Away, Searching
<1>2. w' # "complete" /\ \/ stage' = stage
                         \/ \E p, o : stage' = Record(p, o, "failed")
  BY DEF Drain
<1> QED
  BY <1>1, <1>2, WorkerSpoils DEF Drain

LEMMA RestoreStands == ASSUME RInv, StandInv, Restore PROVE StandInv' /\ Stands
BY QuietStands DEF Restore, RInv, StandInv, JobInv, PlaceInv, DoneInv, Opened, Trip, Trips,
   Away, Searching, GaveUp

LEMMA UnplacedStands == ASSUME RInv, StandInv, Unplaced PROVE StandInv' /\ Stands
BY QuietStands DEF Unplaced, RInv, StandInv, JobInv, PlaceInv, DoneInv, Opened, Trip,
   Trips, Away, Searching, GaveUp

LEMMA CloseStands == ASSUME RInv, StandInv, Close PROVE StandInv' /\ Stands
<1>1. CASE clean /\ \A o \in Required(scope) : stage[<<scope, o>>] = "completed"
  <2>1. scope \in DOMAIN disp /\ Opened /\ w' = "pick" /\ disp' = [disp EXCEPT ![scope] = "completed"]
        /\ UNCHANGED <<refine, stage, abort>>
    BY <1>1 DEF Close, RInv, TreeInv, Opened
  <2>2. \A o \in Owners : <<scope, o>> \in DOMAIN stage => stage[<<scope, o>>] = "completed"
    BY <1>1 DEF RInv, StageInv
  <2>3. \/ disp[scope] = "running" \/ GaveUp
        \/ scope \in abort /\ refine = "incomplete"
    BY <1>1, <2>1, <2>2 DEF Close, StandInv, OpenScope, Ended
  <2>4. Whole(scope)
    BY <1>1, CompletedShares DEF Close, RInv, CleanInv
  <2>5. ScopesStand
    BY <1>1, <2>1, <2>3, <2>4 DEF Close, ScopesStand, LateAndWhole, GaveUp
  <2>6. Unended'
    BY UnendedKept DEF Close, StandInv, Busy
  <2>7. ~Opened' /\ DOMAIN disp' = DOMAIN disp
    BY <2>1 DEF Opened, Trip, Trips, Away, Searching
  <2> QED
    BY <2>1, <2>5, <2>6, <2>7 DEF StandInv, Stands, PhaseStands, StagesStand, OpenScope
<1>2. CASE ~(clean /\ \A o \in Required(scope) : stage[<<scope, o>>] = "completed")
  BY <1>2, WorkerSpoils DEF Close, StandInv, Opened, Trip, Trips, Away, Searching
<1> QED
  BY <1>1, <1>2

LEMMA CleanUpStands == ASSUME RInv, StandInv, CleanUp PROVE StandInv' /\ Stands
BY QuietStands DEF CleanUp, Opened, Away, Searching, GaveUp

\* The cleanup fails a stage that runs, with its scope or in spite of it.
LEMMA AbandonStands == ASSUME RInv, StandInv, Abandon PROVE StandInv' /\ Stands
<1> DEFINE o == First(todo)
<1>1. CASE UNCHANGED <<w, stage, disp, refine>>
  BY <1>1, QuietStands DEF Abandon, Opened, Trip, GaveUp
<1>2. ASSUME o \in Running(scope), stage' = Record(scope, o, "failed")
      PROVE  /\ StagesStand /\ DOMAIN stage' = DOMAIN stage /\ Unended'
             /\ <<scope, o>> \in DOMAIN stage /\ stage[<<scope, o>>] # "completed"
  BY <1>2, RecordStands, UnendedKept DEF Abandon, StandInv, Busy, Running
<1>3. CASE o \in Running(scope) /\ stage' = Record(scope, o, "failed") /\ Incomplete(scope) /\ w' = w
  BY <1>2, <1>3, StageSpoils DEF Abandon, Busy
<1>4. CASE /\ o \in Running(scope) /\ stage' = Record(scope, o, "failed")
           /\ w' = "stranded" /\ UNCHANGED <<disp, refine>>
  <2>1. OpenScope'
    BY <1>2, <1>4 DEF Abandon, StandInv, OpenScope, Opened, Away, Searching, StagesStand, Ended,
       GaveUp
  <2> QED
    BY <1>2, <1>4, <2>1 DEF Abandon, StandInv, Stands, PhaseStands, ScopesStand, GaveUp
<1> QED
  BY <1>1, <1>3, <1>4 DEF Abandon

LEMMA RecoverStands == ASSUME RInv, StandInv, Recover PROVE StandInv' /\ Stands
BY QuietStands DEF Recover, MendAll, Opened, Away, Searching, GaveUp

LEMMA EndStands == ASSUME RInv, StandInv, End PROVE StandInv' /\ Stands
BY QuietStands DEF End, RInv, StandInv, JobInv, PlaceInv, DoneInv, Opened, Trip, Trips,
   Away, Searching, GaveUp

LEMMA CompleteStands == ASSUME RInv, StandInv, Complete PROVE StandInv' /\ Stands
<1>1. Unended'
  BY UnendedKept DEF Complete, StandInv, Busy
<1> QED
  BY <1>1 DEF Complete, StandInv, Stands, PhaseStands, ScopesStand, StagesStand, OpenScope,
     Opened, Trip, Trips,
     Away, Searching, GaveUp

LEMMA FinishStands == ASSUME RInv, StandInv, Finish PROVE StandInv' /\ Stands
<1>1. w = "over" => positioned = {}
  BY DEF RInv, PlaceInv, CrashInv, Away, Searching, Trip, Trips
<1> QED
  BY <1>1, QuietStands DEF Finish, MendAll, Opened, Trip, Trips, Away, Searching, GaveUp

LEMMA BarrierStands == ASSUME RInv, StandInv, Barrier PROVE StandInv' /\ Stands
BY QuietStands DEF Barrier, RInv, StandInv, JobInv, PlaceInv, DoneInv, Opened, Trip, Trips,
   Away, Searching, GaveUp

LEMMA WaitedStands == ASSUME RInv, StandInv, Waited PROVE StandInv' /\ Stands
BY QuietStands DEF Waited, RInv, StandInv, JobInv, PlaceInv, DoneInv, Opened, Trip, Trips,
   Away, Searching, GaveUp

LEMMA FailStageStands == ASSUME RInv, StandInv, FailStage PROVE StandInv' /\ Stands
<1>1. CASE serve = {}
  BY <1>1, QuietStands DEF FailStage, RInv, StandInv, Opened, Trip, GaveUp
<1>2. ASSUME NEW q \in serve, FailStage, stage' = Record(q[1], q[2], "failed"), Incomplete(q[1])
      PROVE  StandInv' /\ Stands
  <2>1. GaveUp'
    BY <1>2 DEF FailStage, RInv, BarrierInv, Reached, GaveUp
  <2>2. ScopesStand /\ DOMAIN disp' = DOMAIN disp /\ refine' = "incomplete"
        /\ \A s \in DOMAIN disp : disp'[s] \in {disp[s], "incomplete"}
    BY <1>2, <2>1 DEF Incomplete, ScopesStand
  <2>3. StagesStand
    BY <1>2, RecordStands
  <2>4. Unended'
    BY <1>2, UnendedKept DEF FailStage, StandInv, Busy
  <2>5. OpenScope'
    BY <1>2, <2>1, <2>2 DEF FailStage, RInv, TreeInv, StandInv, OpenScope, Opened, Trip
  <2> QED
    BY <1>2, <2>1, <2>2, <2>3, <2>4, <2>5 DEF FailStage, StandInv, Stands, PhaseStands
<1> QED
  BY <1>1, <1>2 DEF FailStage

LEMMA QuarantineStands == ASSUME RInv, StandInv, Quarantine PROVE StandInv' /\ Stands
<1>1. w \in {"over", "done"} => positioned = {}
  BY DEF RInv, PlaceInv, CrashInv, Away, Searching, Trip, Trips
<1>2. refine' = refine \/ (refine # "completed" /\ refine' = "incomplete")
  BY <1>1 DEF Quarantine, RInv, DoneInv
<1>3. GaveUp /\ GaveUp'
  BY DEF Quarantine, RInv, BarrierInv, Reached, GaveUp
<1> QED
  BY <1>2, <1>3, QuietStands DEF Quarantine, Opened, Trip

LEMMA ClearStands == ASSUME RInv, StandInv, Clear PROVE StandInv' /\ Stands
BY QuietStands DEF Clear, RInv, StandInv, JobInv, PlaceInv, DoneInv, Opened, Trip, Trips,
   Away, Searching, GaveUp

LEMMA SyncStands == ASSUME RInv, StandInv, Sync PROVE StandInv' /\ Stands
BY QuietStands DEF Sync, RInv, StandInv, JobInv, PlaceInv, DoneInv, Opened, Trip, Trips,
   Away, Searching, GaveUp

LEMMA AnchorCompleteStands == ASSUME RInv, StandInv, AnchorComplete PROVE StandInv' /\ Stands
BY QuietStands DEF AnchorComplete, RInv, StandInv, JobInv, PlaceInv, DoneInv, Opened, Trip,
   Trips, Away, Searching, GaveUp

LEMMA CancelStands == ASSUME RInv, StandInv, Cancel PROVE StandInv' /\ Stands
BY QuietStands DEF Cancel, RInv, StandInv, JobInv, PlaceInv, DoneInv, Opened, Trip, Trips,
   Away, Searching, GaveUp

LEMMA AnswerStands ==
  ASSUME RInv, StandInv, NEW i \in Owners, Answer(i)
  PROVE  StandInv' /\ Stands
<1>1. \A j \in Owners :
         Busy(j)' => \/ Busy(j) /\ reader'[j].of = reader[j].of
                     \/ search[j] # None /\ reader'[j].of = search[j]
  <2>1. /\ search[i] # None
        /\ reader'[i].at \in Working => reader'[i].of = search[i]
        /\ \A j \in Owners \ {i} : reader'[j] = reader[j]
    <3>1. reader'[i] = (IF Gone THEN Idle ELSE [Idle EXCEPT !.at = "audit", !.of = search[i]])
      BY DEF Answer, Step, RInv, TypeOK, ReaderType
    <3>2. CASE Gone
      BY <3>1, <3>2 DEF Answer, Step, RInv, TypeOK, ReaderType, Working, Idle
    <3>3. CASE ~Gone
      BY <3>1, <3>3 DEF Answer, Step, RInv, TypeOK, ReaderType, Working, Idle
    <3> QED
      BY <3>2, <3>3
  <2>2. ASSUME NEW j \in Owners, reader'[j].at \in Working
        PROVE  \/ reader[j].at \in Working /\ reader'[j].of = reader[j].of
               \/ search[j] # None /\ reader'[j].of = search[j]
    BY <2>1, <2>2
  <2> QED
    BY <2>2, Zenon DEF Busy
<1> QED
  BY <1>1, ReaderStands DEF Answer, RInv, TypeOK, EngineType

LEMMA AuditStands ==
  ASSUME RInv, StandInv, NEW i \in Owners, Audit(i)
  PROVE  StandInv' /\ Stands
<1>1. \A j \in Owners : Busy(j)' => Busy(j) /\ reader'[j].of = reader[j].of
  BY DEF Audit, Step, RInv, TypeOK, ReaderType, Busy, Working, Idle
<1> QED
  BY <1>1, ReaderStands DEF Audit, RInv, TypeOK, EngineType

LEMMA JudgeStands ==
  ASSUME RInv, StandInv, NEW i \in Owners, Judge(i)
  PROVE  StandInv' /\ Stands
<1>1. \A j \in Owners : Busy(j)' => Busy(j) /\ reader'[j].of = reader[j].of
  BY DEF Judge, Step, RInv, TypeOK, ReaderType, Busy, Working, Idle
<1> QED
  BY <1>1, ReaderStands DEF Judge, RInv, TypeOK, EngineType

LEMMA SealStands ==
  ASSUME RInv, StandInv, NEW i \in Owners, Seal(i)
  PROVE  StandInv' /\ Stands
<1>1. \A j \in Owners : Busy(j)' => Busy(j) /\ reader'[j].of = reader[j].of
  <2>1. Busy(i) /\ reader'[i].of = reader[i].of /\ \A j \in Owners \ {i} : reader'[j] = reader[j]
    BY DEF Seal, Step, RInv, TypeOK, ReaderType, Busy, Working
  <2> QED
    BY <2>1 DEF Busy
<1> QED
  BY <1>1, ReaderStands DEF Seal, RInv, TypeOK, EngineType

LEMMA RereadStands ==
  ASSUME RInv, StandInv, NEW i \in Owners, Reread(i)
  PROVE  StandInv' /\ Stands
<1>1. \A j \in Owners : Busy(j)' => Busy(j) /\ reader'[j].of = reader[j].of
  BY DEF Reread, Step, RInv, TypeOK, ReaderType, Busy, Working, Idle
<1> QED
  BY <1>1, ReaderStands DEF Reread, RInv, TypeOK, EngineType

LEMMA ReportStands ==
  ASSUME RInv, StandInv, NEW i \in Owners, Report(i)
  PROVE  StandInv' /\ Stands
<1> DEFINE s == reader[i].of  q == <<s, i>>
<1>1. q \in DOMAIN stage /\ stage[q] # "completed" /\ search[i] # s
  <2>1. Busy(i)
    BY DEF Report, Busy, Working
  <2>2. q \in DOMAIN stage /\ stage[q] # "completed" /\ (search[i] # None => search[i] # s)
    BY <2>1 DEF RInv, SearchInv, Served, StandInv, Unended
  <2> QED
    BY <2>2, NoneApart DEF RInv, TypeOK, ArtifactType
<1>2. ~Busy(i)' /\ \A j \in Owners \ {i} : reader'[j] = reader[j]
  BY DEF Report, Step, RInv, TypeOK, ReaderType, Busy, Working, Idle
<1>3. CASE reader[i].as = "failed"
  BY <1>1, <1>2, <1>3, StageSpoils DEF Report, Busy
<1>4. CASE reader[i].as # "failed"
  <2>1. reader[i].as \in {"completed", "stopped"} /\ stage' = Record(s, i, reader[i].as)
    BY <1>4 DEF Report, RInv, TypeOK, ReaderType
  <2>2. StagesStand /\ DOMAIN stage' = DOMAIN stage
    BY <2>1, RecordStands
  <2>3. \A p \in DOMAIN stage : p # q => stage'[p] = stage[p]
    BY <2>1, Recorded DEF RInv
  <2>4. Unended'
    BY <1>1, <1>2, <2>3 DEF Report, RInv, SearchInv, Served, StandInv, Unended, Busy
  <2>5. OpenScope'
    BY <1>4, <2>2 DEF Report, StandInv, OpenScope, Opened, Trip, StagesStand, Ended, GaveUp
  <2> QED
    BY <1>4, <2>2, <2>4, <2>5
    DEF Report, StandInv, Stands, PhaseStands, ScopesStand, GaveUp
<1> QED
  BY <1>3, <1>4

LEMMA ExitStands ==
  ASSUME RInv, StandInv, NEW i \in Owners, Exit(i)
  PROVE  StandInv' /\ Stands
<1>1. \A j \in Owners : Busy(j)' => Busy(j) /\ reader'[j].of = reader[j].of
  BY DEF Exit, Step, RInv, TypeOK, ReaderType, Busy, Working, Idle
<1> QED
  BY <1>1, ReaderStands DEF Exit, RInv, TypeOK, EngineType

LEMMA ExitStageStands ==
  ASSUME RInv, StandInv, NEW i \in Owners, ExitStage(i)
  PROVE  StandInv' /\ Stands
<1>1. \A j \in Owners : Busy(j)' => reader'[j] = reader[j] /\ Busy(j)
  BY DEF ExitStage, Step, RInv, TypeOK, ReaderType, Busy, Working
<1>2. CASE UNCHANGED <<stage, disp, refine>>
  BY <1>1, <1>2, ReaderStands DEF ExitStage
<1>3. ASSUME NEW q \in Active, stage' = Record(q[1], i, "failed"), Incomplete(q[1]), q[2] = i
      PROVE  StandInv' /\ Stands
  BY <1>1, <1>3, StageSpoils DEF ExitStage, Active
<1> QED
  BY <1>2, <1>3 DEF ExitStage

LEMMA DieStands == ASSUME RInv, StandInv, NEW i \in Owners, Die(i) PROVE StandInv' /\ Stands
BY QuietStands DEF Die, RInv, StandInv, JobInv, PlaceInv, DoneInv, Opened, Trip, Trips,
   Away, Searching, GaveUp

LEMMA StandInit == ASSUME Init PROVE StandInv
<1>1. \A i \in Owners : search[i] = None /\ ~Busy(i)
  BY DEF Init, Busy, Working, Idle
<1> QED
  BY <1>1 DEF Init, StandInv, Unended, OpenScope, Opened, Away, Searching, Trip, Trips

LEMMA WorkerStands == ASSUME RInv, StandInv, Worker PROVE StandInv' /\ Stands
BY PickTargetStands, DeepenStands, PickNominationStands, AskStands, PositionWriteStands,
   PositionReadyStands, PerftStands, OracleBackStands, AskedStands, TerminalStands,
   SplitStands, PlaceStands, PlacedStands, DispatchStands, GoStands, AwaitStands,
   DrainStands, RestoreStands, UnplacedStands, CloseStands, EndStands, CompleteStands,
   CleanUpStands, AbandonStands, RecoverStands, FinishStands DEF Worker

LEMMA CommandLoopStands == ASSUME RInv, StandInv, CommandLoop PROVE StandInv' /\ Stands
BY BarrierStands, WaitedStands, FailStageStands, QuarantineStands, ClearStands,
   SyncStands DEF CommandLoop

LEMMA ReadersStand ==
  ASSUME RInv, StandInv, NEW i \in Owners, Reader(i) \/ Die(i)
  PROVE  StandInv' /\ Stands
BY AnswerStands, AuditStands, JudgeStands, SealStands, RereadStands, ReportStands,
   ExitStands, ExitStageStands, DieStands DEF Reader

LEMMA StutterStands == ASSUME RInv, StandInv, UNCHANGED vars PROVE StandInv' /\ Stands
BY QuietStands DEF vars, StandInv, Opened, Trip, Trips, Away, Searching, GaveUp

-----------------------------------------------------------------------------
(* The theorems *)

\* Every variable stays within its type: no shard, stage or disposition is ever
\* recorded of anything but a prefix and an owner.
THEOREM TypeCorrect == Spec => []TypeOK
<1>1. RInv => TypeOK
  BY DEF RInv
<1> QED
  BY <1>1, Invariance, PTL

\* An engine that is trusted searches where it stands, and none is left away from
\* the command loop's position when the phase is over or the barrier has passed.
THEOREM EnginesStand == Spec => []EnginesInPlace
<1>1. RInv => SearchAtItsPosition
  BY DEF RInv, SearchInv, Served, Left, SearchAtItsPosition
<1>2. ASSUME RInv PROVE EnginesComeBack
  <2>1. ASSUME NEW i \in Owners, Available(i), w \in {"over", "done"} PROVE pos[i] \in {Old, New}
    BY <1>2, <2>1 DEF RInv, PlaceInv, Away, Searching, Trip, Trips
  <2>2. ASSUME NEW i \in Owners, Available(i), m = "done", drained PROVE pos[i] = command
    BY <1>2, <2>2 DEF RInv, BarrierInv
  <2> QED
    BY <2>1, <2>2 DEF EnginesComeBack
<1>3. RInv => EnginesInPlace
  BY <1>1, <1>2 DEF EnginesInPlace
<1> QED
  BY <1>3, Invariance, PTL

\* A scope that is recorded as completed, and every scope of a completed phase, is
\* whole in the artifact and in the ledger; unless the barrier gave up, none of the
\* latter is recorded as anything but completed or terminal; and no reservation
\* outlives the phase.
THEOREM CompletedIsWhole == Spec => []ScopesCloseWhole
<1>1. ASSUME RInv PROVE ScopesCloseWhole
  <2> USE <1>1 DEF RInv
  <2>1. ASSUME NEW s \in DOMAIN disp, disp[s] = "completed" \/ refine = "completed"
        PROVE  Whole(s)
    <3>1. \A o \in Required(s) : <<s, o>> \in DOMAIN stage /\ stage[<<s, o>>] = "completed"
      BY <2>1 DEF DoneInv, AllDone
    <3> QED
      BY <3>1, CompletedShares
  <2>2. refine = "completed" /\ ~GaveUp => \A s \in DOMAIN disp : disp[s] \in {"completed", "terminal"}
    BY DEF DoneInv, AllDone
  <2>3. w \in {"over", "done"} => tokens = {}
    BY DEF TokenInv, StageInv, JobInv, Searching, Trip, Trips
  <2> QED
    BY <2>1, <2>2, <2>3 DEF ScopesCloseWhole
<1> QED
  BY <1>1, Invariance, PTL

\* The ledger refuses nothing REFINE asks of it: what is still to be dispatched is
\* leased, and what is still to come is a sealed leaf of the owner that named it.
THEOREM LedgerIsAgreed == Spec => []LedgerAgrees
<1>1. RInv => LedgerAgrees
  BY DEF RInv, ShareInv, QueueInv, Fits, LedgerAgrees
<1> QED
  BY <1>1, Invariance, PTL

\* What was recorded of a stage is never taken back, nor, until the barrier gives up,
\* what was recorded of a scope or the phase, whoever of the worker, the readers and
\* the barrier comes last; but for the scope that is late and whole, which the worker
\* completes in a phase that stays incomplete.
THEOREM NothingTakenBack == Spec => DispositionsStand
<1>1. ASSUME RInv, StandInv, [Next]_vars PROVE StandInv' /\ Stands
  <2>1. CASE Worker
    BY <1>1, <2>1, WorkerStands
  <2>2. CASE CommandLoop
    BY <1>1, <2>2, CommandLoopStands
  <2>3. CASE AnchorComplete
    BY <1>1, <2>3, AnchorCompleteStands
  <2>4. CASE Cancel
    BY <1>1, <2>4, CancelStands
  <2>5. CASE \E i \in Owners : Reader(i) \/ Die(i)
    BY <1>1, <2>5, ReadersStand
  <2>6. CASE UNCHANGED vars
    BY <1>1, <2>6, StutterStands
  <2> QED
    BY <1>1, <2>1, <2>2, <2>3, <2>4, <2>5, <2>6 DEF Next
<1>2. Init => StandInv
  BY StandInit
<1>3. ASSUME RInv, StandInv, [Next]_vars
      PROVE  /\ \A q \in DOMAIN stage :
                   q \in DOMAIN stage' /\ (stage[q] # "running" => stage'[q] = stage[q])
             /\ \A s \in DOMAIN disp :
                   /\ s \in DOMAIN disp'
                   /\ \/ GaveUp' \/ disp[s] = "running" \/ disp'[s] = disp[s]
                      \/ LateAndWhole(s) /\ disp'[s] = "completed" /\ refine' = "incomplete"
             /\ GaveUp' \/ (refine # "running" => refine' = refine)
  BY <1>1, <1>3 DEF Stands, PhaseStands, ScopesStand, StagesStand
<1> QED
  BY <1>1, <1>2, <1>3, Invariance, PTL DEF Spec, DispositionsStand

=============================================================================
