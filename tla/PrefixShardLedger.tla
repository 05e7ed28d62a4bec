-------------------------- MODULE PrefixShardLedger --------------------------
(***************************************************************************)
(* controller/prefix_shards.py: recursive ownership of move prefixes, with *)
(* a coordinator thread that looks a leaf up in two lock acquisitions      *)
(* (sealed_frontier_leaf), asks an oracle, and splits it later.            *)
(*                                                                         *)
(* A shard's id is a function of its prefix, so a prefix stands for both   *)
(* indexes of the code; a shard that does not exist yet is "absent".  Each *)
(* method holds the lock throughout and a call that raises writes nothing. *)
(***************************************************************************)
EXTENDS Naturals, Sequences

CONSTANTS
    Moves,           \* canonical moves
    Roots,           \* the candidate universe
    Owners, NoOwner,
    Callers,         \* threads that look leaves up before they split them
    MaxDepth,        \* bound: length of a prefix (refinement.max_depth)
    MaxRevision      \* bound: transfers stop once the revision is this high

ASSUME DomainAssumption == Roots \subseteq Moves /\ NoOwner \notin Owners
ASSUME DepthAssumption  == MaxDepth \in Nat \ {0} /\ MaxRevision \in Nat

Prefix == UNION {[1 .. n -> Moves] : n \in 1 .. MaxDepth}
Parent(p)   == SubSeq(p, 1, Len(p) - 1)
Child(p, m) == Append(p, m)

VARIABLES
    owner, state, children,   \* of each shard
    assigned,                 \* _partition_assigned
    revision,                 \* _revision
    at, leaf, holding         \* callers: their step, the leaf's prefix and owner

ledger    == <<owner, state, children, assigned, revision>>
callers   == <<at, leaf, holding>>
shardVars == <<ledger, callers>>

PrefixShardState == {"unassigned", "leased", "active", "sealed", "retired"}
NoLeaf == <<>>

ShardTypeOK ==
    /\ owner \in [Prefix -> Owners \cup {NoOwner}]
    /\ state \in [Prefix -> PrefixShardState \cup {"absent"}]
    /\ children \in [Prefix -> SUBSET Prefix]
    /\ assigned \in BOOLEAN /\ revision \in Nat
    /\ at \in [Callers -> {"idle", "looked", "found"}]
    /\ leaf \in [Callers -> Prefix \cup {NoLeaf}]
    /\ holding \in [Callers -> Owners \cup {NoOwner}]

Known == {p \in Prefix : state[p] # "absent"}
RootShards == {p \in Prefix : Len(p) = 1 /\ p[1] \in Roots}

ShardInit ==
    /\ owner = [p \in Prefix |-> NoOwner]
    /\ state = [p \in Prefix |-> IF p \in RootShards THEN "unassigned" ELSE "absent"]
    /\ children = [p \in Prefix |-> {}]
    /\ assigned = FALSE /\ revision = 0
    /\ at = [c \in Callers |-> "idle"]
    /\ leaf = [c \in Callers |-> NoLeaf] /\ holding = [c \in Callers |-> NoOwner]

StrictPrefix(p, q) == Len(p) < Len(q) /\ SubSeq(q, 1, Len(p)) = p
Overlap(p, q) == StrictPrefix(p, q) \/ StrictPrefix(q, p)

\* Leaves that may be dispatched, split or handed on.
Frontier == {p \in Known : children[p] = {} /\ state[p] # "retired"}

-----------------------------------------------------------------------------
(* The methods that write *)

AssignRootPartition(partition) ==
    /\ ~assigned
    /\ \A o, n \in Owners : o # n => partition[o] \cap partition[n] = {}
    /\ UNION {partition[o] : o \in Owners} = Roots
    /\ owner' = [p \in Prefix |->
                   IF p \in RootShards THEN CHOOSE o \in Owners : p[1] \in partition[o]
                   ELSE owner[p]]
    /\ state' = [p \in Prefix |-> IF p \in RootShards THEN "leased" ELSE state[p]]
    /\ assigned' = TRUE /\ revision' = revision + 1
    /\ UNCHANGED <<children, callers>>

\* Every mutator asks for a leaf of the calling owner in the state it needs.
Leaf(p, o, s) == p \in Known /\ children[p] = {} /\ owner[p] = o /\ state[p] = s

Advance(p, to) ==
    /\ state' = [state EXCEPT ![p] = to]
    /\ revision' = revision + 1
    /\ UNCHANGED <<owner, children, assigned, callers>>

ActivateShard(p, o) == Leaf(p, o, "leased") /\ Advance(p, "active")

SealLeased(p, o) == Leaf(p, o, "leased") /\ Advance(p, "sealed")   \* mutant
SealShard(p, o)  == Leaf(p, o, "active") /\ Advance(p, "sealed")

\* What split_shard still rejects once the parent was accepted.
SplitFits(p, moves) ==
    \A m \in moves :
        /\ Child(p, m) \notin Known
        /\ \A q \in Frontier \ {p} : ~Overlap(Child(p, m), q)

SplitKeepsParent(p, o, moves) ==    \* mutant: the parent stays on the frontier
    LET kids == {Child(p, m) : m \in moves} IN
    /\ owner' = [q \in Prefix |-> IF q \in kids THEN o ELSE owner[q]]
    /\ state' = [q \in Prefix |-> IF q \in kids THEN "leased" ELSE state[q]]
    /\ revision' = revision + 1
    /\ UNCHANGED <<assigned, children>>

\* Every child is written before anyone can see the parent retired.
CommitSplit(p, o, moves) ==
    LET kids == {Child(p, m) : m \in moves} IN
    /\ owner' = [q \in Prefix |-> IF q \in kids THEN o ELSE owner[q]]
    /\ state' = [q \in Prefix |-> IF q \in kids THEN "leased"
                                  ELSE IF q = p THEN "retired" ELSE state[q]]
    /\ children' = [children EXCEPT ![p] = kids]
    /\ revision' = revision + 1
    /\ UNCHANGED assigned

\* The coordinator expands no prefix of refinement.max_depth moves.
SplitShard(p, o, moves) ==
    /\ moves # {} /\ Len(p) < MaxDepth
    /\ Leaf(p, o, "sealed")
    /\ SplitFits(p, moves)
    /\ CommitSplit(p, o, moves)

TransferAny(shards, from, to) ==    \* mutant: transfer does not ask for LEASED
    /\ from # to /\ shards # {} /\ revision < MaxRevision
    /\ \A p \in shards : p \in Frontier /\ owner[p] = from
    /\ owner' = [p \in Prefix |-> IF p \in shards THEN to ELSE owner[p]]
    /\ revision' = revision + 1
    /\ UNCHANGED <<state, children, assigned, callers>>

TransferShards(shards, from, to) ==
    /\ from # to /\ shards # {} /\ revision < MaxRevision
    /\ \A p \in shards : Leaf(p, from, "leased")
    /\ owner' = [p \in Prefix |-> IF p \in shards THEN to ELSE owner[p]]
    /\ revision' = revision + 1
    /\ UNCHANGED <<state, children, assigned, callers>>

-----------------------------------------------------------------------------
(* A caller of sealed_frontier_leaf *)

\* get_by_prefix under the first acquisition, and the checks of its snapshot.
LookUp(c, p) ==
    /\ at[c] = "idle"
    /\ p \in Known /\ state[p] = "sealed" /\ children[p] = {} /\ Len(p) < MaxDepth
    /\ at' = [at EXCEPT ![c] = "looked"]
    /\ leaf' = [leaf EXCEPT ![c] = p]
    /\ holding' = [holding EXCEPT ![c] = owner[p]]
    /\ UNCHANGED ledger

\* The second acquisition: None unless the shard is still on the frontier.
CheckFrontier(c) ==
    /\ at[c] = "looked"
    /\ \/ /\ leaf[c] \in Frontier
          /\ at' = [at EXCEPT ![c] = "found"] /\ UNCHANGED <<leaf, holding>>
       \/ /\ leaf[c] \notin Frontier
          /\ at' = [at EXCEPT ![c] = "idle"]
          /\ leaf' = [leaf EXCEPT ![c] = NoLeaf] /\ holding' = [holding EXCEPT ![c] = NoOwner]
    /\ UNCHANGED ledger

\* The caller splits what it found and hands children on in calls of their
\* own; or split_shard raises because the leaf is gone, or the oracle found no
\* child and the caller gives up.
SplitFound(c, moves) ==
    /\ at[c] = "found"
    /\ \/ SplitShard(leaf[c], holding[c], moves)
       \/ /\ moves = {} \/ ~Leaf(leaf[c], holding[c], "sealed") \/ ~SplitFits(leaf[c], moves)
          /\ UNCHANGED ledger
    /\ at' = [at EXCEPT ![c] = "idle"]
    /\ leaf' = [leaf EXCEPT ![c] = NoLeaf] /\ holding' = [holding EXCEPT ![c] = NoOwner]

\* The first split below a root follows the target's own lookup.
SplitSealed(p, o, moves) == SplitShard(p, o, moves) /\ UNCHANGED callers

ShardNext ==
    \/ \E partition \in [Owners -> SUBSET Moves] : AssignRootPartition(partition)
    \/ \E p \in Prefix, o \in Owners : ActivateShard(p, o) \/ SealShard(p, o)
    \/ \E shards \in SUBSET Frontier, from, to \in Owners : TransferShards(shards, from, to)
    \/ \E p \in Prefix, o \in Owners, moves \in SUBSET Moves : SplitSealed(p, o, moves)
    \/ \E c \in Callers :
          \/ \E p \in Prefix : LookUp(c, p)
          \/ CheckFrontier(c)
          \/ \E moves \in SUBSET Moves : SplitFound(c, moves)

ShardSpec == ShardInit /\ [][ShardNext]_shardVars

-----------------------------------------------------------------------------
(* Properties *)

\* _validate_invariants_locked runs after the commit of every method, so a
\* failure would leave a half-trusted ledger behind: it never fails.
Validates ==
    /\ \A p \in Known :
          /\ owner[p] \in Owners \cup {NoOwner}
          /\ Len(p) > 1 => Parent(p) \in Known /\ p \in children[Parent(p)]
          /\ Len(p) = 1 => p \in RootShards
          /\ children[p] # {} <=> state[p] = "retired"
          /\ \A q \in children[p] : q \in Known /\ Parent(q) = p
    /\ \A p, q \in Frontier : ~Overlap(p, q)
    /\ RootShards \subseteq Known
    /\ \A p \in RootShards : (owner[p] # NoOwner) <=> assigned

\* A prefix and one of its descendants are never both dispatchable: two
\* engines never search the same continuation.
PrefixFree == \A p, q \in Frontier : ~Overlap(p, q)

\* No declared region is dropped: every shard that ever existed is on the
\* frontier or is covered by descendants that are.
Covered == \A p \in Known : p \in Frontier \/ \E q \in Frontier : StrictPrefix(p, q)

\* The overlap and re-creation checks of split_shard are belt and braces: a
\* sealed leaf with a legal child set is always accepted, so a coordinator
\* that has paid for the oracle is not refused for them.
SplitAccepted ==
    \A p \in Frontier : state[p] = "sealed" /\ Len(p) < MaxDepth => SplitFits(p, Moves)

\* sealed_frontier_leaf reads the shard and the frontier under two lock
\* acquisitions.  At the second one what the first one read is still true:
\* the leaf is sealed and belongs to the owner in the snapshot.
LeafIsCurrent ==
    [][\A c \in Callers :
          at[c] = "looked" /\ at'[c] = "found" => Leaf(leaf[c], holding[c], "sealed")]_shardVars

\* Of two callers that found the same leaf at most one splits it: a leaf found
\* is sealed and its owner's, or it is already retired.
StaleLeafIsRetired ==
    \A c \in Callers : at[c] # "idle" =>
        /\ owner[leaf[c]] = holding[c]
        /\ state[leaf[c]] \in {"sealed", "retired"}

\* The ledger keeps what ShardLease promises of every prefix.
Promise == INSTANCE ShardLease
    WITH Units <- Prefix, holder <- owner,
         stage <- [p \in Prefix |-> IF state[p] = "absent" THEN "unassigned" ELSE state[p]]
KeepsLease == Promise!Spec
=============================================================================
