---------------------------- MODULE LedgerProofs ----------------------------
(***************************************************************************)
(* What the coordinator's two ledgers keep, for any values of their        *)
(* constants: the recursive ledger of move prefixes (PrefixShardLedger)    *)
(* and the CPU ledger with its work grants (WorkGrants).                   *)
(*                                                                         *)
(* Prefixes.  The shards that exist form a tree closed under prefixes, a   *)
(* shard has children exactly when it is retired, and so a shard with a    *)
(* descendant is never on the frontier.  Prefix freedom, the redundancy of *)
(* split_shard's checks and the soundness of sealed_frontier_leaf follow.  *)
(*                                                                         *)
(* Grants.  An open reservation is in the router's registry or in the      *)
(* hands of the reader that popped it; what the ledger has reserved is     *)
(* what its open reservations cost, and nothing is spent that was neither  *)
(* reserved nor recorded as excess.                                        *)
(***************************************************************************)
EXTENDS PrefixShardLedger, WorkGrants, SequenceTheorems, FiniteSetTheorems, TLAPS

-----------------------------------------------------------------------------
(* Prefixes *)

LEMMA OneLess == ASSUME NEW n \in Nat \ {0}, n # 1 PROVE n - 1 \in 1 .. n
OBVIOUS

LEMMA PrefixSeq ==
    ASSUME NEW p \in Prefix
    PROVE  p \in Seq(Moves) /\ Len(p) \in 1 .. MaxDepth /\ p # NoLeaf
<1>1. PICK n \in 1 .. MaxDepth : p \in [1 .. n -> Moves] BY DEF Prefix
<1>2. n \in Nat /\ n \in 1 .. MaxDepth BY DepthAssumption
<1>3. p \in Seq(Moves) BY <1>1, <1>2, SeqDef
<1>4. DOMAIN p = 1 .. n /\ DOMAIN p = 1 .. Len(p) BY <1>1, <1>3
<1>5. Len(p) = n BY <1>2, <1>3, <1>4, LenProperties
<1> QED BY <1>2, <1>3, <1>5, EmptySeq DEF NoLeaf

LEMMA SeqPrefix ==
    ASSUME NEW s \in Seq(Moves), Len(s) \in 1 .. MaxDepth PROVE s \in Prefix
BY LenProperties DEF Prefix

LEMMA ChildProps ==
    ASSUME NEW p \in Prefix, NEW m \in Moves
    PROVE  /\ Child(p, m) \in Seq(Moves) /\ Len(Child(p, m)) = Len(p) + 1
           /\ Parent(Child(p, m)) = p
           /\ \A n \in 1 .. Len(p) : SubSeq(Child(p, m), 1, n) = SubSeq(p, 1, n)
           /\ SubSeq(Child(p, m), 1, Len(p) + 1) = Child(p, m)
           /\ Len(p) < MaxDepth => Child(p, m) \in Prefix
<1>1. p \in Seq(Moves) /\ Len(p) \in Nat /\ Len(p) \in 1 .. MaxDepth
  BY PrefixSeq, DepthAssumption
<1>2. /\ Child(p, m) \in Seq(Moves) /\ Len(Child(p, m)) = Len(p) + 1
      /\ \A i \in 1 .. Len(p) : Child(p, m)[i] = p[i]
  BY <1>1 DEF Child
<1>3. ASSUME NEW n \in 1 .. Len(p) PROVE SubSeq(Child(p, m), 1, n) = SubSeq(p, 1, n)
  <2>1. /\ SubSeq(Child(p, m), 1, n) \in Seq(Moves) /\ Len(SubSeq(Child(p, m), 1, n)) = n
        /\ \A i \in 1 .. n : SubSeq(Child(p, m), 1, n)[i] = Child(p, m)[i]
    BY <1>1, <1>2, SubSeqProperties
  <2>2. /\ SubSeq(p, 1, n) \in Seq(Moves) /\ Len(SubSeq(p, 1, n)) = n
        /\ \A i \in 1 .. n : SubSeq(p, 1, n)[i] = p[i]
    BY <1>1, SubSeqProperties
  <2> QED BY <1>1, <1>2, <2>1, <2>2, SeqEqual
<1>4. SubSeq(p, 1, Len(p)) = p BY <1>1, SubSeqFull
<1>5. SubSeq(Child(p, m), 1, Len(p) + 1) = Child(p, m) BY <1>2, SubSeqFull
<1>6. Parent(Child(p, m)) = p
  <2>1. Len(Child(p, m)) - 1 = Len(p) /\ Len(p) \in 1 .. Len(p) BY <1>1, <1>2
  <2> QED BY <2>1, <1>3, <1>4 DEF Parent
<1>7. Len(p) < MaxDepth => Child(p, m) \in Prefix
  BY <1>1, <1>2, SeqPrefix, DepthAssumption
<1> QED BY <1>2, <1>3, <1>5, <1>6, <1>7

\* Cutting a prefix of q twice is cutting it once.
LEMMA Cut ==
    ASSUME NEW q \in Prefix, NEW n \in 1 .. Len(q)
    PROVE  /\ SubSeq(q, 1, n) \in Prefix /\ Len(SubSeq(q, 1, n)) = n
           /\ \A k \in 1 .. n : SubSeq(SubSeq(q, 1, n), 1, k) = SubSeq(q, 1, k)
<1>1. q \in Seq(Moves) /\ Len(q) \in Nat /\ Len(q) \in 1 .. MaxDepth
  BY PrefixSeq, DepthAssumption
<1>2. SubSeq(q, 1, n) \in Seq(Moves) /\ Len(SubSeq(q, 1, n)) = n
  BY <1>1, SubSeqProperties
<1>a. n \in 1 .. MaxDepth BY <1>1, DepthAssumption
<1>3. SubSeq(q, 1, n) \in Prefix BY <1>2, <1>a, SeqPrefix
<1>4. ASSUME NEW k \in 1 .. n PROVE SubSeq(SubSeq(q, 1, n), 1, k) = SubSeq(q, 1, k)
  BY <1>1, SubSeqOfSubSeq
<1> QED BY <1>2, <1>3, <1>4

\* The next step from p towards a descendant q is a child of p.
LEMMA Towards ==
    ASSUME NEW p \in Prefix, NEW q \in Prefix, StrictPrefix(p, q)
    PROVE  LET r == SubSeq(q, 1, Len(p) + 1) IN
           /\ Len(p) + 1 \in 1 .. Len(q) /\ r \in Prefix /\ Len(r) > 1 /\ Parent(r) = p
<1>1. Len(p) \in Nat \ {0} /\ Len(q) \in Nat /\ Len(p) < Len(q)
      /\ SubSeq(q, 1, Len(p)) = p
  BY PrefixSeq, DepthAssumption DEF StrictPrefix
<1>2. Len(p) + 1 \in 1 .. Len(q) /\ Len(p) \in 1 .. Len(p) + 1 BY <1>1
<1>3. /\ SubSeq(q, 1, Len(p) + 1) \in Prefix
      /\ Len(SubSeq(q, 1, Len(p) + 1)) = Len(p) + 1
      /\ SubSeq(SubSeq(q, 1, Len(p) + 1), 1, Len(p)) = SubSeq(q, 1, Len(p))
  BY <1>2, Cut
<1>4. Len(SubSeq(q, 1, Len(p) + 1)) - 1 = Len(p) BY <1>1, <1>3
<1> QED BY <1>1, <1>2, <1>3, <1>4 DEF Parent

\* A child of p is below whatever p is below, and below p itself.
LEMMA Below ==
    ASSUME NEW p \in Prefix, NEW m \in Moves
    PROVE  /\ StrictPrefix(p, Child(p, m))
           /\ \A q \in Prefix : StrictPrefix(q, Child(p, m)) => q = p \/ StrictPrefix(q, p)
           /\ \A q \in Prefix : StrictPrefix(q, p) => StrictPrefix(q, Child(p, m))
           /\ \A q \in Prefix : StrictPrefix(Child(p, m), q) => StrictPrefix(p, q)
<1>1. p \in Seq(Moves) /\ Len(p) \in Nat /\ Len(p) \in 1 .. Len(p)
  BY PrefixSeq, DepthAssumption
<1>2. /\ Len(Child(p, m)) = Len(p) + 1 /\ SubSeq(Child(p, m), 1, Len(p)) = p
      /\ \A n \in 1 .. Len(p) : SubSeq(Child(p, m), 1, n) = SubSeq(p, 1, n)
  BY <1>1, ChildProps, SubSeqFull
<1>3. StrictPrefix(p, Child(p, m)) BY <1>1, <1>2 DEF StrictPrefix
<1>4. ASSUME NEW q \in Prefix, StrictPrefix(q, Child(p, m)) PROVE q = p \/ StrictPrefix(q, p)
  <2>1. Len(q) \in Nat \ {0} /\ Len(q) <= Len(p) BY <1>1, <1>2, <1>4, PrefixSeq, DepthAssumption DEF StrictPrefix
  <2>2. q = SubSeq(p, 1, Len(q)) BY <1>2, <1>4, <2>1, <1>1 DEF StrictPrefix
  <2>3. CASE Len(q) = Len(p) BY <1>1, <2>2, <2>3, SubSeqFull
  <2>4. CASE Len(q) < Len(p) BY <2>2, <2>4 DEF StrictPrefix
  <2> QED BY <1>1, <2>1, <2>3, <2>4
<1>5. ASSUME NEW q \in Prefix, StrictPrefix(q, p) PROVE StrictPrefix(q, Child(p, m))
  <2>1. Len(q) \in 1 .. Len(p) /\ Len(q) < Len(p) /\ SubSeq(p, 1, Len(q)) = q
    BY <1>1, <1>5, PrefixSeq, DepthAssumption DEF StrictPrefix
  <2> QED BY <1>1, <1>2, <2>1 DEF StrictPrefix
<1>6. ASSUME NEW q \in Prefix, StrictPrefix(Child(p, m), q) PROVE StrictPrefix(p, q)
  <2>1. Len(q) \in Nat /\ Len(p) + 1 < Len(q) /\ SubSeq(q, 1, Len(p) + 1) = Child(p, m)
    BY <1>2, <1>6, PrefixSeq, DepthAssumption DEF StrictPrefix
  <2>2. Len(p) + 1 \in 1 .. Len(q) /\ Len(p) \in 1 .. Len(p) + 1 BY <1>1, <2>1
  <2>3. SubSeq(SubSeq(q, 1, Len(p) + 1), 1, Len(p)) = SubSeq(q, 1, Len(p))
    BY <2>2, Cut
  <2> QED BY <1>1, <1>2, <2>1, <2>3 DEF StrictPrefix
<1> QED BY <1>3, <1>4, <1>5, <1>6
-----------------------------------------------------------------------------
(* The inductive invariant *)

\* The shards form a tree: closed under prefixes, children on record.
Tree ==
    /\ \A p \in Known : \A n \in 1 .. Len(p) : SubSeq(p, 1, n) \in Known
    /\ \A p \in Known : IF Len(p) = 1 THEN p \in RootShards ELSE p \in children[Parent(p)]
    /\ \A p \in Prefix : \A q \in children[p] : q \in Known /\ Parent(q) = p
    /\ RootShards \subseteq Known

\* A shard has children exactly when it is retired.
Retirement == \A p \in Prefix : children[p] # {} <=> state[p] = "retired"

\* Who owns what, before and after the root partition.
Ownership ==
    /\ ~assigned => \A p \in Known : p \in RootShards /\ state[p] = "unassigned"
                                    /\ owner[p] = NoOwner
    /\ assigned => \A p \in Known : owner[p] \in Owners /\ state[p] # "unassigned"
    /\ \A p \in Prefix \ Known : owner[p] = NoOwner

CallersHold ==
    \A c \in Callers : at[c] # "idle" => leaf[c] \in Known

IInv == /\ ShardTypeOK /\ Tree /\ Retirement /\ Ownership
        /\ Covered /\ CallersHold /\ StaleLeafIsRetired

\* A shard with a descendant has a child.
LEMMA Descends ==
    ASSUME Tree, NEW p \in Prefix, NEW q \in Known, StrictPrefix(p, q)
    PROVE  children[p] # {}
<1>1. q \in Prefix BY DEF Known
<1>2. PICK r : /\ r = SubSeq(q, 1, Len(p) + 1) /\ Len(p) + 1 \in 1 .. Len(q)
               /\ r \in Prefix /\ Len(r) > 1 /\ Parent(r) = p
  BY <1>1, Towards
<1>3. r \in Known BY <1>2 DEF Tree
<1>4. Len(r) # 1 BY <1>2, PrefixSeq, DepthAssumption
<1> QED BY <1>2, <1>3, <1>4 DEF Tree

\* Hence the frontier is prefix free.
LEMMA FrontierFree == ASSUME Tree PROVE PrefixFree
BY Descends DEF PrefixFree, Overlap, Frontier, Known

\* Hence also what split_shard checks of the children holds of every leaf.
LEMMA ChecksHold ==
    ASSUME Tree, NEW p \in Known, children[p] = {}, Len(p) < MaxDepth
    PROVE  SplitFits(p, Moves)
<1>1. p \in Prefix BY DEF Known
<1>2. ASSUME NEW m \in Moves, Child(p, m) \in Known PROVE FALSE
  <2>1. StrictPrefix(p, Child(p, m)) BY <1>1, Below
  <2> QED BY <1>1, <1>2, <2>1, Descends
<1>3. ASSUME NEW m \in Moves, NEW q \in Frontier \ {p}, Overlap(Child(p, m), q) PROVE FALSE
  <2>1. q \in Known /\ q \in Prefix /\ children[q] = {} BY DEF Frontier, Known
  <2>2. CASE StrictPrefix(Child(p, m), q)
    BY <1>1, <2>1, <2>2, Below, Descends
  <2>3. CASE StrictPrefix(q, Child(p, m))
    BY <1>1, <1>3, <2>1, <2>3, Below, Descends
  <2> QED BY <1>3, <2>2, <2>3 DEF Overlap
<1> QED BY <1>2, <1>3 DEF SplitFits

LEMMA InitInv == ShardInit => IInv
<1> SUFFICES ASSUME ShardInit PROVE IInv OBVIOUS
<1>1. ShardTypeOK BY DEF ShardInit, ShardTypeOK, PrefixShardState
<1>2. Known = RootShards BY DEF ShardInit, Known, RootShards
<1>3. \A p \in RootShards : Len(p) = 1 /\ SubSeq(p, 1, 1) = p
  BY PrefixSeq, SubSeqFull DEF RootShards
<1>4. Tree
  <2>1. \A p \in Prefix : children[p] = {} BY DEF ShardInit
  <2>2. ASSUME NEW p \in RootShards, NEW n \in 1 .. Len(p) PROVE SubSeq(p, 1, n) \in RootShards
    <3>1. Len(p) = 1 /\ n \in 1 .. Len(p) BY <1>3
    <3>2. n = 1 BY <3>1
    <3> QED BY <1>3, <3>2
  <2> QED BY <1>2, <1>3, <2>1, <2>2 DEF Tree
<1>5. Retirement /\ Ownership
  <2>1. \A p \in Prefix : children[p] = {} /\ state[p] # "retired" /\ owner[p] = NoOwner
    BY DEF ShardInit
  <2>2. \A p \in RootShards : p \in Prefix /\ state[p] = "unassigned"
    BY DEF ShardInit, RootShards
  <2>3. ~assigned BY DEF ShardInit
  <2> QED BY <1>2, <2>1, <2>2, <2>3 DEF Retirement, Ownership
<1>6. Covered BY <1>2 DEF ShardInit, Covered, Frontier, Known
<1>7. CallersHold /\ StaleLeafIsRetired BY DEF ShardInit, CallersHold, StaleLeafIsRetired
<1> QED BY <1>1, <1>4, <1>5, <1>6, <1>7 DEF IInv

-----------------------------------------------------------------------------
(* Steps *)

\* Steps that leave the tree alone: no shard appears, none gets children, and
\* none enters or leaves retirement.
SameTree ==
    /\ Known' = Known /\ children' = children /\ Frontier' = Frontier
    /\ \A p \in Prefix : (state[p] = "retired") <=> (state'[p] = "retired")

LEMMA TreeKept ==
    ASSUME IInv, SameTree PROVE Tree' /\ Retirement' /\ Covered'
<1>1. Tree' BY DEF IInv, SameTree, Tree, RootShards
<1>2. Retirement' BY DEF IInv, SameTree, Retirement
<1>3. Covered' BY DEF IInv, SameTree, Covered, StrictPrefix
<1> QED BY <1>1, <1>2, <1>3

LEMMA AssignKeeps ==
    ASSUME IInv, NEW partition \in [Owners -> SUBSET Moves], AssignRootPartition(partition)
    PROVE  IInv'
<1>1. ~assigned /\ UNCHANGED <<children, at, leaf, holding>> /\ assigned' = TRUE
  BY DEF AssignRootPartition, callers
<1>2. ASSUME NEW p \in RootShards
      PROVE  (CHOOSE o \in Owners : p[1] \in partition[o]) \in Owners
  BY DEF AssignRootPartition, RootShards
<1>3. Known = RootShards BY <1>1 DEF IInv, Ownership, Tree
<1>4. /\ \A p \in RootShards : owner'[p] \in Owners /\ state'[p] = "leased"
      /\ \A p \in Prefix \ RootShards : owner'[p] = owner[p] /\ state'[p] = state[p]
  BY <1>2 DEF AssignRootPartition, RootShards
<1>5. ShardTypeOK'
  <2>1. owner' \in [Prefix -> Owners \cup {NoOwner}]
    BY <1>2 DEF AssignRootPartition, IInv, ShardTypeOK
  <2>2. state' \in [Prefix -> PrefixShardState \cup {"absent"}]
    BY DEF AssignRootPartition, IInv, ShardTypeOK, PrefixShardState
  <2>3. revision' \in Nat BY DEF AssignRootPartition, IInv, ShardTypeOK
  <2> QED BY <1>1, <2>1, <2>2, <2>3 DEF IInv, ShardTypeOK
<1>6. SameTree
  <2>1. Known' = Known BY <1>3, <1>4 DEF Known, RootShards
  <2>2. \A p \in Prefix : (state[p] = "retired") <=> (state'[p] = "retired")
    BY <1>1, <1>3, <1>4 DEF IInv, Ownership, RootShards
  <2>3. Frontier' = Frontier BY <1>1, <2>1, <2>2 DEF Frontier, Known
  <2> QED BY <1>1, <2>1, <2>2, <2>3 DEF SameTree
<1>7. Ownership' BY <1>1, <1>3, <1>4, <1>6 DEF IInv, Ownership, SameTree
<1>8. \A c \in Callers : at[c] = "idle"
  BY <1>1 DEF IInv, CallersHold, StaleLeafIsRetired, Ownership
<1>9. CallersHold' /\ StaleLeafIsRetired'
  BY <1>1, <1>8 DEF CallersHold, StaleLeafIsRetired
<1> QED BY <1>5, <1>6, <1>7, <1>9, TreeKept DEF IInv

LEMMA AdvanceKeeps ==
    ASSUME IInv, NEW p \in Prefix, NEW o \in Owners, NEW from, NEW to,
           <<from, to>> \in {<<"leased", "active">>, <<"active", "sealed">>},
           Leaf(p, o, from), Advance(p, to)
    PROVE  IInv'
<1>1. /\ UNCHANGED <<owner, children, assigned, at, leaf, holding>>
      /\ state' = [state EXCEPT ![p] = to] /\ state[p] = from /\ p \in Known
      /\ from \in {"leased", "active"} /\ to \in {"active", "sealed"}
  BY DEF Leaf, Advance, callers
<1>2. ShardTypeOK' BY <1>1 DEF Advance, IInv, ShardTypeOK, PrefixShardState
<1>3. /\ \A q \in Prefix : q # p => state'[q] = state[q]
      /\ state'[p] = to
  BY <1>1 DEF IInv, ShardTypeOK
<1>4. SameTree
  <2>1. Known' = Known BY <1>1, <1>3 DEF Known
  <2>2. \A q \in Prefix : (state[q] = "retired") <=> (state'[q] = "retired")
    BY <1>1, <1>3
  <2>3. Frontier' = Frontier BY <1>1, <2>1, <2>2 DEF Frontier, Known
  <2> QED BY <1>1, <2>1, <2>2, <2>3 DEF SameTree
<1>5. Ownership' BY <1>1, <1>3, <1>4 DEF IInv, Ownership, SameTree, Known
<1>6. CallersHold' BY <1>1, <1>4 DEF IInv, CallersHold, SameTree
<1>7. StaleLeafIsRetired'
  BY <1>1, <1>3 DEF IInv, StaleLeafIsRetired, CallersHold, Known
<1> QED BY <1>2, <1>4, <1>5, <1>6, <1>7, TreeKept DEF IInv

LEMMA TransferKeeps ==
    ASSUME IInv, NEW shards \in SUBSET Frontier, NEW from \in Owners, NEW to \in Owners,
           TransferShards(shards, from, to)
    PROVE  IInv'
<1>1. /\ UNCHANGED <<state, children, assigned, at, leaf, holding>>
      /\ owner' = [p \in Prefix |-> IF p \in shards THEN to ELSE owner[p]]
      /\ \A p \in shards : p \in Known /\ owner[p] = from /\ state[p] = "leased"
  BY DEF TransferShards, Leaf, callers
<1>2. ShardTypeOK' BY <1>1 DEF TransferShards, IInv, ShardTypeOK
<1>3. SameTree BY <1>1 DEF SameTree, Known, Frontier
<1>4. Ownership' BY <1>1, <1>3 DEF IInv, Ownership, SameTree, Known
<1>5. CallersHold' BY <1>1, <1>3 DEF IInv, CallersHold, SameTree
<1>6. StaleLeafIsRetired'
  BY <1>1 DEF IInv, StaleLeafIsRetired, CallersHold, Known
<1> QED BY <1>2, <1>3, <1>4, <1>5, <1>6, TreeKept DEF IInv

\* A split grows the tree by one level below one leaf.
LEMMA SplitKeeps ==
    ASSUME IInv, NEW p \in Prefix, NEW o \in Owners, NEW moves \in SUBSET Moves,
           SplitShard(p, o, moves), CallersHold', StaleLeafIsRetired',
           at' \in [Callers -> {"idle", "looked", "found"}],
           leaf' \in [Callers -> Prefix \cup {NoLeaf}],
           holding' \in [Callers -> Owners \cup {NoOwner}]
    PROVE  IInv'
<1> DEFINE kids == {Child(p, m) : m \in moves}
<1>1. /\ p \in Known /\ children[p] = {} /\ owner[p] = o /\ state[p] = "sealed"
      /\ Len(p) < MaxDepth /\ moves # {}
      /\ owner' = [q \in Prefix |-> IF q \in kids THEN o ELSE owner[q]]
      /\ state' = [q \in Prefix |-> IF q \in kids THEN "leased"
                                    ELSE IF q = p THEN "retired" ELSE state[q]]
      /\ children' = [children EXCEPT ![p] = kids]
      /\ revision' = revision + 1 /\ assigned' = assigned
  BY DEF SplitShard, CommitSplit, Leaf
<1>2. /\ kids \subseteq Prefix /\ kids # {} /\ \A q \in kids : Parent(q) = p
      /\ \A q \in kids : Len(q) = Len(p) + 1
      /\ \A q \in kids : \A n \in 1 .. Len(p) : SubSeq(q, 1, n) = SubSeq(p, 1, n)
      /\ \A q \in kids : SubSeq(q, 1, Len(p) + 1) = q
      /\ \A q \in kids : \E m \in Moves : q = Child(p, m)
  <2>1. ASSUME NEW m \in moves
        PROVE  LET q == Child(p, m) IN
               /\ q \in Prefix /\ Parent(q) = p /\ Len(q) = Len(p) + 1
               /\ \A n \in 1 .. Len(p) : SubSeq(q, 1, n) = SubSeq(p, 1, n)
               /\ SubSeq(q, 1, Len(p) + 1) = q
    BY <1>1, ChildProps
  <2>2. kids # {} /\ \A q \in kids : \E m \in moves : q = Child(p, m) BY <1>1
  <2> QED BY <2>1, <2>2
<1>3. \A q \in kids : q \notin Known /\ state[q] = "absent"
  BY <1>1, <1>2 DEF SplitShard, SplitFits, Known
<1>4. p \notin kids BY <1>1, <1>3
<1> HIDE DEF kids
<1>5. /\ \A q \in kids : owner'[q] = o /\ state'[q] = "leased"
      /\ state'[p] = "retired" /\ owner'[p] = owner[p]
      /\ \A q \in Prefix \ kids : owner'[q] = owner[q] /\ (q # p => state'[q] = state[q])
      /\ children'[p] = kids /\ \A q \in Prefix : q # p => children'[q] = children[q]
  BY <1>1, <1>2, <1>4 DEF IInv, ShardTypeOK
<1>6. Known' = Known \cup kids BY <1>1, <1>2, <1>3, <1>5 DEF Known
<1>7. ShardTypeOK'
  <2>1. owner' \in [Prefix -> Owners \cup {NoOwner}] BY <1>1 DEF IInv, ShardTypeOK
  <2>2. state' \in [Prefix -> PrefixShardState \cup {"absent"}]
    BY <1>1 DEF IInv, ShardTypeOK, PrefixShardState
  <2>3. children' \in [Prefix -> SUBSET Prefix] BY <1>1, <1>2 DEF IInv, ShardTypeOK
  <2>4. revision' \in Nat /\ assigned' \in BOOLEAN BY <1>1 DEF IInv, ShardTypeOK
  <2> QED BY <2>1, <2>2, <2>3, <2>4 DEF ShardTypeOK
<1>8. Retirement' BY <1>1, <1>2, <1>3, <1>5 DEF IInv, Retirement
<1>9. Tree'
  <2>1. Tree BY DEF IInv
  <2>2. ASSUME NEW q \in Known', NEW n \in 1 .. Len(q) PROVE SubSeq(q, 1, n) \in Known'
    <3>1. CASE q \in Known BY <1>6, <2>1, <3>1 DEF Tree
    <3>2. CASE q \in kids
      <4>1. Len(p) \in Nat /\ (n \in 1 .. Len(p) \/ n = Len(p) + 1)
        BY <1>2, <3>2, PrefixSeq, DepthAssumption
      <4> QED BY <1>1, <1>2, <1>6, <2>1, <3>2, <4>1 DEF Tree
    <3> QED BY <1>6, <3>1, <3>2
  <2>3. ASSUME NEW q \in Known'
        PROVE  IF Len(q) = 1 THEN q \in RootShards ELSE q \in children'[Parent(q)]
    <3>1. CASE q \in Known
      <4>1. CASE Len(q) = 1 BY <2>1, <3>1, <4>1 DEF Tree
      <4>2. CASE Len(q) # 1
        <5>1. q \in children[Parent(q)] BY <2>1, <3>1, <4>2 DEF Tree
        <5>2. q \in Prefix BY <3>1 DEF Known
        <5>a. Len(q) \in 1 .. MaxDepth BY <5>2, PrefixSeq
        <5>b. Len(q) \in Nat \ {0} BY <5>a, DepthAssumption
        <5>3. Len(q) - 1 \in 1 .. Len(q) BY <4>2, <5>b, OneLess
        <5>4. Parent(q) \in Prefix BY <5>2, <5>3, Cut DEF Parent
        <5> QED BY <1>1, <1>5, <4>2, <5>1, <5>4
      <4> QED BY <4>1, <4>2
    <3>2. CASE q \in kids
      <4>1. Len(q) # 1 BY <1>2, <3>2, PrefixSeq, DepthAssumption
      <4> QED BY <1>2, <1>5, <3>2, <4>1
    <3> QED BY <1>6, <3>1, <3>2
  <2>4. \A r \in Prefix : \A q \in children'[r] : q \in Known' /\ Parent(q) = r
    BY <1>2, <1>5, <1>6, <2>1 DEF Tree
  <2>5. RootShards' \subseteq Known' BY <1>6, <2>1 DEF Tree, RootShards
  <2> QED BY <2>2, <2>3, <2>4, <2>5 DEF Tree, RootShards
<1>10. Ownership'
  <2>1. assigned BY <1>1 DEF IInv, Ownership
  <2>2. assigned' BY <1>1, <2>1
  <2>3. ASSUME NEW q \in Known' PROVE owner'[q] \in Owners /\ state'[q] # "unassigned"
    <3>1. CASE q \in kids BY <1>5, <3>1
    <3>2. CASE q = p BY <1>1, <1>5, <3>2
    <3>3. CASE q \in Known \ kids /\ q # p
      BY <1>5, <2>1, <3>3 DEF IInv, Ownership, Known
    <3> QED BY <1>6, <3>1, <3>2, <3>3
  <2>4. ASSUME NEW q \in Prefix \ Known' PROVE owner'[q] = NoOwner
    BY <1>5, <1>6 DEF IInv, Ownership
  <2> QED BY <2>2, <2>3, <2>4 DEF Ownership
<1>11. Frontier' = (Frontier \ {p}) \cup kids
  <2>1. \A q \in kids : children[q] = {} BY <1>2, <1>3 DEF IInv, Retirement
  <2>2. Frontier' \subseteq (Frontier \ {p}) \cup kids
    BY <1>1, <1>2, <1>5, <1>6 DEF Frontier, Known
  <2>3. kids \subseteq Frontier' BY <1>2, <1>3, <1>4, <1>5, <1>6, <2>1 DEF Frontier
  <2>4. Frontier \ {p} \subseteq Frontier' BY <1>3, <1>5, <1>6 DEF Frontier, Known
  <2> QED BY <2>2, <2>3, <2>4
<1>12. Covered'
  <2>1. PICK kid \in kids : kid \in Frontier' BY <1>2, <1>11
  <2>2. StrictPrefix(p, kid) /\ \A q \in Prefix : StrictPrefix(q, p) => StrictPrefix(q, kid)
    BY <1>2, <2>1, Below
  <2>3. ASSUME NEW q \in Known' PROVE q \in Frontier' \/ \E r \in Frontier' : StrictPrefix(q, r)
    <3>1. CASE q \in kids BY <1>11, <3>1
    <3>2. CASE q = p BY <2>1, <2>2, <3>2
    <3>3. CASE q \in Known /\ q # p
      <4>1. q \in Prefix BY <3>3 DEF Known
      <4>2. q \in Frontier \/ \E r \in Frontier : StrictPrefix(q, r) BY <3>3 DEF IInv, Covered
      <4> QED BY <1>11, <2>1, <2>2, <3>3, <4>1, <4>2
    <3> QED BY <1>6, <3>1, <3>2, <3>3
  <2> QED BY <2>3 DEF Covered, StrictPrefix
<1> QED BY <1>7, <1>8, <1>9, <1>10, <1>12 DEF IInv

\* What a split does to the shards that were there.
LEMMA SplitDoes ==
    ASSUME IInv, NEW p \in Prefix, NEW o \in Owners, NEW moves \in SUBSET Moves,
           SplitShard(p, o, moves), NEW q \in Known
    PROVE  /\ q \in Known' /\ owner'[q] = owner[q]
           /\ IF q = p THEN state[q] = "sealed" /\ state'[q] = "retired"
                       ELSE state'[q] = state[q]
<1>1. q \in Prefix /\ p \in Known /\ state[p] = "sealed"
  BY DEF Known, SplitShard, Leaf
<1>2. \A m \in moves : q # Child(p, m) BY DEF SplitShard, SplitFits
<1>3. /\ owner'[q] = owner[q]
      /\ state'[q] = IF q = p THEN "retired" ELSE state[q]
  BY <1>1, <1>2 DEF SplitShard, CommitSplit
<1> QED BY <1>1, <1>3 DEF Known

\* A caller that keeps its snapshot still holds a leaf that exists, of the
\* same owner, sealed or retired.
LEMMA CallersKept ==
    ASSUME IInv,
           \A q \in Known : /\ q \in Known' /\ owner'[q] = owner[q]
                            /\ state[q] \in {"sealed", "retired"} =>
                                  state'[q] \in {"sealed", "retired"},
           \A c \in Callers : at'[c] # "idle" =>
               at[c] # "idle" /\ leaf'[c] = leaf[c] /\ holding'[c] = holding[c]
    PROVE  CallersHold' /\ StaleLeafIsRetired'
BY DEF IInv, CallersHold, StaleLeafIsRetired

LEMMA SplitSealedKeeps ==
    ASSUME IInv, NEW p \in Prefix, NEW o \in Owners, NEW moves \in SUBSET Moves,
           SplitSealed(p, o, moves)
    PROVE  IInv'
<1>1. SplitShard(p, o, moves) /\ UNCHANGED <<at, leaf, holding>> BY DEF SplitSealed, callers
<1>2. CallersHold' /\ StaleLeafIsRetired' BY <1>1, SplitDoes, CallersKept
<1> QED BY <1>1, <1>2, SplitKeeps DEF IInv, ShardTypeOK

\* The step leaves the ledger alone.
LEMMA LedgerSame ==
    ASSUME IInv, UNCHANGED ledger
    PROVE  /\ SameTree /\ Tree' /\ Retirement' /\ Ownership' /\ Covered'
           /\ owner' = owner /\ state' = state /\ assigned' = assigned
           /\ revision' = revision /\ children' = children
<1>1. UNCHANGED <<owner, state, children, assigned, revision>> BY DEF ledger
<1>2. SameTree BY <1>1 DEF SameTree, Known, Frontier
<1>3. Ownership' BY <1>1 DEF IInv, Ownership, Known, RootShards
<1> QED BY <1>1, <1>2, <1>3, TreeKept

LEMMA LookUpKeeps ==
    ASSUME IInv, NEW c \in Callers, NEW p \in Prefix, LookUp(c, p) PROVE IInv'
<1>1. /\ UNCHANGED ledger /\ p \in Known /\ state[p] = "sealed"
      /\ at' = [at EXCEPT ![c] = "looked"] /\ leaf' = [leaf EXCEPT ![c] = p]
      /\ holding' = [holding EXCEPT ![c] = owner[p]]
  BY DEF LookUp
<1>2. ShardTypeOK' BY <1>1, LedgerSame DEF IInv, ShardTypeOK
<1>3. /\ at'[c] = "looked" /\ leaf'[c] = p /\ holding'[c] = owner[p]
      /\ \A d \in Callers \ {c} : at'[d] = at[d] /\ leaf'[d] = leaf[d] /\ holding'[d] = holding[d]
  BY <1>1 DEF IInv, ShardTypeOK
<1>4. Known' = Known /\ owner' = owner /\ state' = state BY <1>1, LedgerSame DEF SameTree
<1>5. CallersHold' BY <1>1, <1>3, <1>4 DEF IInv, CallersHold
<1>6. StaleLeafIsRetired' BY <1>1, <1>3, <1>4 DEF IInv, StaleLeafIsRetired
<1> QED BY <1>1, <1>2, <1>5, <1>6, LedgerSame DEF IInv

LEMMA CheckKeeps ==
    ASSUME IInv, NEW c \in Callers, CheckFrontier(c) PROVE IInv'
<1>1. UNCHANGED ledger /\ at[c] = "looked" BY DEF CheckFrontier
<1>2. \/ at' = [at EXCEPT ![c] = "found"] /\ leaf' = leaf /\ holding' = holding
      \/ /\ at' = [at EXCEPT ![c] = "idle"] /\ leaf' = [leaf EXCEPT ![c] = NoLeaf]
         /\ holding' = [holding EXCEPT ![c] = NoOwner]
  BY DEF CheckFrontier
<1>3. ShardTypeOK' BY <1>1, <1>2, LedgerSame DEF IInv, ShardTypeOK
<1>4. \A d \in Callers : at'[d] # "idle" =>
          at[d] # "idle" /\ leaf'[d] = leaf[d] /\ holding'[d] = holding[d]
  BY <1>1, <1>2 DEF IInv, ShardTypeOK
<1>5. Known' = Known /\ owner' = owner /\ state' = state BY <1>1, LedgerSame DEF SameTree
<1>6. CallersHold' /\ StaleLeafIsRetired' BY <1>4, <1>5, CallersKept
<1> QED BY <1>1, <1>3, <1>6, LedgerSame DEF IInv

\* What a caller found has an owner: its split is a call of that owner.
LEMMA HeldIsOwner ==
    ASSUME IInv, NEW c \in Callers, at[c] # "idle"
    PROVE  leaf[c] \in Known /\ leaf[c] \in Prefix /\ holding[c] \in Owners
<1>1. leaf[c] \in Known /\ owner[leaf[c]] = holding[c]
      /\ state[leaf[c]] \in {"sealed", "retired"}
  BY DEF IInv, CallersHold, StaleLeafIsRetired
<1>2. assigned BY <1>1 DEF IInv, Ownership
<1> QED BY <1>1, <1>2 DEF IInv, Ownership, Known

LEMMA SplitFoundKeeps ==
    ASSUME IInv, NEW c \in Callers, NEW moves \in SUBSET Moves, SplitFound(c, moves)
    PROVE  IInv'
<1>1. /\ at[c] = "found" /\ at' = [at EXCEPT ![c] = "idle"]
      /\ leaf' = [leaf EXCEPT ![c] = NoLeaf] /\ holding' = [holding EXCEPT ![c] = NoOwner]
      /\ SplitShard(leaf[c], holding[c], moves) \/ UNCHANGED ledger
  BY DEF SplitFound
<1>2. leaf[c] \in Prefix /\ holding[c] \in Owners BY <1>1, HeldIsOwner
<1>3. /\ at' \in [Callers -> {"idle", "looked", "found"}]
      /\ leaf' \in [Callers -> Prefix \cup {NoLeaf}]
      /\ holding' \in [Callers -> Owners \cup {NoOwner}]
  BY <1>1 DEF IInv, ShardTypeOK
<1>4. \A d \in Callers : at'[d] # "idle" =>
          at[d] # "idle" /\ leaf'[d] = leaf[d] /\ holding'[d] = holding[d]
  BY <1>1 DEF IInv, ShardTypeOK
<1>5. CASE SplitShard(leaf[c], holding[c], moves)
  <2>1. CallersHold' /\ StaleLeafIsRetired' BY <1>2, <1>4, <1>5, SplitDoes, CallersKept
  <2> QED BY <1>2, <1>3, <1>5, <2>1, SplitKeeps
<1>6. CASE UNCHANGED ledger
  <2>1. Known' = Known /\ owner' = owner /\ state' = state BY <1>6, LedgerSame DEF SameTree
  <2>2. CallersHold' /\ StaleLeafIsRetired' BY <1>4, <2>1, CallersKept
  <2>3. ShardTypeOK' BY <1>3, <1>6, LedgerSame DEF IInv, ShardTypeOK
  <2> QED BY <1>6, <2>2, <2>3, LedgerSame DEF IInv
<1> QED BY <1>1, <1>5, <1>6

LEMMA StutterKeeps == ASSUME IInv, UNCHANGED shardVars PROVE IInv'
<1>1. UNCHANGED ledger /\ at' = at /\ leaf' = leaf /\ holding' = holding BY DEF shardVars, callers
<1>2. Known' = Known /\ owner' = owner /\ state' = state BY <1>1, LedgerSame DEF SameTree
<1>3. CallersHold' /\ StaleLeafIsRetired' BY <1>1, <1>2, CallersKept
<1>4. ShardTypeOK' BY <1>1, LedgerSame DEF IInv, ShardTypeOK
<1> QED BY <1>1, <1>3, <1>4, LedgerSame DEF IInv

LEMMA StepInv == ASSUME IInv, [ShardNext]_shardVars PROVE IInv'
<1>1. CASE \E partition \in [Owners -> SUBSET Moves] : AssignRootPartition(partition)
  BY <1>1, AssignKeeps
<1>2. CASE \E p \in Prefix, o \in Owners : ActivateShard(p, o)
  BY <1>2, AdvanceKeeps DEF ActivateShard
<1>3. CASE \E p \in Prefix, o \in Owners : SealShard(p, o)
  BY <1>3, AdvanceKeeps DEF SealShard
<1>4. CASE \E shards \in SUBSET Frontier, from, to \in Owners : TransferShards(shards, from, to)
  BY <1>4, TransferKeeps
<1>5. CASE \E p \in Prefix, o \in Owners, moves \in SUBSET Moves : SplitSealed(p, o, moves)
  BY <1>5, SplitSealedKeeps
<1>6. ASSUME NEW c \in Callers,
             \/ \E p \in Prefix : LookUp(c, p)
             \/ CheckFrontier(c)
             \/ \E moves \in SUBSET Moves : SplitFound(c, moves)
      PROVE  IInv'
  BY <1>6, LookUpKeeps, CheckKeeps, SplitFoundKeeps
<1>7. CASE UNCHANGED shardVars BY <1>7, StutterKeeps
<1> QED BY <1>1, <1>2, <1>3, <1>4, <1>5, <1>6, <1>7 DEF ShardNext

-----------------------------------------------------------------------------
(* Theorems *)

\* The invariant holds of every reachable state of the ledger.
THEOREM Invariance == ShardSpec => []IInv
BY InitInv, StepInv, PTL DEF ShardSpec

\* The two facts _validate_invariants_locked relies on most: a shard's parent
\* is there and lists it.
LEMMA ParentKnown ==
    ASSUME Tree, NEW p \in Known, Len(p) > 1
    PROVE  Parent(p) \in Known /\ p \in children[Parent(p)]
<1>1. p \in Prefix BY DEF Known
<1>a. Len(p) \in Nat \ {0} BY <1>1, PrefixSeq, DepthAssumption
<1>2. Len(p) # 1
  <2>1. \A n \in Nat : n > 1 => n # 1 OBVIOUS
  <2> QED BY <1>a, <2>1
<1>3. Len(p) - 1 \in 1 .. Len(p) BY <1>2, <1>a, OneLess
<1> QED BY <1>2, <1>3 DEF Tree, Parent

LEMMA InvValidates == ASSUME IInv PROVE Validates
<1>1. Tree /\ Retirement /\ Ownership /\ ShardTypeOK BY DEF IInv
<1>2. ASSUME NEW p \in Known
      PROVE  /\ owner[p] \in Owners \cup {NoOwner}
             /\ Len(p) > 1 => Parent(p) \in Known /\ p \in children[Parent(p)]
             /\ Len(p) = 1 => p \in RootShards
             /\ children[p] # {} <=> state[p] = "retired"
             /\ \A q \in children[p] : q \in Known /\ Parent(q) = p
  <2>1. p \in Prefix BY DEF Known
  <2>2. owner[p] \in Owners \cup {NoOwner} BY <1>1, <2>1 DEF ShardTypeOK
  <2>3. Len(p) > 1 => Parent(p) \in Known /\ p \in children[Parent(p)]
    BY <1>1, ParentKnown
  <2>4. Len(p) = 1 => p \in RootShards BY <1>1 DEF Tree
  <2>5. children[p] # {} <=> state[p] = "retired" BY <1>1, <2>1 DEF Retirement
  <2>6. \A q \in children[p] : q \in Known /\ Parent(q) = p BY <1>1, <2>1 DEF Tree
  <2> QED BY <2>2, <2>3, <2>4, <2>5, <2>6
<1>3. \A p, q \in Frontier : ~Overlap(p, q) BY <1>1, FrontierFree DEF PrefixFree
<1>4. RootShards \subseteq Known BY <1>1 DEF Tree
<1>5. \A p \in RootShards : (owner[p] # NoOwner) <=> assigned
  BY <1>1, <1>4, DomainAssumption DEF Ownership
<1> QED BY <1>2, <1>3, <1>4, <1>5 DEF Validates

\* No method of the ledger ever fails its own final validation.
THEOREM NeverFailsValidation == ShardSpec => []Validates
BY Invariance, InvValidates, PTL

\* No two engines are ever given a prefix and a descendant of it.
THEOREM NoDoubleSearch == ShardSpec => []PrefixFree
<1>1. IInv => PrefixFree BY FrontierFree DEF IInv
<1> QED BY <1>1, Invariance, PTL

\* Splits, transfers and seals drop no part of the search space.
THEOREM NothingDropped == ShardSpec => []Covered
<1>1. IInv => Covered BY DEF IInv
<1> QED BY <1>1, Invariance, PTL

\* The overlap and re-creation checks of split_shard never refuse a leaf.
THEOREM ChecksAreRedundant == ShardSpec => []SplitAccepted
<1>1. ASSUME IInv PROVE SplitAccepted
  BY <1>1, ChecksHold DEF IInv, SplitAccepted, Frontier
<1> QED BY <1>1, Invariance, PTL

\* A leaf a caller holds is its owner's and sealed, or already split.
THEOREM HeldLeaf == ShardSpec => []StaleLeafIsRetired
<1>1. IInv => StaleLeafIsRetired BY DEF IInv
<1> QED BY <1>1, Invariance, PTL

\* sealed_frontier_leaf answers with a leaf as it is at its second lock.
THEOREM TwoLocksSuffice == ShardSpec => LeafIsCurrent
<1>1. ASSUME IInv, [ShardNext]_shardVars, NEW c \in Callers, at[c] = "looked", at'[c] = "found"
      PROVE  Leaf(leaf[c], holding[c], "sealed")
  <2>1. leaf[c] \in Frontier
    <3>1. CASE \E d \in Callers : CheckFrontier(d)
      <4>1. PICK d \in Callers : CheckFrontier(d) BY <3>1
      <4>2. d = c BY <1>1, <4>1 DEF CheckFrontier, IInv, ShardTypeOK
      <4> QED BY <1>1, <4>1, <4>2 DEF CheckFrontier, IInv, ShardTypeOK
    <3>2. CASE \E d \in Callers, p \in Prefix : LookUp(d, p)
      <4>1. PICK d \in Callers, p \in Prefix : LookUp(d, p) BY <3>2
      <4> QED BY <1>1, <4>1 DEF LookUp, IInv, ShardTypeOK
    <3>3. CASE \E d \in Callers, moves \in SUBSET Moves : SplitFound(d, moves)
      <4>1. PICK d \in Callers, moves \in SUBSET Moves : SplitFound(d, moves) BY <3>3
      <4> QED BY <1>1, <4>1 DEF SplitFound, IInv, ShardTypeOK
    <3>4. CASE UNCHANGED at BY <1>1, <3>4
    <3> QED BY <1>1, <3>1, <3>2, <3>3, <3>4
        DEF ShardNext, shardVars, callers, AssignRootPartition, ActivateShard, SealShard, Advance,
            TransferShards, SplitSealed
  <2>2. /\ leaf[c] \in Known /\ children[leaf[c]] = {} /\ state[leaf[c]] # "retired"
    BY <2>1 DEF Frontier
  <2> QED BY <1>1, <2>2 DEF IInv, StaleLeafIsRetired, Leaf
<1>2. IInv /\ [ShardNext]_shardVars =>
        [\A c \in Callers :
           at[c] = "looked" /\ at'[c] = "found" => Leaf(leaf[c], holding[c], "sealed")]_shardVars
  BY <1>1
<1> QED BY <1>2, Invariance, PTL DEF ShardSpec, LeafIsCurrent

\* No call does to a prefix what ShardLease forbids.
THEOREM LedgerKeepsLease == ShardSpec => KeepsLease
<1> DEFINE stage == [p \in Prefix |-> IF state[p] = "absent" THEN "unassigned" ELSE state[p]]
<1>1. ShardInit => Promise!Init
  BY DEF ShardInit, Promise!Init
<1>2. ASSUME IInv, IInv', [ShardNext]_shardVars
      PROVE  [Promise!Next]_<<owner, stage>>
  <2>1. owner' \in [Prefix -> Owners \cup {NoOwner}] /\ stage' \in [Prefix -> Promise!Stages]
    BY <1>2 DEF IInv, ShardTypeOK, PrefixShardState, Promise!Stages
  <2>2. CASE \E partition \in [Owners -> SUBSET Moves] : AssignRootPartition(partition)
    <3>1. PICK partition \in [Owners -> SUBSET Moves] : AssignRootPartition(partition) BY <2>2
    <3>2. ~assigned /\ \A p \in RootShards : (CHOOSE o \in Owners : p[1] \in partition[o]) \in Owners
      BY <3>1 DEF AssignRootPartition, RootShards
    <3>3. \A p \in Prefix : IF p \in RootShards THEN Promise!Leases(p)
                            ELSE owner'[p] = owner[p] /\ stage'[p] = stage[p]
      BY <1>2, <3>1, <3>2
      DEF AssignRootPartition, Promise!Leases, IInv, Ownership, Tree, Known
    <3> QED BY <2>1, <3>3 DEF Promise!Next
  <2>3. CASE \E p \in Prefix, o \in Owners : ActivateShard(p, o) \/ SealShard(p, o)
    <3>1. PICK p \in Prefix :
            /\ owner' = owner
            /\ \/ state[p] = "leased" /\ state' = [state EXCEPT ![p] = "active"]
               \/ state[p] = "active" /\ state' = [state EXCEPT ![p] = "sealed"]
      BY <2>3 DEF ActivateShard, SealShard, Advance, Leaf
    <3>2. \A q \in Prefix : /\ owner'[q] = owner[q]
                            /\ stage'[q] = stage[q] \/ Promise!Activates(q) \/ Promise!Seals(q)
      BY <1>2, <3>1 DEF IInv, ShardTypeOK, Promise!Activates, Promise!Seals
    <3> QED BY <2>1, <3>2 DEF Promise!Next
  <2>4. CASE \E shards \in SUBSET Frontier, from, to \in Owners : TransferShards(shards, from, to)
    <3>0. PICK shards \in SUBSET Frontier, from, to \in Owners : TransferShards(shards, from, to)
      BY <2>4
    <3>1. /\ state' = state /\ \A p \in shards : state[p] = "leased"
          /\ owner' = [p \in Prefix |-> IF p \in shards THEN to ELSE owner[p]]
      BY <3>0 DEF TransferShards, Leaf
    <3>2. \A p \in Prefix : \/ Promise!Leases(p)
                            \/ owner'[p] = owner[p] /\ stage'[p] = stage[p]
      BY <1>2, <3>1 DEF Promise!Leases
    <3> QED BY <2>1, <3>2 DEF Promise!Next
  <2>5. ASSUME NEW p \in Prefix, NEW o \in Owners, NEW moves \in SUBSET Moves,
               SplitShard(p, o, moves)
        PROVE  Promise!Next
    <3>1. ASSUME NEW q \in Prefix
          PROVE  \/ Promise!Leases(q)
                 \/ /\ owner'[q] = owner[q]
                    /\ stage'[q] = stage[q] \/ Promise!Retires(q)
      <4>1. CASE q \in Known
        <5>1. /\ owner'[q] = owner[q]
              /\ \/ state'[q] = state[q]
                 \/ state[q] = "sealed" /\ state'[q] = "retired"
          BY <1>2, <2>5, <4>1, SplitDoes
        <5> QED BY <5>1 DEF Promise!Retires
      <4>2. CASE q \notin Known /\ \E m \in moves : q = Child(p, m)
        BY <2>5, <4>2 DEF SplitShard, CommitSplit, Promise!Leases, Known
      <4>3. CASE q \notin Known /\ ~\E m \in moves : q = Child(p, m)
        BY <2>5, <4>3 DEF SplitShard, CommitSplit, Leaf
      <4> QED BY <4>1, <4>2, <4>3
    <3> QED BY <2>1, <3>1 DEF Promise!Next
  <2>6. CASE UNCHANGED ledger BY <2>6 DEF ledger
  <2>7. CASE \E c \in Callers, moves \in SUBSET Moves : SplitFound(c, moves)
    <3>1. PICK c \in Callers, moves \in SUBSET Moves : SplitFound(c, moves) BY <2>7
    <3>2. leaf[c] \in Prefix /\ holding[c] \in Owners BY <1>2, <3>1, HeldIsOwner DEF SplitFound
    <3> QED BY <2>5, <2>6, <3>1, <3>2 DEF SplitFound
  <2>8. CASE \E c \in Callers : CheckFrontier(c) \/ \E p \in Prefix : LookUp(c, p)
    BY <2>6, <2>8 DEF CheckFrontier, LookUp
  <2>9. CASE \E p \in Prefix, o \in Owners, moves \in SUBSET Moves : SplitSealed(p, o, moves)
    BY <2>5, <2>9 DEF SplitSealed
  <2>10. CASE UNCHANGED shardVars BY <2>6, <2>10 DEF shardVars
  <2> QED BY <1>2, <2>2, <2>3, <2>4, <2>7, <2>8, <2>9, <2>10 DEF ShardNext
<1> QED BY <1>1, <1>2, Invariance, PTL DEF ShardSpec, KeepsLease, Promise!Spec

-----------------------------------------------------------------------------
(* Work grants: the registries *)

\* The variables the three registries are about, and their types.
RegistryType ==
  /\ pc \in {"start", "solo", "dispatch", "bundle", "rollback", "admitted", "fire", "drop",
             "end", "closing", "claim", "over", "lost"}
  /\ todo \subseteq Stages /\ hand \subseteq Stages /\ rows \subseteq Stages
  /\ keys \subseteq Stages /\ open \subseteq Stages \cup {Anchor}
  /\ engine \in [Stages -> {"idle", "written", "answered", "popped", "done"}]
  /\ fate \in [Stages \cup {Anchor} -> {"none", "settled", "released", "closed"}]

\* A stage nothing has been decided about.
Untouched(s) == engine[s] = "idle" /\ fate[s] = "none"

\* A single stage keeps its key for good; without one it is untouched.
SoloStage == \A s \in Solo \ keys : Untouched(s)

\* The dispatcher holds one admitted, untouched stage.
InDispatch ==
  pc = "dispatch" =>
    /\ \E s \in keys : hand = {s} /\ Untouched(s) /\ s \notin todo
    /\ hand \subseteq Solo \/ hand \subseteq Bundle

BeforeBundle == pc \in {"start", "solo"} \/ (pc = "dispatch" /\ hand \subseteq Solo)
Firing       == pc = "fire" \/ (pc = "dispatch" /\ hand \subseteq Bundle)

\* How far the bundle is.
BundleStage ==
  /\ BeforeBundle => /\ todo \subseteq Solo
                     /\ \A s \in Bundle : Untouched(s) /\ s \notin keys
  /\ pc \in {"start", "solo"} => hand = {}
  /\ pc = "bundle" => /\ todo \subseteq Bundle /\ hand = Bundle \ todo
                      /\ \A s \in Bundle : Untouched(s) /\ (s \in keys => s \in hand)
                      /\ hand \subseteq keys
  /\ pc = "rollback" => /\ hand \subseteq Bundle
                        /\ \A s \in Bundle : engine[s] = "idle" /\ (s \in keys => s \in hand)
  /\ pc = "admitted" => hand = Bundle /\ \A s \in Bundle : Untouched(s)
  /\ Firing => todo \subseteq Bundle /\ \A s \in todo : Untouched(s)
  /\ pc = "drop" => todo \subseteq Bundle /\ \A s \in todo : engine[s] = "idle"
  /\ Firing \/ pc \in {"admitted", "drop"} => Bundle \subseteq keys
  /\ pc \in {"end", "closing", "claim", "over", "lost"} =>
       Bundle \subseteq keys \/ Bundle \cap keys = {}

\* An open reservation of a stage is in the router's registry or a reader's hands.
OpenIsHeld ==
  /\ rows \subseteq keys /\ open \ {Anchor} \subseteq keys
  /\ \A s \in Stages : s \in open => s \in rows \/ engine[s] = "popped"
  /\ pc = "start" => Anchor \notin open
  /\ pc = "closing" => rows \subseteq hand
  /\ pc \in {"claim", "over"} => rows = {} /\ Anchor \notin open

\* The inductive invariant of the registries.
GInv == RegistryType /\ SoloStage /\ InDispatch /\ BundleStage /\ OpenIsHeld /\ WorkIsPaid

-----------------------------------------------------------------------------
(* What the ledger's operations do to the registries *)

LEMMA StageFacts == Anchor \notin Stages /\ Solo \cap Bundle = {} /\ Stages = Solo \cup Bundle
BY GrantAssumption DEF Stages

LEMMA ReserveDoes == ASSUME NEW s, Reserve(s) PROVE open' = open \cup {s}
BY DEF Reserve

LEMMA SettleDoes ==
  ASSUME NEW s, NEW a, NEW how, Settle(s, a, how)
  PROVE  s \in open /\ open' = open \ {s} /\ fate' = [fate EXCEPT ![s] = how]
BY DEF Settle

LEMMA ReleaseDoes ==
  ASSUME NEW s, Release(s)
  PROVE  /\ open' = open \ {s}
         /\ fate' = IF s \in open THEN [fate EXCEPT ![s] = "released"] ELSE fate
BY DEF Release, ledgerVars

LEMMA ReleaseGrantDoes ==
  ASSUME NEW s, ReleaseGrant(s)
  PROVE  \/ /\ rows' = rows \ {s} /\ open' = open \ {s}
            /\ fate' = IF s \in open THEN [fate EXCEPT ![s] = "released"] ELSE fate
         \/ UNCHANGED <<rows, open, fate>>
BY ReleaseDoes DEF ReleaseGrant, ledgerVars

-----------------------------------------------------------------------------
LEMMA InitGInv == Init => GInv
BY StageFacts DEF Init, GInv, RegistryType, SoloStage, InDispatch, BundleStage, OpenIsHeld,
   WorkIsPaid, Untouched, BeforeBundle, Firing


LEMMA StartKeeps == GInv /\ Start => GInv'
<1> SUFFICES ASSUME GInv, Start PROVE GInv'
  OBVIOUS
<1>1. open' \subseteq open \cup {Anchor} /\ open \subseteq open'
  BY ReserveDoes DEF Start, ledgerVars
<1> QED
  BY <1>1, StageFacts DEF Start, GInv, RegistryType, SoloStage, InDispatch, BundleStage,
     OpenIsHeld, WorkIsPaid, Untouched, BeforeBundle, Firing

LEMMA ChargeKeeps == ASSUME GInv, Charge PROVE GInv'
BY StageFacts DEF Charge, ledgerVars, claimVars, GInv, RegistryType, SoloStage, InDispatch,
   BundleStage, OpenIsHeld, WorkIsPaid, Untouched, BeforeBundle, Firing

LEMMA AdmitSoloKeeps == ASSUME NEW s \in Stages, GInv, AdmitSolo(s) PROVE GInv'
<1>1. open' = open \cup {s}
  BY ReserveDoes DEF AdmitSolo, Authorize
<1> QED
  BY <1>1, StageFacts DEF AdmitSolo, ledgerVars, claimVars, Authorize, GInv, RegistryType,
     SoloStage, InDispatch, BundleStage, OpenIsHeld, WorkIsPaid, Untouched, BeforeBundle, Firing

LEMMA DenySoloKeeps == ASSUME NEW s \in Stages, GInv, DenySolo(s) PROVE GInv'
BY StageFacts DEF DenySolo, ledgerVars, claimVars, GInv, RegistryType, SoloStage, InDispatch,
   BundleStage, OpenIsHeld, WorkIsPaid, Untouched, BeforeBundle, Firing

LEMMA AdmitMemberKeeps == ASSUME NEW s \in Stages, GInv, AdmitMember(s) PROVE GInv'
<1>1. open' = open \cup {s}
  BY ReserveDoes DEF AdmitMember, Authorize
<1> QED
  BY <1>1, StageFacts DEF AdmitMember, ledgerVars, claimVars, Authorize, GInv, RegistryType,
     SoloStage, InDispatch, BundleStage, OpenIsHeld, WorkIsPaid, Untouched, BeforeBundle, Firing

LEMMA DenyMemberKeeps == ASSUME GInv, DenyMember PROVE GInv'
BY StageFacts DEF DenyMember, ledgerVars, claimVars, GInv, RegistryType, SoloStage, InDispatch,
   BundleStage, OpenIsHeld, WorkIsPaid, Untouched, BeforeBundle, Firing

LEMMA RollbackKeeps == ASSUME NEW s \in Stages, GInv, Rollback(s) PROVE GInv'
<1>1. /\ open' = open \ {s}
      /\ fate' = IF s \in open THEN [fate EXCEPT ![s] = "released"] ELSE fate
  BY ReleaseDoes DEF Rollback
<1> QED
  BY <1>1, StageFacts DEF Rollback, ledgerVars, claimVars, GInv, RegistryType, SoloStage,
     InDispatch, BundleStage, OpenIsHeld, WorkIsPaid, Untouched, BeforeBundle, Firing

LEMMA PrepareKeeps == ASSUME GInv, Prepare PROVE GInv'
BY StageFacts DEF Prepare, ledgerVars, claimVars, GInv, RegistryType, SoloStage, InDispatch,
   BundleStage, OpenIsHeld, WorkIsPaid, Untouched, BeforeBundle, Firing

LEMMA FireKeeps == ASSUME NEW s \in Stages, GInv, Fire(s) PROVE GInv'
BY StageFacts DEF Fire, ledgerVars, claimVars, GInv, RegistryType, SoloStage, InDispatch,
   BundleStage, OpenIsHeld, WorkIsPaid, Untouched, BeforeBundle, Firing

LEMMA WithdrawKeeps == ASSUME NEW s \in Stages, GInv, Withdraw(s) PROVE GInv'
<1>1. \/ /\ rows' = rows \ {s} /\ open' = open \ {s}
         /\ fate' = IF s \in open THEN [fate EXCEPT ![s] = "released"] ELSE fate
      \/ UNCHANGED <<rows, open, fate>>
  BY ReleaseGrantDoes DEF Withdraw
<1> QED
  BY <1>1, StageFacts DEF Withdraw, After, ledgerVars, claimVars, GInv, RegistryType, SoloStage,
     InDispatch, BundleStage, OpenIsHeld, WorkIsPaid, Untouched, BeforeBundle, Firing

LEMMA WriteKeeps == ASSUME NEW s \in Stages, GInv, Write(s) PROVE GInv'
BY StageFacts DEF Write, After, ledgerVars, claimVars, GInv, RegistryType, SoloStage,
   InDispatch, BundleStage, OpenIsHeld, WorkIsPaid, Untouched, BeforeBundle, Firing

LEMMA WriteFailsKeeps == ASSUME NEW s \in Stages, GInv, WriteFails(s) PROVE GInv'
<1>1. open' = open \ {s} /\ fate' = [fate EXCEPT ![s] = "settled"]
  BY SettleDoes DEF WriteFails
<1> QED
  BY <1>1, StageFacts DEF WriteFails, After, ledgerVars, claimVars, GInv, RegistryType,
     SoloStage, InDispatch, BundleStage, OpenIsHeld, WorkIsPaid, Untouched, BeforeBundle, Firing

LEMMA DropKeeps == ASSUME NEW s \in Stages, GInv, Drop(s) PROVE GInv'
<1>1. \/ /\ rows' = rows \ {s} /\ open' = open \ {s}
         /\ fate' = IF s \in open THEN [fate EXCEPT ![s] = "released"] ELSE fate
      \/ UNCHANGED <<rows, open, fate>>
  BY ReleaseGrantDoes DEF Drop
<1> QED
  BY <1>1, StageFacts DEF Drop, ledgerVars, claimVars, GInv, RegistryType, SoloStage,
     InDispatch, BundleStage, OpenIsHeld, WorkIsPaid, Untouched, BeforeBundle, Firing

LEMMA SoloOverKeeps == ASSUME GInv, SoloOver PROVE GInv'
BY StageFacts DEF SoloOver, ledgerVars, claimVars, GInv, RegistryType, SoloStage, InDispatch,
   BundleStage, OpenIsHeld, WorkIsPaid, Untouched, BeforeBundle, Firing

LEMMA GiveUpKeeps == ASSUME NEW s \in Stages, GInv, GiveUp(s) PROVE GInv'
<1>1. \/ /\ rows' = rows \ {s} /\ open' = open \ {s}
         /\ fate' = [fate EXCEPT ![s] = "settled"]
      \/ UNCHANGED <<rows, open, fate>>
  BY SettleDoes DEF GiveUp, ledgerVars
<1> QED
  BY <1>1, StageFacts DEF GiveUp, Awaiting, Pending, ledgerVars, claimVars, GInv, RegistryType,
     SoloStage, InDispatch, BundleStage, OpenIsHeld, WorkIsPaid, Untouched, BeforeBundle, Firing

LEMMA BundleOverKeeps == ASSUME GInv, BundleOver PROVE GInv'
BY StageFacts DEF BundleOver, Awaiting, ledgerVars, claimVars, GInv, RegistryType, SoloStage,
   InDispatch, BundleStage, OpenIsHeld, WorkIsPaid, Untouched, BeforeBundle, Firing

LEMMA AbortKeeps == ASSUME GInv, Abort PROVE GInv'
BY StageFacts DEF Abort, ledgerVars, claimVars, GInv, RegistryType, SoloStage, InDispatch,
   BundleStage, OpenIsHeld, WorkIsPaid, Untouched, BeforeBundle, Firing

LEMMA EndBeginKeeps == ASSUME GInv, EndBegin PROVE GInv'
BY StageFacts DEF EndBegin, ledgerVars, claimVars, GInv, RegistryType, SoloStage, InDispatch,
   BundleStage, OpenIsHeld, WorkIsPaid, Untouched, BeforeBundle, Firing

LEMMA CloseLeftKeeps == ASSUME NEW s \in Stages, GInv, CloseLeft(s) PROVE GInv'
<1>1. \/ /\ pc' = pc /\ rows' = rows \ {s} /\ hand' = hand \ {s} /\ open' = open \ {s}
         /\ fate' = [fate EXCEPT ![s] = "closed"]
      \/ pc' = "lost" /\ UNCHANGED <<rows, hand, open, fate>>
  BY SettleDoes DEF CloseLeft, ledgerVars
<1> QED
  BY <1>1, StageFacts DEF CloseLeft, ledgerVars, claimVars, GInv, RegistryType, SoloStage,
     InDispatch, BundleStage, OpenIsHeld, WorkIsPaid, Untouched, BeforeBundle, Firing

LEMMA CloseAnchorKeeps == ASSUME GInv, CloseAnchor PROVE GInv'
<1>1. /\ open' = open \ {Anchor}
      /\ fate' = fate \/ fate' = [fate EXCEPT ![Anchor] = "settled"]
  BY SettleDoes DEF CloseAnchor, ledgerVars, Fallback
<1> QED
  BY <1>1, StageFacts DEF CloseAnchor, ledgerVars, claimVars, GInv, RegistryType, SoloStage,
     InDispatch, BundleStage, OpenIsHeld, WorkIsPaid, Untouched, BeforeBundle, Firing

LEMMA ClaimKeeps == ASSUME GInv, Claim PROVE GInv'
BY StageFacts DEF Claim, ledgerVars, claimVars, GInv, RegistryType, SoloStage, InDispatch,
   BundleStage, OpenIsHeld, WorkIsPaid, Untouched, BeforeBundle, Firing

LEMMA AnswerKeeps == ASSUME NEW s \in Stages, GInv, Answer(s) PROVE GInv'
BY StageFacts DEF Answer, ledgerVars, claimVars, GInv, RegistryType, SoloStage, InDispatch,
   BundleStage, OpenIsHeld, WorkIsPaid, Untouched, BeforeBundle, Firing

LEMMA PopKeeps == ASSUME NEW s \in Stages, GInv, Pop(s) PROVE GInv'
BY StageFacts DEF Pop, ledgerVars, claimVars, GInv, RegistryType, SoloStage, InDispatch,
   BundleStage, OpenIsHeld, WorkIsPaid, Untouched, BeforeBundle, Firing

LEMMA SettleStageKeeps == ASSUME NEW s \in Stages, GInv, SettleStage(s) PROVE GInv'
<1>1. /\ open' = open \ {s}
      /\ fate' = fate \/ fate' = [fate EXCEPT ![s] = "settled"]
  BY SettleDoes DEF SettleStage, ledgerVars
<1> QED
  BY <1>1, StageFacts DEF SettleStage, ledgerVars, claimVars, GInv, RegistryType, SoloStage,
     InDispatch, BundleStage, OpenIsHeld, WorkIsPaid, Untouched, BeforeBundle, Firing

LEMMA ExitKeeps == ASSUME NEW s \in Stages, GInv, Exit(s) PROVE GInv'
BY StageFacts DEF Exit, ledgerVars, claimVars, GInv, RegistryType, SoloStage, InDispatch,
   BundleStage, OpenIsHeld, WorkIsPaid, Untouched, BeforeBundle, Firing

LEMMA GInvStep == ASSUME GInv, [Next]_vars PROVE GInv'
<1>1. ASSUME NEW s \in Stages, Worker(s) PROVE GInv'
  BY <1>1, AdmitSoloKeeps, DenySoloKeeps, AdmitMemberKeeps, RollbackKeeps, FireKeeps,
     WithdrawKeeps, WriteKeeps, WriteFailsKeeps, DropKeeps, GiveUpKeeps, CloseLeftKeeps
     DEF Worker
<1>2. ASSUME NEW s \in Stages, Reader(s) PROVE GInv'
  BY <1>2, AnswerKeeps, PopKeeps, SettleStageKeeps, ExitKeeps DEF Reader
<1>3. CASE UNCHANGED vars
  BY <1>3 DEF vars, ledgerVars, claimVars, GInv, RegistryType, SoloStage, InDispatch,
     BundleStage, OpenIsHeld, WorkIsPaid, Untouched, BeforeBundle, Firing
<1> QED
  BY <1>1, <1>2, <1>3, StartKeeps, ChargeKeeps, DenyMemberKeeps, PrepareKeeps, SoloOverKeeps,
     BundleOverKeeps, AbortKeeps, EndBeginKeeps, CloseAnchorKeeps, ClaimKeeps DEF Next

LEMMA Registries == Spec => []GInv
BY InitGInv, GInvStep, PTL DEF Spec

\* Work an engine may have done is never released unpaid, whoever gives up first.
THEOREM PaidTheorem == Spec => []WorkIsPaid
BY Registries, PTL DEF GInv

\* A bundle is reserved as a whole or not at all, wherever the run is cut short.
THEOREM WholeTheorem == Spec => []BundleIsWhole
<1>1. ASSUME GInv PROVE BundleIsWhole
  <2>1. pc \notin {"bundle", "rollback"} => Bundle \subseteq keys \/ Bundle \cap keys = {}
    BY <1>1 DEF GInv, RegistryType, InDispatch, BundleStage, BeforeBundle, Firing
  <2> QED BY <1>1, <2>1, StageFacts DEF GInv, OpenIsHeld, BundleIsWhole
<1> QED BY <1>1, Registries, PTL

\* A closed run leaves nothing reserved but what a reader is about to settle.
THEOREM ClosedTheorem == Spec => []NothingLeftOpen
<1>1. GInv => NothingLeftOpen BY DEF GInv, OpenIsHeld, NothingLeftOpen, RegistryType
<1> QED BY <1>1, Registries, PTL

-----------------------------------------------------------------------------
(* The accounts *)

LedgerType ==
  /\ open \subseteq Stages \cup {Anchor} /\ excess \in Nat
  /\ reserved \in [Purposes -> Nat] /\ spent \in [Purposes -> Nat]
  /\ replay \in [open : SUBSET (Stages \cup {Anchor}), spent : [Purposes -> Nat], ok : BOOLEAN]

\* What the ledger keeps whoever calls it.
LInv == LedgerType /\ ReplayAgrees /\ NoOvercommit

LEMMA CostFacts ==
  ASSUME NEW s \in Stages \cup {Anchor}
  PROVE  Cost(s) \in Nat /\ Purpose(s) \in {"solver", "verify"} /\ Purpose(s) \in Purposes
BY GrantAssumption DEF Cost, Purpose, Purposes

LEMMA OneMore == ASSUME NEW c \in Nat, NEW n \in Nat PROVE c * (n + 1) = c * n + c
OBVIOUS

\* A reservation adds its cost to its own purpose.
LEMMA OpenCostAdds ==
  ASSUME NEW S \in SUBSET (Stages \cup {Anchor}), NEW s \in (Stages \cup {Anchor}) \ S,
         NEW p \in Purposes
  PROVE  /\ OpenCost(S, p) \in Nat
         /\ OpenCost(S \cup {s}, p) = OpenCost(S, p) + IF p = Purpose(s) THEN Cost(s) ELSE 0
<1> DEFINE B == S \cap Bundle
           E == S \cap Solo
<1>1. IsFiniteSet(B) /\ IsFiniteSet(E) /\ s \notin B /\ s \notin E
  <2>1. IsFiniteSet(Solo) /\ IsFiniteSet(Bundle)
    BY FS_Subset, GrantAssumption DEF Stages
  <2> QED BY <2>1, FS_Intersection
<1>2. Cardinality(B) \in Nat /\ Cardinality(E) \in Nat
  BY <1>1, FS_CardinalityType
<1>3. /\ Cardinality(B \cup {s}) = Cardinality(B) + 1
      /\ Cardinality(E \cup {s}) = Cardinality(E) + 1
  BY <1>1, FS_AddElement
<1>4. /\ MemberCost * (Cardinality(B) + 1) = MemberCost * Cardinality(B) + MemberCost
      /\ SoloCost * (Cardinality(E) + 1) = SoloCost * Cardinality(E) + SoloCost
      /\ MemberCost * Cardinality(B) \in Nat /\ SoloCost * Cardinality(E) \in Nat
  BY <1>2, OneMore, GrantAssumption
<1>5. /\ (S \cup {s}) \cap Bundle = IF s \in Bundle THEN B \cup {s} ELSE B
      /\ (S \cup {s}) \cap Solo = IF s \in Solo THEN E \cup {s} ELSE E
  OBVIOUS
<1>6. \A q \in Purposes : OpenCost(S, q) \in Nat
  BY <1>4, GrantAssumption DEF OpenCost
<1>7. CASE s = Anchor
  <2>1. s \notin Solo /\ s \notin Bundle /\ Purpose(s) = "solver" /\ Cost(s) = AnchorCost
    BY <1>7, StageFacts DEF Purpose, Cost
  <2> QED BY <1>4, <1>5, <1>7, <2>1, GrantAssumption DEF OpenCost, Purposes
<1>8. CASE s \in Bundle
  <2>1. s \notin Solo /\ s # Anchor /\ Purpose(s) = "verify" /\ Cost(s) = MemberCost
    BY <1>8, StageFacts DEF Purpose, Cost
  <2>2. OpenCost(S \cup {s}, "verify") = MemberCost * Cardinality(B) + MemberCost
    BY <1>3, <1>4, <1>5, <1>8 DEF OpenCost
  <2>3. OpenCost(S, "verify") = MemberCost * Cardinality(B)
    BY DEF OpenCost
  <2>4. \A q \in {"solver", "controller"} : OpenCost(S \cup {s}, q) = OpenCost(S, q)
    BY <1>5, <2>1 DEF OpenCost
  <2> QED BY <1>6, <2>1, <2>2, <2>3, <2>4 DEF Purposes
<1>9. CASE s \in Solo
  <2>1. s \notin Bundle /\ s # Anchor /\ Purpose(s) = "solver" /\ Cost(s) = SoloCost
    BY <1>9, StageFacts DEF Purpose, Cost
  <2> DEFINE a == IF Anchor \in S THEN AnchorCost ELSE 0
  <2>2. OpenCost(S, "solver") = SoloCost * Cardinality(E) + a
    BY DEF OpenCost
  <2>3. OpenCost(S \cup {s}, "solver") = (SoloCost * Cardinality(E) + SoloCost) + a
    <3>1. SoloCost * Cardinality((S \cup {s}) \cap Solo) = SoloCost * Cardinality(E) + SoloCost
      BY <1>3, <1>4, <1>5, <1>9
    <3>2. Anchor \in S \cup {s} <=> Anchor \in S
      BY <2>1
    <3> QED BY <3>1, <3>2 DEF OpenCost
  <2>4. a \in Nat /\ SoloCost \in Nat /\ SoloCost * Cardinality(E) \in Nat
    BY <1>4, GrantAssumption
  <2>5. OpenCost(S \cup {s}, "solver") = OpenCost(S, "solver") + SoloCost
    <3> HIDE DEF a
    <3> QED BY <2>2, <2>3, <2>4
  <2>6. \A q \in {"verify", "controller"} : OpenCost(S \cup {s}, q) = OpenCost(S, q)
    BY <1>5, <2>1 DEF OpenCost
  <2> QED BY <1>6, <2>1, <2>5, <2>6 DEF Purposes
<1> QED BY <1>6, <1>7, <1>8, <1>9, StageFacts

LEMMA InitLInv == Init => LInv
<1> SUFFICES ASSUME Init PROVE LInv
  OBVIOUS
<1>1. LedgerType BY DEF Init, LedgerType
<1>2. \A p \in Purposes : OpenCost({}, p) = 0
  <2>1. {} \cap Bundle = {} /\ {} \cap Solo = {} /\ Cardinality({}) = 0
    BY FS_EmptySet
  <2>2. MemberCost * 0 = 0 /\ SoloCost * 0 = 0
    BY GrantAssumption
  <2> QED BY <2>1, <2>2 DEF OpenCost
<1>3. ReplayAgrees BY <1>2 DEF Init, ReplayAgrees
<1>4. NoOvercommit
  BY GrantAssumption DEF Init, NoOvercommit, Committed, CommittedTo, Purposes
<1> QED BY <1>1, <1>3, <1>4 DEF LInv

\* A new reservation the ledger has room for; the replay finds the same room.
LEMMA ReserveAccounts ==
  ASSUME LInv, NEW s \in Stages \cup {Anchor}, s \notin open, CanReserve(s), Reserve(s)
  PROVE  LInv'
<1>1. Cost(s) \in Nat /\ Purpose(s) \in {"solver", "verify"} /\ Purpose(s) \in Purposes
  BY CostFacts
<1>2. \A p \in Purposes : /\ OpenCost(open, p) \in Nat
                          /\ OpenCost(open \cup {s}, p)
                             = OpenCost(open, p) + IF p = Purpose(s) THEN Cost(s) ELSE 0
  BY OpenCostAdds DEF LInv, LedgerType
<1>3. \A p \in Purposes : ReplayCommittedTo(p) = CommittedTo(p)
  BY DEF LInv, ReplayAgrees, ReplayCommittedTo, CommittedTo
<1>4. /\ open' = open \cup {s} /\ spent' = spent /\ excess' = excess
      /\ reserved' = [reserved EXCEPT ![Purpose(s)] = @ + Cost(s)]
  BY DEF Reserve
<1>5. replay'.ok /\ replay'.open = open' /\ replay'.spent = spent'
  <2>1. /\ ReplayCommittedTo(Purpose(s)) + Cost(s) <= Cap(Purpose(s))
        /\ ReplayCommittedTo("solver") + ReplayCommittedTo("verify")
           + ReplayCommittedTo("controller") + Cost(s) <= CpuMs
    BY <1>1, <1>3 DEF CanReserve, Committed, Purposes
  <2> QED BY <1>4, <2>1 DEF LInv, LedgerType, ReplayAgrees, Reserve, ReplayReserve
<1>6. LedgerType'
  <2>1. open' \subseteq Stages \cup {Anchor} /\ excess' \in Nat /\ spent' \in [Purposes -> Nat]
    BY <1>4 DEF LInv, LedgerType
  <2>2. reserved' \in [Purposes -> Nat]
    BY <1>1, <1>4 DEF LInv, LedgerType
  <2>3. replay' = [open |-> open', spent |-> spent', ok |-> TRUE]
    BY <1>5 DEF LInv, LedgerType, Reserve, ReplayReserve
  <2> QED BY <2>1, <2>2, <2>3 DEF LedgerType
<1>7. \A p \in Purposes : reserved'[p] = OpenCost(open', p)
  BY <1>1, <1>2, <1>4 DEF LInv, LedgerType, ReplayAgrees
<1>8. Committed' = Committed + Cost(s)
  BY <1>1, <1>4 DEF LInv, LedgerType, Committed, CommittedTo, Purposes
<1>9. NoOvercommit'
  <2>1. Committed \in Nat /\ excess \in Nat /\ CpuMs \in Nat
    BY GrantAssumption DEF LInv, LedgerType, Committed, CommittedTo, Purposes
  <2>2. Committed + Cost(s) <= CpuMs
    BY DEF CanReserve
  <2> QED BY <1>1, <1>4, <1>8, <2>1, <2>2 DEF NoOvercommit
<1> QED BY <1>5, <1>6, <1>7, <1>9 DEF LInv, ReplayAgrees

\* Closing a reservation at what it really used, overrun or not.
LEMMA CloseAccounts ==
  ASSUME LInv, NEW s \in open, NEW actual \in Nat,
         open' = open \ {s},
         reserved' = [reserved EXCEPT ![Purpose(s)] = Less(@, Cost(s))],
         spent' = [spent EXCEPT ![Purpose(s)] = @ + actual],
         excess' = excess + Less(actual, Cost(s)),
         ReplayClose(s, actual)
  PROVE  LInv'
<1>0. s \in Stages \cup {Anchor} /\ open \ {s} \in SUBSET (Stages \cup {Anchor})
  BY DEF LInv, LedgerType
<1>1. Cost(s) \in Nat /\ Purpose(s) \in {"solver", "verify"} /\ Purpose(s) \in Purposes
  BY <1>0, CostFacts
<1>2. \A p \in Purposes : /\ OpenCost(open \ {s}, p) \in Nat
                          /\ OpenCost(open, p)
                             = OpenCost(open \ {s}, p) + IF p = Purpose(s) THEN Cost(s) ELSE 0
  <2>1. (open \ {s}) \cup {s} = open /\ s \in (Stages \cup {Anchor}) \ (open \ {s})
    BY <1>0
  <2> DEFINE R == open \ {s}
  <2>2. \A p \in Purposes : /\ OpenCost(R, p) \in Nat
                            /\ OpenCost(R \cup {s}, p)
                               = OpenCost(R, p) + IF p = Purpose(s) THEN Cost(s) ELSE 0
    <3> R \in SUBSET (Stages \cup {Anchor}) /\ s \in (Stages \cup {Anchor}) \ R
      BY <1>0, <2>1
    <3> HIDE DEF R
    <3> QED BY OpenCostAdds
  <2> QED BY <2>1, <2>2
<1>3. reserved[Purpose(s)] >= Cost(s) /\ reserved[Purpose(s)] \in Nat
  BY <1>1, <1>2 DEF LInv, LedgerType, ReplayAgrees
<1>4. reserved' = [reserved EXCEPT ![Purpose(s)] = @ - Cost(s)]
  <2>1. Less(reserved[Purpose(s)], Cost(s)) = reserved[Purpose(s)] - Cost(s)
    BY <1>1, <1>3 DEF Less
  <2> QED BY <2>1
<1>5. Less(actual, Cost(s)) \in Nat /\ actual <= Cost(s) + Less(actual, Cost(s))
  BY <1>1 DEF Less
<1>6. replay'.ok /\ replay'.open = open' /\ replay'.spent = spent'
  BY DEF LInv, LedgerType, ReplayAgrees, ReplayClose
<1>7. LedgerType'
  <2>1. open' \subseteq Stages \cup {Anchor} /\ excess' \in Nat
    BY <1>5 DEF LInv, LedgerType
  <2>2. reserved[Purpose(s)] - Cost(s) \in Nat /\ spent[Purpose(s)] + actual \in Nat
    BY <1>1, <1>3 DEF LInv, LedgerType
  <2>3. reserved' \in [Purposes -> Nat] /\ spent' \in [Purposes -> Nat]
    BY <1>1, <1>4, <2>2 DEF LInv, LedgerType
  <2>4. replay' = [open |-> open', spent |-> spent', ok |-> TRUE]
    BY <1>6 DEF LInv, LedgerType, ReplayClose
  <2> QED BY <2>1, <2>3, <2>4 DEF LedgerType
<1>8. \A p \in Purposes : reserved'[p] = OpenCost(open', p)
  <2>1. \A p \in Purposes : /\ reserved[p] \in Nat /\ reserved[p] = OpenCost(open, p)
                            /\ reserved'[p] = reserved[p] - IF p = Purpose(s) THEN Cost(s) ELSE 0
    BY <1>1, <1>4 DEF LInv, LedgerType, ReplayAgrees
  <2>2. \A p \in Purposes : OpenCost(open', p) = OpenCost(open \ {s}, p)
    OBVIOUS
  <2>3. ASSUME NEW p \in Purposes PROVE reserved'[p] = OpenCost(open', p)
    <3>1. CASE p = Purpose(s)
      <4> DEFINE m == OpenCost(open \ {s}, p)
      <4>1. m \in Nat /\ Cost(s) \in Nat /\ reserved[p] = m + Cost(s)
        BY <1>1, <1>2, <2>1, <3>1
      <4>2. reserved'[p] = reserved[p] - Cost(s) /\ OpenCost(open', p) = m
        BY <2>1, <2>2, <3>1
      <4> HIDE DEF m
      <4> QED BY <4>1, <4>2
    <3>2. CASE p # Purpose(s)
      BY <1>1, <1>2, <2>1, <2>2, <3>2
    <3> QED BY <3>1, <3>2
  <2> QED BY <2>3
<1>9. Committed' = Committed - Cost(s) + actual
  BY <1>1, <1>3, <1>4 DEF LInv, LedgerType, Committed, CommittedTo, Purposes
<1>10. NoOvercommit'
  <2>1. Committed \in Nat /\ excess \in Nat /\ CpuMs \in Nat
    BY GrantAssumption DEF LInv, LedgerType, Committed, CommittedTo, Purposes
  <2> QED BY <1>1, <1>5, <1>9, <2>1 DEF LInv, NoOvercommit
<1> QED BY <1>6, <1>7, <1>8, <1>10 DEF LInv, ReplayAgrees

LEMMA SettleAccounts ==
  ASSUME LInv, NEW s, NEW actual \in Nat, NEW how, Settle(s, actual, how)
  PROVE  LInv'
BY CloseAccounts DEF Settle

LEMMA SameAccounts == ASSUME LInv, UNCHANGED ledgerVars PROVE LInv'
BY DEF ledgerVars, LInv, LedgerType, ReplayAgrees, NoOvercommit, Committed, CommittedTo

LEMMA ReleaseAccounts == ASSUME LInv, NEW s, Release(s) PROVE LInv'
<1>1. CASE s \notin open
  BY <1>1, SameAccounts DEF Release
<1>2. CASE s \in open
  <2>1. Cost(s) \in Nat /\ Purpose(s) \in Purposes
    BY <1>2, CostFacts DEF LInv, LedgerType
  <2>2. Less(0, Cost(s)) = 0
    BY <2>1 DEF Less
  <2>3. /\ spent' = [spent EXCEPT ![Purpose(s)] = @ + 0]
        /\ excess' = excess + Less(0, Cost(s))
    BY <1>2, <2>1, <2>2 DEF Release, LInv, LedgerType
  <2> QED BY <1>2, <2>3, CloseAccounts DEF Release
<1> QED BY <1>1, <1>2

LEMMA ChargeAccounts == ASSUME LInv, Charge PROVE LInv'
<1>1. /\ UNCHANGED <<open, reserved>> /\ excess' = excess + 1
      /\ spent' = [spent EXCEPT !["controller"] = @ + 1]
  BY DEF Charge
<1>2. LedgerType'
  BY <1>1 DEF Charge, LInv, LedgerType, Purposes
<1>3. ReplayAgrees'
  BY <1>1 DEF Charge, LInv, LedgerType, ReplayAgrees
<1>4. Committed' = Committed + 1 /\ Committed \in Nat
  BY <1>1 DEF LInv, LedgerType, Committed, CommittedTo, Purposes
<1>5. NoOvercommit'
  BY <1>1, <1>4, GrantAssumption DEF LInv, LedgerType, NoOvercommit
<1> QED BY <1>2, <1>3, <1>5 DEF LInv

LEMMA LInvStep == ASSUME GInv, LInv, [Next]_vars PROVE LInv'
<1>1. ASSUME NEW s \in Stages, Worker(s) PROVE LInv'
  <2>1. ASSUME Authorize(s) PROVE LInv'
    <3>1. s \notin open
      BY <2>1, StageFacts DEF GInv, OpenIsHeld, Authorize
    <3> QED BY <2>1, <3>1, ReserveAccounts DEF Authorize
  <2>2. ASSUME ReleaseGrant(s) PROVE LInv'
    BY <2>2, ReleaseAccounts, SameAccounts DEF ReleaseGrant
  <2>3. CASE AdmitSolo(s) \/ AdmitMember(s)
    BY <2>1, <2>3 DEF AdmitSolo, AdmitMember
  <2>4. CASE Withdraw(s) \/ Drop(s)
    BY <2>2, <2>4 DEF Withdraw, Drop
  <2>5. CASE WriteFails(s) \/ CloseLeft(s)
    BY <2>5, SettleAccounts, SameAccounts, CostFacts DEF WriteFails, CloseLeft
  <2>6. CASE GiveUp(s)
    BY <2>6, SettleAccounts, SameAccounts, GrantAssumption DEF GiveUp
  <2>7. CASE Rollback(s)
    BY <2>7, ReleaseAccounts DEF Rollback
  <2>8. CASE DenySolo(s) \/ Fire(s) \/ Write(s)
    BY <2>8, SameAccounts DEF DenySolo, Fire, Write
  <2> QED BY <1>1, <2>3, <2>4, <2>5, <2>6, <2>7, <2>8 DEF Worker
<1>2. ASSUME NEW s \in Stages, Reader(s) PROVE LInv'
  BY <1>2, SettleAccounts, SameAccounts, GrantAssumption
     DEF Reader, Answer, Pop, SettleStage, Exit
<1>3. CASE Start
  <2>1. Anchor \notin open
    BY <1>3 DEF Start, GInv, OpenIsHeld
  <2> QED BY <1>3, <2>1, ReserveAccounts, SameAccounts DEF Start
<1>4. CASE CloseAnchor
  BY <1>4, SettleAccounts, SameAccounts, GrantAssumption DEF CloseAnchor
<1>5. CASE \/ DenyMember \/ Prepare \/ SoloOver \/ BundleOver \/ Abort \/ EndBegin \/ Claim
  BY <1>5, SameAccounts DEF DenyMember, Prepare, SoloOver, BundleOver, Abort, EndBegin, Claim
<1>6. CASE UNCHANGED vars
  BY <1>6, SameAccounts DEF vars
<1> QED
  BY <1>1, <1>2, <1>3, <1>4, <1>5, <1>6, ChargeAccounts DEF Next

LEMMA Accounts == Spec => [](GInv /\ LInv)
BY InitGInv, InitLInv, GInvStep, LInvStep, PTL DEF Spec

\* The journal alone reproduces the accounts, whatever the interleaving of the readers'
\* settlements with the worker's reservations.
THEOREM ReplayTheorem == Spec => []ReplayAgrees
BY Accounts, PTL DEF LInv

\* Reservations made together never go beyond the envelope.
THEOREM CommitTheorem == Spec => []NoOvercommit
BY Accounts, PTL DEF LInv

\* What neither of the two invariants is about.
RestType == held \subseteq Stages /\ inFlight \subseteq Stages /\ {unresolved, claimed} \subseteq BOOLEAN

LEMMA RestStep == ASSUME GInv, RestType, [Next]_vars PROVE RestType'
<1>1. ASSUME NEW s \in Stages, Worker(s) PROVE RestType'
  BY <1>1 DEF Worker, AdmitSolo, DenySolo, AdmitMember, Rollback, Fire, Withdraw, ReleaseGrant,
     Write, WriteFails, Drop, GiveUp, CloseLeft, RestType, claimVars
<1>2. ASSUME NEW s \in Stages, Reader(s) PROVE RestType'
  BY <1>2 DEF Reader, Answer, Pop, SettleStage, Exit, RestType, claimVars
<1>3. CASE Claim
  BY <1>3 DEF Claim, RestType
<1>4. CASE \/ Start \/ Charge \/ DenyMember \/ Prepare \/ SoloOver \/ BundleOver \/ Abort
           \/ EndBegin \/ CloseAnchor \/ UNCHANGED vars
  BY <1>4 DEF GInv, RegistryType, Start, Charge, DenyMember, Prepare, SoloOver, BundleOver,
     Abort, EndBegin, CloseAnchor, vars, RestType, claimVars
<1> QED BY <1>1, <1>2, <1>3, <1>4 DEF Next

\* Every variable keeps its type.
THEOREM TypeTheorem == Spec => []TypeOK
<1>1. Init => RestType
  BY DEF Init, RestType
<1>2. GInv /\ LInv /\ RestType => TypeOK
  BY DEF GInv, RegistryType, LInv, LedgerType, RestType, TypeOK
<1> QED BY <1>1, <1>2, Registries, Accounts, RestStep, PTL DEF Spec

-----------------------------------------------------------------------------
(* The claim *)

\* An admitted stage is reserved until its fate is decided, only admitted stages
\* are searched, and a close for want of evidence latches.
Booked ==
  /\ \A s \in keys : s \in open \/ fate[s] # "none"
  /\ \A s \in Stages : engine[s] # "idle" => s \in keys
  /\ \A s \in Stages : fate[s] = "closed" => unresolved

\* What the claim says of the ledger, and who may still touch the ledger after it.
Claimed ==
  /\ claimed => pc = "over"
  /\ pc = "over" => \A s \in Stages : engine[s] = "popped" => s \in inFlight
  /\ claimed /\ inFlight = {} => ~unresolved /\ Committed <= CpuMs /\ WithinCaps

LEMMA AuthorizeBooks ==
  ASSUME NEW s \in Stages, GInv, Booked, Authorize(s), UNCHANGED <<engine, fate, unresolved>>
  PROVE  Booked'
<1>1. open' = open \cup {s} /\ keys' = keys \cup {s}
  BY ReserveDoes DEF Authorize
<1> QED BY <1>1 DEF Booked

\* A stage that leaves the ledger has a fate, and "closed" is noted.
LEMMA ClosingBooks ==
  ASSUME NEW s \in Stages, NEW how \in {"settled", "released", "closed"}, GInv, Booked,
         open' = open \ {s}, fate' = IF s \in open THEN [fate EXCEPT ![s] = how] ELSE fate,
         keys' \subseteq keys, unresolved => unresolved', how = "closed" => unresolved',
         \A r \in Stages : engine'[r] # "idle" => r \in keys'
  PROVE  Booked'
BY DEF Booked, GInv, RegistryType

\* Nothing moves but the worker and the engine of a keyed stage.
LEMMA IdleBooks ==
  ASSUME Booked, UNCHANGED <<keys, open, fate, unresolved>>,
         \A r \in Stages : engine'[r] # "idle" => engine[r] # "idle" \/ r \in keys
  PROVE  Booked'
BY DEF Booked

LEMMA BookedStep == ASSUME GInv, Booked, [Next]_vars PROVE Booked'
<1>1. ASSUME NEW s \in Stages, Worker(s) PROVE Booked'
  <2>1. CASE AdmitSolo(s) \/ AdmitMember(s)
    BY <2>1, AuthorizeBooks DEF AdmitSolo, AdmitMember
  <2>2. CASE Rollback(s)
    <3>1. \A r \in Stages : engine'[r] # "idle" => r \in keys'
      BY <2>2 DEF Rollback, Booked, GInv, BundleStage
    <3> QED BY <2>2, <3>1, ReleaseDoes, ClosingBooks DEF Rollback
  <2>3. CASE Withdraw(s) \/ Drop(s)
    <3>1. UNCHANGED <<keys, engine, unresolved>>
      BY <2>3 DEF Withdraw, Drop
    <3>2. CASE UNCHANGED <<open, fate>>
      BY <3>1, <3>2, IdleBooks DEF Booked
    <3>3. CASE /\ open' = open \ {s}
               /\ fate' = IF s \in open THEN [fate EXCEPT ![s] = "released"] ELSE fate
      BY <3>1, <3>3, ClosingBooks DEF Booked
    <3> QED BY <2>3, <3>2, <3>3, ReleaseGrantDoes DEF Withdraw, Drop
  <2>4. CASE WriteFails(s)
    <3>1. s \in keys
      BY <2>4 DEF WriteFails, GInv, InDispatch
    <3>2. \A r \in Stages : engine'[r] # "idle" => r \in keys'
      BY <2>4, <3>1 DEF WriteFails, Booked, GInv, RegistryType
    <3> QED BY <2>4, <3>2, SettleDoes, ClosingBooks DEF WriteFails
  <2>5. CASE GiveUp(s)
    <3>1. UNCHANGED <<keys, engine, unresolved>>
      BY <2>5 DEF GiveUp
    <3>2. \/ UNCHANGED <<open, fate>>
          \/ s \in open /\ open' = open \ {s} /\ fate' = [fate EXCEPT ![s] = "settled"]
      BY <2>5, SettleDoes DEF GiveUp, ledgerVars
    <3> QED BY <3>1, <3>2, IdleBooks, ClosingBooks DEF Booked
  <2>6. CASE CloseLeft(s)
    <3>1. UNCHANGED <<keys, engine>>
      BY <2>6 DEF CloseLeft
    <3>2. \/ UNCHANGED <<open, fate, unresolved>>
          \/ /\ s \in open /\ open' = open \ {s} /\ fate' = [fate EXCEPT ![s] = "closed"]
             /\ unresolved'
      BY <2>6, SettleDoes DEF CloseLeft, ledgerVars
    <3> QED BY <3>1, <3>2, IdleBooks, ClosingBooks DEF Booked
  <2>7. CASE DenySolo(s) \/ Fire(s)
    BY <2>7, IdleBooks DEF DenySolo, Fire, ledgerVars
  <2>8. CASE Write(s)
    <3>1. s \in keys
      BY <2>8 DEF Write, GInv, InDispatch
    <3> QED BY <2>8, <3>1, IdleBooks DEF Write, GInv, RegistryType, ledgerVars
  <2> QED BY <1>1, <2>1, <2>2, <2>3, <2>4, <2>5, <2>6, <2>7, <2>8 DEF Worker
<1>2. ASSUME NEW s \in Stages, Reader(s) PROVE Booked'
  <2>1. /\ UNCHANGED <<keys, unresolved>>
        /\ \A r \in Stages : engine'[r] # "idle" => engine[r] # "idle"
    BY <1>2 DEF Reader, Answer, Pop, SettleStage, Exit, GInv, RegistryType
  <2>2. \/ UNCHANGED <<open, fate>>
        \/ s \in open /\ open' = open \ {s} /\ fate' = [fate EXCEPT ![s] = "settled"]
    BY <1>2, SettleDoes DEF Reader, Answer, Pop, SettleStage, Exit, ledgerVars
  <2> QED BY <2>1, <2>2, IdleBooks, ClosingBooks DEF Booked
<1>3. CASE Start \/ CloseAnchor
  <2>1. /\ UNCHANGED <<keys, unresolved, engine>>
        /\ \A r \in Stages : r \in open => r \in open'
        /\ \A r \in Stages : fate'[r] = fate[r]
    BY <1>3, ReserveDoes, SettleDoes, StageFacts
       DEF Start, CloseAnchor, ledgerVars, GInv, RegistryType
  <2> QED BY <2>1 DEF Booked, GInv, RegistryType
<1>4. CASE \/ Charge \/ DenyMember \/ Prepare \/ SoloOver \/ BundleOver \/ Abort \/ EndBegin
           \/ Claim \/ UNCHANGED vars
  BY <1>4, IdleBooks DEF Charge, DenyMember, Prepare, SoloOver, BundleOver, Abort, EndBegin,
     Claim, vars, ledgerVars
<1> QED BY <1>1, <1>2, <1>3, <1>4 DEF Next

LEMMA SameSums == ASSUME UNCHANGED <<reserved, spent>>
                  PROVE  UNCHANGED <<Committed, WithinCaps>>
BY DEF Committed, WithinCaps, CommittedTo

\* Once the claim is made only readers move, and only those noted with it reach
\* the ledger.
LEMMA ClaimedStep == ASSUME GInv, RestType, Claimed, [Next]_vars PROVE Claimed'
<1>1. CASE pc # "over" /\ pc' # "over" /\ UNCHANGED claimed
  BY <1>1 DEF Claimed
<1>2. CASE Claim
  <2>1. /\ pc' = "over" /\ UNCHANGED <<unresolved, reserved, spent, engine>>
        /\ inFlight' = {s \in Stages : engine[s] = "popped"}
        /\ claimed' => ~unresolved /\ Committed <= CpuMs /\ WithinCaps
    BY <1>2 DEF Claim, ledgerVars
  <2> QED BY <2>1, SameSums DEF Claimed
<1>3. ASSUME NEW s \in Stages, Reader(s), pc = "over" PROVE Claimed'
  <2>1. UNCHANGED <<pc, claimed, inFlight, unresolved>> /\ rows = {}
    BY <1>3 DEF Reader, Answer, Pop, SettleStage, Exit, claimVars, GInv, OpenIsHeld
  <2>2. \A r \in Stages : engine'[r] = "popped" => engine[r] = "popped"
    BY <1>3, <2>1 DEF Reader, Answer, Pop, SettleStage, Exit, GInv, RegistryType
  <2>3. inFlight = {} => UNCHANGED <<reserved, spent>>
    BY <1>3 DEF Reader, Answer, Pop, SettleStage, Exit, ledgerVars, Claimed
  <2> QED BY <1>3, <2>1, <2>2, <2>3, SameSums DEF Claimed
<1>4. CASE UNCHANGED vars
  BY <1>4, SameSums DEF vars, ledgerVars, claimVars, Claimed
<1>5. ASSUME NEW s \in Stages, Worker(s) PROVE pc # "over" /\ pc' # "over" /\ UNCHANGED claimed
  BY <1>5 DEF Worker, AdmitSolo, DenySolo, AdmitMember, Rollback, Fire, Withdraw, After, Write,
     WriteFails, Drop, GiveUp, Awaiting, CloseLeft, claimVars
<1>6. ASSUME \/ Start \/ Charge \/ DenyMember \/ Prepare \/ SoloOver \/ BundleOver \/ Abort
             \/ EndBegin \/ CloseAnchor
      PROVE  pc # "over" /\ pc' # "over" /\ UNCHANGED claimed
  BY <1>6 DEF Start, Charge, DenyMember, Prepare, SoloOver, BundleOver, Awaiting, Abort,
     EndBegin, CloseAnchor, claimVars
<1>7. ASSUME NEW s \in Stages, Reader(s) PROVE UNCHANGED <<pc, claimed>>
  BY <1>7 DEF Reader, Answer, Pop, SettleStage, Exit, claimVars
<1> QED BY <1>1, <1>2, <1>3, <1>4, <1>5, <1>6, <1>7 DEF Next

\* A claimed envelope is within every cap for good, with every search settled, if
\* no settlement was on its way when it was claimed.
THEOREM ClaimTheorem == Spec => []ClaimIsBacked
<1>1. Init => Booked /\ Claimed /\ RestType
  BY StageFacts DEF Init, Booked, Claimed, RestType
<1>2. ASSUME GInv, Booked, Claimed PROVE ClaimIsBacked
  <2> SUFFICES ASSUME claimed, inFlight = {}
               PROVE  /\ open = {} /\ Committed <= CpuMs /\ WithinCaps
                      /\ \A s \in Stages : engine[s] # "idle" => fate[s] = "settled"
    BY DEF ClaimIsBacked
  <2>1. pc = "over" /\ ~unresolved /\ Committed <= CpuMs /\ WithinCaps
    BY <1>2 DEF Claimed
  <2>2. open = {}
    BY <1>2, <2>1 DEF Claimed, GInv, OpenIsHeld, RegistryType
  <2>3. ASSUME NEW s \in Stages, engine[s] # "idle" PROVE fate[s] = "settled"
    BY <1>2, <2>1, <2>2, <2>3 DEF Booked, GInv, RegistryType, WorkIsPaid
  <2> QED BY <2>1, <2>2, <2>3
<1>3. GInv /\ RestType /\ Booked /\ Claimed /\ [Next]_vars
        => RestType' /\ Booked' /\ Claimed'
  BY RestStep, BookedStep, ClaimedStep
<1> QED BY <1>1, <1>2, <1>3, Registries, PTL DEF Spec
=============================================================================
