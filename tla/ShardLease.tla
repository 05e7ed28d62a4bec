----------------------------- MODULE ShardLease -----------------------------
(***************************************************************************)
(* What the shard ledger promises of a region of the search space: it is   *)
(* granted to one owner, changes hands only while it is merely leased, and *)
(* its life runs one way, a stage at a time.  An owner that was told to    *)
(* search a region therefore holds it until the region is sealed.          *)
(***************************************************************************)
CONSTANTS Units,    \* the regions
          Owners, NoOwner

VARIABLES holder,   \* who owns each region
          stage     \* how far its life has come

Stages == {"unassigned", "leased", "active", "sealed", "retired"}

Init ==
    /\ holder = [u \in Units |-> NoOwner]
    /\ stage  = [u \in Units |-> "unassigned"]

\* A region is granted or, before it is dispatched, handed on.
Leases(u)    == stage[u] \in {"unassigned", "leased"} /\ stage'[u] = "leased"
                /\ holder'[u] \in Owners
Activates(u) == stage[u] = "leased" /\ stage'[u] = "active"
Seals(u)     == stage[u] = "active" /\ stage'[u] = "sealed"
Retires(u)   == stage[u] = "sealed" /\ stage'[u] = "retired"

\* Any number of regions advance together.
Next ==
    /\ holder' \in [Units -> Owners \cup {NoOwner}]
    /\ stage'  \in [Units -> Stages]
    /\ \A u \in Units :
          \/ Leases(u)
          \/ /\ holder'[u] = holder[u]
             /\ stage'[u] = stage[u] \/ Activates(u) \/ Seals(u) \/ Retires(u)

Spec == Init /\ [][Next]_<<holder, stage>>
=============================================================================
