------------------------------ MODULE UciAnswer ------------------------------
(***************************************************************************)
(* What the ONLINE shell promises the GUI, without threads, locks or       *)
(* clocks.  A request is opened, and then numbered 1, 2, ..., or refused   *)
(* with a null move of its own.  Only the newest opened request can be     *)
(* answered, once; the next one is opened, or refused, only after it has   *)
(* been answered by a move.  So a refusal is never taken for the answer of *)
(* a running request, and the null move that answers an opened request is  *)
(* the last line of a session.                                             *)
(***************************************************************************)
EXTENDS Naturals

CONSTANTS
    MaxGen,     \* bound: requests opened in one session
    MaxRefused  \* bound: requests refused in one session

Lines == {"none", "anchor", "hybrid", "null"}

VARIABLES opened, answer, refused
avars == <<opened, answer, refused>>

Init == opened = 0 /\ answer = [g \in 1 .. MaxGen |-> "none"] /\ refused = 0

\* No request is running and none was answered by a null move.
Idle == opened # 0 => answer[opened] \in {"anchor", "hybrid"}

Open ==
    /\ Idle /\ opened < MaxGen
    /\ opened' = opened + 1
    /\ UNCHANGED <<answer, refused>>

Refuse ==
    /\ Idle /\ refused < MaxRefused
    /\ refused' = refused + 1
    /\ UNCHANGED <<opened, answer>>

Reply(l) ==
    /\ opened # 0 /\ answer[opened] = "none"
    /\ answer' = [answer EXCEPT ![opened] = l]
    /\ UNCHANGED <<opened, refused>>

Next == Open \/ Refuse \/ \E l \in Lines \ {"none"} : Reply(l)

Spec == Init /\ [][Next]_avars
=============================================================================
