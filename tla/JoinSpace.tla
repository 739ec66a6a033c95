------------------------------ MODULE JoinSpace ------------------------------
(***************************************************************************)
(* What the join space of an AddrSpaceManager promises (translate.cc,     *)
(* findAddJoin/findJoin): every distinct list of pieces with a unified    *)
(* size is given a join address once, keeps it, and no two share one, so *)
(* that the address names its pieces.  joins maps each key handed out to *)
(* its offset in the join space.                                           *)
(***************************************************************************)
EXTENDS Functions

VARIABLE joins

\* A key is given the first time it is asked for, at an offset no other key has.
AddJoin(k) ==
    /\ k \notin DOMAIN joins
    /\ DOMAIN joins' = DOMAIN joins \cup {k}
    /\ \A j \in DOMAIN joins : joins'[j] = joins[j]
    /\ joins'[k] \notin Range(joins)

Init == joins = [k \in {} |-> 0]

Next == \E k \in DOMAIN joins' : AddJoin(k)

Spec == Init /\ [][Next]_joins

=============================================================================
