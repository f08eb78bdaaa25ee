------------------------------- MODULE Lease -------------------------------
(***************************************************************************)
(* What the operator promises about the ownership of nodes: a node is held *)
(* by at most one plan, only a plan that is protected by its finalizer     *)
(* takes nodes, and a plan loses that protection only when it holds none.  *)
(* How the plans, the passes, the caches and the users bring this about is *)
(* left to the modules that implement it.                                  *)
(***************************************************************************)

CONSTANTS
    Nodes,   \* the cluster's nodes
    Plans,   \* the names of the plans
    NoPlan   \* the holder of a free node

VARIABLES
    holder,     \* per node, the plan that holds it
    protected   \* the plans that cannot vanish without a clean-up

leaseVars == <<holder, protected>>

Init ==
    /\ holder = [n \in Nodes |-> NoPlan]
    /\ protected = {}

\* A plan gets its finalizer.
Protect(p) ==
    /\ protected' = protected \union {p}
    /\ UNCHANGED holder

\* A protected plan takes a node.  It may take it from another plan: adoption
\* has no precondition, and the last of two plans that race for a node wins.
Claim(p, n) ==
    /\ p \in protected
    /\ holder' = [holder EXCEPT ![n] = p]
    /\ UNCHANGED protected

\* A node becomes free, or leaves the cluster.
Free(n) ==
    /\ holder' = [holder EXCEPT ![n] = NoPlan]
    /\ UNCHANGED protected

\* A plan that holds nothing gives up its finalizer, and may be gone for good.
Retire(p) ==
    /\ \A n \in Nodes : holder[n] # p
    /\ protected' = protected \ {p}
    /\ UNCHANGED holder

Next ==
    \/ \E p \in Plans : Protect(p) \/ Retire(p)
    \/ \E n \in Nodes : Free(n)
    \/ \E p \in Plans, n \in Nodes : Claim(p, n)

Spec == Init /\ [][Next]_leaseVars
=============================================================================
