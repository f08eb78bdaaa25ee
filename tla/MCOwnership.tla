---------------------------- MODULE MCOwnership ----------------------------
(***************************************************************************)
(* Small instances of Ownership for TLC: the sets of plan specs between    *)
(* which users choose in the runs.                                         *)
(***************************************************************************)
EXTENDS Ownership

Spec1(ns, cordon, at, drain) ==
    [nodes |-> ns, cordon |-> cordon, startAt |-> at, drain |-> drain,
     drainAt |-> 0]

\* One spec: all nodes, cordoned at once, drained.
CordonAndDrain == {Spec1(Nodes, TRUE, 0, TRUE)}

\* Every node list, cordoned at once.
CordonNow == {Spec1(ns, TRUE, 0, FALSE) : ns \in SUBSET Nodes}

\* Every node list, cordoned from time 1, drained from time 2 on.
CordonLater == {[Spec1(ns, TRUE, 1, TRUE) EXCEPT !.drainAt = 2] : ns \in SUBSET Nodes}

\* All nodes or none, with and without a cordon.
CordonOnOff == {Spec1(Nodes, c, 0, FALSE) : c \in BOOLEAN}

\* All nodes, no cordon, or a cordon from time 1 on.
CordonOffOrLater == {Spec1(Nodes, FALSE, 0, FALSE), Spec1(Nodes, TRUE, 1, FALSE)}

\* The nodes listed or not, each with a cordon now, later, or none.
AnySpec == {s \in {Spec1(ns, c, at, d) : ns \in {{}, Nodes}, c \in BOOLEAN,
                                         at \in {0, 1}, d \in BOOLEAN} :
                /\ s.drain => s.cordon
                /\ s.startAt # 0 => s.cordon}
=============================================================================
