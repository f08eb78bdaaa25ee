---------------------------- MODULE MCMembership ----------------------------
(***************************************************************************)
(* Membership on two nodes and one label: the plan specs between which    *)
(* users choose in the runs.                                               *)
(***************************************************************************)
EXTENDS Membership

CONSTANTS n1, n2, p1, p2, la

Explicit(ns) == [nodes |-> ns, selector |-> {}]
Selecting(ls) == [nodes |-> {}, selector |-> ls]

\* A list of one node, or the nodes with one label.
ListOrSelector == {Explicit({n1}), Selecting({la})}

\* All nodes, listed.
ListAll == {Explicit(Nodes)}

\* The nodes with the label.
SelectorOnly == {Selecting({la})}
=============================================================================
