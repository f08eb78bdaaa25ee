------------------------------ MODULE MCDrain ------------------------------
(***************************************************************************)
(* Drain on small clusters: two nodes, two or three pods, and the plan     *)
(* specs a run lets users choose from.                                     *)
(***************************************************************************)
EXTENDS Drain, TLC

CONSTANTS n1, n2, x1, x2, x3, x4

\* One pod on each node, two on one node, two on each.
OneEach == (x1 :> n1) @@ (x2 :> n2)
BothOnN1 == (x1 :> n1) @@ (x2 :> n1)
TwoEach == (x1 :> n1) @@ (x2 :> n2) @@ (x3 :> n2) @@ (x4 :> n1)

AllControlled == [x \in Pods |-> {"controlled"}]
\* A replica, a DaemonSet's pod, a pod with data and no controller, a mirror pod.
AllKinds == (x1 :> {"controlled"}) @@ (x2 :> {"daemonSet", "controlled"})
                @@ (x3 :> {"emptyDir"}) @@ (x4 :> {"mirror", "controlled"})

Defaults == [ignoreDaemonSets |-> TRUE, deleteEmptyDirData |-> FALSE,
             force |-> FALSE, respectPDB |-> TRUE, maxParallel |-> 1]
DrainSpec(nodes, timeout) ==
    [nodes |-> nodes, drain |-> TRUE, timeout |-> timeout, opts |-> Defaults]

\* Drain both nodes, without and with a timeout.
DrainBoth == {DrainSpec({n1, n2}, 0)}
DrainBothTimeout == {DrainSpec({n1, n2}, 1)}
DrainOne == {DrainSpec({n1}, 0)}
DrainOneTimeout == {DrainSpec({n1}, 1)}
\* Users add and remove a node and change the options: evict everything, or stop
\* at the pods of DaemonSets.
AnyOptions ==
    {DrainSpec({n1}, 0),
     [DrainSpec({n1, n2}, 0) EXCEPT !.opts =
         [@ EXCEPT !.force = TRUE, !.deleteEmptyDirData = TRUE,
                   !.respectPDB = FALSE, !.maxParallel = 2]],
     [DrainSpec({n1, n2}, 0) EXCEPT !.opts =
         [@ EXCEPT !.force = TRUE, !.ignoreDaemonSets = FALSE]]}
\* Users switch the drain off and add a node.
DrainOnOff == {DrainSpec({n1}, 0), [DrainSpec({n1, n2}, 0) EXCEPT !.drain = FALSE]}
=============================================================================
