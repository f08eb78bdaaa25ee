-------------------------- MODULE MembershipClaims --------------------------
(***************************************************************************)
(* What the documents and comments say about selection, admission and      *)
(* metrics and the code does not do.  Every property below quotes the      *)
(* sentence it states, names the code that disagrees, and is violated      *)
(* under the configuration that checks it.                                 *)
(***************************************************************************)
EXTENDS MCMembership

\* docs/maintenance-lifecycle.md:113: "If all nodes were already released
\* individually, the finalizer is a no-op and deletion is immediate."  The patch
\* that removes the finalizer is an UPDATE of the plan: the webhook reviews it
\* and denies it while a listed node is no longer in the cluster.
DeletedPlansVanish ==
    \A p \in Plans : plan[p].deleting ~> ~plan[p].present

\* docs/api-reference.md:84 on resolvedNodes: "Populated once and never
\* updated."  A second pass that reads the plan before the informer delivers
\* the first snapshot takes another one.
SnapshotPopulatedOnce ==
    [][\A p \in Plans :
          plan[p].present /\ plan[p].snapshot /\ plan'[p].present
              => plan'[p].resolved = plan[p].resolved]_vars

\* internal/maintenance/ownership.go:33 on Conflicting: "This should be empty if
\* admission controller is working correctly".  The webhook asks for the owner
\* of a listed node, which a plan becomes only in its first pass.
NoConflict ==
    \A p \in Plans : pc[p] = "resolve" =>
        \A n \in Desired(planCopy[p]) : node[n].owner \in {p, NoPlan}

\* docs/architecture.md:52: "Subsequent reconciles use the snapshot, not a live
\* label query."  The watch does not: the event of a snapshot node that comes
\* back without the label is not mapped to the plan, and the node stays free.
SnapshotNodesKept ==
    <>[](\A p \in Plans :
            plan[p].present /\ plan[p].finalizer /\ plan[p].snapshot
                => \A n \in Desired(plan[p]) : node[n].owner # NoPlan)

\* internal/metrics/metrics.go:142: "DeletePlan removes all metric series
\* associated with a plan that is being deleted."  The series of a node that
\* left the plan's status before stay in the registry.
NoGhostNodeSeries ==
    \A p \in Plans : ~plan[p].present /\ pc[p] = "idle" => series[p].nodes = {}
=============================================================================
