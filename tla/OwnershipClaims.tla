-------------------------- MODULE OwnershipClaims ---------------------------
(***************************************************************************)
(* What the documents say about the ownership of nodes and the code does   *)
(* not do.  Every property below quotes the sentence it states, names the  *)
(* code that disagrees, and is violated under the configuration that       *)
(* checks it.                                                              *)
(***************************************************************************)
EXTENDS MCOwnership

\* docs/architecture.md: "Two plans cannot own the same node - the second plan
\* to reconcile detects the annotation".  AdoptNode patches unconditionally.
NoStealing ==
    [][\A n \in Nodes :
          node[n].owner # NoPlan /\ node'[n].owner # NoPlan
              => node'[n].owner = node[n].owner]_vars

\* docs/drift-handling.md on ExternalCordon: "Retains ownership - does not
\* uncordon.  Does not interfere with the external cordon."  UncordonNode, as
\* CleanUp and the release loop call it, does not ask who cordoned the node.
ExternalCordonKept ==
    [][OperatorStep =>
        \A n \in Nodes :
            node[n].unschedulable /\ ~node[n].cordoned => node'[n].unschedulable]_vars

\* docs/drift-handling.md on ExternalCordon: "When the external actor uncordons
\* the node, drift clears automatically on the next reconcile."
\* buildNodeStatuses carries the recorded drift forward for ever.
ExternalCordonDriftClears ==
    <>[](\A n \in Nodes, p \in Plans :
            node[n].owner = p /\ ~node[n].unschedulable
                => plan[p].status[n].drift # "ExternalCordon")

\* docs/maintenance-lifecycle.md: when a node is removed from spec.nodes "the
\* operator detects the change on the next reconcile and releases that node".
\* The release loop is behind the schedule gate: a complete pass over the
\* current spec leaves the node owned while cordon.startAt is in the future.
RemovedNodeReleasedByPass ==
    [][\A p \in Plans :
          CordonDone(p) /\ pc'[p] = "idle" /\ faults' = faults
            /\ work[p].all = plan[p].spec.nodes
              => \A n \in Nodes : node[n].owner = p => n \in work[p].all]_vars
=============================================================================
