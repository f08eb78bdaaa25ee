---------------------------- MODULE DrainClaims -----------------------------
(***************************************************************************)
(* What the documents say about the drain and the code does not do.  Every *)
(* property below quotes the sentence it states, names the code that       *)
(* disagrees, and is violated under the configuration that checks it.      *)
(***************************************************************************)
EXTENDS MCDrain

\* docs/architecture.md: "Drain slots (`maxParallel`) are tracked by counting how
\* many nodes currently have evictions in progress."  The semaphore of drainNodes
\* is free again when the requests are sent.
MaxParallelNodesEvicting ==
    Cardinality({Home[x] : x \in {y \in Pods : pod[y].deletedAt # 0}})
        <= plan.spec.opts.maxParallel

\* docs/events-and-conditions.md on DrainInProgress: "Pod evictions are in flight
\* or terminating pods have not yet been removed."  A node with a blocked pod
\* does not count its evictions of this pass as in flight.
InProgressWhileEvicting ==
    [][pc = "drain" /\ pc' = "idle" /\ plan' # plan /\ ~plan'.conditions.timedOut
            /\ (\E n \in Nodes : worker[n].evicted > 0)
          => plan'.conditions.inProgress]_vars

\* The same sentence, read the other way: DrainInProgress does not outlive the
\* evictions.  The conditions are only set by a pass that has a node to drain.
InProgressClears ==
    <>[](plan.conditions.inProgress => \E x \in Pods : pod[x].deletedAt # 0)

\* docs/maintenance-lifecycle.md: "If `drain.timeoutMinutes` is set and drain does
\* not complete in time, the plan moves to `TimedOut`."  The deadline branch
\* neither recomputes the phase nor requeues.
PhaseFollowsTimeout ==
    <>[](plan.conditions.timedOut => plan.phase = "TimedOut")

\* docs/api-reference.md on allNodesReadyForMaintenance: "`true` when every
\* managed node has `ReadyForMaintenance=true`."  It is only recomputed by a pass
\* that has a node to drain.
AllReadyAccurate ==
    <>[](plan.allReady => \A n \in Listed(plan.nodes) : plan.nodes[n].ready)

\* docs/maintenance-lifecycle.md: "if some nodes are draining and others are
\* blocked, the phase is `Draining`".  computePhase tests DrainBlocked first.
DrainingBeforeBlocked ==
    plan.phase = "Blocked" => ~plan.conditions.inProgress

\* docs/api-reference.md on blockedNodeCount: "count of nodes with at least one
\* pod blocking drain".  Only nodes with nothing but blocked pods are counted,
\* and pods blocked by a PodDisruptionBudget not at all.
BlockedNodesCounted ==
    [][pc = "drain" /\ pc' = "idle" /\ plan' # plan /\ ~plan'.conditions.timedOut
          => plan'.blockedCount >=
                Cardinality({n \in Nodes : Outcome(worker[n]) = "blocked"})]_vars

\* docs/api-reference.md on drainProgress: "Drain completion percentage (0-100)."
\* When listing the pods fails, the empty outcome is written as 100 percent.
ProgressIsHonest ==
    [][\A n \in Nodes :
          plan.nodes[n].progress < 100 /\ plan'.nodes[n].progress = 100
              => Drained(n)]_vars
=============================================================================
