---------------------------- MODULE DrainProofs ----------------------------
(***************************************************************************)
(* Theorems about Drain, for any nodes and pods, any plan specs, any       *)
(* number of concurrent goroutines and any interleaving with users,        *)
(* kubelets, failures and restarts.                                        *)
(***************************************************************************)
EXTENDS Drain, FiniteSetTheorems, TLAPS

(***************************************************************************)
(* Types.                                                                  *)
(***************************************************************************)

\* The counters of one goroutine are within the number of pods: classifyPods
\* puts a pod into one class, and a pod is evicted at most once.
CountsInv(w) ==
    /\ w.counts.evictable + w.counts.blocked + w.counts.terminating + w.counts.stuck
           <= Cardinality(Pods)
    /\ w.evicted + Cardinality(w.todo) <= Cardinality(Pods)

TypeInv == TypeOK /\ \A n \in Nodes : CountsInv(worker[n])

\* The number of elements of a subset of a finite set.
LEMMA SubsetCount ==
    ASSUME NEW S, IsFiniteSet(S), NEW T \in SUBSET S
    PROVE  IsFiniteSet(T) /\ Cardinality(T) \in 0..Cardinality(S)
<1>1. /\ IsFiniteSet(T) /\ Cardinality(T) <= Cardinality(S)
      /\ Cardinality(T) \in Nat /\ Cardinality(S) \in Nat
  BY FS_Subset, FS_CardinalityType
<1> QED BY <1>1

\* Disjoint sets add up.
LEMMA DisjointUnion ==
    ASSUME NEW A, NEW B, IsFiniteSet(A), IsFiniteSet(B), A \intersect B = {}
    PROVE  /\ IsFiniteSet(A \union B)
           /\ Cardinality(A \union B) = Cardinality(A) + Cardinality(B)
<1>1. /\ IsFiniteSet(A \union B)
      /\ Cardinality(A \union B)
           = Cardinality(A) + Cardinality(B) - Cardinality(A \intersect B)
  BY FS_Union
<1>2. Cardinality(A \intersect B) = 0
  BY FS_EmptySet
<1>3. Cardinality(A) \in Nat /\ Cardinality(B) \in Nat
  BY FS_CardinalityType
<1> QED BY <1>1, <1>2, <1>3

\* Four disjoint subsets have together at most as many elements as the set.
LEMMA DisjointCount ==
    ASSUME NEW S, IsFiniteSet(S),
           NEW A \in SUBSET S, NEW B \in SUBSET S, NEW C \in SUBSET S, NEW D \in SUBSET S,
           A \intersect B = {}, A \intersect C = {}, A \intersect D = {},
           B \intersect C = {}, B \intersect D = {}, C \intersect D = {}
    PROVE  Cardinality(A) + Cardinality(B) + Cardinality(C) + Cardinality(D) <= Cardinality(S)
<1>1. /\ IsFiniteSet(A) /\ IsFiniteSet(B) /\ IsFiniteSet(C) /\ IsFiniteSet(D)
      /\ Cardinality(A) \in Nat /\ Cardinality(B) \in Nat
      /\ Cardinality(C) \in Nat /\ Cardinality(D) \in Nat
  BY SubsetCount
<1>2. /\ IsFiniteSet(A \union B) /\ IsFiniteSet(C \union D)
      /\ Cardinality(A \union B) = Cardinality(A) + Cardinality(B)
      /\ Cardinality(C \union D) = Cardinality(C) + Cardinality(D)
  BY <1>1, DisjointUnion
<1>3. (A \union B) \intersect (C \union D) = {}
  OBVIOUS
<1>4. Cardinality((A \union B) \union (C \union D))
         = Cardinality(A \union B) + Cardinality(C \union D)
  BY <1>2, <1>3, DisjointUnion
<1>5. (A \union B) \union (C \union D) \in SUBSET S
  OBVIOUS
<1>6. Cardinality((A \union B) \union (C \union D)) <= Cardinality(S)
  BY <1>5, FS_Subset
<1> QED BY <1>1, <1>2, <1>4, <1>6

\* The classes of the pods of one node are within the number of pods.
LEMMA ClassCounts ==
    ASSUME NEW n, NEW pods, NEW opts
    PROVE  /\ \A c : PodsOf(n, pods, opts, c) \in SUBSET Pods
           /\ \A c : Cardinality(PodsOf(n, pods, opts, c)) \in 0..Cardinality(Pods)
           /\ Cardinality(PodsOf(n, pods, opts, "evictable"))
                + Cardinality(PodsOf(n, pods, opts, "blocked"))
                + Cardinality(PodsOf(n, pods, opts, "terminating"))
                + Cardinality(PodsOf(n, pods, opts, "stuck")) <= Cardinality(Pods)
<1> DEFINE P(c) == PodsOf(n, pods, opts, c)
<1>1. \A c : P(c) \in SUBSET Pods
  BY DEF PodsOf
<1>2. \A c, d : c # d => P(c) \intersect P(d) = {}
  BY DEF PodsOf
<1>3. IsFiniteSet(Pods)
  BY DrainAssumption
<1> HIDE DEF P
<1>4. \A c : Cardinality(P(c)) \in 0..Cardinality(Pods)
  BY <1>1, <1>3, SubsetCount
<1>5. Cardinality(P("evictable")) + Cardinality(P("blocked")) + Cardinality(P("terminating"))
         + Cardinality(P("stuck")) <= Cardinality(Pods)
  <2>1. /\ P("evictable") \intersect P("blocked") = {}
        /\ P("evictable") \intersect P("terminating") = {}
        /\ P("evictable") \intersect P("stuck") = {}
        /\ P("blocked") \intersect P("terminating") = {}
        /\ P("blocked") \intersect P("stuck") = {}
        /\ P("terminating") \intersect P("stuck") = {}
    BY <1>2
  <2> QED BY <1>1, <1>3, <2>1, DisjointCount
<1> QED BY <1>1, <1>4, <1>5 DEF P

\* The progress of a drain is a percentage.
LEMMA Percentage ==
    ASSUME NEW i \in Nat, NEW k \in Nat, 0 < i, k <= i
    PROVE  (k * 100) \div i \in 0..100
OBVIOUS

\* recomputePlanSummaries changes the phase and the blocked count.
LEMMA SummariesType ==
    ASSUME NEW pl \in PlanObject
    PROVE  LET q == recomputePlanSummaries(pl)
           IN  /\ q \in PlanObject
               /\ q.spec = pl.spec /\ q.nodes = pl.nodes /\ q.conditions = pl.conditions
               /\ q.allReady = pl.allReady /\ q.startedAt = pl.startedAt
<1> DEFINE B == {n \in Listed(pl.nodes) :
                    pl.nodes[n].blocked > 0 /\ pl.nodes[n].blocked = pl.nodes[n].total}
           ph == computePhase(pl.conditions, pl.allReady)
           c == Cardinality(B)
<1>1. B \in SUBSET Nodes
  BY DEF Listed
<1>2. c \in 0..Cardinality(Nodes)
  BY <1>1, DrainAssumption, SubsetCount
<1>3. ph \in Phases
  BY DEF computePhase, Phases
<1>4. recomputePlanSummaries(pl) = [pl EXCEPT !.blockedCount = c, !.phase = ph]
  BY DEF recomputePlanSummaries
<1> HIDE DEF c, ph
<1> QED BY <1>2, <1>3, <1>4 DEF PlanObject

\* buildNodeStatus keeps whether a node is ready.
LEMMA BuildType ==
    ASSUME NEW ns \in NodeStatus, NEW obj \in NodeObject
    PROVE  /\ buildNodeStatus(ns, obj) \in NodeStatus
           /\ buildNodeStatus(ns, obj).ready = ns.ready
BY DEF buildNodeStatus, NodeStatus, NodeObject

\* A fresh entry is not ready.
LEMMA NoNodeStatusType == NoNodeStatus \in NodeStatus /\ ~NoNodeStatus.ready
<1>1. Cardinality(Pods) \in Nat
  BY DrainAssumption, FS_CardinalityType
<1> QED BY <1>1 DEF NoNodeStatus, NodeStatus

\* UpdateStatus keeps the readiness of the nodes in the spec, the start of the
\* drain and DrainTimedOut.
LEMMA UpdateStatusType ==
    ASSUME NEW pl \in PlanObject, NEW objs \in [Nodes -> NodeObject]
    PROVE  LET q == UpdateStatus(pl, objs)
           IN  /\ q \in PlanObject
               /\ q.spec = pl.spec /\ q.startedAt = pl.startedAt
               /\ q.conditions.timedOut = pl.conditions.timedOut
               /\ \A n \in Nodes : q.nodes[n].ready <=> n \in pl.spec.nodes /\ pl.nodes[n].ready
<1> DEFINE nodes == [n \in Nodes |-> IF n \in pl.spec.nodes
                                     THEN buildNodeStatus(pl.nodes[n], objs[n])
                                     ELSE NoNodeStatus]
           counted == {n \in Listed(nodes) : ~nodes[n].drifted}
           a == Listed(nodes) # {}
           b == counted # {} /\ \A n \in counted : nodes[n].cordoned
           d == Listed(nodes) # counted
           conds == [pl.conditions EXCEPT !.selected = a, !.cordoned = b, !.drifted = d]
           mid == [pl EXCEPT !.nodes = nodes, !.conditions = conds]
<1>1. \A n \in Nodes : /\ nodes[n] \in NodeStatus
                       /\ nodes[n].ready <=> n \in pl.spec.nodes /\ pl.nodes[n].ready
  <2> SUFFICES ASSUME NEW n \in Nodes
               PROVE  /\ nodes[n] \in NodeStatus
                      /\ nodes[n].ready <=> n \in pl.spec.nodes /\ pl.nodes[n].ready
    OBVIOUS
  <2>1. pl.nodes[n] \in NodeStatus /\ objs[n] \in NodeObject
    BY DEF PlanObject
  <2>2. CASE n \in pl.spec.nodes
    <3>1. nodes[n] = buildNodeStatus(pl.nodes[n], objs[n])
      BY <2>2
    <3>2. nodes[n] \in NodeStatus /\ nodes[n].ready = pl.nodes[n].ready
      BY <2>1, <3>1, BuildType
    <3>3. pl.nodes[n].ready \in BOOLEAN
      BY <2>1 DEF NodeStatus
    <3> QED BY <2>2, <3>2, <3>3
  <2>3. CASE n \notin pl.spec.nodes
    BY <2>3, NoNodeStatusType
  <2> QED BY <2>2, <2>3
<1>2. nodes \in [Nodes -> NodeStatus]
  BY <1>1
<1>3. UpdateStatus(pl, objs) = recomputePlanSummaries(mid)
  BY DEF UpdateStatus
<1>4. a \in BOOLEAN /\ b \in BOOLEAN /\ d \in BOOLEAN
  OBVIOUS
<1> HIDE DEF nodes, counted, a, b, d
<1>5. conds \in Conditions /\ conds.timedOut = pl.conditions.timedOut
  BY <1>4 DEF PlanObject, Conditions
<1> HIDE DEF conds
<1>6. /\ mid \in PlanObject /\ mid.spec = pl.spec /\ mid.nodes = nodes
      /\ mid.conditions = conds /\ mid.startedAt = pl.startedAt
  BY <1>2, <1>5 DEF PlanObject
<1> HIDE DEF mid
<1> DEFINE q == recomputePlanSummaries(mid)
<1>7. /\ q \in PlanObject /\ q.spec = mid.spec /\ q.nodes = mid.nodes
      /\ q.conditions = mid.conditions /\ q.startedAt = mid.startedAt
  BY <1>6, SummariesType
<1> HIDE DEF q
<1>8. UpdateStatus(pl, objs) = q
  BY <1>3 DEF q
<1> QED BY <1>1, <1>5, <1>6, <1>7, <1>8

\* A status patch replaces the fields that differ, and never the spec.
LEMMA MergeType ==
    ASSUME plan \in PlanObject, NEW old \in PlanObject, NEW new \in PlanObject
    PROVE  LET q == MergePlan(old, new)
           IN  /\ q \in PlanObject
               /\ q.spec = plan.spec
               /\ q.nodes = MergeField(plan.nodes, old.nodes, new.nodes)
               /\ q.conditions = MergeField(plan.conditions, old.conditions, new.conditions)
               /\ q.startedAt = MergeField(plan.startedAt, old.startedAt, new.startedAt)
<1> DEFINE a == MergeField(plan.nodes, old.nodes, new.nodes)
           b == MergeField(plan.conditions, old.conditions, new.conditions)
           c == MergeField(plan.allReady, old.allReady, new.allReady)
           d == MergeField(plan.startedAt, old.startedAt, new.startedAt)
           e == MergeField(plan.phase, old.phase, new.phase)
           f == MergeField(plan.blockedCount, old.blockedCount, new.blockedCount)
<1>1. MergePlan(old, new) =
         [plan EXCEPT !.nodes = a, !.conditions = b, !.allReady = c, !.startedAt = d,
                      !.phase = e, !.blockedCount = f]
  BY DEF MergePlan
<1>2. /\ a \in [Nodes -> NodeStatus] /\ b \in Conditions /\ c \in BOOLEAN
      /\ d \in {0} \union Times /\ e \in Phases /\ f \in 0..Cardinality(Nodes)
  BY DEF MergeField, PlanObject
<1> HIDE DEF a, b, c, d, e, f
<1>3. LET q == MergePlan(old, new)
      IN  /\ q \in PlanObject /\ q.spec = plan.spec /\ q.nodes = a /\ q.conditions = b
          /\ q.startedAt = d
  BY <1>1, <1>2 DEF PlanObject
<1> QED BY <1>3 DEF a, b, d

\* The counters and the progress of a node keep their ranges.
LEMMA DrainStatusType ==
    ASSUME NEW ns \in NodeStatus, NEW c \in Counts,
           c.evictable + c.blocked + c.terminating + c.stuck <= Cardinality(Pods)
    PROVE  LET u == updateNodeDrainStatus(ns, c)
           IN  u \in NodeStatus /\ u.listed = ns.listed /\ u.ready = ns.ready
<1> DEFINE total == c.evictable + c.blocked + c.terminating + c.stuck
           initial == IF ns.initial = 0 THEN total ELSE ns.initial
           remaining == IF total < initial THEN total ELSE initial
           blocked == total - c.evictable - c.terminating
           progress == IF initial > 0 THEN ((initial - remaining) * 100) \div initial
                       ELSE ns.progress
<1>0. Cardinality(Pods) \in Nat
  BY DrainAssumption, FS_CardinalityType
<1>1. /\ total \in 0..Cardinality(Pods) /\ initial \in 0..Cardinality(Pods)
      /\ blocked \in 0..Cardinality(Pods)
  BY <1>0 DEF Counts, NodeStatus
<1>2. initial - remaining \in Nat /\ initial - remaining <= initial
  <2> HIDE DEF total, initial
  <2> QED BY <1>0, <1>1
<1>3. progress \in 0..100
  <2>1. ns.progress \in 0..100
    BY DEF NodeStatus
  <2> HIDE DEF initial, remaining
  <2>2. CASE initial > 0
    <3>1. \A i \in Nat, k \in Nat : 0 < i /\ k <= i => (k * 100) \div i \in 0..100
      BY Percentage
    <3> DEFINE k == initial - remaining
    <3>2. k \in Nat /\ k <= initial /\ initial \in Nat /\ 0 < initial
      BY <1>0, <1>1, <1>2, <2>2
    <3> HIDE DEF k
    <3>3. (k * 100) \div initial \in 0..100
      BY <3>1, <3>2
    <3> QED BY <2>2, <3>3 DEF k
  <2> QED BY <2>1, <2>2
<1>4. updateNodeDrainStatus(ns, c)
         = [ns EXCEPT !.initial = initial, !.total = total, !.blocked = blocked,
                      !.progress = progress]
  BY DEF updateNodeDrainStatus
<1> HIDE DEF total, initial, blocked, progress
<1> QED BY <1>1, <1>3, <1>4 DEF NodeStatus

\* markNodeReadyForMaintenance.
LEMMA MarkReadyType ==
    ASSUME NEW u \in NodeStatus
    PROVE  /\ [u EXCEPT !.ready = TRUE, !.progress = 100] \in NodeStatus
           /\ [u EXCEPT !.ready = TRUE, !.progress = 100].ready = TRUE
<1>1. ASSUME NEW b \in BOOLEAN, NEW k \in 0..100
      PROVE  [u EXCEPT !.ready = b, !.progress = k] \in NodeStatus
  BY DEF NodeStatus
<1>2. 100 \in 0..100 /\ TRUE \in BOOLEAN
  OBVIOUS
<1>3. \A b \in BOOLEAN, k \in 0..100 : [u EXCEPT !.ready = b, !.progress = k] \in NodeStatus
  BY <1>1
<1>4. [u EXCEPT !.ready = TRUE, !.progress = 100] \in NodeStatus
  BY <1>2, <1>3
<1> QED BY <1>4 DEF NodeStatus

\* A result makes a node ready exactly when its goroutine found it drained.
LEMMA NodeResultType ==
    ASSUME NEW ns \in NodeStatus, NEW w \in Worker, CountsInv(w)
    PROVE  LET u == NodeResult(ns, w)
           IN  /\ u \in NodeStatus
               /\ ns.ready => u.ready
               /\ u.ready /\ ~ns.ready => w.state # "off" /\ Outcome(w) = "drained"
<1>1. CASE w.state = "off" \/ ~ns.listed \/ w.err = "notReady"
  BY <1>1 DEF NodeResult
<1>2. CASE ~(w.state = "off" \/ ~ns.listed \/ w.err = "notReady")
  <2> DEFINE u == updateNodeDrainStatus(ns, w.counts)
  <2>1. w.counts \in Counts
    BY DEF Worker
  <2>2. u \in NodeStatus /\ u.listed = ns.listed /\ u.ready = ns.ready
    BY <2>1, DrainStatusType DEF CountsInv
  <2>3. NodeResult(ns, w) = IF Outcome(w) = "drained" /\ ns.cordoned /\ ~ns.ready
                            THEN [u EXCEPT !.ready = TRUE, !.progress = 100] ELSE u
    BY <1>2 DEF NodeResult
  <2> HIDE DEF u
  <2>4. CASE Outcome(w) = "drained" /\ ns.cordoned /\ ~ns.ready
    <3>1. /\ [u EXCEPT !.ready = TRUE, !.progress = 100] \in NodeStatus
          /\ [u EXCEPT !.ready = TRUE, !.progress = 100].ready = TRUE
      BY <2>2, MarkReadyType
    <3> QED BY <1>2, <2>3, <2>4, <3>1
  <2>5. CASE ~(Outcome(w) = "drained" /\ ns.cordoned /\ ~ns.ready)
    BY <2>2, <2>3, <2>5
  <2> QED BY <2>4, <2>5
<1> QED BY <1>1, <1>2

\* What the head of a pass does to nodes, plan and goroutines.  The local copy
\* is the plan that the API server has after the status patch.
ReconcileEffect(copy) ==
    /\ copy \in PlanObject
    /\ plan' = copy /\ planCache' = IF PlanLag THEN planCache ELSE copy
    /\ copy.spec = plan.spec /\ copy.startedAt = plan.startedAt
    /\ \/ copy.conditions = plan.conditions
       \/ copy.conditions.timedOut = planCache.conditions.timedOut
    /\ \/ copy.nodes = plan.nodes
       \/ \A n \in Nodes : copy.nodes[n].ready
                              <=> n \in planCache.spec.nodes /\ planCache.nodes[n].ready
    /\ \/ pc' = "idle" /\ planCopy' = NoPlanCopy /\ worker' = NoWorkers
       \/ /\ pc' = "drain" /\ planCopy' = copy /\ ~copy.conditions.timedOut
          /\ worker' \in [Nodes -> {NewWorker("off", "nil"), NewWorker("wait", "nil"),
                                    NewWorker("run", "notReady")}]
          /\ \A n \in Nodes : worker'[n].state # "off" => node'[n].unschedulable

\* The head of a pass has that effect.
LEMMA ReconcileStep ==
    ASSUME TypeInv, Reconcile
    PROVE  /\ pc = "idle" /\ node' \in [Nodes -> NodeObject] /\ queued' \in BOOLEAN
           /\ UNCHANGED <<pod, podCache, budget, wake, clock, edits, faults>>
           /\ \E copy : ReconcileEffect(copy)
<1> DEFINE pl == planCache
           stable == {n \in pl.spec.nodes : node[n].owned}
           adopt == {n \in pl.spec.nodes \ stable :
                        ~pl.nodes[n].drifted /\ ~pl.nodes[n].ready}
           leaving == {n \in Nodes \ pl.spec.nodes : node[n].owned}
           drifting == {n \in stable : ~node[n].unschedulable}
           objs == [n \in Nodes |-> IF n \in adopt
                                    THEN [node[n] EXCEPT !.owned = TRUE,
                                                         !.unschedulable = TRUE]
                                    ELSE node[n]]
           updated == UpdateStatus(pl, objs)
           copy == MergePlan(pl, updated)
           targets == IF pl.spec.drain THEN DrainTargets(copy, node, stable) ELSE {}
<1>1. /\ pc = "idle" /\ queued' \in BOOLEAN
      /\ UNCHANGED <<pod, podCache, budget, wake, clock, edits, faults>>
  BY DEF Reconcile, podVars, bounds
<1>2. /\ node' = [n \in Nodes |->
             CASE n \in leaving -> [objs[n] EXCEPT !.owned = FALSE, !.unschedulable = FALSE]
               [] n \in drifting -> [objs[n] EXCEPT !.owned = FALSE]
               [] OTHER -> objs[n]]
      /\ WritePlan(copy)
      /\ IF targets = {} THEN EndPass
         ELSE /\ pc' = "drain" /\ planCopy' = copy
              /\ worker' = [n \in Nodes |->
                     CASE n \notin targets -> NewWorker("off", "nil")
                       [] n \in targets /\ node[n].healthy -> NewWorker("wait", "nil")
                       [] OTHER -> NewWorker("run", "notReady")]
  BY DEF Reconcile
<1>3. objs \in [Nodes -> NodeObject]
  BY DEF TypeInv, TypeOK, NodeObject
<1>4. \A n \in Nodes : node'[n] \in NodeObject
  <2> SUFFICES ASSUME NEW n \in Nodes PROVE node'[n] \in NodeObject
    OBVIOUS
  <2> HIDE DEF objs, leaving, drifting
  <2>1. objs[n] \in NodeObject
    BY <1>3
  <2>2. /\ [objs[n] EXCEPT !.owned = FALSE, !.unschedulable = FALSE] \in NodeObject
        /\ [objs[n] EXCEPT !.owned = FALSE] \in NodeObject
    BY <2>1 DEF NodeObject
  <2>3. CASE n \in leaving
    BY <1>2, <2>2, <2>3
  <2>4. CASE n \notin leaving
    BY <1>2, <2>1, <2>2, <2>4
  <2> QED BY <2>3, <2>4
<1>5. node' \in [Nodes -> NodeObject]
  <2> HIDE DEF objs, leaving, drifting
  <2> QED BY <1>2, <1>4
<1>6. targets \subseteq stable /\ \A n \in targets : node[n].unschedulable
  BY DEF DrainTargets
<1>7. targets # {} => ~copy.conditions.timedOut
  BY DEF DrainTargets
<1>8. \A n \in targets : node'[n] = node[n]
  <2> SUFFICES ASSUME NEW n \in targets PROVE node'[n] = node[n]
    OBVIOUS
  <2>1. n \in stable /\ node[n].unschedulable
    BY <1>6
  <2>2. n \in Nodes /\ n \in pl.spec.nodes
    BY <2>1 DEF TypeInv, TypeOK, PlanObject, PlanSpec
  <2>3. n \notin leaving /\ n \notin drifting /\ n \notin adopt
    BY <2>1, <2>2
  <2>4. objs[n] = node[n]
    BY <2>2, <2>3
  <2> HIDE DEF objs, leaving, drifting, targets
  <2> QED BY <1>2, <2>2, <2>3, <2>4
<1>9. /\ updated \in PlanObject
      /\ updated.spec = pl.spec /\ updated.startedAt = pl.startedAt
      /\ updated.conditions.timedOut = pl.conditions.timedOut
      /\ \A n \in Nodes : updated.nodes[n].ready <=> n \in pl.spec.nodes /\ pl.nodes[n].ready
  <2> HIDE DEF objs
  <2>1. pl \in PlanObject
    BY DEF TypeInv, TypeOK
  <2> QED BY <1>3, <2>1, UpdateStatusType
<1> HIDE DEF updated
<1>10. /\ copy \in PlanObject /\ copy.spec = plan.spec
       /\ copy.nodes = MergeField(plan.nodes, pl.nodes, updated.nodes)
       /\ copy.conditions = MergeField(plan.conditions, pl.conditions, updated.conditions)
       /\ copy.startedAt = MergeField(plan.startedAt, pl.startedAt, updated.startedAt)
  <2>1. plan \in PlanObject /\ pl \in PlanObject
    BY DEF TypeInv, TypeOK
  <2> QED BY <1>9, <2>1, MergeType
<1> HIDE DEF copy
<1>11. /\ copy.startedAt = plan.startedAt
       /\ \/ copy.conditions = plan.conditions
          \/ copy.conditions.timedOut = pl.conditions.timedOut
       /\ \/ copy.nodes = plan.nodes
          \/ \A n \in Nodes : copy.nodes[n].ready <=> n \in pl.spec.nodes /\ pl.nodes[n].ready
  BY <1>9, <1>10 DEF MergeField
<1> HIDE DEF targets, objs, stable, adopt, leaving, drifting
<1>12. plan' = copy /\ planCache' = IF PlanLag THEN planCache ELSE copy
  BY <1>2 DEF WritePlan
<1>13. CASE targets = {}
  BY <1>1, <1>2, <1>5, <1>10, <1>11, <1>12, <1>13 DEF ReconcileEffect, EndPass
<1>14. CASE targets # {}
  <2>1. /\ pc' = "drain" /\ planCopy' = copy
        /\ worker' = [n \in Nodes |->
                     CASE n \notin targets -> NewWorker("off", "nil")
                       [] n \in targets /\ node[n].healthy -> NewWorker("wait", "nil")
                       [] OTHER -> NewWorker("run", "notReady")]
    BY <1>2, <1>14
  <2>2. ASSUME NEW n \in Nodes
        PROVE  /\ worker'[n] \in {NewWorker("off", "nil"), NewWorker("wait", "nil"),
                                  NewWorker("run", "notReady")}
               /\ worker'[n].state # "off" => node'[n].unschedulable
    <3>1. CASE n \notin targets
      <4>1. worker'[n] = NewWorker("off", "nil")
        BY <2>1, <3>1
      <4>2. NewWorker("off", "nil").state = "off"
        BY DEF NewWorker
      <4> QED BY <4>1, <4>2
    <3>2. CASE n \in targets
      <4>1. node'[n].unschedulable
        BY <1>6, <1>8, <3>2
      <4>2. CASE node[n].healthy
        BY <2>1, <3>2, <4>1, <4>2
      <4>3. CASE ~node[n].healthy
        BY <2>1, <3>2, <4>1, <4>3
      <4> QED BY <4>2, <4>3
    <3> QED BY <3>1, <3>2
  <2>3. worker' \in [Nodes -> {NewWorker("off", "nil"), NewWorker("wait", "nil"),
                               NewWorker("run", "notReady")}]
    BY <2>1, <2>2
  <2>4. ReconcileEffect(copy)
    BY <1>7, <1>10, <1>11, <1>12, <1>14, <2>1, <2>2, <2>3 DEF ReconcileEffect
  <2> QED BY <1>1, <1>5, <2>4
<1> QED BY <1>13, <1>14

\* What applyDrainResults writes, as a patch between the copy and new.
ApplyEffect(new) ==
    /\ new \in PlanObject
    /\ plan' = MergePlan(planCopy, new)
    /\ planCache' = IF PlanLag THEN planCache ELSE plan'
    /\ planCopy.startedAt # 0 => new.startedAt = planCopy.startedAt
    /\ planCopy.conditions.timedOut => new.conditions.timedOut
    /\ \A n \in Nodes :
          /\ planCopy.nodes[n].ready => new.nodes[n].ready
          /\ new.nodes[n].ready /\ ~planCopy.nodes[n].ready
                => worker[n].state # "off" /\ Outcome(worker[n]) = "drained"

\* applyDrainResults has that effect.
LEMMA ApplyStep ==
    ASSUME TypeInv, applyDrainResults
    PROVE  /\ pc = "drain" /\ pc' = "idle" /\ planCopy' = NoPlanCopy /\ worker' = NoWorkers
           /\ wake' \in BOOLEAN
           /\ UNCHANGED <<node, pod, podCache, budget, queued, clock, edits, faults>>
           /\ \A n \in Nodes : worker[n].state # "wait" /\ worker[n].todo = {}
           /\ \E new : ApplyEffect(new)
<1> DEFINE results == {worker[n] : n \in {m \in Nodes : worker[m].state # "off"}}
           allDone == \A w \in results : Outcome(w) = "drained"
           anyBlocked == \E w \in results :
                            Outcome(w) \in {"stuck", "blocked", "notReady"}
           inFlight == \E w \in results : InFlight(w)
           nodes == [n \in Nodes |-> NodeResult(planCopy.nodes[n], worker[n])]
           startedAt == StartedAt(planCopy.startedAt, allDone)
           late == ~allDone /\ DeadlineExceeded(startedAt, planCopy.spec.timeout)
           started == [planCopy EXCEPT !.nodes = nodes, !.startedAt = startedAt]
           stop == [started.conditions EXCEPT !.timedOut = TRUE, !.inProgress = FALSE,
                                              !.succeeded = FALSE]
           stopped == [started EXCEPT !.conditions = stop]
           go == setDrainConditions(started.conditions, allDone, anyBlocked, inFlight)
           done == Listed(nodes) # {} /\ \A n \in Listed(nodes) : nodes[n].ready
           mid == [started EXCEPT !.conditions = go, !.allReady = done]
           going == recomputePlanSummaries(mid)
           new == IF late THEN stopped ELSE going
<1>1. /\ pc = "drain" /\ pc' = "idle" /\ planCopy' = NoPlanCopy /\ worker' = NoWorkers
      /\ wake' \in BOOLEAN
      /\ UNCHANGED <<node, pod, podCache, budget, queued, clock, edits, faults>>
      /\ \A n \in Nodes : worker[n].state # "wait" /\ worker[n].todo = {}
  <2>1. wake' \in BOOLEAN
    BY DEF applyDrainResults
  <2> QED BY <2>1 DEF applyDrainResults, EndPass, podVars, bounds
<1>2. WritePlan(MergePlan(planCopy, new))
  BY DEF applyDrainResults
<1>3. planCopy \in PlanObject /\ clock \in Times
  BY DEF TypeInv, TypeOK
<1>4. \A n \in Nodes :
         /\ nodes[n] \in NodeStatus
         /\ planCopy.nodes[n].ready => nodes[n].ready
         /\ nodes[n].ready /\ ~planCopy.nodes[n].ready
               => worker[n].state # "off" /\ Outcome(worker[n]) = "drained"
  <2> SUFFICES ASSUME NEW n \in Nodes
               PROVE  /\ nodes[n] \in NodeStatus
                      /\ planCopy.nodes[n].ready => nodes[n].ready
                      /\ nodes[n].ready /\ ~planCopy.nodes[n].ready
                            => worker[n].state # "off" /\ Outcome(worker[n]) = "drained"
    OBVIOUS
  <2>1. planCopy.nodes[n] \in NodeStatus /\ worker[n] \in Worker /\ CountsInv(worker[n])
    BY <1>3 DEF PlanObject, TypeInv, TypeOK
  <2>2. nodes[n] = NodeResult(planCopy.nodes[n], worker[n])
    OBVIOUS
  <2> HIDE DEF nodes
  <2> QED BY <2>1, <2>2, NodeResultType
<1>5. nodes \in [Nodes -> NodeStatus]
  BY <1>4
<1>6. startedAt \in {0} \union Times /\ (planCopy.startedAt # 0 => startedAt = planCopy.startedAt)
  BY <1>3 DEF StartedAt, PlanObject
<1>7. allDone \in BOOLEAN /\ anyBlocked \in BOOLEAN /\ inFlight \in BOOLEAN /\ done \in BOOLEAN
  OBVIOUS
<1> HIDE DEF results, allDone, anyBlocked, inFlight, nodes, startedAt, done
<1>8. /\ started \in PlanObject /\ started.nodes = nodes /\ started.startedAt = startedAt
      /\ started.conditions = planCopy.conditions
  BY <1>3, <1>5, <1>6 DEF PlanObject
<1> HIDE DEF started
<1>9. stop \in Conditions /\ stop.timedOut
  BY <1>8 DEF PlanObject, Conditions
<1>10. go \in Conditions /\ go.timedOut = planCopy.conditions.timedOut
  BY <1>7, <1>8 DEF setDrainConditions, PlanObject, Conditions
<1> HIDE DEF stop, go
<1>11. /\ stopped \in PlanObject /\ stopped.nodes = nodes /\ stopped.startedAt = startedAt
       /\ stopped.conditions = stop
  BY <1>8, <1>9 DEF PlanObject
<1>12. /\ mid \in PlanObject /\ mid.nodes = nodes /\ mid.startedAt = startedAt
       /\ mid.conditions = go
  BY <1>7, <1>8, <1>10 DEF PlanObject
<1> HIDE DEF stopped, mid
<1>13. /\ going \in PlanObject /\ going.nodes = nodes /\ going.startedAt = startedAt
       /\ going.conditions = go
  BY <1>12, SummariesType
<1> HIDE DEF going, late
<1>14. /\ new \in PlanObject /\ new.nodes = nodes /\ new.startedAt = startedAt
       /\ planCopy.conditions.timedOut => new.conditions.timedOut
  BY <1>9, <1>10, <1>11, <1>13
<1> HIDE DEF new
<1>15. ApplyEffect(new)
  BY <1>2, <1>4, <1>6, <1>14 DEF ApplyEffect, WritePlan
<1> QED BY <1>1, <1>15

\* There is a node, as maxParallel is at least 1.
LEMMA NoCopyType ==
    ASSUME NEW pl \in PlanObject
    PROVE  NoPlanCopy \in PlanObject
<1>1. pl.spec.opts.maxParallel \in 1..Cardinality(Nodes)
  BY DEF PlanObject, PlanSpec, DrainOptions
<1>2. Cardinality(Nodes) \in Nat /\ MaxClock \in Nat
  BY DrainAssumption, FS_CardinalityType
<1>3. 1 \in 1..Cardinality(Nodes) /\ 0 \in 0..Cardinality(Nodes) /\ 0 \in 0..MaxClock
  BY <1>1, <1>2
<1> DEFINE opts == [ignoreDaemonSets |-> TRUE, deleteEmptyDirData |-> FALSE,
                    force |-> FALSE, respectPDB |-> TRUE, maxParallel |-> 1]
           spec == [nodes |-> {}, drain |-> FALSE, timeout |-> 0, opts |-> opts]
<1>4. opts \in DrainOptions
  BY <1>3 DEF DrainOptions
<1> HIDE DEF opts
<1>5. spec \in PlanSpec
  BY <1>3, <1>4 DEF PlanSpec
<1> HIDE DEF spec
<1>6. NoConditions \in Conditions /\ "Pending" \in Phases
  BY DEF NoConditions, Conditions, Phases
<1>7. NewPlan(spec) \in PlanObject
  BY <1>3, <1>5, <1>6, NoNodeStatusType DEF NewPlan, PlanObject
<1> QED BY <1>7 DEF NoPlanCopy, opts, spec

\* A plan is created without status.
LEMMA NewPlanType ==
    ASSUME NEW s \in Specs
    PROVE  NewPlan(s) \in PlanObject
<1>1. Cardinality(Nodes) \in Nat
  BY DrainAssumption, FS_CardinalityType
<1>2. s \in PlanSpec /\ 0 \in 0..Cardinality(Nodes)
  BY <1>1, DrainAssumption
<1>3. NoConditions \in Conditions /\ "Pending" \in Phases
  BY DEF NoConditions, Conditions, Phases
<1> QED BY <1>2, <1>3, NoNodeStatusType DEF NewPlan, PlanObject

\* A goroutine that has done nothing yet.
LEMMA NewWorkerType ==
    ASSUME NEW st \in {"off", "wait", "run"}, NEW e \in {"nil", "notReady", "other"}
    PROVE  /\ NewWorker(st, e) \in Worker /\ CountsInv(NewWorker(st, e))
           /\ NewWorker(st, e).state = st /\ NewWorker(st, e).err = e
           /\ NewWorker(st, e).todo = {} /\ NewWorker(st, e).evicted = 0
<1>0. Cardinality(Pods) \in Nat
  BY DrainAssumption, FS_CardinalityType
<1>1. 0 \in 0..Cardinality(Pods)
  BY <1>0
<1>2. NoCounts \in Counts
  BY <1>1 DEF NoCounts, Counts
<1>3. NewWorker(st, e) \in Worker
  BY <1>1, <1>2 DEF NewWorker, Worker
<1>4. Cardinality({}) = 0
  BY FS_EmptySet
<1>5. CountsInv(NewWorker(st, e))
  <2> DEFINE w == NewWorker(st, e)
  <2>1. /\ w.todo = {} /\ w.evicted = 0
        /\ w.counts.evictable = 0 /\ w.counts.blocked = 0
        /\ w.counts.terminating = 0 /\ w.counts.stuck = 0
    BY DEF NewWorker, NoCounts
  <2> HIDE DEF w
  <2>2. CountsInv(w)
    BY <1>0, <1>4, <2>1 DEF CountsInv
  <2> QED BY <2>2 DEF w
<1> QED BY <1>3, <1>5 DEF NewWorker

\* The API server stores a pod.
LEMMA SetPodType ==
    ASSUME TypeOK, NEW x \in Pods, NEW o \in PodObject, SetPod(x, o)
    PROVE  pod' \in [Pods -> PodObject] /\ podCache' \in [Pods -> PodObject]
BY DEF TypeOK, SetPod

\* The budget is never overdrawn: an eviction that needs it is admitted only
\* while it is positive.
LEMMA DeletePodType ==
    ASSUME TypeOK, NEW x \in Pods, NEW evicted \in BOOLEAN,
           evicted => ~TooManyRequests(x), DeletePod(x, evicted)
    PROVE  /\ pod' \in [Pods -> PodObject] /\ podCache' \in [Pods -> PodObject]
           /\ budget' \in 0..MaxBudget
<1>1. CASE pod[x].deletedAt # 0
  BY <1>1 DEF DeletePod, podVars, TypeOK
<1>2. CASE pod[x].deletedAt = 0
  <2> DEFINE o == [pod[x] EXCEPT !.deletedAt = clock]
  <2>1. o \in PodObject
    BY DEF TypeOK, PodObject
  <2>2. SetPod(x, o)
    BY <1>2 DEF DeletePod
  <2>3. budget' = IF evicted /\ x \in Guarded /\ pod[x].phase = "running"
                  THEN budget - 1 ELSE budget
    BY <1>2 DEF DeletePod
  <2>4. budget \in 0..MaxBudget /\ MaxBudget \in Nat
    BY DrainAssumption DEF TypeOK
  <2>5. budget' \in 0..MaxBudget
    BY <1>2, <2>3, <2>4 DEF TooManyRequests
  <2> HIDE DEF o
  <2> QED BY <2>1, <2>2, <2>5, SetPodType
<1> QED BY <1>1, <1>2

\* One goroutine changes, within its ranges.
LEMMA WorkerType ==
    ASSUME TypeInv, NEW n \in Nodes, NEW w \in Worker, CountsInv(w),
           worker' = [worker EXCEPT ![n] = w]
    PROVE  worker' \in [Nodes -> Worker] /\ \A m \in Nodes : CountsInv(worker'[m])
<1>1. worker \in [Nodes -> Worker] /\ \A m \in Nodes : CountsInv(worker[m])
  BY DEF TypeInv, TypeOK
<1>2. \A m \in Nodes : worker'[m] = IF m = n THEN w ELSE worker[m]
  BY <1>1
<1> QED BY <1>1, <1>2

\* The end of a pass, whatever ends it.
LEMMA EndPassType ==
    ASSUME TypeInv, EndPass
    PROVE  /\ pc' = "idle" /\ planCopy' \in PlanObject
           /\ worker' \in [Nodes -> Worker] /\ \A n \in Nodes : CountsInv(worker'[n])
<1>1. NoPlanCopy \in PlanObject
  BY NoCopyType DEF TypeInv, TypeOK
<1>2. NewWorker("off", "nil") \in Worker /\ CountsInv(NewWorker("off", "nil"))
  BY NewWorkerType
<1>3. pc' = "idle" /\ planCopy' = NoPlanCopy
      /\ worker' = [n \in Nodes |-> NewWorker("off", "nil")]
  BY DEF EndPass, NoWorkers
<1> QED BY <1>1, <1>2, <1>3

\* The initial states have their types.
LEMMA TypeInit == Init => TypeInv
<1> SUFFICES ASSUME Init PROVE TypeInv
  OBVIOUS
<1>1. PICK s \in Specs : plan = NewPlan(s)
  BY DEF Init
<1>2. plan \in PlanObject /\ planCache \in PlanObject
  BY <1>1, NewPlanType DEF Init
<1>3. planCopy \in PlanObject
  BY <1>2, NoCopyType DEF Init
<1>4. worker \in [Nodes -> Worker] /\ \A n \in Nodes : CountsInv(worker[n])
  <2>1. NewWorker("off", "nil") \in Worker /\ CountsInv(NewWorker("off", "nil"))
    BY NewWorkerType
  <2>2. worker = [n \in Nodes |-> NewWorker("off", "nil")]
    BY DEF Init, NoWorkers
  <2> QED BY <2>1, <2>2
<1>5. pod \in [Pods -> PodObject] /\ podCache \in [Pods -> PodObject]
  BY DEF Init, PodObject
<1>6. /\ node \in [Nodes -> NodeObject] /\ budget \in 0..MaxBudget
      /\ gaveUp \in BOOLEAN /\ queued \in BOOLEAN /\ wake \in BOOLEAN /\ pc = "idle"
  BY DEF Init, NodeObject
<1>7. clock \in Times /\ edits \in 0..MaxEdits /\ faults \in 0..MaxFaults
  BY DrainAssumption DEF Init, Times
<1> QED BY <1>2, <1>3, <1>4, <1>5, <1>6, <1>7 DEF TypeInv, TypeOK

\* drainNode: the classes of the pods give the counters.
LEMMA DrainNodeType ==
    ASSUME TypeInv, NEW n \in Nodes, drainNode(n)
    PROVE  /\ worker' \in [Nodes -> Worker] /\ \A m \in Nodes : CountsInv(worker'[m])
           /\ worker'[n].state = "run" /\ worker'[n].evicted = 0
           /\ worker'[n].todo = PodsOf(n, podCache, planCopy.spec.opts, "evictable")
           /\ worker'[n].counts =
                 [evictable |-> Cardinality(PodsOf(n, podCache, planCopy.spec.opts, "evictable")),
                  blocked |-> Cardinality(PodsOf(n, podCache, planCopy.spec.opts, "blocked")),
                  terminating |->
                      Cardinality(PodsOf(n, podCache, planCopy.spec.opts, "terminating")),
                  stuck |-> Cardinality(PodsOf(n, podCache, planCopy.spec.opts, "stuck"))]
           /\ \A m \in Nodes \ {n} : worker'[m] = worker[m]
<1> DEFINE P(c) == PodsOf(n, podCache, planCopy.spec.opts, c)
           counts == [evictable |-> Cardinality(P("evictable")),
                      blocked |-> Cardinality(P("blocked")),
                      terminating |-> Cardinality(P("terminating")),
                      stuck |-> Cardinality(P("stuck"))]
           w == [NewWorker("run", "nil") EXCEPT !.todo = P("evictable"), !.counts = counts]
<1>1. worker' = [worker EXCEPT ![n] = w]
  BY DEF drainNode
<1>2. /\ P("evictable") \in SUBSET Pods
      /\ Cardinality(P("evictable")) \in 0..Cardinality(Pods)
      /\ Cardinality(P("blocked")) \in 0..Cardinality(Pods)
      /\ Cardinality(P("terminating")) \in 0..Cardinality(Pods)
      /\ Cardinality(P("stuck")) \in 0..Cardinality(Pods)
      /\ Cardinality(P("evictable")) + Cardinality(P("blocked"))
           + Cardinality(P("terminating")) + Cardinality(P("stuck")) <= Cardinality(Pods)
  BY ClassCounts
<1> HIDE DEF P
<1>3. /\ counts \in Counts
      /\ counts.evictable + counts.blocked + counts.terminating + counts.stuck
           <= Cardinality(Pods)
  BY <1>2 DEF Counts
<1> HIDE DEF counts
<1>4. NewWorker("run", "nil") \in Worker /\ NewWorker("run", "nil").evicted = 0
      /\ NewWorker("run", "nil").state = "run"
  BY NewWorkerType
<1>5. /\ w \in Worker /\ w.counts = counts /\ w.todo = P("evictable") /\ w.evicted = 0
      /\ w.state = "run"
  BY <1>2, <1>3, <1>4 DEF Worker
<1> HIDE DEF w
<1>6. Cardinality(Pods) \in Nat
  BY DrainAssumption, FS_CardinalityType
<1>7. CountsInv(w)
  BY <1>2, <1>3, <1>5, <1>6 DEF CountsInv
<1>8. worker'[n] = w /\ \A m \in Nodes \ {n} : worker'[m] = worker[m]
  BY <1>1 DEF TypeInv, TypeOK
<1>9. worker' \in [Nodes -> Worker] /\ \A m \in Nodes : CountsInv(worker'[m])
  BY <1>1, <1>5, <1>7, WorkerType
<1> QED BY <1>5, <1>8, <1>9 DEF P, counts

\* evictPod: one pod less to do, and at most one eviction more.
LEMMA EvictType ==
    ASSUME TypeInv, NEW n \in Nodes, NEW x \in Pods, evictPod(n, x)
    PROVE  /\ worker' \in [Nodes -> Worker] /\ \A m \in Nodes : CountsInv(worker'[m])
           /\ pod' \in [Pods -> PodObject] /\ podCache' \in [Pods -> PodObject]
           /\ budget' \in 0..MaxBudget
           /\ worker'[n].state = worker[n].state /\ worker'[n].err = worker[n].err
           /\ worker'[n].counts = worker[n].counts
           /\ worker'[n].todo = worker[n].todo \ {x}
           /\ worker[n].evicted > 0 => worker'[n].evicted > 0
           /\ worker[n].pdb => worker'[n].pdb
           /\ pod[x].phase # "gone" => worker'[n].pdb \/ worker'[n].evicted > 0
           /\ \A m \in Nodes \ {n} : worker'[m] = worker[m]
           /\ \/ UNCHANGED podVars
              \/ pod[x].phase # "gone" /\ DeletePod(x, ~TooManyRequests(x))
<1> DEFINE rest == [worker[n] EXCEPT !.todo = @ \ {x}]
<1>0. worker[n] \in Worker /\ CountsInv(worker[n]) /\ x \in worker[n].todo /\ TypeOK
  BY DEF TypeInv, TypeOK, evictPod
<1>1. /\ rest \in Worker /\ rest.todo = worker[n].todo \ {x}
      /\ rest.state = worker[n].state /\ rest.err = worker[n].err
      /\ rest.counts = worker[n].counts /\ rest.evicted = worker[n].evicted
      /\ rest.pdb = worker[n].pdb
  BY <1>0 DEF Worker
<1>2. Cardinality(Pods) \in Nat /\ IsFiniteSet(Pods)
  BY DrainAssumption, FS_CardinalityType
<1>3. /\ worker[n].todo \in SUBSET Pods
      /\ worker[n].evicted \in 0..Cardinality(Pods)
  BY <1>0 DEF Worker
<1>4. IsFiniteSet(worker[n].todo) /\ Cardinality(worker[n].todo) \in Nat
  BY <1>2, <1>3, SubsetCount
<1>5. Cardinality(worker[n].todo \ {x}) = Cardinality(worker[n].todo) - 1
  BY <1>0, <1>4, FS_RemoveElement
<1>6. Cardinality(worker[n].todo \ {x}) \in Nat
  BY <1>2, <1>3, SubsetCount
<1>7. CountsInv(rest) /\ rest.evicted + 1 + Cardinality(rest.todo) <= Cardinality(Pods)
  <2> HIDE DEF rest
  <2> QED BY <1>0, <1>1, <1>2, <1>3, <1>4, <1>5, <1>6 DEF CountsInv
<1>8. \/ /\ pod[x].phase = "gone"
         /\ worker' = [worker EXCEPT ![n] = rest]
         /\ UNCHANGED podVars
      \/ /\ pod[x].phase # "gone" /\ TooManyRequests(x)
         /\ worker' = [worker EXCEPT ![n] = [rest EXCEPT !.pdb = TRUE]]
         /\ UNCHANGED podVars
      \/ /\ pod[x].phase # "gone"
         /\ DeletePod(x, ~TooManyRequests(x))
         /\ worker' = [worker EXCEPT ![n] = [rest EXCEPT !.evicted = @ + 1]]
  BY DEF evictPod
<1> HIDE DEF rest
<1>9. ASSUME NEW w \in Worker, CountsInv(w), worker' = [worker EXCEPT ![n] = w]
      PROVE  /\ worker'[n] = w /\ \A m \in Nodes \ {n} : worker'[m] = worker[m]
             /\ worker' \in [Nodes -> Worker] /\ \A m \in Nodes : CountsInv(worker'[m])
  <2>1. worker'[n] = w /\ \A m \in Nodes \ {n} : worker'[m] = worker[m]
    BY <1>9 DEF TypeInv, TypeOK
  <2> QED BY <1>9, <2>1, WorkerType
<1>10. CASE /\ pod[x].phase = "gone"
            /\ worker' = [worker EXCEPT ![n] = rest]
            /\ UNCHANGED podVars
  BY <1>0, <1>1, <1>7, <1>9, <1>10 DEF TypeOK, podVars
<1>11. CASE /\ pod[x].phase # "gone" /\ TooManyRequests(x)
            /\ worker' = [worker EXCEPT ![n] = [rest EXCEPT !.pdb = TRUE]]
            /\ UNCHANGED podVars
  <2> DEFINE w == [rest EXCEPT !.pdb = TRUE]
  <2>1. /\ w \in Worker /\ w.pdb = TRUE /\ w.todo = rest.todo /\ w.state = rest.state
        /\ w.err = rest.err /\ w.counts = rest.counts /\ w.evicted = rest.evicted
    BY <1>1 DEF Worker
  <2> HIDE DEF w
  <2>2. CountsInv(w)
    BY <1>7, <2>1 DEF CountsInv
  <2>3. worker' = [worker EXCEPT ![n] = w]
    BY <1>11 DEF w
  <2> QED BY <1>0, <1>1, <1>9, <1>11, <2>1, <2>2, <2>3 DEF TypeOK, podVars
<1>12. CASE /\ pod[x].phase # "gone"
            /\ DeletePod(x, ~TooManyRequests(x))
            /\ worker' = [worker EXCEPT ![n] = [rest EXCEPT !.evicted = @ + 1]]
  <2> DEFINE w == [rest EXCEPT !.evicted = @ + 1]
  <2>0. rest.evicted + 1 \in 0..Cardinality(Pods) /\ rest.evicted + 1 > 0
    BY <1>1, <1>2, <1>3, <1>6, <1>7
  <2>1. /\ w \in Worker /\ w.pdb = rest.pdb /\ w.todo = rest.todo /\ w.state = rest.state
        /\ w.err = rest.err /\ w.counts = rest.counts /\ w.evicted = rest.evicted + 1
    BY <1>1, <2>0 DEF Worker
  <2> HIDE DEF w
  <2>2. CountsInv(w)
    BY <1>7, <2>1 DEF CountsInv
  <2>3. worker' = [worker EXCEPT ![n] = w]
    BY <1>12 DEF w
  <2>4. /\ pod' \in [Pods -> PodObject] /\ podCache' \in [Pods -> PodObject]
        /\ budget' \in 0..MaxBudget
    <3>1. (~TooManyRequests(x)) \in BOOLEAN
      BY DEF TooManyRequests
    <3> QED BY <1>0, <1>12, <3>1, DeletePodType
  <2> QED BY <1>0, <1>1, <1>9, <1>12, <2>0, <2>1, <2>2, <2>3, <2>4
<1> QED BY <1>8, <1>10, <1>11, <1>12

\* The environment changes one node.
LEMMA SetNodeType ==
    ASSUME TypeOK, NEW n \in Nodes, NEW o \in NodeObject, SetNode(n, o)
    PROVE  /\ node' \in [Nodes -> NodeObject] /\ queued' \in BOOLEAN
           /\ node'[n] = o /\ \A m \in Nodes \ {n} : node'[m] = node[m]
           /\ UNCHANGED <<pod, podCache, budget, plan, planCache, wake, clock, pc, planCopy,
                          worker, faults>>
<1>1. node' = [node EXCEPT ![n] = o] /\ node \in [Nodes -> NodeObject]
  BY DEF SetNode, TypeOK
<1>2. queued' \in BOOLEAN
  <2> DEFINE rel == node[n].unschedulable # o.unschedulable /\ n \in planCache.spec.nodes
  <2>1. queued' = (queued \/ node[n].owned \/ rel)
    BY DEF SetNode
  <2>2. node[n].owned \in BOOLEAN /\ queued \in BOOLEAN /\ rel \in BOOLEAN
    BY DEF TypeOK, NodeObject
  <2> HIDE DEF rel
  <2> QED BY <2>1, <2>2
<1> QED BY <1>1, <1>2 DEF SetNode, podVars, planVars, passVars

\* Every step of the environment that changes a node.
LEMMA NodeStepType ==
    ASSUME TypeOK, NEW n \in Nodes,
           UserCordon(n) \/ UserUncordon(n) \/ NodeDown(n) \/ NodeUp(n)
    PROVE  /\ \E o \in NodeObject :
                 /\ SetNode(n, o)
                 /\ ~o.unschedulable /\ node[n].unschedulable => "uncordon" \in UserOps
           /\ edits' \in 0..MaxEdits
<1>0. node[n] \in NodeObject /\ edits \in 0..MaxEdits /\ MaxEdits \in Nat
  BY DrainAssumption DEF TypeOK
<1>1. CASE UserCordon(n)
  <2>1. [node[n] EXCEPT !.unschedulable = TRUE] \in NodeObject
        /\ [node[n] EXCEPT !.unschedulable = TRUE].unschedulable = TRUE
    BY <1>0 DEF NodeObject
  <2> QED BY <1>0, <1>1, <2>1 DEF UserCordon, UserStep
<1>2. CASE UserUncordon(n)
  <2>1. [node[n] EXCEPT !.unschedulable = FALSE] \in NodeObject
    BY <1>0 DEF NodeObject
  <2> QED BY <1>0, <1>2, <2>1 DEF UserUncordon, UserStep
<1>3. CASE NodeDown(n)
  <2>1. [node[n] EXCEPT !.healthy = FALSE] \in NodeObject
        /\ [node[n] EXCEPT !.healthy = FALSE].unschedulable = node[n].unschedulable
    BY <1>0 DEF NodeObject
  <2>2. SetNode(n, [node[n] EXCEPT !.healthy = FALSE]) /\ edits' \in 0..MaxEdits
    BY <1>0, <1>3 DEF NodeDown, UserStep
  <2> QED BY <2>1, <2>2
<1>4. CASE NodeUp(n)
  <2>1. [node[n] EXCEPT !.healthy = TRUE] \in NodeObject
        /\ [node[n] EXCEPT !.healthy = TRUE].unschedulable = node[n].unschedulable
    BY <1>0 DEF NodeObject
  <2> QED BY <1>0, <1>4, <2>1 DEF NodeUp
<1> QED BY <1>1, <1>2, <1>3, <1>4

\* Every step of the environment that changes a pod.
LEMMA PodStepType ==
    ASSUME TypeOK, NEW x \in Pods,
           RunPod(x) \/ FinishPod(x) \/ UserDeletesPod(x) \/ RemovePod(x)
    PROVE  /\ pod' \in [Pods -> PodObject] /\ podCache' \in [Pods -> PodObject]
           /\ budget' \in 0..MaxBudget /\ edits' \in 0..MaxEdits /\ PodStep
<1>0. pod[x] \in PodObject /\ edits \in 0..MaxEdits /\ MaxEdits \in Nat
      /\ budget \in 0..MaxBudget
  BY DrainAssumption DEF TypeOK
<1>1. [phase |-> "running", deletedAt |-> 0] \in PodObject
      /\ [phase |-> "gone", deletedAt |-> 0] \in PodObject
      /\ [pod[x] EXCEPT !.phase = "finished"] \in PodObject
  BY <1>0 DEF PodObject
<1>2. CASE RunPod(x)
  BY <1>0, <1>1, <1>2, SetPodType DEF RunPod, UserStep
<1>3. CASE FinishPod(x)
  BY <1>0, <1>1, <1>3, SetPodType DEF FinishPod, UserStep
<1>4. CASE UserDeletesPod(x)
  <2>0. edits' \in 0..MaxEdits
    BY <1>0, <1>4 DEF UserDeletesPod, UserStep
  <2>1. DeletePod(x, FALSE) /\ PodStep
    BY <1>4 DEF UserDeletesPod
  <2>2. \A e \in BOOLEAN : DeletePod(x, e) /\ (e => ~TooManyRequests(x))
           => /\ pod' \in [Pods -> PodObject] /\ podCache' \in [Pods -> PodObject]
              /\ budget' \in 0..MaxBudget
    BY DeletePodType
  <2> QED BY <2>0, <2>1, <2>2
<1>5. CASE RemovePod(x)
  BY <1>0, <1>1, <1>5, SetPodType DEF RemovePod
<1> QED BY <1>2, <1>3, <1>4, <1>5

\* A new spec.
LEMMA EditType ==
    ASSUME TypeOK, EditSpec
    PROVE  \E s \in Specs : /\ plan' = [plan EXCEPT !.spec = s] /\ plan' \in PlanObject
                            /\ planCache' = IF PlanLag THEN planCache ELSE plan'
                            /\ plan'.spec = s /\ plan'.nodes = plan.nodes
                            /\ plan'.conditions = plan.conditions
                            /\ plan'.startedAt = plan.startedAt
<1>1. PICK s \in Specs : WritePlan([plan EXCEPT !.spec = s])
  BY DEF EditSpec
<1>2. s \in PlanSpec
  BY DrainAssumption
<1>3. plan' = [plan EXCEPT !.spec = s] /\ planCache' = IF PlanLag THEN planCache ELSE plan'
  BY <1>1 DEF WritePlan
<1>4. plan' \in PlanObject /\ plan'.spec = s /\ plan'.nodes = plan.nodes
      /\ plan'.conditions = plan.conditions /\ plan'.startedAt = plan.startedAt
  BY <1>2, <1>3 DEF TypeOK, PlanObject
<1> QED BY <1>3, <1>4

\* A goroutine that fails keeps its outcome so far.
LEMMA FailsType ==
    ASSUME TypeInv, NEW n \in Nodes, drainNodeFails(n)
    PROVE  /\ worker' \in [Nodes -> Worker] /\ \A m \in Nodes : CountsInv(worker'[m])
           /\ worker'[n].todo = {} /\ worker'[n].err = "other"
           /\ worker'[n].evicted = worker[n].evicted /\ worker'[n].state = "run"
           /\ \A m \in Nodes \ {n} : worker'[m] = worker[m]
<1> DEFINE w == [worker[n] EXCEPT !.state = "run", !.todo = {}, !.err = "other"]
<1>1. worker' = [worker EXCEPT ![n] = w]
  BY DEF drainNodeFails
<1>2. worker[n] \in Worker /\ CountsInv(worker[n])
  BY DEF TypeInv, TypeOK
<1>3. /\ w \in Worker /\ w.todo = {} /\ w.err = "other" /\ w.evicted = worker[n].evicted
      /\ w.counts = worker[n].counts /\ w.state = "run"
  BY <1>2 DEF Worker
<1> HIDE DEF w
<1>4. /\ Cardinality({}) = 0 /\ Cardinality(worker[n].todo) \in Nat
      /\ Cardinality(Pods) \in Nat
  <2>1. worker[n].todo \in SUBSET Pods /\ IsFiniteSet(Pods)
    BY <1>2, DrainAssumption DEF Worker
  <2>2. Cardinality(worker[n].todo) \in 0..Cardinality(Pods)
    BY <2>1, SubsetCount
  <2>3. Cardinality({}) = 0 /\ Cardinality(Pods) \in Nat
    BY <2>1, FS_EmptySet, FS_CardinalityType
  <2> QED BY <2>2, <2>3
<1>5. CountsInv(w)
  <2>1. worker[n].evicted \in Nat
    BY <1>2 DEF Worker
  <2> QED BY <1>2, <1>3, <1>4, <2>1 DEF CountsInv
<1>6. worker'[n] = w /\ \A m \in Nodes \ {n} : worker'[m] = worker[m]
  BY <1>1 DEF TypeInv, TypeOK
<1> QED BY <1>1, <1>3, <1>5, <1>6, WorkerType

\* The history variable follows the DrainTimedOut of the API server's plan.
LEMMA GaveUpStep ==
    ASSUME [Next]_vars
    PROVE  gaveUp' = gaveUp \/ gaveUp' = (gaveUp \/ plan'.conditions.timedOut)
<1>1. CASE Reconcile \/ applyDrainResults \/ EditSpec
  BY <1>1 DEF Reconcile, applyDrainResults, EditSpec, WritePlan
<1>2. CASE \/ applyFails \/ TimerFires \/ SyncPlan \/ Crash \/ BudgetRecovers \/ Tick
           \/ UNCHANGED vars
  BY <1>2 DEF applyFails, TimerFires, SyncPlan, Crash, BudgetRecovers, Tick, PodStep,
              planVars, vars
<1>3. ASSUME NEW n \in Nodes,
             \/ drainNode(n) \/ drainNodeFails(n) \/ UserCordon(n) \/ UserUncordon(n)
             \/ NodeDown(n) \/ NodeUp(n) \/ \E x \in Pods : evictPod(n, x)
      PROVE  gaveUp' = gaveUp
  BY <1>3 DEF drainNode, drainNodeFails, UserCordon, UserUncordon, NodeDown, NodeUp, SetNode,
              evictPod, planVars
<1>4. ASSUME NEW x \in Pods,
             SyncPod(x) \/ RunPod(x) \/ FinishPod(x) \/ UserDeletesPod(x) \/ RemovePod(x)
      PROVE  gaveUp' = gaveUp
  BY <1>4 DEF SyncPod, RunPod, FinishPod, UserDeletesPod, RemovePod, PodStep, planVars
<1> QED BY <1>1, <1>2, <1>3, <1>4 DEF Next, Pass

\* Every step keeps the types and the ranges of the counters.
LEMMA TypeStep ==
    ASSUME TypeInv, [Next]_vars
    PROVE  TypeInv'
<1>0. TypeOK /\ \A n \in Nodes : CountsInv(worker[n])
  BY DEF TypeInv
<1>a. /\ Cardinality(Nodes) \in Nat /\ MaxFaults \in Nat /\ MaxClock \in Nat
      /\ MaxBudget \in Nat /\ faults \in 0..MaxFaults /\ clock \in Times
      /\ budget \in 0..MaxBudget
  BY <1>0, DrainAssumption, FS_CardinalityType DEF TypeOK
<1>b. gaveUp' \in BOOLEAN
  BY <1>0, GaveUpStep DEF TypeOK
<1>1. CASE Reconcile
  <2>1. /\ pc = "idle" /\ node' \in [Nodes -> NodeObject] /\ queued' \in BOOLEAN
        /\ UNCHANGED <<pod, podCache, budget, wake, clock, edits, faults>>
        /\ \E copy : ReconcileEffect(copy)
    BY <1>1, ReconcileStep
  <2>2. PICK copy : ReconcileEffect(copy)
    BY <2>1
  <2>3. plan' \in PlanObject /\ planCache' \in PlanObject
    BY <1>0, <2>2 DEF ReconcileEffect, TypeOK
  <2>4. CASE pc' = "idle" /\ planCopy' = NoPlanCopy /\ worker' = NoWorkers
    <3>1. /\ planCopy' \in PlanObject
          /\ worker' \in [Nodes -> Worker] /\ \A n \in Nodes : CountsInv(worker'[n])
      BY <2>4, EndPassType DEF EndPass
    <3> QED BY <1>0, <1>b, <2>1, <2>3, <2>4, <3>1 DEF TypeInv, TypeOK
  <2>5. CASE pc' = "drain" /\ planCopy' = copy
             /\ worker' \in [Nodes -> {NewWorker("off", "nil"), NewWorker("wait", "nil"),
                                       NewWorker("run", "notReady")}]
    <3>1. /\ NewWorker("off", "nil") \in Worker /\ CountsInv(NewWorker("off", "nil"))
          /\ NewWorker("wait", "nil") \in Worker /\ CountsInv(NewWorker("wait", "nil"))
          /\ NewWorker("run", "notReady") \in Worker
          /\ CountsInv(NewWorker("run", "notReady"))
      BY NewWorkerType
    <3>2. worker' \in [Nodes -> Worker] /\ \A n \in Nodes : CountsInv(worker'[n])
      BY <2>5, <3>1
    <3>3. planCopy' \in PlanObject
      BY <2>2, <2>5 DEF ReconcileEffect
    <3> QED BY <1>0, <1>b, <2>1, <2>3, <2>5, <3>2, <3>3 DEF TypeInv, TypeOK
  <2> QED BY <2>2, <2>4, <2>5 DEF ReconcileEffect
<1>2. CASE applyDrainResults
  <2>1. /\ pc' = "idle" /\ planCopy' = NoPlanCopy /\ worker' = NoWorkers /\ wake' \in BOOLEAN
        /\ UNCHANGED <<node, pod, podCache, budget, queued, clock, edits, faults>>
        /\ \E new : ApplyEffect(new)
    BY <1>2, ApplyStep
  <2>2. PICK new : ApplyEffect(new)
    BY <2>1
  <2>3. plan' \in PlanObject
    <3>1. new \in PlanObject /\ plan' = MergePlan(planCopy, new)
      BY <2>2 DEF ApplyEffect
    <3> QED BY <1>0, <3>1, MergeType DEF TypeOK
  <2>4. planCache' \in PlanObject
    BY <1>0, <2>2, <2>3 DEF ApplyEffect, TypeOK
  <2>5. /\ planCopy' \in PlanObject
        /\ worker' \in [Nodes -> Worker] /\ \A n \in Nodes : CountsInv(worker'[n])
    BY <2>1, EndPassType DEF EndPass
  <2> QED BY <1>0, <1>b, <2>1, <2>3, <2>4, <2>5 DEF TypeInv, TypeOK
<1>3. ASSUME NEW n \in Nodes, drainNode(n) PROVE TypeInv'
  <2>1. worker' \in [Nodes -> Worker] /\ \A m \in Nodes : CountsInv(worker'[m])
    BY <1>3, DrainNodeType
  <2> QED BY <1>0, <1>3, <2>1 DEF drainNode, TypeInv, TypeOK, podVars, planVars, bounds
<1>4. ASSUME NEW n \in Nodes, NEW x \in Pods, evictPod(n, x) PROVE TypeInv'
  <2>1. /\ worker' \in [Nodes -> Worker] /\ \A m \in Nodes : CountsInv(worker'[m])
        /\ pod' \in [Pods -> PodObject] /\ podCache' \in [Pods -> PodObject]
        /\ budget' \in 0..MaxBudget
    BY <1>4, EvictType
  <2>2. UNCHANGED <<node, plan, planCache, queued, wake, clock, pc, planCopy, edits, faults>>
    BY <1>4 DEF evictPod, planVars, bounds
  <2> QED BY <1>0, <1>b, <2>1, <2>2 DEF TypeInv, TypeOK
<1>5. CASE applyFails
  <2>1. /\ pc' = "idle" /\ planCopy' \in PlanObject
        /\ worker' \in [Nodes -> Worker] /\ \A n \in Nodes : CountsInv(worker'[n])
    BY <1>5, EndPassType DEF applyFails
  <2>2. faults' \in 0..MaxFaults
    BY <1>5, <1>a DEF applyFails
  <2> QED BY <1>0, <1>5, <2>1, <2>2 DEF applyFails, TypeInv, TypeOK, podVars, planVars
<1>6. CASE TimerFires
  BY <1>0, <1>6 DEF TimerFires, TypeInv, TypeOK, podVars, planVars, passVars, bounds
<1>7. CASE SyncPlan
  <2>1. queued' \in BOOLEAN /\ planCache' \in PlanObject
    BY <1>0, <1>7 DEF SyncPlan, TypeOK
  <2> QED BY <1>0, <1>7, <2>1 DEF SyncPlan, TypeInv, TypeOK, podVars, passVars, bounds
<1>8. CASE Crash
  <2>1. /\ pc' = "idle" /\ planCopy' \in PlanObject
        /\ worker' \in [Nodes -> Worker] /\ \A n \in Nodes : CountsInv(worker'[n])
    BY <1>8, EndPassType DEF Crash
  <2>2. faults' \in 0..MaxFaults
    BY <1>8, <1>a DEF Crash
  <2> QED BY <1>0, <1>8, <2>1, <2>2 DEF Crash, TypeInv, TypeOK
<1>9. CASE EditSpec
  <2>1. plan' \in PlanObject /\ planCache' \in PlanObject
    <3>1. plan' \in PlanObject /\ planCache' = IF PlanLag THEN planCache ELSE plan'
      BY <1>0, <1>9, EditType
    <3> QED BY <1>0, <3>1 DEF TypeOK
  <2>2. edits' \in 0..MaxEdits
    BY <1>0, <1>9, DrainAssumption DEF EditSpec, UserStep, TypeOK
  <2>3. queued' \in BOOLEAN
    BY <1>9 DEF EditSpec
  <2> QED BY <1>0, <1>b, <1>9, <2>1, <2>2, <2>3 DEF EditSpec, TypeInv, TypeOK, podVars, passVars
<1>10. CASE BudgetRecovers
  <2>1. budget' \in 0..MaxBudget
    BY <1>10, <1>a DEF BudgetRecovers
  <2> QED BY <1>0, <1>10, <2>1
        DEF BudgetRecovers, PodStep, TypeInv, TypeOK, planVars, passVars
<1>11. CASE Tick
  <2>1. clock' \in Times
    BY <1>11, <1>a DEF Tick, Times
  <2> QED BY <1>0, <1>11, <2>1 DEF Tick, TypeInv, TypeOK, podVars, planVars, passVars, bounds
<1>12. ASSUME NEW n \in Nodes, drainNodeFails(n) PROVE TypeInv'
  <2>1. worker' \in [Nodes -> Worker] /\ \A m \in Nodes : CountsInv(worker'[m])
    BY <1>12, FailsType
  <2>2. faults' \in 0..MaxFaults
    BY <1>12, <1>a DEF drainNodeFails
  <2> QED BY <1>0, <1>12, <2>1, <2>2 DEF drainNodeFails, TypeInv, TypeOK, podVars, planVars
<1>13. ASSUME NEW n \in Nodes,
              UserCordon(n) \/ UserUncordon(n) \/ NodeDown(n) \/ NodeUp(n)
       PROVE  TypeInv'
  <2>1. edits' \in 0..MaxEdits /\ \E o \in NodeObject : SetNode(n, o)
    BY <1>0, <1>13, NodeStepType
  <2>2. /\ node' \in [Nodes -> NodeObject] /\ queued' \in BOOLEAN
        /\ UNCHANGED <<pod, podCache, budget, plan, planCache, wake, clock, pc, planCopy,
                       worker, faults>>
    BY <1>0, <2>1, SetNodeType
  <2> QED BY <1>0, <1>b, <2>1, <2>2 DEF TypeInv, TypeOK
<1>14. ASSUME NEW x \in Pods, SyncPod(x) PROVE TypeInv'
  <2>1. podCache' \in [Pods -> PodObject]
    BY <1>0, <1>14 DEF SyncPod, TypeOK
  <2> QED BY <1>0, <1>14, <2>1 DEF SyncPod, TypeInv, TypeOK, planVars, passVars, bounds
<1>15. ASSUME NEW x \in Pods,
              RunPod(x) \/ FinishPod(x) \/ UserDeletesPod(x) \/ RemovePod(x)
       PROVE  TypeInv'
  <2>1. /\ pod' \in [Pods -> PodObject] /\ podCache' \in [Pods -> PodObject]
        /\ budget' \in 0..MaxBudget /\ edits' \in 0..MaxEdits /\ PodStep
    BY <1>0, <1>15, PodStepType
  <2> QED BY <1>0, <2>1 DEF PodStep, TypeInv, TypeOK, planVars, passVars
<1>16. CASE UNCHANGED vars
  BY <1>0, <1>16 DEF TypeInv, TypeOK, vars
<1> QED BY <1>1, <1>2, <1>3, <1>4, <1>5, <1>6, <1>7, <1>8, <1>9, <1>10, <1>11, <1>12, <1>13,
           <1>14, <1>15, <1>16 DEF Next, Pass

\* TypeOK: every variable keeps its type in every reachable state; in particular
\* the disruption budget is never overdrawn, no counter of a goroutine or of the
\* status exceeds the number of pods, and progress stays a percentage.
THEOREM DrainTypeCorrect == Spec => []TypeOK
<1>1. Init => TypeInv
  BY TypeInit
<1>2. TypeInv /\ [Next]_vars => TypeInv'
  BY TypeStep
<1>3. TypeInv => TypeOK
  BY DEF TypeInv
<1> QED BY <1>1, <1>2, <1>3, PTL DEF Spec

(***************************************************************************)
(* What a running pass knows, for any lag of the caches.                   *)
(***************************************************************************)

\* filterPodsForDrain lets the options decide about pod x, and opts let it go.
Removable(x, opts) ==
    /\ Traits[x] \intersect {"mirror", "daemonSet"} = {}
    /\ "controlled" \in Traits[x] \/ opts.force
    /\ "emptyDir" \in Traits[x] => opts.deleteEmptyDirData

\* The plan has a spec some user chose.  While goroutines drain, the copy of the
\* pass has the server's start of the drain, the server has no DrainTimedOut, and
\* every pod on a goroutine's list is one the copy's options let go.
PassInv ==
    /\ plan.spec \in Specs /\ planCache.spec \in Specs
    /\ pc = "drain" =>
          /\ planCopy.spec \in Specs
          /\ planCopy.startedAt = plan.startedAt
          /\ ~plan.conditions.timedOut
          /\ \A n \in Nodes :
                /\ worker[n].todo # {} => worker[n].state = "run"
                /\ \A x \in worker[n].todo : Removable(x, planCopy.spec.opts)

\* Without a lag of the plan cache, the copy has the server's entries, too.
FreshInv ==
    /\ planCache = plan
    /\ pc = "drain" => planCopy.nodes = plan.nodes /\ planCopy.conditions = plan.conditions

\* Pod x keeps node n from being drained.
Occupies(x, n) ==
    /\ Home[x] = n /\ pod[x].phase = "running"
    /\ Traits[x] \intersect {"mirror", "daemonSet"} = {}

\* A goroutine's node is cordoned.  Once it has listed the pods, its outcome is
\* not "drained", or every pod that occupies the node is still on its list.
SeenInv ==
    /\ podCache = pod
    /\ pc = "drain" => \A n \in Nodes :
          /\ worker[n].state # "off" => node[n].unschedulable
          /\ worker[n].state = "run" /\ Outcome(worker[n]) = "drained"
                => \A x \in Pods : Occupies(x, n) => x \in worker[n].todo

\* How a step may change the plan, its cached copy and the pass.
LEMMA StepKinds ==
    ASSUME TypeInv, [Next]_vars
    PROVE  \/ Reconcile \/ applyDrainResults \/ EditSpec
           \/ \E n \in Nodes : drainNode(n) \/ drainNodeFails(n)
           \/ \E n \in Nodes, x \in Pods : evictPod(n, x)
           \/ EndPass /\ plan' = plan /\ planCache' \in {planCache, plan}
           \/ /\ plan' = plan /\ planCache' \in {planCache, plan}
              /\ UNCHANGED <<pc, planCopy, worker>>
<1>0. TypeOK
  BY DEF TypeInv
<1>1. CASE applyFails
  BY <1>1 DEF applyFails, planVars
<1>2. CASE Crash
  BY <1>2 DEF Crash
<1>3. CASE SyncPlan
  BY <1>3 DEF SyncPlan, passVars
<1>4. CASE TimerFires \/ BudgetRecovers \/ Tick
  BY <1>4 DEF TimerFires, BudgetRecovers, Tick, PodStep, planVars, passVars
<1>5. ASSUME NEW n \in Nodes,
             UserCordon(n) \/ UserUncordon(n) \/ NodeDown(n) \/ NodeUp(n)
      PROVE  UNCHANGED <<plan, planCache, pc, planCopy, worker>>
  BY <1>5 DEF UserCordon, UserUncordon, NodeDown, NodeUp, SetNode, planVars, passVars
<1>6. ASSUME NEW x \in Pods,
             SyncPod(x) \/ RunPod(x) \/ FinishPod(x) \/ UserDeletesPod(x) \/ RemovePod(x)
      PROVE  UNCHANGED <<plan, planCache, pc, planCopy, worker>>
  BY <1>6 DEF SyncPod, RunPod, FinishPod, UserDeletesPod, RemovePod, PodStep, planVars,
              passVars
<1>7. CASE UNCHANGED vars
  BY <1>7 DEF vars
<1> QED BY <1>1, <1>2, <1>3, <1>4, <1>5, <1>6, <1>7 DEF Next, Pass

\* classifyPods calls a pod evictable only when the options let it go.
LEMMA EvictableRemovable ==
    ASSUME NEW x \in Pods, NEW o, NEW opts, classify(x, o, opts) = "evictable"
    PROVE  Removable(x, opts)
<1>1. /\ "mirror" \notin Traits[x] /\ "daemonSet" \notin Traits[x]
      /\ "controlled" \in Traits[x] \/ opts.force
      /\ "emptyDir" \in Traits[x] => opts.deleteEmptyDirData
  BY DEF classify
<1> QED BY <1>1 DEF Removable

\* The goroutines of a new pass have nothing on their lists.
LEMMA ReconcileTodo ==
    ASSUME NEW copy, ReconcileEffect(copy), pc' = "drain"
    PROVE  /\ \A n \in Nodes : worker'[n].todo = {} /\ worker'[n].evicted = 0
           /\ \A n \in Nodes : worker'[n].state = "run" => worker'[n].err = "notReady"
           /\ \A n \in Nodes : worker'[n].state # "off" => node'[n].unschedulable
           /\ planCopy' = copy /\ ~copy.conditions.timedOut
<1>1. /\ planCopy' = copy /\ ~copy.conditions.timedOut
      /\ worker' \in [Nodes -> {NewWorker("off", "nil"), NewWorker("wait", "nil"),
                                NewWorker("run", "notReady")}]
      /\ \A n \in Nodes : worker'[n].state # "off" => node'[n].unschedulable
  BY DEF ReconcileEffect
<1>2. \A w \in {NewWorker("off", "nil"), NewWorker("wait", "nil"), NewWorker("run", "notReady")} :
         w.todo = {} /\ w.evicted = 0 /\ (w.state = "run" => w.err = "notReady")
  BY DEF NewWorker
<1> QED BY <1>1, <1>2

\* The initial states satisfy PassInv.
LEMMA PassInit == Init => PassInv
<1> SUFFICES ASSUME Init PROVE PassInv
  OBVIOUS
<1>1. PICK s \in Specs : plan = NewPlan(s)
  BY DEF Init
<1>2. plan.spec = s /\ planCache = plan /\ pc = "idle"
  BY <1>1 DEF Init, NewPlan
<1> QED BY <1>2 DEF PassInv

\* Every step keeps PassInv.
LEMMA PassStep ==
    ASSUME TypeInv, PassInv, [Next]_vars
    PROVE  PassInv'
<1>0. TypeOK /\ plan.spec \in Specs /\ planCache.spec \in Specs
  BY DEF TypeInv, PassInv
<1>1. CASE Reconcile
  <2>1. PICK copy : ReconcileEffect(copy)
    BY <1>1, ReconcileStep
  <2>2. /\ plan' = copy /\ planCache' = (IF PlanLag THEN planCache ELSE copy)
        /\ copy.spec = plan.spec
    BY <2>1 DEF ReconcileEffect
  <2>3. plan'.spec \in Specs /\ planCache'.spec \in Specs
    BY <1>0, <2>2
  <2>4. CASE pc' # "drain"
    BY <2>3, <2>4 DEF PassInv
  <2>5. CASE pc' = "drain"
    <3>1. /\ planCopy' = copy /\ ~copy.conditions.timedOut
          /\ \A n \in Nodes : worker'[n].todo = {}
      BY <2>1, <2>5, ReconcileTodo
    <3> QED BY <1>0, <2>2, <2>3, <3>1 DEF PassInv
  <2> QED BY <2>4, <2>5
<1>2. CASE applyDrainResults
  <2>1. pc' = "idle"
    BY <1>2, ApplyStep
  <2>2. PICK new : ApplyEffect(new)
    BY <1>2, ApplyStep
  <2>3. new \in PlanObject /\ planCopy \in PlanObject /\ plan \in PlanObject
        /\ plan' = MergePlan(planCopy, new)
        /\ planCache' = (IF PlanLag THEN planCache ELSE plan')
    BY <1>0, <2>2 DEF ApplyEffect, TypeOK
  <2>4. plan'.spec = plan.spec
    BY <2>3, MergeType
  <2> QED BY <1>0, <2>1, <2>3, <2>4 DEF PassInv
<1>3. CASE EditSpec
  <2>1. PICK s \in Specs :
           /\ planCache' = (IF PlanLag THEN planCache ELSE plan') /\ plan'.spec = s
           /\ plan'.conditions = plan.conditions /\ plan'.startedAt = plan.startedAt
    BY <1>0, <1>3, EditType
  <2>2. UNCHANGED <<pc, planCopy, worker>>
    BY <1>3 DEF EditSpec, passVars
  <2> QED BY <1>0, <2>1, <2>2 DEF PassInv
<1>4. ASSUME NEW n \in Nodes, drainNode(n) PROVE PassInv'
  <2>1. /\ UNCHANGED <<plan, planCache, pc, planCopy>> /\ pc = "drain"
    BY <1>4 DEF drainNode, planVars
  <2>2. /\ worker'[n].state = "run"
        /\ worker'[n].todo = PodsOf(n, podCache, planCopy.spec.opts, "evictable")
        /\ \A m \in Nodes \ {n} : worker'[m] = worker[m]
    BY <1>4, DrainNodeType
  <2>3. \A x \in worker'[n].todo : Removable(x, planCopy.spec.opts)
    BY <2>2, EvictableRemovable DEF PodsOf
  <2>4. \A m \in Nodes : /\ worker'[m].todo # {} => worker'[m].state = "run"
                         /\ \A x \in worker'[m].todo : Removable(x, planCopy.spec.opts)
    BY <2>1, <2>2, <2>3 DEF PassInv
  <2>5. \A m \in Nodes : \A x \in worker'[m].todo : Removable(x, planCopy'.spec.opts)
    BY <2>1, <2>4
  <2> QED BY <2>1, <2>4, <2>5 DEF PassInv
<1>5. ASSUME NEW n \in Nodes, drainNodeFails(n) PROVE PassInv'
  <2>1. UNCHANGED <<plan, planCache, pc, planCopy>>
    BY <1>5 DEF drainNodeFails, planVars
  <2>2. worker'[n].todo = {} /\ \A m \in Nodes \ {n} : worker'[m] = worker[m]
    BY <1>5, FailsType
  <2> QED BY <2>1, <2>2 DEF PassInv
<1>6. ASSUME NEW n \in Nodes, NEW x \in Pods, evictPod(n, x) PROVE PassInv'
  <2>1. UNCHANGED <<plan, planCache, pc, planCopy>>
    BY <1>6 DEF evictPod, planVars
  <2>2. /\ worker'[n].state = worker[n].state /\ worker'[n].todo = worker[n].todo \ {x}
        /\ \A m \in Nodes \ {n} : worker'[m] = worker[m]
    BY <1>6, EvictType
  <2> QED BY <2>1, <2>2 DEF PassInv
<1>7. CASE EndPass /\ plan' = plan /\ planCache' \in {planCache, plan}
  BY <1>0, <1>7 DEF PassInv, EndPass
<1>8. CASE /\ plan' = plan /\ planCache' \in {planCache, plan}
           /\ UNCHANGED <<pc, planCopy, worker>>
  BY <1>0, <1>8 DEF PassInv
<1> QED BY <1>1, <1>2, <1>3, <1>4, <1>5, <1>6, <1>7, <1>8, StepKinds

\* DeadlineNeverMoves, whatever the plan cache shows: a pass reads the start of
\* the drain from the response to its own status patch, and no other pass of the
\* plan runs while it drains, so it never overwrites a start with a later one.
THEOREM DeadlineFixed == Spec => DeadlineNeverMoves
<1>1. Init => TypeInv /\ PassInv
  BY TypeInit, PassInit
<1>2. TypeInv /\ PassInv /\ [Next]_vars => (TypeInv /\ PassInv)'
  BY TypeStep, PassStep
<1>3. TypeInv /\ PassInv /\ [Next]_vars => [DeadlineNeverMovesStep]_vars
  <2> SUFFICES ASSUME TypeInv, PassInv, [Next]_vars, plan.startedAt # 0
               PROVE  plan'.startedAt = plan.startedAt
    BY DEF DeadlineNeverMovesStep
  <2>1. CASE Reconcile
    BY <2>1, ReconcileStep DEF ReconcileEffect
  <2>2. CASE applyDrainResults
    <3>1. PICK new : ApplyEffect(new)
      BY <2>2, ApplyStep
    <3>2. new \in PlanObject /\ planCopy \in PlanObject /\ plan \in PlanObject
          /\ plan' = MergePlan(planCopy, new)
          /\ (planCopy.startedAt # 0 => new.startedAt = planCopy.startedAt)
      BY <3>1 DEF ApplyEffect, TypeInv, TypeOK
    <3>3. plan'.startedAt = MergeField(plan.startedAt, planCopy.startedAt, new.startedAt)
      BY <3>2, MergeType
    <3>4. planCopy.startedAt = plan.startedAt
      BY <2>2, ApplyStep DEF PassInv
    <3> QED BY <3>2, <3>3, <3>4 DEF MergeField
  <2>3. CASE EditSpec
    BY <2>3, EditType DEF TypeInv
  <2>4. CASE ~Reconcile /\ ~applyDrainResults /\ ~EditSpec
    <3>1. plan' = plan
      BY <2>4, StepKinds DEF drainNode, drainNodeFails, evictPod, planVars
    <3> QED BY <3>1
  <2> QED BY <2>1, <2>2, <2>3, <2>4
<1> QED BY <1>1, <1>2, <1>3, PTL DEF Spec, DeadlineNeverMoves

\* A pod is evicted only while the API server has no DrainTimedOut, whatever the
\* plan cache shows: the pass looks for it in the response to its status patch,
\* and only its own last patch can set it.
LEMMA EvictionStep ==
    ASSUME TypeInv, PassInv, [Next]_vars,
           NEW m \in Nodes, worker'[m].evicted > worker[m].evicted
    PROVE  ~plan.conditions.timedOut
<1>0. worker[m].evicted \in Nat
  <2>1. worker[m] \in Worker /\ Cardinality(Pods) \in Nat
    BY DrainAssumption, FS_CardinalityType DEF TypeInv, TypeOK
  <2> QED BY <2>1 DEF Worker
<1>1. worker'[m].evicted # 0 /\ worker' # worker
  BY <1>0
<1>2. ASSUME EndPass PROVE FALSE
  <2>1. worker'[m] = NewWorker("off", "nil")
    BY <1>2 DEF EndPass, NoWorkers
  <2> QED BY <1>1, <2>1, NewWorkerType
<1>3. CASE Reconcile
  <2>1. PICK copy : ReconcileEffect(copy)
    BY <1>3, ReconcileStep
  <2>2. CASE pc' = "drain"
    BY <1>1, <2>1, <2>2, ReconcileTodo
  <2>3. CASE pc' # "drain"
    BY <1>2, <2>1, <2>3 DEF ReconcileEffect, EndPass
  <2> QED BY <2>2, <2>3
<1>4. CASE applyDrainResults
  BY <1>2, <1>4 DEF applyDrainResults
<1>5. CASE EditSpec
  BY <1>1, <1>5 DEF EditSpec, passVars
<1>6. CASE \/ \E n \in Nodes : drainNode(n) \/ drainNodeFails(n)
           \/ \E n \in Nodes, x \in Pods : evictPod(n, x)
  <2>1. pc = "drain"
    BY <1>6 DEF drainNode, drainNodeFails, evictPod
  <2> QED BY <2>1 DEF PassInv
<1> QED BY <1>1, <1>2, <1>3, <1>4, <1>5, <1>6, StepKinds

(***************************************************************************)
(* Pods.                                                                   *)
(***************************************************************************)

\* Which steps change a pod.
LEMMA PodKinds ==
    ASSUME TypeInv, [Next]_vars
    PROVE  \/ pod' = pod
           \/ \E n \in Nodes, x \in Pods : evictPod(n, x)
           \/ \E x \in Pods : RunPod(x) \/ FinishPod(x) \/ UserDeletesPod(x) \/ RemovePod(x)
<1>1. CASE Reconcile \/ applyDrainResults
  BY <1>1, ReconcileStep, ApplyStep
<1>2. CASE applyFails \/ Crash \/ SyncPlan \/ TimerFires \/ BudgetRecovers \/ Tick \/ EditSpec
  BY <1>2 DEF applyFails, Crash, SyncPlan, TimerFires, BudgetRecovers, Tick, EditSpec, podVars
<1>3. ASSUME NEW n \in Nodes,
             \/ drainNode(n) \/ drainNodeFails(n)
             \/ UserCordon(n) \/ UserUncordon(n) \/ NodeDown(n) \/ NodeUp(n)
      PROVE  pod' = pod
  BY <1>3 DEF drainNode, drainNodeFails, UserCordon, UserUncordon, NodeDown, NodeUp, SetNode,
              podVars
<1>4. ASSUME NEW x \in Pods, SyncPod(x) PROVE pod' = pod
  BY <1>4 DEF SyncPod
<1>5. CASE UNCHANGED vars
  BY <1>5 DEF vars
<1> QED BY <1>1, <1>2, <1>3, <1>4, <1>5 DEF Next, Pass

\* The API server stores pod x and leaves the others alone.
LEMMA SetPodEffect ==
    ASSUME TypeOK, NEW x \in Pods, NEW o, SetPod(x, o)
    PROVE  \A y \in Pods : pod'[y] = IF y = x THEN o ELSE pod[y]
BY DEF TypeOK, SetPod

\* A graceful deletion sets the deletion timestamp and leaves the pod running.
LEMMA DeletePodEffect ==
    ASSUME TypeOK, NEW x \in Pods, NEW e, DeletePod(x, e)
    PROVE  \A y \in Pods : /\ pod'[y].phase = pod[y].phase
                           /\ y # x => pod'[y] = pod[y]
<1>1. CASE pod[x].deletedAt # 0
  BY <1>1 DEF DeletePod, podVars
<1>2. CASE pod[x].deletedAt = 0
  <2> DEFINE o == [pod[x] EXCEPT !.deletedAt = clock]
  <2>1. SetPod(x, o)
    BY <1>2 DEF DeletePod
  <2>2. o.phase = pod[x].phase
    BY DEF TypeOK, PodObject
  <2> HIDE DEF o
  <2>3. \A y \in Pods : pod'[y] = IF y = x THEN o ELSE pod[y]
    BY <2>1, SetPodEffect
  <2> QED BY <2>2, <2>3
<1> QED BY <1>1, <1>2

\* ProtectedPodsSurvive, for any lag and whatever users do: the list of a goroutine
\* holds only pods that the options of the pass let go, and the copy that has
\* these options does not change before the pass is over.
THEOREM ProtectedPods == Spec => ProtectedPodsSurvive
<1>1. Init => TypeInv /\ PassInv
  BY TypeInit, PassInit
<1>2. TypeInv /\ PassInv /\ [Next]_vars => (TypeInv /\ PassInv)'
  BY TypeStep, PassStep
<1>3. TypeInv /\ PassInv /\ [Next]_vars => [ProtectedPodsSurviveStep]_vars
  <2> SUFFICES ASSUME TypeInv, PassInv, [Next]_vars,
                      NEW y \in Pods, pod[y].deletedAt = 0, pod'[y].deletedAt # 0,
                      edits' = edits
               PROVE  Removable(y, planCopy.spec.opts)
    BY DEF ProtectedPodsSurviveStep, Removable
  <2>0. TypeOK
    BY DEF TypeInv
  <2>1. ASSUME NEW n \in Nodes, NEW x \in Pods, evictPod(n, x)
        PROVE  Removable(y, planCopy.spec.opts)
    <3>1. y = x
      <4> SUFFICES ASSUME y # x PROVE pod'[y] = pod[y]
        OBVIOUS
      <4>1. UNCHANGED podVars \/ DeletePod(x, ~TooManyRequests(x))
        BY <2>1, EvictType
      <4>2. CASE UNCHANGED podVars
        BY <4>2 DEF podVars
      <4>3. CASE DeletePod(x, ~TooManyRequests(x))
        BY <2>0, <4>3, DeletePodEffect
      <4> QED BY <4>1, <4>2, <4>3
    <3>2. pc = "drain" /\ x \in worker[n].todo
      BY <2>1 DEF evictPod
    <3> QED BY <3>1, <3>2 DEF PassInv
  <2>2. ASSUME NEW x \in Pods, RunPod(x) \/ FinishPod(x) \/ UserDeletesPod(x)
        PROVE  FALSE
    <3>1. edits' = edits + 1
      BY <2>2 DEF RunPod, FinishPod, UserDeletesPod, UserStep
    <3>2. edits \in Nat
      BY <2>0, DrainAssumption DEF TypeOK
    <3> QED BY <3>1, <3>2
  <2>3. ASSUME NEW x \in Pods, RemovePod(x) PROVE FALSE
    <3>1. SetPod(x, [phase |-> "gone", deletedAt |-> 0])
      BY <2>3 DEF RemovePod
    <3>2. pod'[y] = IF y = x THEN [phase |-> "gone", deletedAt |-> 0] ELSE pod[y]
      BY <2>0, <3>1, SetPodEffect
    <3> QED BY <3>2
  <2> QED BY <2>1, <2>2, <2>3, PodKinds
<1> QED BY <1>1, <1>2, <1>3, PTL DEF Spec, ProtectedPodsSurvive

(***************************************************************************)
(* The status, when the plan cache does not lag.                           *)
(***************************************************************************)

\* The initial states satisfy FreshInv.
LEMMA FreshInit == Init => FreshInv
BY DEF Init, FreshInv

\* Every step keeps FreshInv.
LEMMA FreshStep ==
    ASSUME ~PlanLag, TypeInv, FreshInv, [Next]_vars
    PROVE  FreshInv'
<1>0. planCache = plan /\ TypeOK
  BY DEF FreshInv, TypeInv
<1>1. CASE Reconcile
  <2>1. PICK copy : ReconcileEffect(copy)
    BY <1>1, ReconcileStep
  <2>2. plan' = copy /\ planCache' = copy
    BY <2>1 DEF ReconcileEffect
  <2>3. pc' = "drain" => planCopy' = copy
    BY <2>1, ReconcileTodo
  <2> QED BY <2>2, <2>3 DEF FreshInv
<1>2. CASE applyDrainResults
  <2>1. pc' = "idle" /\ planCache' = plan'
    BY <1>2, ApplyStep DEF ApplyEffect
  <2> QED BY <2>1 DEF FreshInv
<1>3. CASE EditSpec
  <2>1. /\ planCache' = plan' /\ plan'.nodes = plan.nodes
        /\ plan'.conditions = plan.conditions
    BY <1>0, <1>3, EditType
  <2>2. UNCHANGED <<pc, planCopy>>
    BY <1>3 DEF EditSpec, passVars
  <2> QED BY <2>1, <2>2 DEF FreshInv
<1>4. CASE ~Reconcile /\ ~applyDrainResults /\ ~EditSpec
  <2>1. CASE EndPass
    <3>1. pc' = "idle" /\ plan' = plan /\ planCache' = plan
      BY <1>0, <1>4, <2>1, StepKinds
         DEF EndPass, drainNode, drainNodeFails, evictPod, planVars
    <3> QED BY <3>1 DEF FreshInv
  <2>2. CASE ~EndPass
    <3>1. UNCHANGED <<pc, planCopy, plan>> /\ planCache' = plan
      BY <1>0, <1>4, <2>2, StepKinds DEF drainNode, drainNodeFails, evictPod, planVars
    <3> QED BY <3>1 DEF FreshInv
  <2> QED BY <2>1, <2>2
<1> QED BY <1>1, <1>2, <1>3, <1>4

\* What a step may do to the readiness of a node and to DrainTimedOut.
LEMMA StatusStep ==
    ASSUME ~PlanLag, TypeInv, FreshInv, [Next]_vars
    PROVE  /\ plan.conditions.timedOut => plan'.conditions.timedOut
           /\ \A n \in Nodes : n \in plan.spec.nodes /\ plan.nodes[n].ready
                                  => plan'.nodes[n].ready
           /\ \A n \in Nodes : ~plan.nodes[n].ready /\ plan'.nodes[n].ready
                 => /\ applyDrainResults /\ worker[n].state # "off"
                    /\ Outcome(worker[n]) = "drained"
<1>0. planCache = plan /\ TypeOK
  BY DEF FreshInv, TypeInv
<1>1. CASE Reconcile
  <2>1. PICK copy : ReconcileEffect(copy)
    BY <1>1, ReconcileStep
  <2>2. /\ plan' = copy
        /\ \/ copy.conditions = plan.conditions
           \/ copy.conditions.timedOut = plan.conditions.timedOut
        /\ \/ copy.nodes = plan.nodes
           \/ \A n \in Nodes : copy.nodes[n].ready <=> n \in plan.spec.nodes /\ plan.nodes[n].ready
    BY <1>0, <2>1 DEF ReconcileEffect
  <2> QED BY <2>2
<1>2. CASE applyDrainResults
  <2>1. PICK new : ApplyEffect(new)
    BY <1>2, ApplyStep
  <2>2. planCopy.nodes = plan.nodes /\ planCopy.conditions = plan.conditions
    BY <1>2, ApplyStep DEF FreshInv
  <2>3. /\ new \in PlanObject /\ planCopy \in PlanObject /\ plan \in PlanObject
        /\ plan' = MergePlan(planCopy, new)
        /\ (planCopy.conditions.timedOut => new.conditions.timedOut)
        /\ \A n \in Nodes :
              /\ planCopy.nodes[n].ready => new.nodes[n].ready
              /\ new.nodes[n].ready /\ ~planCopy.nodes[n].ready
                    => worker[n].state # "off" /\ Outcome(worker[n]) = "drained"
    BY <1>0, <2>1 DEF ApplyEffect, TypeOK
  <2>4. /\ plan'.nodes = MergeField(plan.nodes, planCopy.nodes, new.nodes)
        /\ plan'.conditions = MergeField(plan.conditions, planCopy.conditions, new.conditions)
    BY <2>3, MergeType
  <2>5. plan'.nodes = new.nodes /\ plan'.conditions = new.conditions
    BY <2>2, <2>4 DEF MergeField
  <2> QED BY <1>2, <2>2, <2>3, <2>5
<1>3. CASE EditSpec
  <2>1. plan'.nodes = plan.nodes /\ plan'.conditions = plan.conditions
    BY <1>0, <1>3, EditType
  <2> QED BY <2>1
<1>4. CASE ~Reconcile /\ ~applyDrainResults /\ ~EditSpec
  <2>1. plan' = plan
    BY <1>4, StepKinds DEF drainNode, drainNodeFails, evictPod, planVars
  <2> QED BY <2>1
<1> QED BY <1>1, <1>2, <1>3, <1>4

\* ReadyIsKept, when the plan cache does not lag.
THEOREM ReadinessKept ==
    ASSUME ~PlanLag
    PROVE  Spec => ReadyIsKept
<1>1. Init => TypeInv /\ FreshInv
  BY TypeInit, FreshInit
<1>2. TypeInv /\ FreshInv /\ [Next]_vars => (TypeInv /\ FreshInv)'
  BY TypeStep, FreshStep
<1>3. TypeInv /\ FreshInv /\ [Next]_vars => [ReadyIsKeptStep]_vars
  <2> SUFFICES ASSUME TypeInv, FreshInv, [Next]_vars PROVE ReadyIsKeptStep
    OBVIOUS
  <2>1. plan.spec.nodes \subseteq Nodes
    BY DEF TypeInv, TypeOK, PlanObject, PlanSpec
  <2> QED BY <2>1, StatusStep DEF ReadyIsKeptStep
<1> QED BY <1>1, <1>2, <1>3, PTL DEF Spec, ReadyIsKept

\* TimedOutIsTerminal, when the plan cache does not lag.
THEOREM TimeoutKept ==
    ASSUME ~PlanLag
    PROVE  Spec => TimedOutIsTerminal
<1>1. Init => TypeInv /\ FreshInv
  BY TypeInit, FreshInit
<1>2. TypeInv /\ FreshInv /\ [Next]_vars => (TypeInv /\ FreshInv)'
  BY TypeStep, FreshStep
<1>3. TypeInv /\ FreshInv /\ [Next]_vars => [TimedOutIsTerminalStep]_vars
  BY StatusStep DEF TimedOutIsTerminalStep
<1> QED BY <1>1, <1>2, <1>3, PTL DEF Spec, TimedOutIsTerminal

\* NoEvictionAfterTimeout, when the plan cache does not lag: DrainTimedOut is never
\* taken back, so once the API server has had it, it has it whenever a pass looks.
THEOREM NoLateEvictions ==
    ASSUME ~PlanLag
    PROVE  Spec => NoEvictionAfterTimeout
<1> DEFINE Kept == gaveUp => plan.conditions.timedOut
<1>1. Init => TypeInv /\ PassInv /\ FreshInv /\ Kept
  BY TypeInit, PassInit, FreshInit DEF Init
<1>2. TypeInv /\ PassInv /\ FreshInv /\ Kept /\ [Next]_vars
         => (TypeInv /\ PassInv /\ FreshInv /\ Kept)'
  <2> SUFFICES ASSUME TypeInv, PassInv, FreshInv, Kept, [Next]_vars PROVE Kept'
    BY TypeStep, PassStep, FreshStep
  <2>1. plan.conditions.timedOut => plan'.conditions.timedOut
    BY StatusStep
  <2> QED BY <2>1, GaveUpStep
<1>3. TypeInv /\ PassInv /\ Kept /\ [Next]_vars => [NoEvictionAfterTimeoutStep]_vars
  BY EvictionStep DEF NoEvictionAfterTimeoutStep
<1> QED BY <1>1, <1>2, <1>3, PTL DEF Spec, NoEvictionAfterTimeout

(***************************************************************************)
(* A node that is ready for maintenance is empty.                          *)
(***************************************************************************)

\* The pod cache keeps up.
LEMMA CacheStep ==
    ASSUME ~PodLag, TypeInv, podCache = pod, [Next]_vars
    PROVE  podCache' = pod'
<1>0. TypeOK
  BY DEF TypeInv
<1>1. CASE Reconcile \/ applyDrainResults
  BY <1>1, ReconcileStep, ApplyStep
<1>2. CASE applyFails \/ Crash \/ SyncPlan \/ TimerFires \/ BudgetRecovers \/ Tick \/ EditSpec
  BY <1>2 DEF applyFails, Crash, SyncPlan, TimerFires, BudgetRecovers, Tick, EditSpec, podVars
<1>3. ASSUME NEW n \in Nodes,
             \/ drainNode(n) \/ drainNodeFails(n)
             \/ UserCordon(n) \/ UserUncordon(n) \/ NodeDown(n) \/ NodeUp(n)
      PROVE  podCache' = pod'
  BY <1>3 DEF drainNode, drainNodeFails, UserCordon, UserUncordon, NodeDown, NodeUp, SetNode,
              podVars
<1>4. ASSUME NEW n \in Nodes, NEW x \in Pods, evictPod(n, x) PROVE podCache' = pod'
  <2>1. UNCHANGED podVars \/ DeletePod(x, ~TooManyRequests(x))
    BY <1>4, EvictType
  <2> QED BY <2>1 DEF DeletePod, SetPod, podVars
<1>5. ASSUME NEW x \in Pods,
             SyncPod(x) \/ RunPod(x) \/ FinishPod(x) \/ UserDeletesPod(x) \/ RemovePod(x)
      PROVE  podCache' = pod'
  BY <1>5 DEF SyncPod, RunPod, FinishPod, UserDeletesPod, RemovePod, DeletePod, SetPod, podVars
<1>6. CASE UNCHANGED vars
  BY <1>6 DEF vars
<1> QED BY <1>1, <1>2, <1>3, <1>4, <1>5, <1>6 DEF Next, Pass

\* No step but the head of a pass and a user makes a node schedulable.
LEMMA CordonStep ==
    ASSUME "uncordon" \notin UserOps, TypeInv, [Next]_vars, ~Reconcile,
           NEW m \in Nodes, node[m].unschedulable
    PROVE  node'[m].unschedulable
<1>0. TypeOK
  BY DEF TypeInv
<1>1. CASE node' = node
  BY <1>1
<1>2. ASSUME NEW n \in Nodes,
             UserCordon(n) \/ UserUncordon(n) \/ NodeDown(n) \/ NodeUp(n)
      PROVE  node'[m].unschedulable
  <2>1. PICK o \in NodeObject :
           /\ SetNode(n, o)
           /\ ~o.unschedulable /\ node[n].unschedulable => "uncordon" \in UserOps
    BY <1>0, <1>2, NodeStepType
  <2>2. node'[n] = o /\ \A k \in Nodes \ {n} : node'[k] = node[k]
    BY <1>0, <2>1, SetNodeType
  <2> QED BY <2>1, <2>2
<1>3. CASE \/ applyDrainResults \/ applyFails \/ Crash \/ SyncPlan \/ TimerFires
           \/ BudgetRecovers \/ Tick \/ EditSpec \/ UNCHANGED vars
  BY <1>1, <1>3 DEF applyDrainResults, applyFails, Crash, SyncPlan, TimerFires,
       BudgetRecovers, Tick, EditSpec, PodStep, vars
<1>4. ASSUME NEW n \in Nodes, drainNode(n) \/ drainNodeFails(n) PROVE node' = node
  BY <1>4 DEF drainNode, drainNodeFails
<1>5. ASSUME NEW n \in Nodes, NEW x \in Pods, evictPod(n, x) PROVE node' = node
  BY <1>5 DEF evictPod
<1>6. ASSUME NEW x \in Pods,
             SyncPod(x) \/ RunPod(x) \/ FinishPod(x) \/ UserDeletesPod(x) \/ RemovePod(x)
      PROVE  node' = node
  BY <1>6 DEF SyncPod, RunPod, FinishPod, UserDeletesPod, RemovePod, PodStep
<1> QED BY <1>1, <1>2, <1>3, <1>4, <1>5, <1>6 DEF Next, Pass

\* No pod that the drain has to remove comes to a cordoned node.
LEMMA OccupiesStep ==
    ASSUME TypeInv, [Next]_vars, NEW m \in Nodes, node[m].unschedulable,
           NEW y \in Pods, Occupies(y, m)'
    PROVE  Occupies(y, m)
<1>0. TypeOK
  BY DEF TypeInv
<1>a. /\ Home[y] = m /\ pod'[y].phase = "running"
      /\ Traits[y] \intersect {"mirror", "daemonSet"} = {}
  BY DEF Occupies
<1> SUFFICES pod[y].phase = "running"
  BY <1>a DEF Occupies
<1>1. CASE pod' = pod
  BY <1>1, <1>a
<1>2. ASSUME NEW n \in Nodes, NEW x \in Pods, evictPod(n, x)
      PROVE  pod[y].phase = "running"
  <2>1. UNCHANGED podVars \/ DeletePod(x, ~TooManyRequests(x))
    BY <1>2, EvictType
  <2>2. CASE UNCHANGED podVars
    BY <1>a, <2>2 DEF podVars
  <2>3. CASE DeletePod(x, ~TooManyRequests(x))
    BY <1>0, <1>a, <2>3, DeletePodEffect
  <2> QED BY <2>1, <2>2, <2>3
<1>3. ASSUME NEW x \in Pods, RunPod(x) PROVE pod[y].phase = "running"
  <2>1. SetPod(x, [phase |-> "running", deletedAt |-> 0])
    BY <1>3 DEF RunPod
  <2>2. y # x
    BY <1>3, <1>a DEF RunPod
  <2>3. pod'[y] = pod[y]
    BY <1>0, <2>1, <2>2, SetPodEffect
  <2> QED BY <1>a, <2>3
<1>4. ASSUME NEW x \in Pods, FinishPod(x) PROVE pod[y].phase = "running"
  <2> DEFINE o == [pod[x] EXCEPT !.phase = "finished"]
  <2>1. SetPod(x, o) /\ o.phase = "finished"
    BY <1>0, <1>4 DEF FinishPod, TypeOK, PodObject
  <2> HIDE DEF o
  <2>2. pod'[y] = IF y = x THEN o ELSE pod[y]
    BY <1>0, <2>1, SetPodEffect
  <2> QED BY <1>a, <2>1, <2>2
<1>5. ASSUME NEW x \in Pods, UserDeletesPod(x) PROVE pod[y].phase = "running"
  <2>1. DeletePod(x, FALSE)
    BY <1>5 DEF UserDeletesPod
  <2> QED BY <1>0, <1>a, <2>1, DeletePodEffect
<1>6. ASSUME NEW x \in Pods, RemovePod(x) PROVE pod[y].phase = "running"
  <2> DEFINE o == [phase |-> "gone", deletedAt |-> 0]
  <2>1. SetPod(x, o) /\ o.phase = "gone"
    BY <1>6 DEF RemovePod
  <2> HIDE DEF o
  <2>2. pod'[y] = IF y = x THEN o ELSE pod[y]
    BY <1>0, <2>1, SetPodEffect
  <2> QED BY <1>a, <2>1, <2>2
<1> QED BY <1>1, <1>2, <1>3, <1>4, <1>5, <1>6, PodKinds

\* A goroutine that finds nothing blocked, terminating or stuck has every pod
\* that occupies its node on its list.
LEMMA ListComplete ==
    ASSUME TypeInv, podCache = pod, NEW n \in Nodes, drainNode(n),
           Outcome(worker'[n]) = "drained", NEW x \in Pods, Occupies(x, n)
    PROVE  x \in worker'[n].todo
<1> DEFINE P(c) == PodsOf(n, podCache, planCopy.spec.opts, c)
           k == classify(x, podCache[x], planCopy.spec.opts)
<1>1. /\ worker'[n].todo = P("evictable")
      /\ worker'[n].counts = [evictable |-> Cardinality(P("evictable")),
                              blocked |-> Cardinality(P("blocked")),
                              terminating |-> Cardinality(P("terminating")),
                              stuck |-> Cardinality(P("stuck"))]
  BY DrainNodeType
<1>2. k \in {"blocked", "terminating", "stuck", "evictable"}
  BY DEF classify, Occupies
<1>3. x \in P(k)
  BY DEF PodsOf, Occupies
<1>4. \A c : IsFiniteSet(P(c)) /\ Cardinality(P(c)) \in Nat
  <2>1. \A c : P(c) \in SUBSET Pods
    BY ClassCounts
  <2>2. IsFiniteSet(Pods)
    BY DrainAssumption
  <2> HIDE DEF P
  <2> QED BY <2>1, <2>2, SubsetCount, FS_CardinalityType
<1> HIDE DEF P, k
<1>5. \A c : x \in P(c) => Cardinality(P(c)) > 0
  <2> SUFFICES ASSUME NEW c, x \in P(c) PROVE Cardinality(P(c)) > 0
    OBVIOUS
  <2>1. Cardinality(P(c)) # 0
    BY <1>4, FS_EmptySet
  <2> QED BY <1>4, <2>1
<1>6. /\ ~(Cardinality(P("blocked")) > 0) /\ ~(Cardinality(P("terminating")) > 0)
      /\ ~(Cardinality(P("stuck")) > 0)
  <2>1. /\ worker'[n].counts.blocked = Cardinality(P("blocked"))
        /\ worker'[n].counts.terminating = Cardinality(P("terminating"))
        /\ worker'[n].counts.stuck = Cardinality(P("stuck"))
    BY <1>1
  <2>2. worker'[n].err \in {"nil", "notReady", "other"}
    BY DrainNodeType DEF Worker
  <2>3. /\ ~(worker'[n].counts.blocked > 0) /\ ~(worker'[n].counts.terminating > 0)
        /\ ~(worker'[n].counts.stuck > 0)
    BY <2>2 DEF Outcome
  <2> QED BY <2>1, <2>3
<1> QED BY <1>1, <1>2, <1>3, <1>5, <1>6

\* The initial states satisfy SeenInv.
LEMMA SeenInit == Init => SeenInv
BY DEF Init, SeenInv

\* Every step keeps SeenInv.
LEMMA SeenStep ==
    ASSUME ~PodLag, "uncordon" \notin UserOps, TypeInv, PassInv, SeenInv, [Next]_vars
    PROVE  SeenInv'
<1>0. podCache' = pod' /\ podCache = pod
  BY CacheStep DEF SeenInv
<1> SUFFICES ASSUME pc' = "drain", NEW m \in Nodes
             PROVE  /\ worker'[m].state # "off" => node'[m].unschedulable
                    /\ worker'[m].state = "run" /\ Outcome(worker'[m]) = "drained"
                          => \A y \in Pods : Occupies(y, m)' => y \in worker'[m].todo
  BY <1>0 DEF SeenInv
<1> DEFINE Good == /\ worker'[m].state # "off" => node'[m].unschedulable
                   /\ worker'[m].state = "run" /\ Outcome(worker'[m]) = "drained"
                         => \A y \in Pods : Occupies(y, m)' => y \in worker'[m].todo
<1>1. CASE Reconcile
  <2>1. PICK copy : ReconcileEffect(copy)
    BY <1>1, ReconcileStep
  <2>2. /\ worker'[m].state = "run" => worker'[m].err = "notReady"
        /\ worker'[m].state # "off" => node'[m].unschedulable
    BY <2>1, ReconcileTodo
  <2>3. worker'[m].state = "run" => Outcome(worker'[m]) # "drained"
    BY <2>2 DEF Outcome
  <2> QED BY <2>2, <2>3
<1>2. ASSUME pc = "drain", ~Reconcile, worker'[m] = worker[m] PROVE Good
  <2>1. CASE worker[m].state = "off"
    BY <1>2, <2>1
  <2>2. CASE worker[m].state # "off"
    <3>1. node[m].unschedulable
      BY <1>2, <2>2 DEF SeenInv
    <3>2. node'[m].unschedulable
      BY <1>2, <3>1, CordonStep
    <3>3. \A y \in Pods : Occupies(y, m)' => Occupies(y, m)
      BY <3>1, OccupiesStep
    <3>4. worker[m].state = "run" /\ Outcome(worker[m]) = "drained"
             => \A y \in Pods : Occupies(y, m) => y \in worker[m].todo
      BY <1>2 DEF SeenInv
    <3> QED BY <1>2, <3>2, <3>3, <3>4
  <2> QED BY <2>1, <2>2
<1>3. CASE applyDrainResults \/ EndPass
  <2>1. pc' = "idle"
    BY <1>3 DEF applyDrainResults, EndPass
  <2> QED BY <2>1
<1>4. CASE EditSpec
  <2>1. UNCHANGED <<pc, worker>> /\ pc = "drain" /\ pc # "idle"
    BY <1>4 DEF EditSpec, passVars
  <2>2. ~Reconcile
    BY <2>1 DEF Reconcile
  <2> QED BY <1>2, <2>1, <2>2
<1>5. ASSUME NEW n \in Nodes, drainNode(n) PROVE Good
  <2>1. /\ pc = "drain" /\ ~Reconcile /\ worker[n].state = "wait"
        /\ node' = node /\ pod' = pod
    BY <1>5 DEF drainNode, Reconcile, podVars
  <2>2. CASE m # n
    <3>1. worker'[m] = worker[m]
      BY <1>5, <2>2, DrainNodeType
    <3> QED BY <1>2, <2>1, <3>1
  <2>3. CASE m = n
    <3>1. node'[m].unschedulable
      BY <2>1, <2>3 DEF SeenInv
    <3>2. ASSUME Outcome(worker'[m]) = "drained", NEW y \in Pods, Occupies(y, m)'
          PROVE  y \in worker'[m].todo
      <4>1. Occupies(y, n)
        BY <2>1, <2>3, <3>2 DEF Occupies
      <4> QED BY <1>0, <1>5, <2>3, <3>2, <4>1, ListComplete
    <3> QED BY <3>1, <3>2
  <2> QED BY <2>2, <2>3
<1>6. ASSUME NEW n \in Nodes, drainNodeFails(n) PROVE Good
  <2>1. pc = "drain" /\ ~Reconcile /\ node' = node
    BY <1>6 DEF drainNodeFails, Reconcile
  <2>2. CASE m # n
    <3>1. worker'[m] = worker[m]
      BY <1>6, <2>2, FailsType
    <3> QED BY <1>2, <2>1, <3>1
  <2>3. CASE m = n
    <3>1. worker[n].state = "wait" \/ worker[n].todo # {}
      BY <1>6 DEF drainNodeFails
    <3>2. worker[n].state # "off"
      BY <2>1, <3>1 DEF PassInv
    <3>3. node'[m].unschedulable
      BY <2>1, <2>3, <3>2 DEF SeenInv
    <3>4. worker'[m].err = "other"
      BY <1>6, <2>3, FailsType
    <3>5. Outcome(worker'[m]) # "drained"
      BY <3>4 DEF Outcome
    <3> QED BY <3>3, <3>5
  <2> QED BY <2>2, <2>3
<1>7. ASSUME NEW n \in Nodes, NEW x \in Pods, evictPod(n, x) PROVE Good
  <2>1. pc = "drain" /\ ~Reconcile /\ node' = node
    BY <1>7 DEF evictPod, Reconcile
  <2>2. CASE m # n
    <3>1. worker'[m] = worker[m]
      BY <1>7, <2>2, EvictType
    <3> QED BY <1>2, <2>1, <3>1
  <2>3. CASE m = n
    <3>1. /\ worker'[m].state = worker[m].state /\ worker'[m].err = worker[m].err
          /\ worker'[m].counts = worker[m].counts /\ worker'[m].todo = worker[m].todo \ {x}
          /\ worker[m].evicted > 0 => worker'[m].evicted > 0
          /\ worker[m].pdb => worker'[m].pdb
          /\ pod[x].phase # "gone" => worker'[m].pdb \/ worker'[m].evicted > 0
      BY <1>7, <2>3, EvictType
    <3>2. worker'[m].state # "off" => node'[m].unschedulable
      BY <2>1, <3>1 DEF SeenInv
    <3>3. ASSUME worker'[m].state = "run", Outcome(worker'[m]) = "drained",
                 NEW y \in Pods, Occupies(y, m)'
          PROVE  y \in worker'[m].todo
      <4>1. worker'[m].err \in {"nil", "notReady", "other"}
        BY <1>7, EvictType DEF Worker
      <4>2. /\ worker'[m].err = "nil" /\ ~worker'[m].pdb /\ ~(worker'[m].evicted > 0)
            /\ ~(worker'[m].counts.blocked > 0) /\ ~(worker'[m].counts.stuck > 0)
            /\ ~(worker'[m].counts.terminating > 0)
        BY <3>3, <4>1 DEF Outcome
      <4>3. Outcome(worker[m]) = "drained"
        BY <3>1, <4>2 DEF Outcome
      <4>4. node[m].unschedulable
        BY <2>1, <3>1, <3>3 DEF SeenInv
      <4>5. Occupies(y, m)
        BY <3>3, <4>4, OccupiesStep
      <4>6. y \in worker[m].todo
        BY <2>1, <3>1, <3>3, <4>3, <4>5 DEF SeenInv
      <4>7. pod[x].phase = "gone" /\ pod[y].phase = "running"
        BY <3>1, <4>2, <4>5 DEF Occupies
      <4> QED BY <3>1, <4>6, <4>7
    <3> QED BY <3>2, <3>3
  <2> QED BY <2>2, <2>3
<1>8. CASE UNCHANGED <<pc, planCopy, worker>>
  <2>1. pc = "drain" /\ ~Reconcile /\ worker'[m] = worker[m]
    BY <1>8 DEF Reconcile
  <2> QED BY <1>2, <2>1
<1> QED BY <1>1, <1>3, <1>4, <1>5, <1>6, <1>7, <1>8, StepKinds

\* ReadyWhenDrained, when neither cache lags and nobody makes a node schedulable
\* again while it is drained: an outcome "drained" means that every pod the node
\* had when it was listed is gone, and the cordon keeps new ones away.
THEOREM ReadyMeansDrained ==
    ASSUME ~PodLag, ~PlanLag, "uncordon" \notin UserOps
    PROVE  Spec => ReadyWhenDrained
<1> DEFINE Inv == TypeInv /\ PassInv /\ FreshInv /\ SeenInv
<1>1. Init => Inv
  BY TypeInit, PassInit, FreshInit, SeenInit
<1>2. Inv /\ [Next]_vars => Inv'
  BY TypeStep, PassStep, FreshStep, SeenStep
<1>3. Inv /\ [Next]_vars => [ReadyWhenDrainedStep]_vars
  <2> SUFFICES ASSUME TypeInv, PassInv, FreshInv, SeenInv, [Next]_vars, NEW n \in Nodes,
                      ~plan.nodes[n].ready, plan'.nodes[n].ready
               PROVE  Drained(n)
    BY DEF ReadyWhenDrainedStep
  <2>1. applyDrainResults /\ worker[n].state # "off" /\ Outcome(worker[n]) = "drained"
    BY StatusStep
  <2>2. pc = "drain" /\ worker[n].state # "wait" /\ worker[n].todo = {}
    BY <2>1, ApplyStep
  <2>3. worker[n].state = "run"
    BY <2>1, <2>2 DEF TypeInv, TypeOK, Worker
  <2>4. \A x \in Pods : ~Occupies(x, n)
    BY <2>1, <2>2, <2>3 DEF SeenInv
  <2> QED BY <2>4 DEF Occupies, Drained
<1> HIDE DEF Inv
<1> QED BY <1>1, <1>2, <1>3, PTL DEF Spec, ReadyWhenDrained
=============================================================================
