-------------------------- MODULE OwnershipProofs --------------------------
(***************************************************************************)
(* Proofs about Ownership, for every set of nodes, plans and specs and     *)
(* every value of the bounds.                                              *)
(***************************************************************************)
EXTENDS Ownership, TLAPS

(***************************************************************************)
(* Type correctness.                                                       *)
(***************************************************************************)

\* The operations on a local Node object (AdoptNode, CordonNode, UncordonNode,
\* ReleaseNode) and the server's merge yield Node objects.
LEMMA NodeOpsType ==
    ASSUME NEW a \in NodeObject, NEW b \in NodeObject, NEW c \in NodeObject,
           NEW p \in Plans, NEW f \in BOOLEAN
    PROVE  /\ MergeNode(a, b, c) \in NodeObject
           /\ Adopted(a, p, f) \in NodeObject
           /\ Cordoned(a) \in NodeObject
           /\ Uncordoned(a) \in NodeObject
           /\ Released(a, p) \in NodeObject
<1>1. MergeNode(a, b, c) \in NodeObject
  BY DEF MergeNode, MergeField, NodeObject
<1>2. Adopted(a, p, f) \in NodeObject
  BY DEF Adopted, NodeObject
<1>3. Cordoned(a) \in NodeObject /\ Uncordoned(a) \in NodeObject
  BY DEF Cordoned, Uncordoned, NodeObject
<1>4. Released(a, p) \in NodeObject
  BY DEF Released, NodeObject
<1> QED BY <1>1, <1>2, <1>3, <1>4

\* The empty objects have their types.
LEMMA EmptyTypes ==
    /\ NoNodeStatus \in NodeStatus
    /\ NoStatus \in [Nodes -> NodeStatus]
    /\ NoNodeCopy \in [Nodes -> NodeObject]
    /\ NoPlanObject \in PlanObject
    /\ NoWork \in PassWork
    /\ \A s \in Specs, g \in 0..MaxEdits : NewPlan(s, g) \in PlanObject
<1>1. NoNodeStatus \in NodeStatus /\ NoStatus \in [Nodes -> NodeStatus]
  BY DEF NoNodeStatus, NodeStatus, NoStatus, DriftReasons
<1>2. NoNodeCopy \in [Nodes -> NodeObject]
  BY DEF NoNodeCopy, NodeObject
<1>3. NoSpec \in PlanSpec /\ Specs \subseteq PlanSpec
  BY OwnershipAssumption DEF NoSpec, PlanSpec
<1>4. \A s \in PlanSpec, g \in 0..MaxEdits : NewPlan(s, g) \in PlanObject
  BY <1>1 DEF NewPlan, PlanObject
<1>5. 0 \in 0..MaxEdits
  BY OwnershipAssumption
<1>6. NoPlanObject \in PlanObject
  BY <1>1, <1>3, <1>5 DEF NoPlanObject, PlanObject
<1>7. NoWork \in PassWork
  BY OwnershipAssumption DEF NoWork, PassWork
<1> QED BY <1>1, <1>2, <1>3, <1>4, <1>6, <1>7

\* Updating a field of a pass's local state keeps its type.
LEMMA WorkUpdateType ==
    ASSUME NEW w \in PassWork, NEW S \in SUBSET Nodes, NEW T \in SUBSET Nodes
    PROVE  /\ [w EXCEPT !.todo = S] \in PassWork
           /\ [w EXCEPT !.release = S] \in PassWork
           /\ [w EXCEPT !.freed = S] \in PassWork
           /\ [w EXCEPT !.release = S, !.freed = T] \in PassWork
           /\ w.todo \in SUBSET Nodes /\ w.release \in SUBSET Nodes
           /\ w.stable \in SUBSET Nodes /\ w.all \in SUBSET Nodes
           /\ w.freed \in SUBSET Nodes
BY DEF PassWork

\* buildNodeStatuses yields a status for every node.
LEMMA StatusesType ==
    ASSUME NEW p \in Plans, NEW objs \in [Nodes -> NodeObject],
           NEW pl \in PlanObject, NEW all \in SUBSET Nodes
    PROVE  buildNodeStatuses(p, objs, pl, all) \in [Nodes -> NodeStatus]
<1> SUFFICES ASSUME NEW n \in Nodes
             PROVE  buildNodeStatus(p, objs[n], pl, n) \in NodeStatus
  BY EmptyTypes DEF buildNodeStatuses
<1>1. pl.status[n] \in NodeStatus
  BY DEF PlanObject
<1>2. objs[n].unschedulable \in BOOLEAN
  BY DEF NodeObject
<1>3. DetectNodeDrift(p, objs[n], pl, n)
          \in {"", "MaintenanceComplete", "ManualUncordon", "ExternalCordon"}
  BY DEF DetectNodeDrift
<1>4. (CASE DetectNodeDrift(p, objs[n], pl, n) = "MaintenanceComplete" -> ""
         [] DetectNodeDrift(p, objs[n], pl, n) = "" -> pl.status[n].drift
         [] OTHER -> DetectNodeDrift(p, objs[n], pl, n)) \in DriftReasons
  BY <1>1, <1>3 DEF NodeStatus, DriftReasons
<1> QED BY <1>1, <1>2, <1>4 DEF buildNodeStatus, NodeStatus

\* A committed write keeps servers, caches and queue typed.
LEMMA CommitType ==
    ASSUME TypeOK, NEW nn \in [Nodes -> NodeObject],
           NEW np \in [Plans -> PlanObject], NEW q \in SUBSET Plans,
           Commit(nn, np, q)
    PROVE  /\ node' \in [Nodes -> NodeObject]
           /\ plan' \in [Plans -> PlanObject]
           /\ nodeCache' \in [Nodes -> NodeObject]
           /\ planCache' \in [Plans -> PlanObject]
           /\ queue' \in SUBSET Plans
<1>1. Woken(nodeCache, nodeCache', planCache, planCache') \subseteq Plans
  BY DEF Woken
<1> QED BY <1>1 DEF Commit, TypeOK

\* A patch of a node by a pass.
LEMMA PatchNodeType ==
    ASSUME TypeOK, NEW p \in Plans, NEW n \in Nodes, NEW new \in NodeObject,
           PatchNode(p, n, new)
    PROVE  /\ node' \in [Nodes -> NodeObject]
           /\ plan' \in [Plans -> PlanObject]
           /\ nodeCache' \in [Nodes -> NodeObject]
           /\ planCache' \in [Plans -> PlanObject]
           /\ queue' \in SUBSET Plans
           /\ nodeCopy' \in [Plans -> [Nodes -> NodeObject]]
<1> DEFINE merged == MergeNode(node[n], nodeCopy[p][n], new)
<1>1. CASE new = nodeCopy[p][n]
  BY <1>1 DEF PatchNode, TypeOK, server, caches
<1>2. CASE new # nodeCopy[p][n]
  <2>1. merged \in NodeObject
    BY NodeOpsType DEF TypeOK
  <2>2. [node EXCEPT ![n] = merged] \in [Nodes -> NodeObject]
    BY <2>1 DEF TypeOK
  <2>3. Commit([node EXCEPT ![n] = merged], plan, queue)
    BY <1>2 DEF PatchNode
  <2>4. nodeCopy' = [nodeCopy EXCEPT ![p][n] = merged]
    BY <1>2 DEF PatchNode
  <2>5. nodeCopy' \in [Plans -> [Nodes -> NodeObject]]
    BY <2>1, <2>4 DEF TypeOK
  <2>6. plan \in [Plans -> PlanObject] /\ queue \in SUBSET Plans
    BY DEF TypeOK
  <2> HIDE DEF merged
  <2> QED BY <2>2, <2>3, <2>5, <2>6, CommitType
<1> QED BY <1>1, <1>2

\* A patch of its plan by a pass.
LEMMA PatchPlanType ==
    ASSUME TypeOK, NEW p \in Plans, NEW obj \in PlanObject,
           PatchPlan(p, obj, queue)
    PROVE  /\ node' \in [Nodes -> NodeObject]
           /\ plan' \in [Plans -> PlanObject]
           /\ nodeCache' \in [Nodes -> NodeObject]
           /\ planCache' \in [Plans -> PlanObject]
           /\ queue' \in SUBSET Plans
           /\ planCopy' \in [Plans -> PlanObject]
<1>1. /\ [plan EXCEPT ![p] = obj] \in [Plans -> PlanObject]
      /\ node \in [Nodes -> NodeObject] /\ queue \in SUBSET Plans
  BY DEF TypeOK
<1>2. Commit(node, [plan EXCEPT ![p] = obj], queue)
  BY DEF PatchPlan
<1>3. planCopy' \in [Plans -> PlanObject]
  BY DEF PatchPlan, TypeOK
<1> QED BY <1>1, <1>2, <1>3, CommitType

\* The end of a pass.
LEMMA EndPassType ==
    ASSUME TypeOK, NEW p \in Plans, EndPass(p)
    PROVE  /\ pc' \in [Plans -> PassStates]
           /\ planCopy' \in [Plans -> PlanObject]
           /\ nodeCopy' \in [Plans -> [Nodes -> NodeObject]]
           /\ work' \in [Plans -> PassWork]
BY EmptyTypes DEF EndPass, TypeOK, PassStates

\* Computed requeue times are start times of the spec.
LEMMA ScheduleType ==
    ASSUME TypeOK, NEW s \in PlanSpec
    PROVE  /\ scheduleRequeue(s) \in 0..MaxClock
           /\ cordonShouldAct(s) \in BOOLEAN
           /\ drainShouldAct(s) \in BOOLEAN
<1>1. s.startAt \in 0..MaxClock /\ s.drainAt \in 0..MaxClock
      /\ s.cordon \in BOOLEAN /\ s.drain \in BOOLEAN
  BY DEF PlanSpec
<1>2. scheduleRequeue(s) \in 0..MaxClock
  BY <1>1, OwnershipAssumption DEF scheduleRequeue, RequeueAt
<1>3. cordonShouldAct(s) \in BOOLEAN /\ drainShouldAct(s) \in BOOLEAN
  BY <1>1 DEF cordonShouldAct, drainShouldAct, ShouldAct
<1> QED BY <1>2, <1>3

\* Recording a delayed requeue.
LEMMA SetWakeType ==
    ASSUME TypeOK, NEW p \in Plans, NEW at \in 0..MaxClock, SetWake(p, at)
    PROVE  wake' \in [Plans -> 0..MaxClock]
BY DEF SetWake, TypeOK

\* Every step keeps the types.
LEMMA TypeStep == ASSUME TypeOK, [Next]_vars PROVE TypeOK'
<1> USE DEF PassStates
<1>1. ASSUME NEW p \in Plans, Reconcile(p) PROVE TypeOK'
  <2>1. planCache[p] \in PlanObject
    BY DEF TypeOK
  <2>2. pc' \in [Plans -> PassStates]
    BY <1>1 DEF TypeOK, Reconcile, Goto
  <2>3. planCopy' \in [Plans -> PlanObject]
    BY <1>1, <2>1, EmptyTypes DEF TypeOK, Reconcile
  <2> QED BY <1>1, <2>2, <2>3 DEF TypeOK, Reconcile, server, caches, bounds
<1>2. ASSUME NEW p \in Plans, EnsureFinalizer(p) PROVE TypeOK'
  <2>1. [plan[p] EXCEPT !.finalizer = TRUE] \in PlanObject
    <3>1. plan[p] \in PlanObject
      BY DEF TypeOK
    <3> QED BY <3>1 DEF PlanObject
  <2>2. PatchPlan(p, [plan[p] EXCEPT !.finalizer = TRUE], queue)
    BY <1>2 DEF EnsureFinalizer
  <2>3. pc' \in [Plans -> PassStates]
    BY <1>2 DEF TypeOK, EnsureFinalizer, Goto
  <2> QED BY <1>2, <2>1, <2>2, <2>3, PatchPlanType DEF TypeOK, EnsureFinalizer, bounds
<1>3. ASSUME NEW p \in Plans, Resolve(p) PROVE TypeOK'
  <2>1. planCopy[p].spec \in PlanSpec
    BY DEF TypeOK, PlanObject
  <2>2. planCopy[p].spec.nodes \in SUBSET Nodes
    BY <2>1 DEF PlanSpec
  <2>3. work' \in [Plans -> PassWork]
    BY <1>3, <2>1, <2>2, ScheduleType DEF TypeOK, Resolve, PassWork
  <2>4. nodeCopy' \in [Plans -> [Nodes -> NodeObject]] /\ pc' \in [Plans -> PassStates]
    BY <1>3 DEF TypeOK, Resolve, Goto
  <2> QED BY <1>3, <2>3, <2>4 DEF TypeOK, Resolve, server, caches, bounds
<1>4. ASSUME NEW p \in Plans, UpdateStatus(p) PROVE TypeOK'
  <2> DEFINE pl == planCopy[p]
             statuses == buildNodeStatuses(p, nodeCopy[p], pl, work[p].all)
             obj == [plan[p] EXCEPT
                        !.status = MergeField(@, pl.status, statuses),
                        !.conflict = MergeField(@, pl.conflict, work[p].conflict)]
  <2>1. /\ pl \in PlanObject /\ plan[p] \in PlanObject
        /\ nodeCopy[p] \in [Nodes -> NodeObject]
        /\ work[p].all \in SUBSET Nodes /\ work[p].conflict \in BOOLEAN
    BY DEF TypeOK, PassWork
  <2>2. statuses \in [Nodes -> NodeStatus]
    BY <2>1, StatusesType
  <2> HIDE DEF statuses
  <2>3. obj \in PlanObject
    BY <2>1, <2>2 DEF PlanObject, MergeField
  <2>4. PatchPlan(p, obj, queue)
    BY <1>4 DEF UpdateStatus, statuses
  <2>5. pc' \in [Plans -> PassStates]
    BY <1>4 DEF TypeOK, UpdateStatus, Goto
  <2> HIDE DEF obj
  <2> QED BY <1>4, <2>3, <2>4, <2>5, PatchPlanType DEF TypeOK, UpdateStatus, bounds
<1>5. ASSUME NEW p \in Plans, ReconcilePreview(p) PROVE TypeOK'
  <2> DEFINE obj == [plan[p] EXCEPT !.status = planCopy[p].status]
  <2>1. obj \in PlanObject
    <3>1. plan[p] \in PlanObject /\ planCopy[p] \in PlanObject
      BY DEF TypeOK
    <3> QED BY <3>1 DEF PlanObject
  <2>2. work[p].stable \in SUBSET Nodes
    BY DEF TypeOK, PassWork
  <2>3. DriftReleases(p, nodeCopy[p], planCopy'[p], work[p].stable) \in SUBSET Nodes
    BY <2>2 DEF DriftReleases
  <2>4. work' \in [Plans -> PassWork]
    BY <1>5, <2>3, WorkUpdateType DEF TypeOK, ReconcilePreview
  <2>5. pc' \in [Plans -> PassStates]
    BY <1>5 DEF TypeOK, ReconcilePreview, Goto
  <2>6. CASE UNCHANGED <<server, caches, queue, planCopy>>
    BY <1>5, <2>4, <2>5, <2>6 DEF TypeOK, ReconcilePreview, server, caches, bounds
  <2>7. CASE PatchPlan(p, obj, queue)
    BY <1>5, <2>1, <2>4, <2>5, <2>7, PatchPlanType DEF TypeOK, ReconcilePreview, bounds
  <2> QED BY <1>5, <2>6, <2>7 DEF ReconcilePreview
<1>6. ASSUME NEW p \in Plans, NEW n \in Nodes,
             \/ AdoptNode(p, n) \/ ReconcileDrift(p, n) \/ ReconcileCordon(p, n)
             \/ UncordonNode(p, n) \/ ReleaseNode(p, n)
      PROVE TypeOK'
  <2>1. /\ nodeCopy[p][n] \in NodeObject
        /\ (planCopy[p].spec.cordon /\ work[p].cordon) \in BOOLEAN
    BY DEF TypeOK
  <2>2. PICK new \in NodeObject : PatchNode(p, n, new)
    BY <1>6, <2>1, NodeOpsType
       DEF AdoptNode, ReconcileDrift, ReconcileCordon, UncordonNode, ReleaseNode
  <2>3. work' \in [Plans -> PassWork]
    <3>1. work[p] \in PassWork /\ work \in [Plans -> PassWork]
      BY DEF TypeOK
    <3>2. /\ work[p].todo \ {n} \in SUBSET Nodes
          /\ work[p].release \ {n} \in SUBSET Nodes
          /\ work[p].freed \ {n} \in SUBSET Nodes
      BY <3>1, WorkUpdateType
    <3>3. CASE work' = [work EXCEPT ![p].todo = @ \ {n}]
      BY <3>1, <3>2, <3>3, WorkUpdateType
    <3>4. CASE work' = [work EXCEPT ![p].release = @ \ {n}, ![p].freed = {n}]
      BY <3>1, <3>2, <3>4, WorkUpdateType
    <3>5. CASE work' = [work EXCEPT ![p].freed = @ \ {n}]
      BY <3>1, <3>2, <3>5, WorkUpdateType
    <3> QED BY <1>6, <3>3, <3>4, <3>5
            DEF AdoptNode, ReconcileDrift, ReconcileCordon, UncordonNode, ReleaseNode
  <2>4. UNCHANGED <<wake, clock, pc, planCopy, bounds>>
    BY <1>6 DEF AdoptNode, ReconcileDrift, ReconcileCordon, UncordonNode, ReleaseNode
  <2> QED BY <2>2, <2>3, <2>4, PatchNodeType DEF TypeOK, bounds
<1>7. ASSUME NEW p \in Plans, CordonGate(p) PROVE TypeOK'
  <2>1. CordonPatches(p, nodeCopy[p], planCopy[p], work[p].stable) \in SUBSET Nodes
    BY DEF CordonPatches, TypeOK, PassWork
  <2>2. work' \in [Plans -> PassWork]
    <3>1. work \in [Plans -> PassWork] /\ work[p] \in PassWork
      BY DEF TypeOK
    <3>2. CASE work' = [work EXCEPT ![p].todo =
                   CordonPatches(p, nodeCopy[p], planCopy[p], work[p].stable)]
      BY <2>1, <3>1, <3>2, WorkUpdateType
    <3>3. CASE work' = [work EXCEPT ![p].release = {}]
      BY <3>1, <3>3, WorkUpdateType
    <3> QED BY <1>7, <3>2, <3>3 DEF CordonGate
  <2>3. pc' \in [Plans -> PassStates]
    BY <1>7 DEF TypeOK, CordonGate, Goto
  <2> QED BY <1>7, <2>2, <2>3 DEF TypeOK, CordonGate, server, caches, bounds
<1>8. ASSUME NEW p \in Plans, SkipDrain(p) PROVE TypeOK'
  <2>1. work[p].requeueAt \in 0..MaxClock
    BY DEF TypeOK, PassWork
  <2> QED BY <1>8, <2>1, SetWakeType, EndPassType
          DEF TypeOK, SkipDrain, server, caches, bounds
<1>9. ASSUME NEW p \in Plans, ReconcileDrain(p) PROVE TypeOK'
  <2>1. PICK drained \in SUBSET DrainTargets(p), poll \in BOOLEAN :
             /\ LET st == planCopy[p].status
                    marked == [n \in Nodes |-> [st[n] EXCEPT !.ready =
                        @ \/ (n \in drained /\ st[n].listed /\ st[n].cordoned)]]
                IN  Commit(node, [plan EXCEPT ![p].status = MergeField(@, st, marked)],
                           IF poll THEN queue \union {p} ELSE queue)
             /\ SetWake(p, IF poll THEN 0 ELSE work[p].requeueAt)
    BY <1>9 DEF ReconcileDrain
  <2> DEFINE st == planCopy[p].status
             marked == [n \in Nodes |-> [st[n] EXCEPT !.ready =
                 @ \/ (n \in drained /\ st[n].listed /\ st[n].cordoned)]]
             np == [plan EXCEPT ![p].status = MergeField(@, st, marked)]
             q == IF poll THEN queue \union {p} ELSE queue
  <2>2. st \in [Nodes -> NodeStatus]
    BY DEF TypeOK, PlanObject
  <2>3. marked \in [Nodes -> NodeStatus]
    BY <2>2 DEF NodeStatus
  <2>4. np \in [Plans -> PlanObject]
    <3> HIDE DEF marked
    <3>1. MergeField(plan[p].status, st, marked) \in [Nodes -> NodeStatus]
      BY <2>3 DEF MergeField, TypeOK, PlanObject
    <3>2. plan \in [Plans -> PlanObject]
      BY DEF TypeOK
    <3>3. [plan[p] EXCEPT !.status = MergeField(plan[p].status, st, marked)] \in PlanObject
      BY <3>1, <3>2 DEF PlanObject
    <3> QED BY <3>2, <3>3
  <2>5. q \in SUBSET Plans /\ node \in [Nodes -> NodeObject]
    BY DEF TypeOK
  <2>6. Commit(node, np, q)
    BY <2>1
  <2>7. (IF poll THEN 0 ELSE work[p].requeueAt) \in 0..MaxClock
    BY OwnershipAssumption DEF TypeOK, PassWork
  <2>8. wake' \in [Plans -> 0..MaxClock]
    BY <2>1, <2>7, SetWakeType
  <2>9. EndPass(p) /\ UNCHANGED <<clock, bounds>>
    BY <1>9 DEF ReconcileDrain
  <2> HIDE DEF np, q
  <2> QED BY <2>4, <2>5, <2>6, <2>8, <2>9, CommitType, EndPassType DEF TypeOK, bounds
<1>10. ASSUME NEW p \in Plans, ListOwned(p) PROVE TypeOK'
  <2>1. work' \in [Plans -> PassWork]
    BY <1>10, WorkUpdateType DEF TypeOK, ListOwned
  <2>2. nodeCopy' \in [Plans -> [Nodes -> NodeObject]] /\ pc' \in [Plans -> PassStates]
    BY <1>10 DEF TypeOK, ListOwned, Goto
  <2> QED BY <1>10, <2>1, <2>2 DEF TypeOK, ListOwned, server, caches, bounds
<1>11. ASSUME NEW p \in Plans, RemoveFinalizer(p) PROVE TypeOK'
  <2> DEFINE np == [plan EXCEPT ![p] = IF @.deleting THEN NoPlanObject
                                       ELSE [@ EXCEPT !.finalizer = FALSE]]
  <2>1. np \in [Plans -> PlanObject]
    <3>1. plan[p] \in PlanObject /\ plan \in [Plans -> PlanObject]
      BY DEF TypeOK
    <3>2. [plan[p] EXCEPT !.finalizer = FALSE] \in PlanObject
      BY <3>1 DEF PlanObject
    <3> QED BY <3>1, <3>2, EmptyTypes
  <2>2. Commit(node, np, queue) /\ EndPass(p) /\ UNCHANGED <<wake, clock, bounds>>
    BY <1>11 DEF RemoveFinalizer
  <2>3. node \in [Nodes -> NodeObject] /\ queue \in SUBSET Plans
    BY DEF TypeOK
  <2> HIDE DEF np
  <2> QED BY <2>1, <2>2, <2>3, CommitType, EndPassType DEF TypeOK, bounds
<1>12. ASSUME NEW p \in Plans, PlanGone(p) \/ Fail(p) PROVE TypeOK'
  <2>1. EndPass(p) /\ queue' = queue \union {p} /\ UNCHANGED <<server, caches, wake, clock, edits>>
    BY <1>12 DEF PlanGone, Fail, bounds
  <2>2. faults' \in 0..MaxFaults
    BY <1>12, OwnershipAssumption DEF PlanGone, Fail, bounds, TypeOK
  <2> QED BY <2>1, <2>2, EndPassType DEF TypeOK, server, caches
<1>13. ASSUME NEW p \in Plans, TimerFires(p) \/ SyncPlan(p) PROVE TypeOK'
  <2>1. CASE TimerFires(p)
    BY <2>1, OwnershipAssumption
       DEF TimerFires, TypeOK, server, caches, passVars, bounds
  <2>2. CASE SyncPlan(p)
    <3>1. Woken(nodeCache, nodeCache, planCache, planCache') \subseteq Plans
      BY DEF Woken
    <3> QED BY <2>2, <3>1 DEF SyncPlan, TypeOK, server, passVars, bounds
  <2> QED BY <1>13, <2>1, <2>2
<1>14. ASSUME NEW n \in Nodes, SyncNode(n) PROVE TypeOK'
  <2>1. Woken(nodeCache, nodeCache', planCache, planCache) \subseteq Plans
    BY DEF Woken
  <2> QED BY <1>14, <2>1 DEF SyncNode, TypeOK, server, passVars, bounds
<1>15. ASSUME NEW p \in Plans, CreatePlan(p) \/ EditSpec(p) \/ DeletePlan(p)
       PROVE TypeOK'
  <2>1. edits' \in 0..MaxEdits /\ edits + 1 \in 0..MaxEdits
    <3>1. edits < MaxEdits /\ edits' = edits + 1
      BY <1>15 DEF CreatePlan, EditSpec, DeletePlan, UserStep
    <3>2. edits \in 0..MaxEdits
      BY DEF TypeOK
    <3> QED BY <3>1, <3>2, OwnershipAssumption
  <2>2. PICK np \in [Plans -> PlanObject] : UserWrites(node, np)
    <3>1. CASE CreatePlan(p)
      BY <3>1, <2>1, EmptyTypes DEF CreatePlan, TypeOK
    <3>2. CASE EditSpec(p)
      <4>1. PICK s \in Specs : UserWrites(node,
                [plan EXCEPT ![p].spec = s, ![p].generation = edits + 1])
        BY <3>2 DEF EditSpec
      <4>2. s \in PlanSpec
        BY OwnershipAssumption
      <4>3. [plan EXCEPT ![p].spec = s, ![p].generation = edits + 1]
                \in [Plans -> PlanObject]
        <5>1. plan[p] \in PlanObject /\ plan \in [Plans -> PlanObject]
          BY DEF TypeOK
        <5>2. [plan[p] EXCEPT !.spec = s, !.generation = edits + 1] \in PlanObject
          BY <2>1, <4>2, <5>1 DEF PlanObject
        <5> QED BY <5>1, <5>2
      <4> QED BY <4>1, <4>3
    <3>3. CASE DeletePlan(p)
      <4>1. (IF plan[p].finalizer THEN [plan[p] EXCEPT !.deleting = TRUE]
                                  ELSE NoPlanObject) \in PlanObject
        <5>1. plan[p] \in PlanObject
          BY DEF TypeOK
        <5>2. [plan[p] EXCEPT !.deleting = TRUE] \in PlanObject
          BY <5>1 DEF PlanObject
        <5> QED BY <5>2, EmptyTypes
      <4> QED BY <3>3, <4>1 DEF DeletePlan, TypeOK
    <3> QED BY <1>15, <3>1, <3>2, <3>3
  <2>3. Commit(node, np, queue) /\ UNCHANGED <<wake, clock, passVars, faults>>
    BY <2>2 DEF UserWrites
  <2>4. node \in [Nodes -> NodeObject] /\ queue \in SUBSET Plans
    BY DEF TypeOK
  <2> QED BY <2>1, <2>3, <2>4, CommitType DEF TypeOK, passVars
<1>16. ASSUME NEW n \in Nodes, UserCordon(n) \/ UserUncordon(n) PROVE TypeOK'
  <2>1. edits' \in 0..MaxEdits
    BY <1>16, OwnershipAssumption DEF UserCordon, UserUncordon, UserStep, TypeOK
  <2>2. PICK nn \in [Nodes -> NodeObject] : UserWrites(nn, plan)
    BY <1>16 DEF UserCordon, UserUncordon, TypeOK, NodeObject
  <2>3. Commit(nn, plan, queue) /\ UNCHANGED <<wake, clock, passVars, faults>>
    BY <2>2 DEF UserWrites
  <2>4. plan \in [Plans -> PlanObject] /\ queue \in SUBSET Plans
    BY DEF TypeOK
  <2> QED BY <2>1, <2>3, <2>4, CommitType DEF TypeOK, passVars
<1>17. CASE Crash
  <2>1. faults' \in 0..MaxFaults /\ wake' \in [Plans -> 0..MaxClock]
    BY <1>17, OwnershipAssumption DEF Crash, TypeOK
  <2> QED BY <1>17, <2>1, EmptyTypes DEF Crash, TypeOK, server
<1>18. CASE Tick
  BY <1>18, OwnershipAssumption DEF Tick, TypeOK, server, caches, passVars, bounds
<1>19. CASE UNCHANGED vars
  BY <1>19 DEF TypeOK, vars
<1> QED BY <1>1, <1>2, <1>3, <1>4, <1>5, <1>6, <1>7, <1>8, <1>9, <1>10, <1>11,
           <1>12, <1>13, <1>14, <1>15, <1>16, <1>17, <1>18, <1>19 DEF Next, Pass

\* Every variable keeps its type in every behaviour of the specification.
THEOREM TypeCorrect == Spec => []TypeOK
<1>1. Init => TypeOK
  <2> SUFFICES ASSUME Init PROVE TypeOK
    OBVIOUS
  <2>1. node \in [Nodes -> NodeObject]
    BY DEF Init
  <2>2. plan \in [Plans -> PlanObject]
    BY EmptyTypes, OwnershipAssumption DEF Init
  <2> QED BY <2>1, <2>2, EmptyTypes, OwnershipAssumption DEF Init, TypeOK, PassStates
<1>2. TypeOK /\ [Next]_vars => TypeOK'
  BY TypeStep
<1> QED BY <1>1, <1>2, PTL DEF Spec

(***************************************************************************)
(* No node is orphaned.  First the part of the invariant that is about the *)
(* plan, its cached copy and its pass; it holds however much both caches   *)
(* lag.                                                                    *)
(***************************************************************************)

\* What a write does to the server and to the plan cache.
LEMMA CommitEffect ==
    ASSUME NEW nn, NEW np, NEW q, Commit(nn, np, q)
    PROVE  /\ node' = nn /\ plan' = np
           /\ planCache' = planCache \/ planCache' = np
           /\ ~NodeLag => nodeCache' = nn
BY DEF Commit

\* Two versions of a plan in the same stage of its life.
SameLife(a, b) ==
    a.present = b.present /\ a.deleting = b.deleting /\ a.finalizer = b.finalizer

\* Where a pass may go without another look at the plan.
Moves(at, at2) ==
    \/ at2 = at \/ at2 = "idle"
    \/ at \in WorkingStates /\ at2 \in WorkingStates
    \/ at \in CleaningStates /\ at2 \in CleaningStates

\* The three places where a pass writes only the status of its plan.
LEMMA StatusWriteEffect ==
    ASSUME TypeOK, NEW p \in Plans,
           UpdateStatus(p) \/ ReconcilePreview(p) \/ ReconcileDrain(p)
    PROVE  /\ node' = node
           /\ \A q \in Plans : SameLife(plan[q], plan'[q])
           /\ planCache' = planCache \/ planCache' = plan'
           /\ nodeCache' = nodeCache \/ nodeCache' = node'
<1>0. plan[p] \in PlanObject /\ plan \in [Plans -> PlanObject]
  BY DEF TypeOK
<1>1. \/ UNCHANGED <<server, caches>>
      \/ \E obj, q : SameLife(plan[p], obj)
                       /\ Commit(node, [plan EXCEPT ![p] = obj], q)
  <2>1. CASE UpdateStatus(p)
    <3> DEFINE st == MergeField(plan[p].status, planCopy[p].status,
                  buildNodeStatuses(p, nodeCopy[p], planCopy[p], work[p].all))
               co == MergeField(plan[p].conflict, planCopy[p].conflict,
                                work[p].conflict)
               obj == [plan[p] EXCEPT !.status = st, !.conflict = co]
    <3>1. Commit(node, [plan EXCEPT ![p] = obj], queue)
      BY <2>1 DEF UpdateStatus, PatchPlan
    <3> HIDE DEF st, co
    <3>2. SameLife(plan[p], obj)
      BY <1>0 DEF SameLife, PlanObject
    <3> QED BY <3>1, <3>2
  <2>2. CASE ReconcilePreview(p)
    <3> DEFINE obj == [plan[p] EXCEPT !.status = planCopy[p].status]
    <3>1. \/ UNCHANGED <<server, caches>>
          \/ Commit(node, [plan EXCEPT ![p] = obj], queue)
      BY <2>2 DEF ReconcilePreview, PatchPlan
    <3>2. SameLife(plan[p], obj)
      BY <1>0 DEF SameLife, PlanObject
    <3> QED BY <3>1, <3>2
  <2>3. CASE ReconcileDrain(p)
    <3>1. PICK st, q : Commit(node, [plan EXCEPT ![p].status = st], q)
      BY <2>3 DEF ReconcileDrain
    <3> DEFINE obj == [plan[p] EXCEPT !.status = st]
    <3>2. SameLife(plan[p], obj)
      BY <1>0 DEF SameLife, PlanObject
    <3> QED BY <3>1, <3>2
  <2> QED BY <2>1, <2>2, <2>3
<1>2. CASE UNCHANGED <<server, caches>>
  BY <1>2 DEF server, caches, SameLife
<1>3. CASE \E obj, q : SameLife(plan[p], obj)
                         /\ Commit(node, [plan EXCEPT ![p] = obj], q)
  <2>1. PICK obj, q : SameLife(plan[p], obj)
                        /\ Commit(node, [plan EXCEPT ![p] = obj], q)
    BY <1>3
  <2>2. node' = node /\ plan' = [plan EXCEPT ![p] = obj]
    BY <2>1 DEF Commit
  <2>3. /\ planCache' = planCache \/ planCache' = plan'
        /\ nodeCache' = nodeCache \/ nodeCache' = node'
    BY <2>1 DEF Commit
  <2> QED BY <1>0, <2>1, <2>2, <2>3 DEF SameLife
<1> QED BY <1>1, <1>2, <1>3

\* The invariant survives a step that leaves the plan in the same stage.
LEMMA PlanPassKeep ==
    ASSUME NEW pl \in PlanObject, NEW pl2 \in PlanObject,
           NEW ca \in PlanObject, NEW ca2 \in PlanObject, NEW at, NEW at2,
           PlanPassInv(pl, ca, at), SameLife(pl, pl2), ca2 = ca \/ ca2 = pl2,
           Moves(at, at2)
    PROVE  PlanPassInv(pl2, ca2, at2)
<1>1. CASE ca2 = ca
  BY <1>1 DEF PlanPassInv, SameLife, Moves, Active, WorkingStates, CleaningStates,
              PlanObject
<1>2. CASE ca2 = pl2
  BY <1>2 DEF PlanPassInv, SameLife, Moves, Active, WorkingStates, CleaningStates,
              PlanObject
<1> QED BY <1>1, <1>2

\* Every step preserves the part of the invariant about plans and passes.
LEMMA PlanInvStep ==
    ASSUME TypeOK, TypeOK', PlanInv, [Next]_vars
    PROVE  PlanInv'
<1> SUFFICES ASSUME NEW q \in Plans
             PROVE  PlanPassInv(plan'[q], planCache'[q], pc'[q])
  BY DEF PlanInv
<1>0. /\ plan[q] \in PlanObject /\ planCache[q] \in PlanObject
      /\ plan'[q] \in PlanObject /\ planCache'[q] \in PlanObject
      /\ PlanPassInv(plan[q], planCache[q], pc[q])
  BY DEF TypeOK, PlanInv
<1>K. ASSUME SameLife(plan[q], plan'[q]),
             planCache'[q] = planCache[q] \/ planCache'[q] = plan'[q],
             Moves(pc[q], pc'[q])
      PROVE  PlanPassInv(plan'[q], planCache'[q], pc'[q])
  BY <1>0, <1>K, PlanPassKeep
<1>1. ASSUME NEW p \in Plans, Reconcile(p)
      PROVE  PlanPassInv(plan'[q], planCache'[q], pc'[q])
  <2>1. plan' = plan /\ planCache' = planCache
    BY <1>1 DEF Reconcile, server, caches
  <2>2. CASE p # q
    <3>1. pc'[q] = pc[q]
      BY <1>1, <2>2 DEF Reconcile, Goto, TypeOK
    <3> QED BY <2>1, <3>1, <1>0
  <2>3. CASE p = q
    <3>1. pc'[q] = CASE ~planCache[q].present -> "idle"
                     [] planCache[q].present /\ planCache[q].deleting ->
                            IF planCache[q].finalizer THEN "list" ELSE "idle"
                     [] OTHER -> IF planCache[q].finalizer THEN "resolve" ELSE "finalizer"
      BY <1>1, <2>3 DEF Reconcile, Goto, TypeOK
    <3> QED BY <2>1, <3>1, <1>0
            DEF PlanPassInv, Active, WorkingStates, CleaningStates, PlanObject
  <2> QED BY <2>2, <2>3
<1>2. ASSUME NEW p \in Plans, EnsureFinalizer(p)
      PROVE  PlanPassInv(plan'[q], planCache'[q], pc'[q])
  <2>1. /\ plan[p].present
        /\ plan' = [plan EXCEPT ![p].finalizer = TRUE]
        /\ planCache' = planCache \/ planCache' = plan'
        /\ pc[p] = "finalizer" /\ pc' = [pc EXCEPT ![p] = "resolve"]
    BY <1>2, CommitEffect DEF EnsureFinalizer, PatchPlan, Goto
  <2>2. CASE p # q
    BY <1>K, <2>1, <2>2 DEF TypeOK, SameLife, Moves
  <2>3. CASE p = q
    <3>1. /\ plan'[q].present = plan[q].present
          /\ plan'[q].deleting = plan[q].deleting
          /\ plan'[q].finalizer = TRUE /\ plan[q].present
          /\ pc[q] = "finalizer" /\ pc'[q] = "resolve"
          /\ planCache'[q] = planCache[q] \/ planCache'[q] = plan'[q]
      BY <2>1, <2>3 DEF TypeOK, PlanObject
    <3> QED BY <3>1, <1>0
            DEF PlanPassInv, Active, WorkingStates, CleaningStates, PlanObject
  <2> QED BY <2>2, <2>3
<1>3. ASSUME NEW p \in Plans,
             Resolve(p) \/ CordonGate(p) \/ SkipDrain(p) \/ ListOwned(p)
                \/ PlanGone(p) \/ Fail(p)
      PROVE  PlanPassInv(plan'[q], planCache'[q], pc'[q])
  <2>1. plan' = plan /\ planCache' = planCache
    BY <1>3 DEF Resolve, CordonGate, SkipDrain, ListOwned, PlanGone, Fail, server, caches
  <2>2. Moves(pc[q], pc'[q])
    BY <1>3 DEF Resolve, CordonGate, SkipDrain, ListOwned, PlanGone, Fail, Goto,
                EndPass, Moves, TypeOK, WorkingStates, CleaningStates
  <2> QED BY <1>K, <2>1, <2>2 DEF SameLife
<1>4. ASSUME NEW p \in Plans, UpdateStatus(p) \/ ReconcilePreview(p) \/ ReconcileDrain(p)
      PROVE  PlanPassInv(plan'[q], planCache'[q], pc'[q])
  <2>1. /\ SameLife(plan[q], plan'[q])
        /\ planCache' = planCache \/ planCache' = plan'
    BY <1>4, StatusWriteEffect
  <2>2. Moves(pc[q], pc'[q])
    BY <1>4 DEF UpdateStatus, ReconcilePreview, ReconcileDrain, EndPass, Goto, Moves,
                TypeOK, WorkingStates
  <2> QED BY <1>K, <2>1, <2>2
<1>5. ASSUME NEW p \in Plans, NEW n \in Nodes,
             \/ AdoptNode(p, n) \/ ReconcileDrift(p, n) \/ ReconcileCordon(p, n)
             \/ UncordonNode(p, n) \/ ReleaseNode(p, n)
      PROVE  PlanPassInv(plan'[q], planCache'[q], pc'[q])
  <2>1. plan' = plan /\ pc' = pc /\ (planCache' = planCache \/ planCache' = plan)
    <3>1. pc' = pc /\ \E new : PatchNode(p, n, new)
      BY <1>5 DEF AdoptNode, ReconcileDrift, ReconcileCordon, UncordonNode, ReleaseNode
    <3> QED BY <3>1, CommitEffect DEF PatchNode, server, caches
  <2> QED BY <1>K, <2>1 DEF SameLife, Moves
<1>6. ASSUME NEW p \in Plans, RemoveFinalizer(p)
      PROVE  PlanPassInv(plan'[q], planCache'[q], pc'[q])
  <2>1. /\ plan' = [plan EXCEPT ![p] = IF @.deleting THEN NoPlanObject
                                       ELSE [@ EXCEPT !.finalizer = FALSE]]
        /\ planCache' = planCache \/ planCache' = plan'
        /\ pc[p] = "clean" /\ pc' = [pc EXCEPT ![p] = "idle"]
    BY <1>6, CommitEffect DEF RemoveFinalizer, EndPass
  <2>2. CASE p # q
    BY <1>K, <2>1, <2>2 DEF TypeOK, SameLife, Moves
  <2>3. CASE p = q
    <3>1. /\ pc[q] = "clean" /\ pc'[q] = "idle"
          /\ ~plan'[q].deleting /\ ~plan'[q].finalizer
          /\ planCache'[q] = planCache[q] \/ planCache'[q] = plan'[q]
      BY <2>1, <2>3 DEF TypeOK, PlanObject, NoPlanObject
    <3> QED BY <3>1, <1>0
            DEF PlanPassInv, Active, WorkingStates, CleaningStates, PlanObject
  <2> QED BY <2>2, <2>3
<1>7. ASSUME NEW p \in Plans, CreatePlan(p)
      PROVE  PlanPassInv(plan'[q], planCache'[q], pc'[q])
  <2>1. /\ ~plan[p].present /\ pc' = pc
        /\ \E s \in Specs : plan' = [plan EXCEPT ![p] = NewPlan(s, edits + 1)]
        /\ planCache' = planCache \/ planCache' = plan'
    BY <1>7, CommitEffect DEF CreatePlan, UserWrites, passVars
  <2>2. CASE p # q
    BY <1>K, <2>1, <2>2 DEF TypeOK, SameLife, Moves
  <2>3. CASE p = q
    <3>1. /\ ~plan[q].present /\ pc'[q] = pc[q]
          /\ plan'[q].present /\ ~plan'[q].deleting /\ ~plan'[q].finalizer
          /\ planCache'[q] = planCache[q] \/ planCache'[q] = plan'[q]
      BY <2>1, <2>3 DEF TypeOK, NewPlan
    <3> QED BY <3>1, <1>0
            DEF PlanPassInv, Active, WorkingStates, CleaningStates, PlanObject
  <2> QED BY <2>2, <2>3
<1>8. ASSUME NEW p \in Plans, EditSpec(p)
      PROVE  PlanPassInv(plan'[q], planCache'[q], pc'[q])
  <2>1. /\ pc' = pc
        /\ \E s, g : plan' = [plan EXCEPT ![p].spec = s, ![p].generation = g]
        /\ planCache' = planCache \/ planCache' = plan'
    <3>1. PICK s \in Specs :
             UserWrites(node, [plan EXCEPT ![p].spec = s, ![p].generation = edits + 1])
      BY <1>8 DEF EditSpec
    <3>2. /\ plan' = [plan EXCEPT ![p].spec = s, ![p].generation = edits + 1]
          /\ planCache' = planCache \/ planCache' = plan'
      BY <3>1, CommitEffect DEF UserWrites
    <3>3. pc' = pc
      BY <3>1 DEF UserWrites, passVars
    <3> QED BY <3>2, <3>3
  <2>2. SameLife(plan[q], plan'[q])
    BY <2>1, <1>0 DEF SameLife, TypeOK, PlanObject
  <2> QED BY <1>K, <2>1, <2>2 DEF Moves
<1>9. ASSUME NEW p \in Plans, DeletePlan(p)
       PROVE  PlanPassInv(plan'[q], planCache'[q], pc'[q])
  <2>1. /\ plan[p].present /\ ~plan[p].deleting /\ pc' = pc
        /\ plan' = [plan EXCEPT ![p] =
               IF @.finalizer THEN [@ EXCEPT !.deleting = TRUE] ELSE NoPlanObject]
        /\ planCache' = planCache \/ planCache' = plan'
    BY <1>9, CommitEffect DEF DeletePlan, UserWrites, passVars
  <2>2. CASE p # q
    BY <1>K, <2>1, <2>2 DEF TypeOK, SameLife, Moves
  <2>3. CASE p = q
    <3>1. /\ plan[q].present /\ ~plan[q].deleting /\ pc'[q] = pc[q]
          /\ plan[q].finalizer => /\ plan'[q].present /\ plan'[q].deleting
                                  /\ plan'[q].finalizer
          /\ ~plan[q].finalizer => /\ ~plan'[q].present /\ ~plan'[q].deleting
                                   /\ ~plan'[q].finalizer
          /\ planCache'[q] = planCache[q] \/ planCache'[q] = plan'[q]
      BY <2>1, <2>3 DEF TypeOK, PlanObject, NoPlanObject
    <3> QED BY <3>1, <1>0
            DEF PlanPassInv, Active, WorkingStates, CleaningStates, PlanObject
  <2> QED BY <2>2, <2>3
<1>10. ASSUME NEW n \in Nodes, UserCordon(n) \/ UserUncordon(n) \/ SyncNode(n)
       PROVE  PlanPassInv(plan'[q], planCache'[q], pc'[q])
  <2>1. plan' = plan /\ pc' = pc /\ (planCache' = planCache \/ planCache' = plan)
    BY <1>10, CommitEffect DEF UserCordon, UserUncordon, SyncNode, UserWrites,
                               passVars, server
  <2> QED BY <1>K, <2>1 DEF SameLife, Moves
<1>11. ASSUME NEW p \in Plans, TimerFires(p) \/ SyncPlan(p)
       PROVE  PlanPassInv(plan'[q], planCache'[q], pc'[q])
  <2>1. /\ plan' = plan /\ pc' = pc
        /\ planCache' = planCache \/ planCache' = [planCache EXCEPT ![p] = plan[p]]
    BY <1>11 DEF TimerFires, SyncPlan, passVars, server, caches
  <2> QED BY <1>K, <2>1 DEF SameLife, Moves, TypeOK
<1>12. CASE Crash
  <2>1. plan' = plan /\ planCache' = plan /\ pc'[q] = "idle"
    BY <1>12 DEF Crash, server
  <2> QED BY <1>K, <2>1 DEF SameLife, Moves
<1>13. CASE Tick \/ UNCHANGED vars
  BY <1>0, <1>13 DEF Tick, vars, server, caches, passVars
<1> QED BY <1>1, <1>2, <1>3, <1>4, <1>5, <1>6, <1>7, <1>8, <1>9, <1>10,
           <1>11, <1>12, <1>13 DEF Next, Pass

\* What a patch of a node does to the annotations, when the node cache does not
\* lag: only the node's own annotation can change, and only if the copy's does.
LEMMA PatchNodeEffect ==
    ASSUME TypeOK, ~NodeLag, nodeCache = node, NEW p \in Plans, NEW n \in Nodes,
           NEW new \in NodeObject, PatchNode(p, n, new)
    PROVE  /\ plan' = plan /\ nodeCache' = node'
           /\ \A m \in Nodes \ {n} : node'[m] = node[m]
           /\ node'[n].owner = IF new.owner = nodeCopy[p][n].owner
                               THEN node[n].owner ELSE new.owner
           /\ \A r \in Plans \ {p} : nodeCopy'[r] = nodeCopy[r]
           /\ \A m \in Nodes \ {n} : nodeCopy'[p][m] = nodeCopy[p][m]
           /\ nodeCopy'[p][n] \in {nodeCopy[p][n], node'[n]}
<1> DEFINE merged == MergeNode(node[n], nodeCopy[p][n], new)
<1>0. /\ node \in [Nodes -> NodeObject]
      /\ nodeCopy \in [Plans -> [Nodes -> NodeObject]]
  BY DEF TypeOK
<1>1. CASE new = nodeCopy[p][n]
  BY <1>0, <1>1 DEF PatchNode, server, caches
<1>2. CASE new # nodeCopy[p][n]
  <2>1. /\ node' = [node EXCEPT ![n] = merged] /\ plan' = plan /\ nodeCache' = node'
        /\ nodeCopy' = [nodeCopy EXCEPT ![p][n] = merged]
    BY <1>2, CommitEffect DEF PatchNode
  <2>2. merged.owner = IF new.owner = nodeCopy[p][n].owner
                       THEN node[n].owner ELSE new.owner
    BY DEF MergeNode, MergeField
  <2> HIDE DEF merged
  <2> QED BY <1>0, <2>1, <2>2
<1> QED BY <1>1, <1>2

\* A plan that exists and has the finalizer.
Protected(o) == o.present /\ o.finalizer

\* Every step preserves what a clean-up knows and keeps every owner protected.
LEMMA OwnershipStep ==
    ASSUME TypeOK, ~NodeLag, OwnershipInv, [Next]_vars
    PROVE  nodeCache' = node' /\ CleanUpInv' /\ NoOrphan'
<1>0. /\ node \in [Nodes -> NodeObject] /\ plan \in [Plans -> PlanObject]
      /\ pc \in [Plans -> PassStates] /\ work \in [Plans -> PassWork]
      /\ nodeCopy \in [Plans -> [Nodes -> NodeObject]]
      /\ nodeCache = node /\ PlanInv /\ CleanUpInv /\ NoOrphan
  BY DEF TypeOK, OwnershipInv
<1>C. ASSUME \A n \in Nodes : node'[n].owner = node[n].owner,
             \A q \in Plans : pc'[q] = "clean" =>
                pc[q] = "clean" /\ work'[q] = work[q] /\ nodeCopy'[q] = nodeCopy[q]
      PROVE  CleanUpInv'
  BY <1>0, <1>C DEF CleanUpInv
<1>O. ASSUME \A n \in Nodes : node'[n].owner = node[n].owner,
             \A q \in Plans, n \in Nodes :
                node[n].owner = q /\ Protected(plan[q]) => Protected(plan'[q])
      PROVE  NoOrphan'
  BY <1>0, <1>O DEF NoOrphan, Protected
<1>1. ASSUME NEW p \in Plans,
             \/ Reconcile(p) \/ Resolve(p) \/ CordonGate(p) \/ SkipDrain(p)
             \/ PlanGone(p) \/ Fail(p)
      PROVE  nodeCache' = node' /\ CleanUpInv' /\ NoOrphan'
  <2>1. node' = node /\ plan' = plan /\ nodeCache' = nodeCache
    BY <1>1 DEF Reconcile, Resolve, CordonGate, SkipDrain, PlanGone, Fail, server, caches
  <2>2. ASSUME NEW q \in Plans, pc'[q] = "clean"
        PROVE  pc[q] = "clean" /\ work'[q] = work[q] /\ nodeCopy'[q] = nodeCopy[q]
    BY <1>0, <1>1, <2>2 DEF Reconcile, Resolve, CordonGate, SkipDrain, PlanGone, Fail,
                            EndPass, Goto
  <2> QED BY <1>0, <1>C, <1>O, <2>1, <2>2
<1>2. ASSUME NEW p \in Plans, UpdateStatus(p) \/ ReconcilePreview(p) \/ ReconcileDrain(p)
      PROVE  nodeCache' = node' /\ CleanUpInv' /\ NoOrphan'
  <2>1. /\ node' = node /\ nodeCache' = node'
        /\ \A q \in Plans : Protected(plan[q]) => Protected(plan'[q])
    BY <1>0, <1>2, StatusWriteEffect DEF SameLife, Protected
  <2>2. ASSUME NEW q \in Plans, pc'[q] = "clean"
        PROVE  pc[q] = "clean" /\ work'[q] = work[q] /\ nodeCopy'[q] = nodeCopy[q]
    BY <1>0, <1>2, <2>2 DEF UpdateStatus, ReconcilePreview, ReconcileDrain, EndPass, Goto
  <2> QED BY <1>C, <1>O, <2>1, <2>2
<1>3. ASSUME NEW p \in Plans, EnsureFinalizer(p)
      PROVE  nodeCache' = node' /\ CleanUpInv' /\ NoOrphan'
  <2>1. /\ node' = node /\ nodeCache' = node' /\ work' = work /\ nodeCopy' = nodeCopy
        /\ plan' = [plan EXCEPT ![p].finalizer = TRUE]
        /\ pc' = [pc EXCEPT ![p] = "resolve"]
    BY <1>3, CommitEffect DEF EnsureFinalizer, PatchPlan, Goto
  <2>2. \A q \in Plans : Protected(plan[q]) => Protected(plan'[q])
    BY <1>0, <2>1 DEF Protected, PlanObject
  <2> QED BY <1>0, <1>C, <1>O, <2>1, <2>2
<1>4. ASSUME NEW p \in Plans, NEW n \in Nodes,
             \/ AdoptNode(p, n) \/ ReconcileDrift(p, n) \/ ReconcileCordon(p, n)
             \/ UncordonNode(p, n) \/ ReleaseNode(p, n)
      PROVE  nodeCache' = node' /\ CleanUpInv' /\ NoOrphan'
  <2> DEFINE copy == nodeCopy[p][n]
             adopt == planCopy[p].spec.cordon /\ work[p].cordon
  <2>0. copy \in NodeObject /\ adopt \in BOOLEAN
    BY <1>0 DEF TypeOK, PlanObject, PlanSpec, PassWork
  <2>1. PICK new \in NodeObject :
            /\ PatchNode(p, n, new)
            /\ \/ pc[p] = "adopt" /\ new.owner = p
               \/ pc[p] # "adopt" /\ new.owner = copy.owner /\ ~ReleaseNode(p, n)
               \/ /\ pc[p] # "adopt"
                  /\ new.owner = IF copy.owner = p THEN NoPlan ELSE copy.owner
    <3>1. CASE AdoptNode(p, n)
      <4>1. Adopted(copy, p, adopt).owner = p
        BY <2>0 DEF Adopted, NodeObject
      <4> QED BY <2>0, <3>1, <4>1, NodeOpsType DEF AdoptNode
    <3>2. CASE ReconcileDrift(p, n) \/ ReleaseNode(p, n)
      <4>1. Released(copy, p).owner = IF copy.owner = p THEN NoPlan ELSE copy.owner
        BY <2>0 DEF Released, NodeObject
      <4> QED BY <2>0, <3>2, <4>1, NodeOpsType DEF ReconcileDrift, ReleaseNode
    <3>3. CASE ~ReleaseNode(p, n) /\ (ReconcileCordon(p, n) \/ UncordonNode(p, n))
      <4>1. Cordoned(copy).owner = copy.owner /\ Uncordoned(copy).owner = copy.owner
        BY <2>0 DEF Cordoned, Uncordoned, NodeObject
      <4>2. PICK new \in {Cordoned(copy), Uncordoned(copy)} : PatchNode(p, n, new)
        BY <3>3 DEF ReconcileCordon, UncordonNode
      <4>3. pc[p] # "adopt"
        BY <3>3 DEF ReconcileCordon, UncordonNode
      <4> QED BY <2>0, <3>3, <4>1, <4>2, <4>3, NodeOpsType
    <3> QED BY <1>4, <3>1, <3>2, <3>3
  <2>2. /\ plan' = plan /\ nodeCache' = node'
        /\ \A m \in Nodes \ {n} : node'[m] = node[m]
        /\ node'[n].owner = IF new.owner = copy.owner THEN node[n].owner ELSE new.owner
        /\ \A r \in Plans \ {p} : nodeCopy'[r] = nodeCopy[r]
        /\ \A m \in Nodes \ {n} : nodeCopy'[p][m] = nodeCopy[p][m]
        /\ nodeCopy'[p][n] \in {copy, node'[n]}
    BY <1>0, <2>1, PatchNodeEffect
  <2>3. pc' = pc /\ \A r \in Plans \ {p} : work'[r] = work[r]
    BY <1>0, <1>4 DEF AdoptNode, ReconcileDrift, ReconcileCordon, UncordonNode, ReleaseNode
  <2>4. \A m \in Nodes, r \in Plans :
            node'[m].owner = r => node[m].owner = r \/ (r = p /\ pc[p] = "adopt")
    BY <1>0, <2>1, <2>2, OwnershipAssumption
  <2>5. NoOrphan'
    <3>1. pc[p] = "adopt" => Protected(plan[p])
      BY <1>0 DEF PlanInv, PlanPassInv, WorkingStates, Protected
    <3> QED BY <1>0, <2>2, <2>4, <3>1 DEF NoOrphan, Protected
  <2>6. CleanUpInv'
    <3> SUFFICES ASSUME NEW r \in Plans, NEW m \in Nodes,
                        pc[r] = "clean", node'[m].owner = r
                 PROVE  /\ m \in work'[r].release \union work'[r].freed
                        /\ nodeCopy'[r][m].owner = r
      BY <2>3 DEF CleanUpInv
    <3>1. /\ node[m].owner = r /\ m \in work[r].release \union work[r].freed
          /\ nodeCopy[r][m].owner = r
      BY <1>0, <2>4 DEF CleanUpInv
    <3>2. CASE r # p
      BY <2>2, <2>3, <3>1, <3>2
    <3>3. CASE r = p
      <4>1. nodeCopy'[r][m].owner = r
        BY <2>2, <3>1, <3>3
      <4>2. CASE UncordonNode(p, n)
        <5>1. work' = [work EXCEPT ![p].release = @ \ {n}, ![p].freed = {n}]
          BY <4>2 DEF UncordonNode
        <5>2. work[p].freed = {}
          BY <4>2 DEF UncordonNode
        <5>3. /\ work'[p].release = work[p].release \ {n}
              /\ work'[p].freed = {n}
          BY <1>0, <5>1 DEF PassWork
        <5> QED BY <3>1, <3>3, <4>1, <5>2, <5>3
      <4>3. CASE ReleaseNode(p, n)
        <5>1. work' = [work EXCEPT ![p].freed = @ \ {n}]
          BY <4>3 DEF ReleaseNode
        <5>2. /\ work'[p].release = work[p].release
              /\ work'[p].freed = work[p].freed \ {n}
          BY <1>0, <5>1 DEF PassWork
        <5>3. new.owner = IF copy.owner = p THEN NoPlan ELSE copy.owner
          BY <2>1, <3>3, <4>3
        <5>4. m # n
          BY <2>2, <3>1, <3>3, <5>3, OwnershipAssumption
        <5> QED BY <3>1, <3>3, <4>1, <5>2, <5>4
      <4> QED BY <1>4, <3>3, <4>2, <4>3 DEF AdoptNode, ReconcileDrift, ReconcileCordon
    <3> QED BY <3>2, <3>3
  <2> QED BY <2>2, <2>5, <2>6
<1>5. ASSUME NEW p \in Plans, ListOwned(p)
      PROVE  nodeCache' = node' /\ CleanUpInv' /\ NoOrphan'
  <2>1. /\ node' = node /\ plan' = plan /\ nodeCache' = nodeCache
        /\ nodeCopy' = [nodeCopy EXCEPT ![p] = node]
        /\ work' = [work EXCEPT ![p].release = {n \in Nodes : node[n].owner = p}]
        /\ pc' = [pc EXCEPT ![p] = "clean"]
    BY <1>0, <1>5 DEF ListOwned, Goto, server, caches
  <2>2. /\ work'[p].release = {n \in Nodes : node[n].owner = p}
        /\ nodeCopy'[p] = node
        /\ \A q \in Plans \ {p} : /\ work'[q] = work[q] /\ nodeCopy'[q] = nodeCopy[q]
                                  /\ pc'[q] = pc[q]
    BY <1>0, <2>1 DEF PassWork
  <2>3. CleanUpInv'
    BY <1>0, <2>1, <2>2 DEF CleanUpInv
  <2> QED BY <1>0, <1>O, <2>1, <2>3
<1>6. ASSUME NEW p \in Plans, RemoveFinalizer(p)
      PROVE  nodeCache' = node' /\ CleanUpInv' /\ NoOrphan'
  <2>1. /\ node' = node /\ nodeCache' = node'
        /\ plan' = [plan EXCEPT ![p] = IF @.deleting THEN NoPlanObject
                                       ELSE [@ EXCEPT !.finalizer = FALSE]]
    BY <1>6, CommitEffect DEF RemoveFinalizer
  <2>2. \A n \in Nodes : node[n].owner # p
    BY <1>0, <1>6 DEF RemoveFinalizer, CleanUpInv
  <2>3. ASSUME NEW q \in Plans, pc'[q] = "clean"
        PROVE  pc[q] = "clean" /\ work'[q] = work[q] /\ nodeCopy'[q] = nodeCopy[q]
    BY <1>0, <1>6, <2>3 DEF RemoveFinalizer, EndPass
  <2>4. \A q \in Plans \ {p} : plan'[q] = plan[q]
    BY <1>0, <2>1
  <2> QED BY <1>C, <1>O, <2>1, <2>2, <2>3, <2>4
<1>7. ASSUME NEW p \in Plans, CreatePlan(p) \/ EditSpec(p) \/ DeletePlan(p)
      PROVE  nodeCache' = node' /\ CleanUpInv' /\ NoOrphan'
  <2>1. PICK np : UserWrites(node, np)
    BY <1>7 DEF CreatePlan, EditSpec, DeletePlan
  <2>2. /\ node' = node /\ nodeCache' = node'
        /\ pc' = pc /\ work' = work /\ nodeCopy' = nodeCopy
    BY <2>1, CommitEffect DEF UserWrites, passVars
  <2>3. ASSUME NEW q \in Plans, NEW n \in Nodes, node[n].owner = q, Protected(plan[q])
        PROVE  Protected(plan'[q])
    <3>1. CASE CreatePlan(p)
      <4>1. p # q /\ \E o : plan' = [plan EXCEPT ![p] = o]
        BY <2>3, <3>1, CommitEffect DEF CreatePlan, UserWrites, Protected
      <4> QED BY <1>0, <2>3, <4>1
    <3>2. CASE EditSpec(p)
      <4>1. PICK s, g : plan' = [plan EXCEPT ![p].spec = s, ![p].generation = g]
        BY <3>2, CommitEffect DEF EditSpec, UserWrites
      <4> QED BY <1>0, <2>3, <4>1 DEF Protected, PlanObject
    <3>3. CASE DeletePlan(p)
      <4>1. plan' = [plan EXCEPT ![p] =
                IF @.finalizer THEN [@ EXCEPT !.deleting = TRUE] ELSE NoPlanObject]
        BY <3>3, CommitEffect DEF DeletePlan, UserWrites
      <4> QED BY <1>0, <2>3, <4>1 DEF Protected, PlanObject
    <3> QED BY <1>7, <3>1, <3>2, <3>3
  <2> QED BY <1>C, <1>O, <2>2, <2>3
<1>8. ASSUME NEW n \in Nodes, UserCordon(n) \/ UserUncordon(n)
      PROVE  nodeCache' = node' /\ CleanUpInv' /\ NoOrphan'
  <2>1. PICK f : UserWrites([node EXCEPT ![n].unschedulable = f], plan)
    BY <1>8 DEF UserCordon, UserUncordon
  <2>2. /\ node' = [node EXCEPT ![n].unschedulable = f] /\ nodeCache' = node'
        /\ plan' = plan /\ pc' = pc /\ work' = work /\ nodeCopy' = nodeCopy
    BY <2>1, CommitEffect DEF UserWrites, passVars
  <2>3. \A m \in Nodes : node'[m].owner = node[m].owner
    BY <1>0, <2>2 DEF NodeObject
  <2> QED BY <1>C, <1>O, <2>2, <2>3
<1>9. ASSUME NEW p \in Plans, TimerFires(p) \/ SyncPlan(p)
      PROVE  nodeCache' = node' /\ CleanUpInv' /\ NoOrphan'
  <2>1. /\ node' = node /\ nodeCache' = nodeCache /\ plan' = plan
        /\ pc' = pc /\ work' = work /\ nodeCopy' = nodeCopy
    BY <1>9 DEF TimerFires, SyncPlan, server, caches, passVars
  <2> QED BY <1>0, <1>C, <1>O, <2>1
<1>10. ASSUME NEW n \in Nodes, SyncNode(n)
       PROVE  FALSE
  BY <1>0, <1>10 DEF SyncNode
<1>11. CASE Crash
  <2>1. /\ node' = node /\ nodeCache' = node' /\ plan' = plan
        /\ \A q \in Plans : pc'[q] = "idle"
    BY <1>11 DEF Crash, server
  <2> QED BY <1>C, <1>O, <2>1
<1>12. CASE Tick \/ UNCHANGED vars
  <2>1. /\ node' = node /\ nodeCache' = nodeCache /\ plan' = plan
        /\ pc' = pc /\ work' = work /\ nodeCopy' = nodeCopy
    BY <1>12 DEF Tick, vars, server, caches, passVars
  <2> QED BY <1>0, <1>C, <1>O, <2>1
<1> QED BY <1>1, <1>2, <1>3, <1>4, <1>5, <1>6, <1>7, <1>8, <1>9, <1>10, <1>11,
           <1>12 DEF Next, Pass

\* OwnershipInv is inductive: as long as the node cache does not lag it holds in
\* every state, however passes, users, failed calls and crashes interleave and
\* however far the plan cache lags.
THEOREM OwnershipInvariant ==
    ASSUME ~NodeLag
    PROVE  Spec => []OwnershipInv
<1>1. Init => OwnershipInv
  <2> SUFFICES ASSUME Init PROVE OwnershipInv
    OBVIOUS
  <2>1. nodeCache = node /\ \A n \in Nodes : node[n].owner = NoPlan
    BY DEF Init
  <2>2. \A p \in Plans : /\ pc[p] = "idle" /\ planCache[p] = plan[p]
                         /\ ~plan[p].deleting /\ ~plan[p].finalizer
    BY DEF Init, NoPlanObject, NewPlan
  <2>3. PlanInv
    BY <2>2 DEF PlanInv, PlanPassInv, Active, WorkingStates, CleaningStates
  <2>4. CleanUpInv /\ NoOrphan
    BY <2>1, <2>2, OwnershipAssumption DEF CleanUpInv, NoOrphan
  <2> QED BY <2>1, <2>3, <2>4 DEF OwnershipInv
<1>2. TypeOK /\ TypeOK' /\ OwnershipInv /\ [Next]_vars => OwnershipInv'
  BY OwnershipStep, PlanInvStep DEF OwnershipInv
<1> QED BY <1>1, <1>2, TypeCorrect, PTL DEF Spec

\* Under the same assumption no node is ever left with the managed-by annotation
\* of a plan that is gone or unprotected (ensureFinalizer, CleanUp).
THEOREM OrphanFree ==
    ASSUME ~NodeLag
    PROVE  Spec => []NoOrphan
<1>1. OwnershipInv => NoOrphan
  BY DEF OwnershipInv
<1> QED BY <1>1, OwnershipInvariant, PTL

(***************************************************************************)
(* Ownership implements Lease.                                             *)
(***************************************************************************)

\* A patch of a node by a pass of p adopts it, frees it or leaves its owner
\* alone: the only patch that names a new owner is AdoptNode's.
LEMMA PatchOwner ==
    ASSUME TypeOK, ~NodeLag, nodeCache = node, NEW p \in Plans, NEW n \in Nodes,
           \/ AdoptNode(p, n) \/ ReconcileDrift(p, n) \/ ReconcileCordon(p, n)
           \/ UncordonNode(p, n) \/ ReleaseNode(p, n)
    PROVE  /\ plan' = plan
           /\ \A m \in Nodes \ {n} : node'[m] = node[m]
           /\ \/ node'[n].owner = node[n].owner
              \/ pc[p] = "adopt" /\ node'[n].owner = p
              \/ node'[n].owner = NoPlan
<1> DEFINE copy == nodeCopy[p][n]
           now == planCopy[p].spec.cordon /\ work[p].cordon
<1>0. copy \in NodeObject /\ now \in BOOLEAN
  BY DEF TypeOK
<1>1. ASSUME NEW new \in NodeObject, PatchNode(p, n, new)
      PROVE  /\ plan' = plan
             /\ \A m \in Nodes \ {n} : node'[m] = node[m]
             /\ node'[n].owner = IF new.owner = copy.owner
                                 THEN node[n].owner ELSE new.owner
  BY <1>1, PatchNodeEffect
<1>2. CASE AdoptNode(p, n)
  <2>1. pc[p] = "adopt" /\ PatchNode(p, n, Adopted(copy, p, now))
    BY <1>2 DEF AdoptNode
  <2>2. Adopted(copy, p, now) \in NodeObject
    BY <1>0, NodeOpsType
  <2>3. Adopted(copy, p, now).owner = p
    BY <1>0 DEF Adopted, NodeObject
  <2> QED BY <1>1, <2>1, <2>2, <2>3
<1>3. CASE ReconcileDrift(p, n) \/ ReleaseNode(p, n)
  <2>1. PatchNode(p, n, Released(copy, p))
    BY <1>3 DEF ReconcileDrift, ReleaseNode
  <2>2. Released(copy, p) \in NodeObject
    BY <1>0, NodeOpsType
  <2>3. Released(copy, p).owner = IF copy.owner = p THEN NoPlan ELSE copy.owner
    BY <1>0 DEF Released, NodeObject
  <2> QED BY <1>1, <2>1, <2>2, <2>3
<1>4. CASE ReconcileCordon(p, n) \/ UncordonNode(p, n)
  <2>1. PICK new \in {Cordoned(copy), Uncordoned(copy)} : PatchNode(p, n, new)
    BY <1>4 DEF ReconcileCordon, UncordonNode
  <2>2. new \in NodeObject /\ new.owner = copy.owner
    BY <1>0, <2>1, NodeOpsType DEF Cordoned, Uncordoned, NodeObject
  <2> QED BY <1>1, <2>1, <2>2
<1> QED BY <1>2, <1>3, <1>4

\* Every step of the operator, the users and the faults is a step of the
\* abstract ownership, or changes neither an owner nor a finalizer.
LEMMA LeaseStep ==
    ASSUME TypeOK, TypeOK', ~NodeLag, OwnershipInv, [Next]_vars
    PROVE  [L!Next]_(L!leaseVars)
<1> DEFINE H == [n \in Nodes |-> node[n].owner]
           P == {p \in Plans : plan[p].finalizer}
<1>0. /\ node \in [Nodes -> NodeObject] /\ plan \in [Plans -> PlanObject]
      /\ nodeCache = node /\ PlanInv /\ CleanUpInv /\ NoOrphan
  BY DEF TypeOK, OwnershipInv
<1>S. ASSUME \A n \in Nodes : node'[n].owner = node[n].owner,
             \A q \in Plans : plan'[q].finalizer = plan[q].finalizer
      PROVE  UNCHANGED L!leaseVars
  BY <1>S DEF L!leaseVars
<1>R. ASSUME NEW p \in Plans, node' = node,
             \A n \in Nodes : node[n].owner # p,
             ~plan'[p].finalizer, \A q \in Plans \ {p} : plan'[q] = plan[q]
      PROVE  L!Next
  <2>1. {q \in Plans : plan'[q].finalizer} = P \ {p}
    BY <1>R
  <2>2. L!Retire(p)
    BY <1>R, <2>1 DEF L!Retire
  <2> QED BY <2>2 DEF L!Next
<1>1. ASSUME NEW p \in Plans,
             \/ Reconcile(p) \/ Resolve(p) \/ CordonGate(p) \/ SkipDrain(p)
             \/ ListOwned(p) \/ PlanGone(p) \/ Fail(p)
      PROVE  UNCHANGED L!leaseVars
  <2>1. node' = node /\ plan' = plan
    BY <1>1 DEF Reconcile, Resolve, CordonGate, SkipDrain, ListOwned, PlanGone, Fail, server
  <2> QED BY <1>S, <2>1
<1>2. ASSUME NEW p \in Plans, UpdateStatus(p) \/ ReconcilePreview(p) \/ ReconcileDrain(p)
      PROVE  UNCHANGED L!leaseVars
  <2>1. node' = node /\ \A q \in Plans : SameLife(plan[q], plan'[q])
    BY <1>2, StatusWriteEffect
  <2> QED BY <1>S, <2>1 DEF SameLife
<1>3. ASSUME NEW p \in Plans, EnsureFinalizer(p)
      PROVE  L!Next
  <2>1. node' = node /\ plan' = [plan EXCEPT ![p].finalizer = TRUE]
    BY <1>3, CommitEffect DEF EnsureFinalizer, PatchPlan
  <2>2. plan'[p].finalizer /\ \A q \in Plans \ {p} : plan'[q] = plan[q]
    BY <1>0, <2>1 DEF PlanObject
  <2>3. {q \in Plans : plan'[q].finalizer} = P \union {p}
    BY <2>2
  <2>4. L!Protect(p)
    BY <2>1, <2>3 DEF L!Protect
  <2> QED BY <2>4 DEF L!Next
<1>4. ASSUME NEW p \in Plans, NEW n \in Nodes,
             \/ AdoptNode(p, n) \/ ReconcileDrift(p, n) \/ ReconcileCordon(p, n)
             \/ UncordonNode(p, n) \/ ReleaseNode(p, n)
      PROVE  L!Next \/ UNCHANGED L!leaseVars
  <2>1. /\ plan' = plan
        /\ \A m \in Nodes \ {n} : node'[m] = node[m]
        /\ \/ node'[n].owner = node[n].owner
           \/ pc[p] = "adopt" /\ node'[n].owner = p
           \/ node'[n].owner = NoPlan
    BY <1>0, <1>4, PatchOwner
  <2>2. CASE node'[n].owner = node[n].owner
    BY <1>S, <2>1, <2>2
  <2>3. CASE pc[p] = "adopt" /\ node'[n].owner = p
    <3>1. p \in P
      BY <1>0, <2>3 DEF PlanInv, PlanPassInv, WorkingStates
    <3>2. [m \in Nodes |-> node'[m].owner] = [H EXCEPT ![n] = p]
      BY <2>1, <2>3
    <3>3. L!Claim(p, n)
      BY <2>1, <3>1, <3>2 DEF L!Claim
    <3> QED BY <3>3 DEF L!Next
  <2>4. CASE node'[n].owner = NoPlan
    <3>1. [m \in Nodes |-> node'[m].owner] = [H EXCEPT ![n] = NoPlan]
      BY <2>1, <2>4
    <3>2. L!Free(n)
      BY <2>1, <3>1 DEF L!Free
    <3> QED BY <3>2 DEF L!Next
  <2> QED BY <2>1, <2>2, <2>3, <2>4
<1>5. ASSUME NEW p \in Plans, RemoveFinalizer(p)
      PROVE  L!Next
  <2>1. /\ node' = node
        /\ plan' = [plan EXCEPT ![p] = IF @.deleting THEN NoPlanObject
                                       ELSE [@ EXCEPT !.finalizer = FALSE]]
    BY <1>5, CommitEffect DEF RemoveFinalizer
  <2>2. \A n \in Nodes : node[n].owner # p
    BY <1>0, <1>5 DEF RemoveFinalizer, CleanUpInv
  <2>3. ~plan'[p].finalizer /\ \A q \in Plans \ {p} : plan'[q] = plan[q]
    BY <1>0, <2>1 DEF PlanObject, NoPlanObject
  <2> QED BY <1>R, <2>1, <2>2, <2>3
<1>6. ASSUME NEW p \in Plans, CreatePlan(p)
      PROVE  L!Next
  <2>1. PICK s \in Specs : UserWrites(node, [plan EXCEPT ![p] = NewPlan(s, edits + 1)])
    BY <1>6 DEF CreatePlan
  <2>2. node' = node /\ plan' = [plan EXCEPT ![p] = NewPlan(s, edits + 1)]
    BY <2>1, CommitEffect DEF UserWrites
  <2>3. ~plan'[p].finalizer /\ \A q \in Plans \ {p} : plan'[q] = plan[q]
    BY <1>0, <2>2 DEF NewPlan
  <2>4. \A n \in Nodes : node[n].owner # p
    BY <1>0, <1>6 DEF CreatePlan, NoOrphan
  <2> QED BY <1>R, <2>2, <2>3, <2>4
<1>7. ASSUME NEW p \in Plans, EditSpec(p)
      PROVE  UNCHANGED L!leaseVars
  <2>1. PICK s, g : UserWrites(node, [plan EXCEPT ![p].spec = s, ![p].generation = g])
    BY <1>7 DEF EditSpec
  <2>2. node' = node /\ plan' = [plan EXCEPT ![p].spec = s, ![p].generation = g]
    BY <2>1, CommitEffect DEF UserWrites
  <2>3. \A q \in Plans : plan'[q].finalizer = plan[q].finalizer
    BY <1>0, <2>2 DEF PlanObject
  <2> QED BY <1>S, <2>2, <2>3
<1>8. ASSUME NEW p \in Plans, DeletePlan(p)
      PROVE  UNCHANGED L!leaseVars
  <2>1. node' = node /\ plan' = [plan EXCEPT ![p] =
            IF @.finalizer THEN [@ EXCEPT !.deleting = TRUE] ELSE NoPlanObject]
    BY <1>8, CommitEffect DEF DeletePlan, UserWrites
  <2>2. \A q \in Plans : plan[q].finalizer \in BOOLEAN
    BY <1>0 DEF PlanObject
  <2>3. \A q \in Plans : plan'[q].finalizer = plan[q].finalizer
    BY <1>0, <2>1, <2>2 DEF PlanObject, NoPlanObject
  <2> QED BY <1>S, <2>1, <2>3
<1>9. ASSUME NEW n \in Nodes, UserCordon(n) \/ UserUncordon(n) \/ SyncNode(n)
      PROVE  UNCHANGED L!leaseVars
  <2>1. plan' = plan /\ (node' = node \/ \E f : node' = [node EXCEPT ![n].unschedulable = f])
    BY <1>9, CommitEffect DEF UserCordon, UserUncordon, SyncNode, UserWrites, server
  <2>2. \A m \in Nodes : node'[m].owner = node[m].owner
    BY <1>0, <2>1 DEF NodeObject
  <2> QED BY <1>S, <2>1, <2>2
<1>10. ASSUME NEW p \in Plans, TimerFires(p) \/ SyncPlan(p)
       PROVE  UNCHANGED L!leaseVars
  BY <1>S, <1>10 DEF TimerFires, SyncPlan, server
<1>11. CASE Crash \/ Tick \/ UNCHANGED vars
  BY <1>S, <1>11 DEF Crash, Tick, vars, server
<1> QED BY <1>1, <1>2, <1>3, <1>4, <1>5, <1>6, <1>7, <1>8, <1>9, <1>10, <1>11
        DEF Next, Pass

\* With a node cache that does not lag, the reconcile passes, the users and the
\* crashes implement the abstract ownership of module Lease: only a plan that
\* has its finalizer takes a node, and the finalizer goes only when no node
\* names the plan any more.
THEOREM LeaseRefinement ==
    ASSUME ~NodeLag
    PROVE  Spec => ImplementsLease
<1>1. Init => L!Init
  <2> SUFFICES ASSUME Init PROVE L!Init
    OBVIOUS
  <2>1. \A n \in Nodes : node[n].owner = NoPlan
    BY DEF Init
  <2>2. \A p \in Plans : ~plan[p].finalizer
    BY DEF Init, NoPlanObject, NewPlan
  <2> QED BY <2>1, <2>2 DEF L!Init
<1>2. TypeOK /\ TypeOK' /\ OwnershipInv /\ [Next]_vars => [L!Next]_(L!leaseVars)
  BY LeaseStep
<1> QED BY <1>1, <1>2, TypeCorrect, OwnershipInvariant, PTL
        DEF Spec, ImplementsLease, L!Spec
=============================================================================
