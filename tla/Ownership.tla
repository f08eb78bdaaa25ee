----------------------------- MODULE Ownership -----------------------------
(***************************************************************************)
(* Ownership of cluster nodes by NodeMaintenancePlans: the reconcile pass  *)
(* of internal/controller and the node operations of internal/maintenance  *)
(* that it drives (adopt, cordon, uncordon, release, drift, clean-up).     *)
(*                                                                         *)
(* A pass is a sequence of API calls.  Each call that writes is one step   *)
(* here, so the passes of different plans (MaxConcurrentReconciles is 10), *)
(* the users and a crash of the operator interleave between any two        *)
(* writes.  The workqueue never runs two passes of one plan at a time.     *)
(* A pass works on local copies it read from the informer caches; the      *)
(* caches may lag behind the API server.                                   *)
(***************************************************************************)
EXTENDS Naturals, KubeAPI

CONSTANTS
    Nodes,      \* the cluster's nodes
    Plans,      \* the names of the NodeMaintenancePlans
    NoPlan,     \* the managed-by annotation is absent
    Specs,      \* the plan specs users choose from
    UserOps,    \* which operations users perform
    NodeLag,    \* may the node informer's cache lag behind the API server?
    PlanLag,    \* may the plan informer's cache lag behind the API server?
    MaxClock,   \* bound on time
    MaxEdits,   \* bound on the number of user operations
    MaxFaults   \* bound on failed API calls and operator crashes

\* The fields of NodeMaintenancePlanSpec that ownership depends on.  A start
\* time of 0 stands for an absent startAt.
PlanSpec == [nodes: SUBSET Nodes, cordon: BOOLEAN, startAt: 0..MaxClock,
             drain: BOOLEAN, drainAt: 0..MaxClock]

\* The CEL rules of the CRD: drain requires cordon, and a drain does not
\* start before the cordon when both times are given.
ValidSpec(s) ==
    /\ s.drain => s.cordon
    /\ s.startAt # 0 /\ s.drainAt # 0 => s.startAt <= s.drainAt

ASSUME OwnershipAssumption ==
    /\ NoPlan \notin Plans
    /\ MaxClock \in Nat /\ MaxEdits \in Nat /\ MaxFaults \in Nat
    /\ NodeLag \in BOOLEAN /\ PlanLag \in BOOLEAN
    /\ UserOps \subseteq {"create", "edit", "delete", "cordon", "uncordon"}
    /\ Specs \subseteq {s \in PlanSpec : ValidSpec(s)}

(***************************************************************************)
(* Objects.                                                                *)
(***************************************************************************)

\* A Node: the managed-by annotation, the operator's cordoned annotation and
\* spec.unschedulable.
NodeObject == [owner: Plans \union {NoPlan}, cordoned: BOOLEAN,
               unschedulable: BOOLEAN]

NoNodeCopy == [n \in Nodes |-> [owner |-> NoPlan, cordoned |-> FALSE,
                                unschedulable |-> FALSE]]

\* NodeStatus: drift is DriftReason, "" when Drifted is false.  A node with no
\* entry in status.nodes has listed = FALSE.
DriftReasons == {"", "ManualUncordon", "ExternalCordon"}
NodeStatus == [listed: BOOLEAN, cordoned: BOOLEAN, drift: DriftReasons,
               ready: BOOLEAN]
NoNodeStatus == [listed |-> FALSE, cordoned |-> FALSE, drift |-> "",
                 ready |-> FALSE]
NoStatus == [n \in Nodes |-> NoNodeStatus]

\* A NodeMaintenancePlan: conflict is the Conflict condition, generation stands
\* for metadata.generation together with the UID (it changes with every write
\* of the spec and differs between two plans of the same name).
PlanObject == [present: BOOLEAN, deleting: BOOLEAN, finalizer: BOOLEAN,
               generation: 0..MaxEdits, spec: PlanSpec,
               status: [Nodes -> NodeStatus], conflict: BOOLEAN]
NoSpec == [nodes |-> {}, cordon |-> FALSE, startAt |-> 0,
           drain |-> FALSE, drainAt |-> 0]
NewPlan(s, g) == [present |-> TRUE, deleting |-> FALSE, finalizer |-> FALSE,
                  generation |-> g, spec |-> s, status |-> NoStatus,
                  conflict |-> FALSE]
NoPlanObject == [present |-> FALSE, deleting |-> FALSE, finalizer |-> FALSE,
                 generation |-> 0, spec |-> NoSpec, status |-> NoStatus,
                 conflict |-> FALSE]

\* What a pass holds besides its local copies: the OwnershipResolution (all,
\* stable, release, conflict), the PlanSchedule (cordon and drain are the
\* ShouldAct flags, requeueAt is the time the requeue ends, 0 for none), the
\* nodes its current loop has still to patch (todo) and the node that has been
\* uncordoned and is about to be released (freed).
PassWork == [all: SUBSET Nodes, stable: SUBSET Nodes, release: SUBSET Nodes,
             conflict: BOOLEAN, cordon: BOOLEAN, drain: BOOLEAN,
             requeueAt: 0..MaxClock, todo: SUBSET Nodes, freed: SUBSET Nodes]
NoWork == [all |-> {}, stable |-> {}, release |-> {}, conflict |-> FALSE,
           cordon |-> FALSE, drain |-> FALSE, requeueAt |-> 0, todo |-> {},
           freed |-> {}]

VARIABLES
    node,       \* the API server's Nodes
    plan,       \* the API server's NodeMaintenancePlans
    nodeCache,  \* the node informer's cache
    planCache,  \* the plan informer's cache
    queue,      \* plans in the controller's workqueue
    wake,       \* per plan, when its delayed requeue is due; 0 for none
    clock,      \* the time
    pc,         \* per plan, where its running pass is
    planCopy,   \* per plan, the pass's local copy of the plan
    nodeCopy,   \* per plan, the pass's local copies of the nodes
    work,       \* per plan, the pass's other local state
    edits,      \* number of user operations so far
    faults      \* number of faults so far

server == <<node, plan>>
caches == <<nodeCache, planCache>>
passVars == <<pc, planCopy, nodeCopy, work>>
bounds == <<edits, faults>>
vars == <<node, plan, nodeCache, planCache, queue, wake, clock, pc, planCopy,
          nodeCopy, work, edits, faults>>

PassStates == {"idle", "finalizer", "resolve", "adopt", "preview", "drift",
               "cordon", "drain", "list", "clean"}

\* The type of every variable.
TypeOK ==
    /\ node \in [Nodes -> NodeObject]
    /\ plan \in [Plans -> PlanObject]
    /\ nodeCache \in [Nodes -> NodeObject]
    /\ planCache \in [Plans -> PlanObject]
    /\ queue \in SUBSET Plans
    /\ wake \in [Plans -> 0..MaxClock]
    /\ clock \in 0..MaxClock
    /\ pc \in [Plans -> PassStates]
    /\ planCopy \in [Plans -> PlanObject]
    /\ nodeCopy \in [Plans -> [Nodes -> NodeObject]]
    /\ work \in [Plans -> PassWork]
    /\ edits \in 0..MaxEdits
    /\ faults \in 0..MaxFaults

(***************************************************************************)
(* Watches: which plans an update of the caches puts in the workqueue.     *)
(***************************************************************************)

\* Wrong variants of definitions, named Bad..., stand before the definition they
\* vary: each makes a property below fail.

\* Wrong: cordons and uncordons of unmanaged nodes are filtered out.
BadNodeRelevantChange(old, new) ==
    /\ old.owner # NoPlan \/ new.owner # NoPlan
    /\ old.owner # new.owner \/ old.cordoned # new.cordoned

\* nodeRelevantChange: the unschedulable flag on any node, the operator's
\* annotations on a node that is or was managed.
nodeRelevantChange(old, new) ==
    \/ old.unschedulable # new.unschedulable
    \/ /\ old.owner # NoPlan \/ new.owner # NoPlan
       /\ old.owner # new.owner \/ old.cordoned # new.cordoned

\* Wrong: a node event only reaches the plan that owns the node.
BadNodeRelevantToPlan(n, obj, p, plans) == plans[p].present /\ obj.owner = p

\* nodeRelevantToPlan, for a plan with an explicit node list.
nodeRelevantToPlan(n, obj, p, plans) ==
    /\ plans[p].present
    /\ obj.owner = p \/ n \in plans[p].spec.nodes

\* Wrong: GenerationChangedPredicate alone, deletion timestamps are filtered.
BadPlanPredicate(old, new) ==
    \/ old.present # new.present
    \/ new.present /\ old # new /\ old.generation # new.generation

\* planPredicate: creation, deletion, a new generation (spec change), or any
\* update of a plan with a deletion timestamp.
planPredicate(old, new) ==
    \/ old.present # new.present
    \/ /\ new.present /\ old # new
       /\ old.generation # new.generation \/ new.deleting

\* The plans enqueued when the caches go from nc, pl to nc2, pl2.  An update
\* event is mapped to plans through the old and the new node.
Woken(nc, nc2, pl, pl2) ==
    {p \in Plans :
        \/ planPredicate(pl[p], pl2[p])
        \/ \E n \in Nodes :
              /\ nodeRelevantChange(nc[n], nc2[n])
              /\ \/ nodeRelevantToPlan(n, nc[n], p, pl2)
                 \/ nodeRelevantToPlan(n, nc2[n], p, pl2)}

\* A write accepted by the API server.  The informers deliver it at once unless
\* their cache may lag; q is what the step itself leaves in the workqueue.
Commit(newNode, newPlan, q) ==
    /\ node' = newNode
    /\ plan' = newPlan
    /\ nodeCache' = IF NodeLag THEN nodeCache ELSE newNode
    /\ planCache' = IF PlanLag THEN planCache ELSE newPlan
    /\ queue' = q \union Woken(nodeCache, nodeCache', planCache, planCache')

(***************************************************************************)
(* Initial state: no node is managed, some plans have just been created    *)
(* and wait in the workqueue.                                              *)
(***************************************************************************)
Init ==
    /\ node \in [Nodes -> {o \in NodeObject : o.owner = NoPlan /\ ~o.cordoned}]
    /\ plan \in [Plans -> {NoPlanObject} \union {NewPlan(s, 0) : s \in Specs}]
    /\ nodeCache = node
    /\ planCache = plan
    /\ queue = {p \in Plans : plan[p].present}
    /\ wake = [p \in Plans |-> 0]
    /\ clock = 0
    /\ pc = [p \in Plans |-> "idle"]
    /\ planCopy = [p \in Plans |-> NoPlanObject]
    /\ nodeCopy = [p \in Plans |-> NoNodeCopy]
    /\ work = [p \in Plans |-> NoWork]
    /\ edits = 0
    /\ faults = 0

(***************************************************************************)
(* Pure parts of the pass.                                                 *)
(***************************************************************************)

\* CheckSchedule with alreadyActed = false: act now, or at which time.
ShouldAct(at) == at <= clock

\* Wrong: requeued one time unit after the start time.
BadRequeueAt(at) == IF ShouldAct(at) THEN 0 ELSE at + 1

\* CheckSchedule's RequeueAfter, as an absolute time.
RequeueAt(at) == IF ShouldAct(at) THEN 0 ELSE at

\* Wrong: the start time is ignored.
BadCordonShouldAct(s) == TRUE

\* Wrong: no requeue for a pending start time.
BadScheduleRequeue(s) == 0

\* ComputeSchedule: a disabled cordon always acts (it undoes old cordons), a
\* disabled drain never; requeue at the sooner of the pending start times.
cordonShouldAct(s) == ~s.cordon \/ ShouldAct(s.startAt)
drainShouldAct(s) == s.drain /\ ShouldAct(s.drainAt)
scheduleRequeue(s) ==
    LET c == IF s.cordon THEN RequeueAt(s.startAt) ELSE 0
        d == IF s.drain THEN RequeueAt(s.drainAt) ELSE 0
    IN  IF c > 0 /\ d > 0 THEN (IF c < d THEN c ELSE d)
                          ELSE (IF c > d THEN c ELSE d)

\* DetectNodeDrift on local copies of a node and its plan; "" for no drift.
DetectNodeDrift(p, obj, pl, n) ==
    IF obj.owner # p THEN ""
    ELSE IF pl.spec.cordon /\ obj.cordoned /\ ~obj.unschedulable
         THEN IF pl.status[n].ready THEN "MaintenanceComplete"
                                    ELSE "ManualUncordon"
    ELSE IF ~pl.spec.cordon /\ ~obj.cordoned /\ obj.unschedulable
         THEN "ExternalCordon"
    ELSE ""

\* buildNodeStatuses: a drift recorded earlier is carried forward when none is
\* detected now; completing maintenance is not a drift.
buildNodeStatus(p, obj, pl, n) ==
    LET found == DetectNodeDrift(p, obj, pl, n)
    IN  [pl.status[n] EXCEPT
            !.listed = TRUE,
            !.cordoned = obj.unschedulable,
            !.drift = CASE found = "MaintenanceComplete" -> ""
                        [] found = "" -> pl.status[n].drift
                        [] OTHER -> found]

buildNodeStatuses(p, objs, pl, all) ==
    [n \in Nodes |-> IF n \in all THEN buildNodeStatus(p, objs[n], pl, n)
                                  ELSE NoNodeStatus]

\* Wrong: a node that completed its maintenance is adopted again.
BadAdoptable(pl, n) == pl.status[n].drift = ""

\* ReconcileOwnership skips nodes whose recorded status is drifted or complete.
Adoptable(pl, n) == pl.status[n].drift = "" /\ ~pl.status[n].ready

\* ReconcileDrift releases these stable nodes; an ExternalCordon is only logged.
DriftReleases(p, objs, pl, stable) ==
    {n \in stable : DetectNodeDrift(p, objs[n], pl, n)
                        \in {"MaintenanceComplete", "ManualUncordon"}}

\* The stable loop of ReconcileCordon: nodes that CordonNode or UncordonNode
\* will patch.  Nodes released earlier in the pass are skipped, and so is a
\* node with an external cordon when the plan does not cordon.
CordonPatches(p, objs, pl, stable) ==
    {n \in stable :
        /\ objs[n].owner = p
        /\ IF pl.spec.cordon THEN ~(objs[n].unschedulable /\ objs[n].cordoned)
                             ELSE objs[n].cordoned}

\* A Node after a merge patch between the local objects old and new.
MergeNode(srv, old, new) ==
    [owner |-> MergeField(srv.owner, old.owner, new.owner),
     cordoned |-> MergeField(srv.cordoned, old.cordoned, new.cordoned),
     unschedulable |->
         MergeField(srv.unschedulable, old.unschedulable, new.unschedulable)]

\* Wrong: the node is annotated as cordoned here and cordoned by a later patch.
BadAdopted(obj, p, cordonNow) ==
    [obj EXCEPT !.owner = p, !.cordoned = @ \/ cordonNow]

\* Wrong: a node cordoned before its adoption is uncordoned when the plan's own
\* cordon is still to come.
BadAdoptedState(obj, p, cordonNow) ==
    [obj EXCEPT !.owner = p, !.cordoned = cordonNow, !.unschedulable = cordonNow]

\* Wrong: the cordoned annotation is left on the node.
BadReleased(obj, p) == IF obj.owner = p THEN [obj EXCEPT !.owner = NoPlan] ELSE obj

\* What AdoptNode, CordonNode, UncordonNode and ReleaseNode make of the copy.
Adopted(obj, p, cordonNow) ==
    [obj EXCEPT !.owner = p, !.cordoned = @ \/ cordonNow,
                !.unschedulable = @ \/ cordonNow]
Cordoned(obj) == [obj EXCEPT !.cordoned = TRUE, !.unschedulable = TRUE]
Uncordoned(obj) == [obj EXCEPT !.cordoned = FALSE, !.unschedulable = FALSE]
Released(obj, p) ==
    IF obj.owner = p THEN [obj EXCEPT !.owner = NoPlan, !.cordoned = FALSE]
                     ELSE obj

(***************************************************************************)
(* Steps of the pass of plan p.                                            *)
(***************************************************************************)

\* Pass p patches Node n to new; its copy is refreshed from the response.  When
\* there is nothing to change the operation returns early: no patch is sent and
\* the copy stays as it was read.
PatchNode(p, n, new) ==
    LET merged == MergeNode(node[n], nodeCopy[p][n], new)
    IN  IF new = nodeCopy[p][n]
        THEN UNCHANGED <<server, caches, queue, nodeCopy>>
        ELSE /\ Commit([node EXCEPT ![n] = merged], plan, queue)
             /\ nodeCopy' = [nodeCopy EXCEPT ![p][n] = merged]

\* Pass p patches its plan to obj; its copy is refreshed from the response.
PatchPlan(p, obj, q) ==
    /\ plan[p].present
    /\ Commit(node, [plan EXCEPT ![p] = obj], q)
    /\ planCopy' = [planCopy EXCEPT ![p] = obj]

\* The pass is over; its local state is dropped.
EndPass(p) ==
    /\ pc' = [pc EXCEPT ![p] = "idle"]
    /\ planCopy' = [planCopy EXCEPT ![p] = NoPlanObject]
    /\ nodeCopy' = [nodeCopy EXCEPT ![p] = NoNodeCopy]
    /\ work' = [work EXCEPT ![p] = NoWork]

Goto(p, label) == pc' = [pc EXCEPT ![p] = label]

\* Wrong: a node is adopted before the finalizer is on the plan.
BadReconcile(p) ==
    /\ pc[p] = "idle" /\ p \in queue
    /\ queue' = queue \ {p}
    /\ LET obj == planCache[p]
       IN  /\ planCopy' = [planCopy EXCEPT ![p] = obj]
           /\ Goto(p, CASE ~obj.present -> "idle"
                        [] obj.present /\ obj.deleting ->
                               IF obj.finalizer THEN "list" ELSE "idle"
                        [] OTHER -> "resolve")
    /\ UNCHANGED <<server, caches, wake, clock, nodeCopy, work, bounds>>

\* Reconcile, up to the branch on what Get found in the cache.
Reconcile(p) ==
    /\ pc[p] = "idle" /\ p \in queue
    /\ queue' = queue \ {p}
    /\ LET obj == planCache[p]
       IN  /\ planCopy' = [planCopy EXCEPT ![p] =
                  IF obj.present /\ (obj.deleting => obj.finalizer)
                  THEN obj ELSE NoPlanObject]
           /\ Goto(p, CASE ~obj.present -> "idle"
                        [] obj.present /\ obj.deleting ->
                               IF obj.finalizer THEN "list" ELSE "idle"
                        [] OTHER -> IF obj.finalizer THEN "resolve" ELSE "finalizer")
    /\ UNCHANGED <<server, caches, wake, clock, nodeCopy, work, bounds>>

\* ensureFinalizer.  The API server refuses to add a finalizer to an object
\* that is being deleted; one that is deleting here has the finalizer already.
EnsureFinalizer(p) ==
    /\ pc[p] = "finalizer"
    /\ PatchPlan(p, [plan[p] EXCEPT !.finalizer = TRUE], queue)
    /\ Goto(p, "resolve")
    /\ UNCHANGED <<wake, clock, nodeCopy, work, bounds>>

\* ComputeOwnershipResolution and ComputeSchedule: nodes are read from the
\* cache, the loop of ReconcileOwnership is prepared.
Resolve(p) ==
    /\ pc[p] = "resolve"
    /\ LET pl == planCopy[p]
           desired == pl.spec.nodes
           toAdopt == {n \in desired : nodeCache[n].owner = NoPlan}
           stable == {n \in desired : nodeCache[n].owner = p}
       IN  work' = [work EXCEPT ![p] =
               [all |-> desired,
                stable |-> stable,
                release |-> {n \in Nodes \ desired : nodeCache[n].owner = p},
                conflict |-> desired # toAdopt \union stable,
                cordon |-> cordonShouldAct(pl.spec),
                drain |-> drainShouldAct(pl.spec),
                requeueAt |-> scheduleRequeue(pl.spec),
                todo |-> {n \in toAdopt : Adoptable(pl, n)},
                freed |-> {}]]
    /\ nodeCopy' = [nodeCopy EXCEPT ![p] = nodeCache]
    /\ Goto(p, "adopt")
    /\ UNCHANGED <<server, caches, queue, wake, clock, planCopy, bounds>>

\* AdoptNode, called by ReconcileOwnership: the cordon is in the same patch.
AdoptNode(p, n) ==
    /\ pc[p] = "adopt" /\ n \in work[p].todo
    /\ PatchNode(p, n, Adopted(nodeCopy[p][n], p,
                               planCopy[p].spec.cordon /\ work[p].cordon))
    /\ work' = [work EXCEPT ![p].todo = @ \ {n}]
    /\ UNCHANGED <<wake, clock, pc, planCopy, bounds>>

\* UpdateStatus, once every node to adopt is adopted.
UpdateStatus(p) ==
    /\ pc[p] = "adopt" /\ work[p].todo = {}
    /\ LET pl == planCopy[p]
           statuses == buildNodeStatuses(p, nodeCopy[p], pl, work[p].all)
       IN  PatchPlan(p, [plan[p] EXCEPT
                             !.status = MergeField(@, pl.status, statuses),
                             !.conflict = MergeField(@, pl.conflict, work[p].conflict)],
                     queue)
    /\ Goto(p, "preview")
    /\ UNCHANGED <<wake, clock, nodeCopy, work, bounds>>

\* ReconcilePreview: skipped while a drain is in progress or when there is no
\* target node, otherwise it writes the previews into the copy's status.nodes
\* and patches the list.  The previews themselves are left out.
ReconcilePreview(p) ==
    /\ pc[p] = "preview"
    /\ \/ UNCHANGED <<server, caches, queue, planCopy>>
       \/ /\ \E n \in work[p].all : nodeCopy[p][n].owner \in {p, NoPlan}
          /\ PatchPlan(p, [plan[p] EXCEPT !.status = planCopy[p].status], queue)
    /\ work' = [work EXCEPT ![p].todo =
           DriftReleases(p, nodeCopy[p], planCopy'[p], work[p].stable)]
    /\ Goto(p, "drift")
    /\ UNCHANGED <<wake, clock, nodeCopy, bounds>>

\* ReconcileDrift: release a node that was uncordoned behind the plan's back.
ReconcileDrift(p, n) ==
    /\ pc[p] = "drift" /\ n \in work[p].todo
    /\ PatchNode(p, n, Released(nodeCopy[p][n], p))
    /\ work' = [work EXCEPT ![p].todo = @ \ {n}]
    /\ UNCHANGED <<wake, clock, pc, planCopy, bounds>>

\* The schedule gate of Reconcile in front of ReconcileCordon.
CordonGate(p) ==
    /\ pc[p] = "drift" /\ work[p].todo = {}
    /\ IF work[p].cordon
       THEN /\ Goto(p, "cordon")
            /\ work' = [work EXCEPT ![p].todo =
                   CordonPatches(p, nodeCopy[p], planCopy[p], work[p].stable)]
       ELSE /\ Goto(p, "drain")
            /\ work' = [work EXCEPT ![p].release = {}]
    /\ UNCHANGED <<server, caches, queue, wake, clock, planCopy, nodeCopy, bounds>>

\* CordonNode or UncordonNode of a stable node in ReconcileCordon.
ReconcileCordon(p, n) ==
    /\ pc[p] = "cordon" /\ n \in work[p].todo
    /\ PatchNode(p, n, IF planCopy[p].spec.cordon THEN Cordoned(nodeCopy[p][n])
                                                  ELSE Uncordoned(nodeCopy[p][n]))
    /\ work' = [work EXCEPT ![p].todo = @ \ {n}]
    /\ UNCHANGED <<wake, clock, pc, planCopy, bounds>>

\* UncordonNode of a node that is about to be released, in ReconcileCordon's
\* second loop and in CleanUp.
UncordonNode(p, n) ==
    /\ pc[p] \in {"cordon", "clean"}
    /\ work[p].todo = {} /\ work[p].freed = {} /\ n \in work[p].release
    /\ PatchNode(p, n, Uncordoned(nodeCopy[p][n]))
    /\ work' = [work EXCEPT ![p].release = @ \ {n}, ![p].freed = {n}]
    /\ UNCHANGED <<wake, clock, pc, planCopy, bounds>>

\* ReleaseNode of the node just uncordoned.
ReleaseNode(p, n) ==
    /\ pc[p] \in {"cordon", "clean"} /\ n \in work[p].freed
    /\ PatchNode(p, n, Released(nodeCopy[p][n], p))
    /\ work' = [work EXCEPT ![p].freed = @ \ {n}]
    /\ UNCHANGED <<wake, clock, pc, planCopy, bounds>>

CordonDone(p) ==
    \/ pc[p] = "drain"
    \/ /\ pc[p] = "cordon"
       /\ work[p].todo = {} /\ work[p].release = {} /\ work[p].freed = {}

\* The stable nodes ReconcileDrain looks at.
DrainTargets(p) ==
    IF work[p].drain /\ planCopy[p].spec.drain
    THEN {n \in work[p].stable : nodeCopy[p][n].unschedulable} ELSE {}

\* The delayed requeue of a pass that returned RequeueAfter.
SetWake(p, at) ==
    wake' = [wake EXCEPT ![p] = IF at = 0 \/ (@ # 0 /\ @ < at) THEN @ ELSE at]

\* The end of a pass with nothing to drain.
SkipDrain(p) ==
    /\ CordonDone(p) /\ DrainTargets(p) = {}
    /\ SetWake(p, work[p].requeueAt)
    /\ EndPass(p)
    /\ UNCHANGED <<server, caches, queue, clock, bounds>>

\* ReconcileDrain seen from here: any of the target nodes may turn out to be
\* drained and is marked ready (module Drain has the details); while some are
\* not, the plan is polled again unless the drain timed out.
ReconcileDrain(p) ==
    /\ CordonDone(p) /\ DrainTargets(p) # {}
    /\ \E drained \in SUBSET DrainTargets(p), poll \in BOOLEAN :
         /\ poll => drained # DrainTargets(p)
         /\ LET st == planCopy[p].status
                marked == [n \in Nodes |-> [st[n] EXCEPT !.ready =
                    @ \/ (n \in drained /\ st[n].listed /\ st[n].cordoned)]]
            IN  /\ plan[p].present
                /\ Commit(node, [plan EXCEPT ![p].status = MergeField(@, st, marked)],
                          IF poll THEN queue \union {p} ELSE queue)
         /\ SetWake(p, IF poll THEN 0 ELSE work[p].requeueAt)
    /\ EndPass(p)
    /\ UNCHANGED <<clock, bounds>>

\* handleDeletion: CleanUp lists the nodes the plan owns.
ListOwned(p) ==
    /\ pc[p] = "list"
    /\ nodeCopy' = [nodeCopy EXCEPT ![p] = nodeCache]
    /\ work' = [work EXCEPT ![p].release = {n \in Nodes : nodeCache[n].owner = p}]
    /\ Goto(p, "clean")
    /\ UNCHANGED <<server, caches, queue, wake, clock, planCopy, bounds>>

\* Wrong: the finalizer goes although nodes are still to be released.
BadRemoveFinalizer(p) ==
    /\ pc[p] = "clean"
    /\ Commit(node, [plan EXCEPT ![p] =
                  IF @.deleting THEN NoPlanObject ELSE [@ EXCEPT !.finalizer = FALSE]],
              queue)
    /\ EndPass(p)
    /\ UNCHANGED <<wake, clock, bounds>>

\* handleDeletion: the finalizer is removed, which completes a pending delete.
\* NotFound is not an error here.
RemoveFinalizer(p) ==
    /\ pc[p] = "clean" /\ work[p].release = {} /\ work[p].freed = {}
    /\ Commit(node, [plan EXCEPT ![p] =
                  IF @.deleting THEN NoPlanObject ELSE [@ EXCEPT !.finalizer = FALSE]],
              queue)
    /\ EndPass(p)
    /\ UNCHANGED <<wake, clock, bounds>>

\* A patch of the plan fails with NotFound: the pass returns the error and the
\* plan is retried.
PlanGone(p) ==
    /\ ~plan[p].present
    /\ \/ pc[p] \in {"finalizer", "preview"}
       \/ pc[p] = "adopt" /\ work[p].todo = {}
       \/ CordonDone(p) /\ DrainTargets(p) # {}
    /\ queue' = queue \union {p}
    /\ EndPass(p)
    /\ UNCHANGED <<server, caches, wake, clock, bounds>>

\* Any other API call of a pass fails: the pass is abandoned where it is and
\* the plan is put back in the queue (with backoff).
Fail(p) ==
    /\ pc[p] # "idle"
    /\ faults < MaxFaults /\ faults' = faults + 1
    /\ queue' = queue \union {p}
    /\ EndPass(p)
    /\ UNCHANGED <<server, caches, wake, clock, edits>>

\* All steps of a pass that the operator takes by itself.
Pass(p) ==
    \/ Reconcile(p) \/ EnsureFinalizer(p) \/ Resolve(p)
    \/ UpdateStatus(p) \/ ReconcilePreview(p) \/ CordonGate(p)
    \/ SkipDrain(p) \/ ReconcileDrain(p)
    \/ ListOwned(p) \/ RemoveFinalizer(p) \/ PlanGone(p)
    \/ \E n \in Nodes :
          \/ AdoptNode(p, n) \/ ReconcileDrift(p, n) \/ ReconcileCordon(p, n)
          \/ UncordonNode(p, n) \/ ReleaseNode(p, n)

(***************************************************************************)
(* The rest of the operator process: timers, informers, crash and restart. *)
(***************************************************************************)

\* A delayed requeue (RequeueAfter) is due.
TimerFires(p) ==
    /\ wake[p] # 0 /\ wake[p] <= clock
    /\ wake' = [wake EXCEPT ![p] = 0]
    /\ queue' = queue \union {p}
    /\ UNCHANGED <<server, caches, clock, passVars, bounds>>

\* An informer catches up with one object and its event handlers run.
SyncNode(n) ==
    /\ nodeCache[n] # node[n]
    /\ nodeCache' = [nodeCache EXCEPT ![n] = node[n]]
    /\ queue' = queue \union Woken(nodeCache, nodeCache', planCache, planCache)
    /\ UNCHANGED <<server, planCache, wake, clock, passVars, bounds>>

SyncPlan(p) ==
    /\ planCache[p] # plan[p]
    /\ planCache' = [planCache EXCEPT ![p] = plan[p]]
    /\ queue' = queue \union Woken(nodeCache, nodeCache, planCache, planCache')
    /\ UNCHANGED <<server, nodeCache, wake, clock, passVars, bounds>>

\* The operator dies and starts again: passes, queue and timers are gone, the
\* informers list everything anew and report every plan as created.
Crash ==
    /\ faults < MaxFaults /\ faults' = faults + 1
    /\ nodeCache' = node /\ planCache' = plan
    /\ queue' = {p \in Plans : plan[p].present}
    /\ wake' = [p \in Plans |-> 0]
    /\ pc' = [p \in Plans |-> "idle"]
    /\ planCopy' = [p \in Plans |-> NoPlanObject]
    /\ nodeCopy' = [p \in Plans |-> NoNodeCopy]
    /\ work' = [p \in Plans |-> NoWork]
    /\ UNCHANGED <<server, clock, edits>>

(***************************************************************************)
(* The environment: users, and time.                                       *)
(***************************************************************************)

UserStep(op) == op \in UserOps /\ edits < MaxEdits /\ edits' = edits + 1

UserWrites(newNode, newPlan) ==
    /\ Commit(newNode, newPlan, queue)
    /\ UNCHANGED <<wake, clock, passVars, faults>>

CreatePlan(p) ==
    /\ UserStep("create") /\ ~plan[p].present
    /\ \E s \in Specs : UserWrites(node, [plan EXCEPT ![p] = NewPlan(s, edits + 1)])

EditSpec(p) ==
    /\ UserStep("edit") /\ plan[p].present /\ ~plan[p].deleting
    /\ \E s \in Specs \ {plan[p].spec} :
          UserWrites(node, [plan EXCEPT ![p].spec = s, ![p].generation = edits + 1])

\* Deleting a plan with a finalizer only marks it.
DeletePlan(p) ==
    /\ UserStep("delete") /\ plan[p].present /\ ~plan[p].deleting
    /\ UserWrites(node, [plan EXCEPT ![p] =
           IF @.finalizer THEN [@ EXCEPT !.deleting = TRUE] ELSE NoPlanObject])

\* kubectl cordon and kubectl uncordon.
UserCordon(n) ==
    /\ UserStep("cordon") /\ ~node[n].unschedulable
    /\ UserWrites([node EXCEPT ![n].unschedulable = TRUE], plan)

UserUncordon(n) ==
    /\ UserStep("uncordon") /\ node[n].unschedulable
    /\ UserWrites([node EXCEPT ![n].unschedulable = FALSE], plan)

Tick ==
    /\ clock < MaxClock
    /\ clock' = clock + 1
    /\ UNCHANGED <<server, caches, queue, wake, passVars, bounds>>

Next ==
    \/ \E p \in Plans :
          \/ Pass(p) \/ Fail(p) \/ TimerFires(p) \/ SyncPlan(p)
          \/ CreatePlan(p) \/ EditSpec(p) \/ DeletePlan(p)
    \/ \E n \in Nodes : SyncNode(n) \/ UserCordon(n) \/ UserUncordon(n)
    \/ Crash \/ Tick

Spec == Init /\ [][Next]_vars

\* The workers keep taking plans from the queue and their API calls return;
\* informers catch up, timers fire and time passes.  Users owe nothing.
Fairness ==
    /\ \A p \in Plans : /\ WF_vars(Pass(p)) /\ WF_vars(TimerFires(p))
                        /\ WF_vars(SyncPlan(p))
    /\ \A n \in Nodes : WF_vars(SyncNode(n))
    /\ WF_vars(Tick)

FairSpec == Spec /\ Fairness

(***************************************************************************)
(* Properties.                                                             *)
(***************************************************************************)

\* A node never carries the managed-by annotation of a plan that is gone, or of
\* one that could vanish without a clean-up: ensureFinalizer comes before the
\* first adoption and handleDeletion removes the finalizer only when CleanUp
\* has released every node.
NoOrphan ==
    \A n \in Nodes, p \in Plans :
        node[n].owner = p => plan[p].present /\ plan[p].finalizer

\* A plan the operator works on like any other: created, protected by the
\* finalizer, not being deleted.
Active(o) == o.present /\ ~o.deleting /\ o.finalizer

WorkingStates == {"resolve", "adopt", "preview", "drift", "cordon", "drain"}
CleaningStates == {"list", "clean"}

\* How a plan in the API server (pl), in the cache (ca) and the state of its
\* pass (at) hang together, however far the cache lags: what the cache shows as
\* active is still protected by its finalizer; a cached deletion is never
\* followed by an active plan before the cache moves on; a pass past
\* ensureFinalizer works on a protected plan; a clean-up runs only when neither
\* the server nor the cache has an active plan.
PlanPassInv(pl, ca, at) ==
    /\ pl.deleting => pl.present /\ pl.finalizer
    /\ Active(ca) => pl.present /\ pl.finalizer
    /\ ca.deleting => ~Active(pl)
    /\ at = "finalizer" /\ ca.deleting => pl.deleting
    /\ at \in WorkingStates => pl.present /\ pl.finalizer
    /\ at \in CleaningStates => ~Active(ca) /\ ~Active(pl)

PlanInv == \A p \in Plans : PlanPassInv(plan[p], planCache[p], pc[p])

\* A clean-up knows every node its plan still owns, and its copy of the node is
\* good enough for ReleaseNode to take the annotation off.
CleanUpInv ==
    \A p \in Plans : pc[p] = "clean" =>
        \A n \in Nodes : node[n].owner = p =>
            /\ n \in work[p].release \union work[p].freed
            /\ nodeCopy[p][n].owner = p

\* The inductive strengthening of NoOrphan for a node cache that does not lag:
\* between ensureFinalizer and the removal of the finalizer no step of another
\* plan, no user and no crash can make CleanUp overlook a node.
OwnershipInv ==
    /\ nodeCache = node
    /\ PlanInv
    /\ CleanUpInv
    /\ NoOrphan

\* A cordon applied by the operator always has a plan that will undo it: the
\* cordoned annotation never outlives the managed-by annotation, whatever a
\* pass, a user or a crash does between two patches of the node.
NoAbandonedCordon ==
    \A n \in Nodes : node[n].cordoned => node[n].owner # NoPlan

OperatorStep == edits' = edits

\* A node that ReconcileDrift gave back (its drift or its completed maintenance
\* is in the status) is neither adopted nor cordoned again by that plan, even
\* when the pass failed half way or worked on an old copy of the node.
HandsOffReleased ==
    [][OperatorStep =>
        \A n \in Nodes, p \in Plans :
            LET st == plan[p].status[n]
                adopts == node[n].owner # p
                cordons == ~node[n].unschedulable /\ node'[n].unschedulable
            IN  node'[n].owner = p /\ (adopts \/ cordons)
                    => st.drift # "ManualUncordon" /\ ~st.ready]_vars

\* The operator makes a node unschedulable only when the plan that owns it asks
\* for a cordon whose start time has come, in the API server or at least in the
\* copy of the plan the pass is working with (a user may just have edited it).
CordonOnTimeStep ==
    OperatorStep =>
        \A n \in Nodes :
            ~node[n].unschedulable /\ node'[n].unschedulable =>
                \E p \in Plans :
                    /\ node'[n].owner = p
                    /\ \E s \in {plan[p].spec, planCopy[p].spec} :
                          s.cordon /\ s.startAt <= clock

\* Every step of the system is one that cordons on time.
CordonOnTime == [][CordonOnTimeStep]_vars

\* The operator puts a node back into service only for the plan that owns it,
\* and only when that plan is being deleted or no longer cordons (in the API
\* server or in the copy its pass works with) or did not list the node when the
\* pass resolved its nodes: a failed pass, a crash or an event in the middle of
\* a maintenance never makes a node schedulable.
NoEarlyReturnStep ==
    OperatorStep =>
        \A n \in Nodes :
            node[n].unschedulable /\ ~node'[n].unschedulable =>
                \E p \in Plans :
                    /\ node[n].owner = p
                    /\ \/ pc[p] = "cordon" /\ n \notin work[p].all
                       \/ \E o \in {plan[p], planCopy[p]} :
                             o.deleting \/ ~o.spec.cordon

\* No step of the system returns a node early.
NoEarlyReturn == [][NoEarlyReturnStep]_vars

\* When no user ever uncordons a node, no status records a ManualUncordon: the
\* operator's own patches, seen half way, never look like interference.
NoPhantomDrift ==
    \A n \in Nodes, p \in Plans : plan[p].status[n].drift # "ManualUncordon"

\* The nodes are what the plans ask for: a plan that is gone owns nothing, a
\* plan owns only nodes of its spec, in the cordon state the spec asks for, and
\* leaves no node of its spec unowned that it may adopt.
NodesSettled ==
    \A p \in Plans :
        LET pl == plan[p]
            mine == {n \in Nodes : node[n].owner = p}
        IN  /\ ~pl.present => mine = {}
            /\ pl.present =>
                /\ ~pl.deleting
                /\ mine \subseteq pl.spec.nodes
                /\ \A n \in mine :
                      IF pl.spec.cordon
                      THEN node[n].unschedulable /\ node[n].cordoned
                      ELSE ~node[n].cordoned
                /\ \A n \in pl.spec.nodes \ mine :
                      node[n].owner = NoPlan => ~Adoptable(pl, n)

\* Every plan's status describes its nodes: the entries of status.nodes, their
\* cordoned flags and the Conflict condition.
StatusSettled ==
    \A p \in Plans :
        LET pl == plan[p]
        IN  pl.present =>
                /\ pl.conflict =
                      (\E n \in pl.spec.nodes : node[n].owner \notin {p, NoPlan})
                /\ \A n \in Nodes :
                      /\ pl.status[n].listed <=> n \in pl.spec.nodes
                      /\ n \in pl.spec.nodes =>
                            pl.status[n].cordoned = node[n].unschedulable

\* Once users and faults stop, the watches and timers bring the nodes to what
\* the plans ask for and keep them there: no event that mattered was filtered
\* out by the predicates or lost between two passes.
NodesConverge == <>[]NodesSettled

\* Likewise for the status of the plans.
StatusConverges == <>[]StatusSettled

\* A deleted plan is eventually gone, its nodes released (NoOrphan).
DeletionCompletes ==
    \A p \in Plans : plan[p].deleting ~> ~plan[p].present

\* With a node cache that does not lag, the passes, the users and the crashes
\* implement the abstract ownership of module Lease: only a plan protected by
\* its finalizer takes a node, and the finalizer goes only when CleanUp left
\* nothing owned.
L == INSTANCE Lease WITH
         holder <- [n \in Nodes |-> node[n].owner],
         protected <- {p \in Plans : plan[p].finalizer}

ImplementsLease == L!Spec
=============================================================================
