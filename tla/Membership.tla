----------------------------- MODULE Membership -----------------------------
(***************************************************************************)
(* Which nodes belong to a NodeMaintenancePlan: explicit lists and label   *)
(* selectors with their snapshot (internal/maintenance/nodes.go and        *)
(* ownership.go), the admission webhook (internal/webhook/validator.go),   *)
(* the node watch (internal/controller/nodemaintenanceplan_predicates.go)  *)
(* and the metric series of a plan (internal/metrics/metrics.go), while    *)
(* nodes join, leave and are relabelled.                                   *)
(*                                                                         *)
(* Plans here neither cordon nor drain: cordons, schedules, drift and a    *)
(* node cache that lags are module Ownership's.  As there, a pass is a     *)
(* sequence of API calls, each call is one step, and passes of different   *)
(* plans, users and crashes interleave between any two of them.            *)
(***************************************************************************)
EXTENDS Naturals, KubeAPI

CONSTANTS
    Nodes,      \* the names of the cluster's nodes
    Plans,      \* the names of the plans
    NoPlan,     \* the managed-by annotation is absent
    Labels,     \* the labels that selectors ask for
    Specs,      \* the plan specs users choose from
    UserOps,    \* which operations users and the cluster perform
    Webhook,    \* is the validating webhook installed?
    Lagging,    \* plans whose cached copy may lag behind the API server
    MaxEdits,   \* bound on the number of user operations
    MaxFaults   \* bound on failed calls and crashes

\* The part of the spec that selects nodes; an empty selector stands for an
\* absent one.
PlanSpec == [nodes: SUBSET Nodes, selector: SUBSET Labels]

\* The CEL rule of the CRD: not both nodes and nodeSelector.
ValidSpec(s) == s.nodes = {} \/ s.selector = {}

ASSUME MembershipAssumption ==
    /\ NoPlan \notin Plans
    /\ Specs \subseteq {s \in PlanSpec : ValidSpec(s)}
    /\ UserOps \subseteq {"create", "edit", "delete", "join", "leave", "relabel"}
    /\ Webhook \in BOOLEAN /\ Lagging \subseteq Plans
    /\ MaxEdits \in Nat /\ MaxFaults \in Nat

\* A Node: is there one of this name, its labels, its managed-by annotation.
NodeObject == [present: BOOLEAN, labels: SUBSET Labels, owner: Plans \union {NoPlan}]
NoNode == [present |-> FALSE, labels |-> {}, owner |-> NoPlan]
NewNode(ls) == [present |-> TRUE, labels |-> ls, owner |-> NoPlan]

\* A plan: resolved and snapshot are status.resolvedNodes and
\* nodeSnapshotTaken, listed the names in status.nodes; generation is as in
\* Ownership.
PlanObject == [present: BOOLEAN, deleting: BOOLEAN, finalizer: BOOLEAN,
               generation: 0..MaxEdits, spec: PlanSpec,
               resolved: SUBSET Nodes, snapshot: BOOLEAN,
               listed: SUBSET Nodes]
NewPlan(s, g) == [present |-> TRUE, deleting |-> FALSE, finalizer |-> FALSE,
                  generation |-> g, spec |-> s, resolved |-> {},
                  snapshot |-> FALSE, listed |-> {}]
NoPlanObject == [NewPlan([nodes |-> {}, selector |-> {}], 0)
                    EXCEPT !.present = FALSE]

\* The OwnershipResolution of a pass: All, the nodes still to adopt and to
\* release, and whether SnapshotNodes is non-nil.
PassWork == [all: SUBSET Nodes, adopt: SUBSET Nodes, release: SUBSET Nodes,
             fresh: BOOLEAN]
NoWork == [all |-> {}, adopt |-> {}, release |-> {}, fresh |-> FALSE]

\* The series of a plan in the metrics registry: the ones with the plan label
\* alone, and the nodes that have series of their own.
NoSeries == [plan |-> FALSE, nodes |-> {}]

VARIABLES
    node,       \* the API server's Nodes, and the node informer's cache
    plan,       \* the API server's plans
    planCache,  \* the plan informer's cache
    series,     \* the metrics registry of the operator process
    queue,      \* plans in the controller's workqueue
    pc,         \* per plan, where its running pass is
    planCopy,   \* per plan, the pass's local copy of the plan
    work,       \* per plan, the pass's OwnershipResolution
    edits,      \* number of user operations so far
    faults      \* number of faults so far

server == <<node, plan>>
passVars == <<pc, planCopy, work>>
bounds == <<edits, faults>>
vars == <<node, plan, planCache, series, queue, pc, planCopy, work, edits, faults>>

\* The type of every variable.
TypeOK ==
    /\ node \in [Nodes -> NodeObject]
    /\ plan \in [Plans -> PlanObject]
    /\ planCache \in [Plans -> PlanObject]
    /\ series \in [Plans -> [plan: BOOLEAN, nodes: SUBSET Nodes]]
    /\ queue \in SUBSET Plans
    /\ pc \in [Plans -> {"idle", "finalizer", "resolve", "adopt", "release",
                         "list", "clean", "remove"}]
    /\ planCopy \in [Plans -> PlanObject]
    /\ work \in [Plans -> PassWork]
    /\ edits \in 0..MaxEdits
    /\ faults \in 0..MaxFaults

\* Wrong variants of definitions, named Bad..., stand before the definition they
\* vary: each makes a property below fail.

(***************************************************************************)
(* Selection.                                                              *)
(***************************************************************************)

Present == {n \in Nodes : node[n].present}
Matching(s) == {n \in Present : s.selector \subseteq node[n].labels}
OwnedBy(p) == {n \in Present : node[n].owner = p}

\* resolveSnapshotNodes, resolveSelectorNodes and resolveExplicitNodes, chosen
\* as ComputeOwnershipResolution does: nodes that do not exist are skipped.
Desired(pl) ==
    IF pl.spec.selector = {} THEN pl.spec.nodes \intersect Present
    ELSE IF pl.snapshot THEN pl.resolved \intersect Present
    ELSE Matching(pl.spec)

\* Wrong: the selector is evaluated in every pass.
BadResolution(p, pl) ==
    LET desired == IF pl.spec.selector = {} THEN pl.spec.nodes \intersect Present
                                            ELSE Matching(pl.spec)
    IN  [all |-> desired,
         adopt |-> {n \in desired : node[n].owner = NoPlan},
         release |-> OwnedBy(p) \ desired,
         fresh |-> pl.spec.selector # {}]

\* ComputeOwnershipResolution.
Resolution(p, pl) ==
    LET desired == Desired(pl)
    IN  [all |-> desired,
         adopt |-> {n \in desired : node[n].owner = NoPlan},
         release |-> OwnedBy(p) \ desired,
         fresh |-> pl.spec.selector # {} /\ ~pl.snapshot]

(***************************************************************************)
(* Admission.                                                              *)
(***************************************************************************)

\* validateNodeSelector: the selector matches a node, and no node that another
\* plan lists or has in its snapshot (planOwnedNodes).
planOwnedNodes(pl) == IF pl.spec.nodes # {} THEN pl.spec.nodes ELSE pl.resolved
validateNodeSelector(p, s) ==
    /\ Matching(s) # {}
    /\ \A q \in Plans \ {p} :
          planCache[q].present =>
              planOwnedNodes(planCache[q]) \intersect Matching(s) = {}

\* NodeMaintenancePlanValidator.Handle for a CREATE or UPDATE of plan p to spec
\* s.  A DELETE is not reviewed.
Admitted(op, p, s) ==
    IF s.nodes # {}
    THEN \A n \in s.nodes : node[n].present /\ node[n].owner \in {p, NoPlan}
    ELSE op = "CREATE" /\ s.selector # {} => validateNodeSelector(p, s)

\* What the API server makes of the answer.  It reviews every write of the plan
\* object, the operator's finalizer patches included, and none of its status.
Reviewed(op, p, s) == Webhook => Admitted(op, p, s)

(***************************************************************************)
(* Watches: the plans a change wakes up.                                   *)
(***************************************************************************)

\* nodeMaintenancePredicates: creation, deletion, a change of the labels or of
\* the annotations of a managed node.
nodeRelevantChange(old, new) == old # new

\* Wrong: a node event only reaches the plan that owns the node.
BadNodeRelevantToPlan(n, obj, p, plans) ==
    plans[p].present /\ obj.present /\ obj.owner = p

\* nodeRelevantToPlan: the node is owned, listed or matched.
nodeRelevantToPlan(n, obj, p, plans) ==
    /\ plans[p].present /\ obj.present
    /\ \/ obj.owner = p
       \/ n \in plans[p].spec.nodes
       \/ /\ plans[p].spec.selector # {}
          /\ plans[p].spec.selector \subseteq obj.labels

\* planPredicate: creation, deletion, a new generation, or any update of a plan
\* with a deletion timestamp.
planPredicate(old, new) ==
    \/ old.present # new.present
    \/ /\ new.present /\ old # new
       /\ old.generation # new.generation \/ new.deleting

Woken(oldNode, newNode, old, new) ==
    {p \in Plans :
        \/ planPredicate(old[p], new[p])
        \/ \E n \in Nodes :
              /\ nodeRelevantChange(oldNode[n], newNode[n])
              /\ \/ nodeRelevantToPlan(n, oldNode[n], p, new)
                 \/ nodeRelevantToPlan(n, newNode[n], p, new)}

\* A write accepted by the API server; q is what the step leaves in the queue.
Commit(newNode, newPlan, q) ==
    /\ node' = newNode
    /\ plan' = newPlan
    /\ planCache' = [p \in Plans |-> IF p \in Lagging THEN planCache[p] ELSE newPlan[p]]
    /\ queue' = q \union Woken(node, newNode, planCache, planCache')

\* No plan, or plans just created and waiting in the queue; each may have been
\* let through while the webhook was not reachable (failurePolicy Ignore).
Init ==
    /\ node \in [Nodes -> {NoNode} \union {NewNode(ls) : ls \in SUBSET Labels}]
    /\ plan \in [Plans -> {NoPlanObject} \union {NewPlan(s, 0) : s \in Specs}]
    /\ planCache = plan
    /\ series = [p \in Plans |-> NoSeries]
    /\ queue = {p \in Plans : plan[p].present}
    /\ pc = [p \in Plans |-> "idle"]
    /\ planCopy = [p \in Plans |-> NoPlanObject]
    /\ work = [p \in Plans |-> NoWork]
    /\ edits = 0
    /\ faults = 0

(***************************************************************************)
(* Steps of the pass of plan p.                                            *)
(***************************************************************************)

Goto(p, label) == pc' = [pc EXCEPT ![p] = label]

\* Wrong: the worker does not mark the plan as done.
BadEndPass(p) ==
    /\ Goto(p, "returned")
    /\ planCopy' = [planCopy EXCEPT ![p] = NoPlanObject]
    /\ work' = [work EXCEPT ![p] = NoWork]

\* The pass is over; its local state is dropped.
EndPass(p) ==
    /\ Goto(p, "idle")
    /\ planCopy' = [planCopy EXCEPT ![p] = NoPlanObject]
    /\ work' = [work EXCEPT ![p] = NoWork]

\* Wrong: nodes are adopted before the finalizer is on the plan.
BadReconcile(p) ==
    /\ pc[p] = "idle" /\ p \in queue
    /\ queue' = queue \ {p}
    /\ LET obj == planCache[p]
           next == CASE ~obj.present -> "idle"
                     [] obj.present /\ obj.deleting ->
                            IF obj.finalizer THEN "list" ELSE "idle"
                     [] OTHER -> "resolve"
       IN  /\ Goto(p, next)
           /\ planCopy' = [planCopy EXCEPT ![p] =
                               IF next = "idle" THEN NoPlanObject ELSE obj]
    /\ UNCHANGED <<server, planCache, series, work, bounds>>

\* Reconcile, up to the branch on what Get found in the cache.
Reconcile(p) ==
    /\ pc[p] = "idle" /\ p \in queue
    /\ queue' = queue \ {p}
    /\ LET obj == planCache[p]
           next == CASE ~obj.present -> "idle"
                     [] obj.present /\ obj.deleting ->
                            IF obj.finalizer THEN "list" ELSE "idle"
                     [] OTHER -> IF obj.finalizer THEN "resolve" ELSE "finalizer"
       IN  /\ Goto(p, next)
           /\ planCopy' = [planCopy EXCEPT ![p] =
                               IF next = "idle" THEN NoPlanObject ELSE obj]
    /\ UNCHANGED <<server, planCache, series, work, bounds>>

\* ensureFinalizer: the patch is an UPDATE that the webhook reviews.
EnsureFinalizer(p) ==
    /\ pc[p] = "finalizer"
    /\ plan[p].present /\ Reviewed("UPDATE", p, plan[p].spec)
    /\ LET obj == [plan[p] EXCEPT !.finalizer = TRUE]
       IN  /\ Commit(node, [plan EXCEPT ![p] = obj], queue)
           /\ planCopy' = [planCopy EXCEPT ![p] = obj]
    /\ Goto(p, "resolve")
    /\ UNCHANGED <<series, work, bounds>>

\* ComputeOwnershipResolution.
Resolve(p) ==
    /\ pc[p] = "resolve"
    /\ work' = [work EXCEPT ![p] = Resolution(p, planCopy[p])]
    /\ Goto(p, "adopt")
    /\ UNCHANGED <<server, planCache, series, queue, planCopy, bounds>>

\* ReconcileOwnership: AdoptNode patches a node that still exists.
AdoptNode(p, n) ==
    /\ pc[p] = "adopt" /\ n \in work[p].adopt
    /\ node[n].present
    /\ Commit([node EXCEPT ![n].owner = p], plan, queue)
    /\ work' = [work EXCEPT ![p].adopt = @ \ {n}]
    /\ UNCHANGED <<series, pc, planCopy, bounds>>

\* The plan after UpdateStatus patched it: pl is the pass's copy, w its
\* resolution, srv the plan in the API server.
StatusOf(pl, w, srv) ==
    [srv EXCEPT !.listed = MergeField(@, pl.listed, w.all),
                !.resolved = IF w.fresh THEN MergeField(@, pl.resolved, w.all)
                                        ELSE @,
                !.snapshot = @ \/ w.fresh]

UpdateStatus(p) ==
    /\ pc[p] = "adopt" /\ work[p].adopt = {}
    /\ plan[p].present
    /\ LET obj == StatusOf(planCopy[p], work[p], plan[p])
       IN  /\ Commit(node, [plan EXCEPT ![p] = obj], queue)
           /\ planCopy' = [planCopy EXCEPT ![p] = obj]
    /\ Goto(p, "release")
    /\ UNCHANGED <<series, work, bounds>>

\* ReleaseNode of a node that is no longer desired, in ReconcileCordon, or of
\* any node the plan owns, in CleanUp.
ReleaseNode(p, n) ==
    /\ pc[p] \in {"release", "clean"} /\ n \in work[p].release
    /\ node[n].present
    /\ Commit([node EXCEPT ![n].owner = NoPlan], plan, queue)
    /\ work' = [work EXCEPT ![p].release = @ \ {n}]
    /\ UNCHANGED <<series, pc, planCopy, bounds>>

\* RecordPlan: the plan's series, and those of the nodes in its status.
RecordPlan(p, pl) ==
    series' = [series EXCEPT ![p] = [plan |-> TRUE, nodes |-> @.nodes \union pl.listed]]

\* A pass comes to its end.
Finish(p) ==
    /\ pc[p] = "release" /\ work[p].release = {}
    /\ RecordPlan(p, planCopy[p])
    /\ EndPass(p)
    /\ UNCHANGED <<server, planCache, queue, bounds>>

\* CleanUp lists the nodes the plan owns.
ListOwned(p) ==
    /\ pc[p] = "list"
    /\ work' = [work EXCEPT ![p].release = OwnedBy(p)]
    /\ Goto(p, "clean")
    /\ UNCHANGED <<server, planCache, series, queue, planCopy, bounds>>

\* Wrong: a plan whose status lists no nodes is not worth deleting.
BadDeletedSeries(s, pl) ==
    IF pl.listed = {} THEN s ELSE [plan |-> FALSE, nodes |-> s.nodes \ pl.listed]

\* DeletePlan: the plan's series, and those of the nodes in its status by now.
DeletedSeries(s, pl) == [plan |-> FALSE, nodes |-> s.nodes \ pl.listed]

\* handleDeletion deletes the series when CleanUp is done.
DeleteSeries(p) ==
    /\ pc[p] = "clean" /\ work[p].release = {}
    /\ series' = [series EXCEPT ![p] = DeletedSeries(@, planCopy[p])]
    /\ Goto(p, "remove")
    /\ UNCHANGED <<server, planCache, queue, planCopy, work, bounds>>

\* handleDeletion removes the finalizer, in an UPDATE that the webhook reviews.
\* NotFound is not an error.
RemoveFinalizer(p) ==
    /\ pc[p] = "remove"
    /\ plan[p].present => Reviewed("UPDATE", p, plan[p].spec)
    /\ Commit(node, [plan EXCEPT ![p] =
                         IF @.deleting THEN NoPlanObject
                                       ELSE [@ EXCEPT !.finalizer = FALSE]], queue)
    /\ EndPass(p)
    /\ UNCHANGED <<series, bounds>>

\* The next call of the pass is refused: the plan or the node is gone, or the
\* webhook denies the write.
Refused(p) ==
    \/ pc[p] = "finalizer" /\ ~(plan[p].present /\ Reviewed("UPDATE", p, plan[p].spec))
    \/ pc[p] = "adopt" /\ \E n \in work[p].adopt : ~node[n].present
    \/ pc[p] = "adopt" /\ work[p].adopt = {} /\ ~plan[p].present
    \/ pc[p] \in {"release", "clean"} /\ \E n \in work[p].release : ~node[n].present
    \/ pc[p] = "remove" /\ plan[p].present /\ ~Reviewed("UPDATE", p, plan[p].spec)

\* The pass returns the error and the plan is retried with backoff.
Retry(p) ==
    /\ Refused(p)
    /\ queue' = queue \union {p}
    /\ EndPass(p)
    /\ UNCHANGED <<server, planCache, series, bounds>>

\* Any other failure of a call has the same effect.
Fail(p) ==
    /\ pc[p] # "idle"
    /\ faults < MaxFaults /\ faults' = faults + 1
    /\ queue' = queue \union {p}
    /\ EndPass(p)
    /\ UNCHANGED <<server, planCache, series, edits>>

Pass(p) ==
    \/ Reconcile(p) \/ EnsureFinalizer(p) \/ Resolve(p) \/ UpdateStatus(p)
    \/ Finish(p) \/ ListOwned(p) \/ DeleteSeries(p) \/ RemoveFinalizer(p)
    \/ Retry(p)
    \/ \E n \in Nodes : AdoptNode(p, n) \/ ReleaseNode(p, n)

\* The plan informer catches up.
SyncPlan(p) ==
    /\ planCache[p] # plan[p]
    /\ planCache' = [planCache EXCEPT ![p] = plan[p]]
    /\ queue' = queue \union Woken(node, node, planCache, planCache')
    /\ UNCHANGED <<server, series, passVars, bounds>>

\* The operator dies and starts again: its passes, its queue and its metrics
\* are gone, and the informers report every plan as created.
Crash ==
    /\ faults < MaxFaults /\ faults' = faults + 1
    /\ planCache' = plan
    /\ series' = [p \in Plans |-> NoSeries]
    /\ queue' = {p \in Plans : plan[p].present}
    /\ pc' = [p \in Plans |-> "idle"]
    /\ planCopy' = [p \in Plans |-> NoPlanObject]
    /\ work' = [p \in Plans |-> NoWork]
    /\ UNCHANGED <<server, edits>>

(***************************************************************************)
(* Users, and the cluster.                                                 *)
(***************************************************************************)

UserWrites(op, newNode, newPlan) ==
    /\ op \in UserOps
    /\ edits < MaxEdits /\ edits' = edits + 1
    /\ Commit(newNode, newPlan, queue)
    /\ UNCHANGED <<series, passVars, faults>>

CreatePlan(p) ==
    /\ ~plan[p].present
    /\ \E s \in Specs :
          /\ Reviewed("CREATE", p, s)
          /\ UserWrites("create", node, [plan EXCEPT ![p] = NewPlan(s, edits + 1)])

EditSpec(p) ==
    /\ plan[p].present /\ ~plan[p].deleting
    /\ \E s \in Specs \ {plan[p].spec} :
          /\ Reviewed("UPDATE", p, s)
          /\ UserWrites("edit", node, [plan EXCEPT ![p].spec = s,
                                                   ![p].generation = edits + 1])

\* Deleting a plan with a finalizer only marks it.
DeletePlan(p) ==
    /\ plan[p].present /\ ~plan[p].deleting
    /\ UserWrites("delete", node, [plan EXCEPT ![p] =
           IF @.finalizer THEN [@ EXCEPT !.deleting = TRUE] ELSE NoPlanObject])

NodeJoins(n) ==
    /\ ~node[n].present
    /\ \E ls \in SUBSET Labels :
          UserWrites("join", [node EXCEPT ![n] = NewNode(ls)], plan)

NodeLeaves(n) ==
    /\ node[n].present
    /\ UserWrites("leave", [node EXCEPT ![n] = NoNode], plan)

Relabel(n) ==
    /\ node[n].present
    /\ \E ls \in (SUBSET Labels) \ {node[n].labels} :
          UserWrites("relabel", [node EXCEPT ![n].labels = ls], plan)

Next ==
    \/ \E p \in Plans :
          \/ Pass(p) \/ Fail(p) \/ SyncPlan(p)
          \/ CreatePlan(p) \/ EditSpec(p) \/ DeletePlan(p)
    \/ \E n \in Nodes : NodeJoins(n) \/ NodeLeaves(n) \/ Relabel(n)
    \/ Crash

Spec == Init /\ [][Next]_vars

\* The workers keep taking plans from the queue, calls return, informers catch
\* up.  Users and the cluster owe nothing.
Fairness == \A p \in Plans : WF_vars(Pass(p)) /\ WF_vars(SyncPlan(p))

FairSpec == Spec /\ Fairness

(***************************************************************************)
(* Properties.                                                             *)
(***************************************************************************)

\* The pass of p, if one runs, and the next one know of the snapshot.
SnapshotSeen(p) ==
    /\ plan[p].present /\ plan[p].snapshot
    /\ \A o \in {planCache[p]} \union (IF pc[p] = "idle" THEN {} ELSE {planCopy[p]}) :
          o.snapshot /\ o.resolved = plan[p].resolved

\* The membership of a selector plan is frozen once the operator's cache shows
\* the snapshot of its first pass, whatever crash, edit, relabelling or new
\* node comes later: UpdateStatus never changes the snapshot, and a pass that
\* works for a selector adopts only nodes that are in it.
SnapshotFrozenStep ==
    \A p \in Plans :
        SnapshotSeen(p) /\ plan'[p].present =>
            /\ plan'[p].snapshot /\ plan'[p].resolved = plan[p].resolved
            /\ \A n \in Nodes :
                  /\ planCopy[p].spec.selector # {}
                  /\ node[n].owner # p /\ node'[n].owner = p
                  => n \in plan[p].resolved

\* No step changes a snapshot that has been seen.
SnapshotFrozen == [][SnapshotFrozenStep]_vars

\* The registry never reports a plan that is gone: a pass records the series of
\* a plan only while its finalizer holds it, and handleDeletion deletes them
\* before the finalizer goes, even when the webhook refuses the patch and the
\* clean-up is repeated.
NoGhostSeries == \A p \in Plans : series[p].plan => plan[p].present

\* The nodes whose events nodeToPlans maps to plan p.
Watched(p) == plan[p].spec.nodes \union OwnedBy(p) \union Matching(plan[p].spec)

\* A plan without a finalizer, or one that is still being deleted, is held up
\* by the webhook alone; a plan that is gone or being deleted owns nothing.
HeldUpSettled(p) ==
    LET pl == plan[p]
    IN  /\ ~pl.present \/ pl.deleting => OwnedBy(p) = {}
        /\ pl.present /\ (pl.deleting \/ ~pl.finalizer)
               => ~Reviewed("UPDATE", p, pl.spec)

\* A working plan owns only nodes it desires, and every one of those that its
\* watch covers has an owner.
WorkingSettled(p) ==
    LET pl == plan[p]
    IN  pl.present /\ pl.finalizer /\ ~pl.deleting =>
            /\ pl.spec.selector # {} => pl.snapshot
            /\ OwnedBy(p) \subseteq Desired(pl)
            /\ \A n \in Desired(pl) \intersect Watched(p) : node[n].owner # NoPlan

\* Once users, the cluster and faults are quiet, every plan gets and keeps the
\* nodes it should have, and is held up by nothing but the webhook: no node
\* event that a watch covers is filtered out, no refused call is given up, and
\* plans that raced past the webhook for a node leave it with one of them.
MembershipConverges == <>[](\A p \in Plans \ Lagging : HeldUpSettled(p) /\ WorkingSettled(p))

\* Selection, admission and the passes implement the abstract ownership of
\* module Lease: who owns a node is protected by a finalizer, nodes change hands
\* only by adoption, and the finalizer goes only when nothing is owned any more.
L == INSTANCE Lease WITH
         holder <- [n \in Nodes |-> node[n].owner],
         protected <- {p \in Plans : plan[p].finalizer}

ImplementsLease == L!Spec
=============================================================================
