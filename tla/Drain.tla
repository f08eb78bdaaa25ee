------------------------------- MODULE Drain -------------------------------
(***************************************************************************)
(* Draining the nodes of one NodeMaintenancePlan: ReconcileDrain and what  *)
(* it calls (drainNodes, drainNode, classifyPods, applyDrainResults), with *)
(* the conditions, phase and per-node status it keeps in the plan.         *)
(*                                                                         *)
(* The steps of a pass before ReconcileDrain (module Ownership has them    *)
(* one by one) are one step here: a single plan whose cordon is enabled    *)
(* and has no start time, so that a node it owns is a node it cordoned.    *)
(* Evictions are steps of their own: the goroutines that drain different   *)
(* nodes, the users, the kubelets and a crash of the operator interleave   *)
(* with them.                                                              *)
(***************************************************************************)
EXTENDS Integers, FiniteSets, KubeAPI

CONSTANTS
    Nodes,      \* the nodes of the cluster
    Pods,       \* the pods that may run on them
    Home,       \* per pod, the node it is bound to
    Traits,     \* per pod, a subset of PodTraits
    Guarded,    \* the pods covered by the PodDisruptionBudget
    Stubborn,   \* the pods that never finish terminating
    Specs,      \* the plan specs users choose from
    UserOps,    \* what the environment may do
    Grace,      \* termination grace period and stuckTerminatingBuffer
    PodLag,     \* may the pod informer's cache lag behind the API server?
    PlanLag,    \* may the plan informer's cache lag behind the API server?
    MaxBudget,  \* bound on the disruptions the budget allows at a time
    MaxClock,   \* bound on time
    MaxEdits,   \* bound on the number of operations of the environment
    MaxFaults   \* bound on failed API calls and operator crashes

PodTraits == {"mirror", "daemonSet", "controlled", "emptyDir"}

\* DrainOptions, and the part of the spec the drain depends on.  A timeout of 0
\* stands for an absent timeoutMinutes.
DrainOptions == [ignoreDaemonSets: BOOLEAN, deleteEmptyDirData: BOOLEAN,
                 force: BOOLEAN, respectPDB: BOOLEAN,
                 maxParallel: 1..Cardinality(Nodes)]
PlanSpec == [nodes: SUBSET Nodes, drain: BOOLEAN, timeout: 0..MaxClock,
             opts: DrainOptions]

ASSUME DrainAssumption ==
    /\ IsFiniteSet(Nodes) /\ IsFiniteSet(Pods)
    /\ Home \in [Pods -> Nodes] /\ Traits \in [Pods -> SUBSET PodTraits]
    /\ Guarded \subseteq Pods /\ Stubborn \subseteq Pods
    /\ Specs \subseteq PlanSpec
    /\ UserOps \subseteq {"edit", "cordon", "uncordon", "health", "run", "finish",
                          "delete"}
    /\ PodLag \in BOOLEAN /\ PlanLag \in BOOLEAN
    /\ Grace \in Nat /\ MaxBudget \in Nat /\ MaxEdits \in Nat /\ MaxFaults \in Nat
    /\ MaxClock \in Nat \ {0}

Times == 1..MaxClock        \* 0 stands for an absent time

(***************************************************************************)
(* Objects.                                                                *)
(***************************************************************************)

\* owned: the node carries the plan's annotations.  healthy: condition Ready.
NodeObject == [owned: BOOLEAN, unschedulable: BOOLEAN, healthy: BOOLEAN]

\* deletedAt is the pod's deletion timestamp.
PodObject == [phase: {"running", "finished", "gone"}, deletedAt: {0} \union Times]

NodeStatus == [listed: BOOLEAN, cordoned: BOOLEAN, drifted: BOOLEAN,
               ready: BOOLEAN, initial: 0..Cardinality(Pods),
               total: 0..Cardinality(Pods), blocked: 0..Cardinality(Pods),
               progress: 0..100]
NoNodeStatus == [listed |-> FALSE, cordoned |-> FALSE, drifted |-> FALSE,
                 ready |-> FALSE, initial |-> 0, total |-> 0, blocked |-> 0,
                 progress |-> 0]

Phases == {"Pending", "Adopted", "Cordoned", "Draining", "Blocked", "Ready",
           "TimedOut"}

\* conditions is one list, and so is nodes: a patch replaces them as a whole.
\* Conflict and Scheduled need a second plan or a start time, NodeNotReady only
\* informs; they are left out.
Conditions == [selected: BOOLEAN, cordoned: BOOLEAN, drifted: BOOLEAN,
               inProgress: BOOLEAN, blocked: BOOLEAN, succeeded: BOOLEAN,
               timedOut: BOOLEAN]
NoConditions == [selected |-> FALSE, cordoned |-> FALSE, drifted |-> FALSE,
                 inProgress |-> FALSE, blocked |-> FALSE, succeeded |-> FALSE,
                 timedOut |-> FALSE]
PlanObject == [spec: PlanSpec, nodes: [Nodes -> NodeStatus],
               conditions: Conditions, allReady: BOOLEAN,
               startedAt: {0} \union Times, phase: Phases,
               blockedCount: 0..Cardinality(Nodes)]
NewPlan(s) == [spec |-> s, nodes |-> [n \in Nodes |-> NoNodeStatus],
               conditions |-> NoConditions, allReady |-> FALSE,
               startedAt |-> 0, phase |-> "Pending", blockedCount |-> 0]

NoPlanCopy ==
    NewPlan([nodes |-> {}, drain |-> FALSE, timeout |-> 0,
             opts |-> [ignoreDaemonSets |-> TRUE, deleteEmptyDirData |-> FALSE,
                       force |-> FALSE, respectPDB |-> TRUE, maxParallel |-> 1]])

\* The goroutine that drains one node: it waits for a slot of the semaphore,
\* runs while pods are left in todo, and then its outcome and error are final.
\* A node that is not Ready gets a result without a goroutine.
Counts == [evictable: 0..Cardinality(Pods), blocked: 0..Cardinality(Pods),
           terminating: 0..Cardinality(Pods), stuck: 0..Cardinality(Pods)]
NoCounts == [evictable |-> 0, blocked |-> 0, terminating |-> 0, stuck |-> 0]
Worker == [state: {"off", "wait", "run"}, todo: SUBSET Pods,
           evicted: 0..Cardinality(Pods), pdb: BOOLEAN,
           err: {"nil", "notReady", "other"}, counts: Counts]
NewWorker(st, e) == [state |-> st, todo |-> {}, evicted |-> 0, pdb |-> FALSE,
                     err |-> e, counts |-> NoCounts]
NoWorkers == [n \in Nodes |-> NewWorker("off", "nil")]

VARIABLES
    node,       \* the Nodes
    pod,        \* the API server's Pods
    podCache,   \* the pod informer's cache
    budget,     \* disruptions the PodDisruptionBudget still allows
    plan,       \* the API server's NodeMaintenancePlan
    planCache,  \* the plan informer's cache
    gaveUp,     \* history: has the API server's plan ever had DrainTimedOut?
    queued,     \* is the plan in the workqueue?
    wake,       \* is a delayed requeue of the plan pending?
    clock,      \* the time
    pc,         \* where the running pass is
    planCopy,   \* the pass's local copy of the plan
    worker,     \* per node, the goroutine draining it
    edits,      \* number of operations of the environment so far
    faults      \* number of faults so far

podVars == <<pod, podCache, budget>>
planVars == <<plan, planCache, gaveUp>>
passVars == <<pc, planCopy, worker>>
bounds == <<edits, faults>>
vars == <<node, pod, podCache, budget, plan, planCache, gaveUp, queued, wake, clock, pc,
          planCopy, worker, edits, faults>>

\* The type of every variable.
TypeOK ==
    /\ node \in [Nodes -> NodeObject]
    /\ pod \in [Pods -> PodObject] /\ podCache \in [Pods -> PodObject]
    /\ budget \in 0..MaxBudget
    /\ plan \in PlanObject /\ planCache \in PlanObject /\ planCopy \in PlanObject
    /\ gaveUp \in BOOLEAN /\ queued \in BOOLEAN /\ wake \in BOOLEAN
    /\ clock \in Times
    /\ pc \in {"idle", "drain"}
    /\ worker \in [Nodes -> Worker]
    /\ edits \in 0..MaxEdits /\ faults \in 0..MaxFaults

\* The pods run on nodes that are healthy and not yet owned; the plan has just
\* been created.
Init ==
    /\ node = [n \in Nodes |-> [owned |-> FALSE, unschedulable |-> FALSE,
                                healthy |-> TRUE]]
    /\ pod \in [Pods -> {[phase |-> ph, deletedAt |-> 0] : ph \in {"running", "gone"}}]
    /\ podCache = pod
    /\ budget \in 0..MaxBudget
    /\ plan \in {NewPlan(s) : s \in Specs}
    /\ planCache = plan /\ planCopy = NoPlanCopy /\ gaveUp = FALSE
    /\ queued = TRUE /\ wake = FALSE
    /\ clock = 1
    /\ pc = "idle"
    /\ worker = NoWorkers
    /\ edits = 0 /\ faults = 0

(***************************************************************************)
(* Pods.                                                                   *)
(***************************************************************************)

\* Wrong: the checks for special pods come after the check of the controller.
BadClassify(x, o, opts) ==
    IF o.phase = "gone" THEN "absent"
    ELSE IF o.deletedAt # 0
         THEN IF clock > o.deletedAt + Grace THEN "stuck" ELSE "terminating"
    ELSE IF "controlled" \in Traits[x] \/ opts.force THEN "evictable"
    ELSE "blocked"

\* classifyPods for one pod; the order of the tests matters.
classify(x, o, opts) ==
    IF o.phase = "gone" THEN "absent"
    ELSE IF "mirror" \in Traits[x] THEN "skipped"
    ELSE IF o.deletedAt # 0
         THEN IF clock > o.deletedAt + Grace THEN "stuck" ELSE "terminating"
    ELSE IF o.phase = "finished" THEN "skipped"
    ELSE IF "daemonSet" \in Traits[x]
         THEN IF opts.ignoreDaemonSets THEN "skipped" ELSE "blocked"
    ELSE IF "controlled" \notin Traits[x] /\ ~opts.force THEN "blocked"
    ELSE IF "emptyDir" \in Traits[x] /\ ~opts.deleteEmptyDirData THEN "blocked"
    ELSE "evictable"

\* filterPodsForDrain: the pods of a class on node n, as the cache pods has them.
PodsOf(n, pods, opts, class) ==
    {x \in Pods : Home[x] = n /\ classify(x, pods[x], opts) = class}

\* Nothing runs on node n any more but mirror pods and DaemonSet pods, which may
\* be started on a cordoned node at any time.
Drained(n) ==
    \A x \in Pods : Home[x] = n /\ pod[x].phase = "running" =>
        Traits[x] \intersect {"mirror", "daemonSet"} # {}

\* The API server changes pod x; the informer delivers it unless it may lag.
SetPod(x, o) ==
    /\ pod' = [pod EXCEPT ![x] = o]
    /\ podCache' = IF PodLag THEN podCache ELSE pod'

\* Does an eviction request for pod x run into the PodDisruptionBudget?
TooManyRequests(x) ==
    x \in Guarded /\ budget = 0 /\ pod[x].phase = "running" /\ pod[x].deletedAt = 0

\* The API server deletes pod x gracefully; an eviction uses up the budget.
DeletePod(x, evicted) ==
    IF pod[x].deletedAt # 0 THEN UNCHANGED podVars
    ELSE /\ SetPod(x, [pod[x] EXCEPT !.deletedAt = clock])
         /\ budget' = IF evicted /\ x \in Guarded /\ pod[x].phase = "running"
                      THEN budget - 1 ELSE budget

(***************************************************************************)
(* The plan's status.                                                      *)
(***************************************************************************)

\* computePhase, without the phases of the conditions that are left out.
computePhase(c, allReady) ==
    IF c.timedOut THEN "TimedOut"
    ELSE IF allReady THEN "Ready"
    ELSE IF c.blocked THEN "Blocked"
    ELSE IF c.inProgress THEN "Draining"
    ELSE IF c.cordoned THEN "Cordoned"
    ELSE IF c.selected THEN "Adopted"
    ELSE "Pending"

\* The listed entries of status.nodes.
Listed(nodes) == {n \in Nodes : nodes[n].listed}

\* The other summaries are texts made from the same entries and left out.
recomputePlanSummaries(pl) ==
    [pl EXCEPT
        !.blockedCount = Cardinality({n \in Listed(pl.nodes) :
            pl.nodes[n].blocked > 0 /\ pl.nodes[n].blocked = pl.nodes[n].total}),
        !.phase = computePhase(pl.conditions, pl.allReady)]

\* Wrong: the entry of a node starts afresh in every pass.
BadBuildNodeStatus(ns, obj) ==
    [NoNodeStatus EXCEPT !.listed = TRUE, !.cordoned = obj.unschedulable,
                         !.drifted = obj.owned /\ ~obj.unschedulable]

\* buildNodeStatuses: an owned node that is schedulable again has drifted, unless
\* its maintenance was complete.
buildNodeStatus(ns, obj) ==
    [ns EXCEPT !.listed = TRUE, !.cordoned = obj.unschedulable,
               !.drifted = IF obj.owned /\ ~obj.unschedulable THEN ~ns.ready ELSE @]

\* Wrong: the list of conditions is built anew.
BadUpdateStatus(pl, objs) ==
    LET nodes == [n \in Nodes |-> IF n \in pl.spec.nodes
                                  THEN buildNodeStatus(pl.nodes[n], objs[n])
                                  ELSE NoNodeStatus]
    IN  recomputePlanSummaries(
            [pl EXCEPT !.nodes = nodes, !.conditions = [NoConditions EXCEPT
                           !.selected = Listed(nodes) # {}, !.cordoned = TRUE]])

\* UpdateStatus on the local copy pl: objs are the nodes after the adoptions.
UpdateStatus(pl, objs) ==
    LET nodes == [n \in Nodes |-> IF n \in pl.spec.nodes
                                  THEN buildNodeStatus(pl.nodes[n], objs[n])
                                  ELSE NoNodeStatus]
        counted == {n \in Listed(nodes) : ~nodes[n].drifted}
        cordoned == counted # {} /\ \A n \in counted : nodes[n].cordoned
    IN  recomputePlanSummaries(
            [pl EXCEPT !.nodes = nodes,
                       !.conditions = [@ EXCEPT
                           !.selected = Listed(nodes) # {},
                           !.cordoned = cordoned,
                           !.drifted = Listed(nodes) # counted]])

\* The server's plan after a status patch between the local copies old and new.
MergePlan(old, new) ==
    [plan EXCEPT
        !.nodes = MergeField(@, old.nodes, new.nodes),
        !.conditions = MergeField(@, old.conditions, new.conditions),
        !.allReady = MergeField(@, old.allReady, new.allReady),
        !.startedAt = MergeField(@, old.startedAt, new.startedAt),
        !.phase = MergeField(@, old.phase, new.phase),
        !.blockedCount = MergeField(@, old.blockedCount, new.blockedCount)]

\* Writes of the plan; only a new spec gets past planPredicate (SyncPlan).
WritePlan(new) ==
    /\ plan' = new
    /\ planCache' = IF PlanLag THEN planCache ELSE plan'
    /\ gaveUp' = (gaveUp \/ new.conditions.timedOut)

(***************************************************************************)
(* The pass.                                                               *)
(***************************************************************************)

EndPass == pc' = "idle" /\ planCopy' = NoPlanCopy /\ worker' = NoWorkers

\* Wrong: a drain that timed out is resumed.
BadDrainTargets(pl, objs, stable) ==
    IF pl.spec.drain THEN {n \in stable : objs[n].unschedulable} ELSE {}

\* The head of ReconcileDrain: the stable nodes to look at, none when drain is
\* off or timed out.
DrainTargets(pl, objs, stable) ==
    IF pl.spec.drain /\ ~pl.conditions.timedOut
    THEN {n \in stable : objs[n].unschedulable} ELSE {}

\* A pass up to the fan-out of drainNodes: adopt and cordon the nodes of the
\* spec, UpdateStatus, release drifted nodes and nodes that left the spec.  The
\* response to the status patch becomes the local copy; the patches of the nodes
\* are events that queue the plan again.
Reconcile ==
    /\ pc = "idle" /\ queued
    /\ LET pl == planCache
           stable == {n \in pl.spec.nodes : node[n].owned}
           adopt == {n \in pl.spec.nodes \ stable :
                        ~pl.nodes[n].drifted /\ ~pl.nodes[n].ready}
           leaving == {n \in Nodes \ pl.spec.nodes : node[n].owned}
           drifting == {n \in stable : ~node[n].unschedulable}
           objs == [n \in Nodes |-> IF n \in adopt
                                    THEN [node[n] EXCEPT !.owned = TRUE,
                                                         !.unschedulable = TRUE]
                                    ELSE node[n]]
       IN  /\ node' = [n \in Nodes |->
                  CASE n \in leaving -> [objs[n] EXCEPT !.owned = FALSE,
                                                        !.unschedulable = FALSE]
                    [] n \in drifting -> [objs[n] EXCEPT !.owned = FALSE]
                    [] OTHER -> objs[n]]
           /\ \E updated \in {UpdateStatus(pl, objs)} :
              \E copy \in {MergePlan(pl, updated)} :
                 LET targets == IF pl.spec.drain
                                THEN DrainTargets(copy, node, stable) ELSE {}
                 IN  /\ WritePlan(copy)
                     /\ IF targets = {} THEN EndPass
                        ELSE /\ pc' = "drain" /\ planCopy' = copy
                             /\ worker' = [n \in Nodes |->
                                    CASE n \notin targets -> NewWorker("off", "nil")
                                      [] n \in targets /\ node[n].healthy -> NewWorker("wait", "nil")
                                      [] OTHER -> NewWorker("run", "notReady")]
    /\ queued' = (node' # node)
    /\ UNCHANGED <<podVars, wake, clock, bounds>>

\* One of the maxParallel slots of the semaphore is free.
SlotFree ==
    Cardinality({n \in Nodes : worker[n].todo # {}}) < planCopy.spec.opts.maxParallel

\* A goroutine gets a slot and lists the pods of its node.
drainNode(n) ==
    /\ pc = "drain" /\ worker[n].state = "wait"
    /\ SlotFree
    /\ LET class(c) == PodsOf(n, podCache, planCopy.spec.opts, c)
       IN  worker' = [worker EXCEPT ![n] =
               [NewWorker("run", "nil") EXCEPT
                   !.todo = class("evictable"),
                   !.counts = [evictable |-> Cardinality(class("evictable")),
                               blocked |-> Cardinality(class("blocked")),
                               terminating |-> Cardinality(class("terminating")),
                               stuck |-> Cardinality(class("stuck"))]]]
    /\ UNCHANGED <<node, podVars, planVars, queued, wake, clock, pc, planCopy, bounds>>

\* evictPod for the next pod of the list and drainNode's reaction: NotFound is
\* fine, TooManyRequests is recorded or overridden by a plain delete.
evictPod(n, x) ==
    /\ pc = "drain" /\ x \in worker[n].todo
    /\ LET rest == [worker[n] EXCEPT !.todo = @ \ {x}]
       IN  \/ /\ pod[x].phase = "gone"
              /\ worker' = [worker EXCEPT ![n] = rest]
              /\ UNCHANGED podVars
           \/ /\ pod[x].phase # "gone" /\ TooManyRequests(x)
              /\ planCopy.spec.opts.respectPDB
              /\ worker' = [worker EXCEPT ![n] = [rest EXCEPT !.pdb = TRUE]]
              /\ UNCHANGED podVars
           \/ /\ pod[x].phase # "gone"
              /\ ~TooManyRequests(x) \/ ~planCopy.spec.opts.respectPDB
              /\ DeletePod(x, ~TooManyRequests(x))
              /\ worker' = [worker EXCEPT ![n] = [rest EXCEPT !.evicted = @ + 1]]
    /\ UNCHANGED <<node, planVars, queued, wake, clock, pc, planCopy, bounds>>

\* The list of pods fails, or an eviction does: the goroutine returns the error
\* with the outcome it has so far.
drainNodeFails(n) ==
    /\ pc = "drain"
    /\ (worker[n].state = "wait" /\ SlotFree) \/ worker[n].todo # {}
    /\ faults < MaxFaults /\ faults' = faults + 1
    /\ worker' = [worker EXCEPT ![n] = [@ EXCEPT !.state = "run", !.todo = {},
                                                 !.err = "other"]]
    /\ UNCHANGED <<node, podVars, planVars, queued, wake, clock, pc, planCopy, edits>>

\* Wrong: pods that are still terminating are overlooked.
BadOutcome(w) ==
    IF w.err # "nil" THEN w.err
    ELSE IF w.counts.blocked > 0 \/ w.pdb THEN "blocked"
    ELSE IF w.evicted > 0 THEN "evicting" ELSE "drained"

\* The switch of applyDrainResults over the result of one node.
Outcome(w) ==
    IF w.err # "nil" THEN w.err
    ELSE IF w.counts.blocked > 0 \/ w.pdb THEN "blocked"
    ELSE IF w.evicted > 0 THEN "evicting"
    ELSE IF w.counts.stuck > 0 THEN "stuck"
    ELSE IF w.counts.terminating > 0 THEN "terminating"
    ELSE "drained"

InFlight(w) ==
    \/ Outcome(w) \in {"evicting", "terminating"}
    \/ Outcome(w) \in {"stuck", "blocked"} /\ w.counts.terminating > 0

\* Wrong: the total leaves out the pods that are terminating.
BadUpdateNodeDrainStatus(ns, c) ==
    LET total == c.evictable + c.blocked + c.stuck
        initial == IF ns.initial = 0 THEN total ELSE ns.initial
    IN  [ns EXCEPT !.initial = initial, !.total = total,
                   !.blocked = total - c.evictable - c.terminating]

\* updateNodeDrainStatus: the counters, and the progress against the number of
\* pods there were at first.
updateNodeDrainStatus(ns, c) ==
    LET total == c.evictable + c.blocked + c.terminating + c.stuck
        initial == IF ns.initial = 0 THEN total ELSE ns.initial
        remaining == IF total < initial THEN total ELSE initial
    IN  [ns EXCEPT !.initial = initial, !.total = total,
                   !.blocked = total - c.evictable - c.terminating,
                   !.progress = IF initial > 0
                                THEN ((initial - remaining) * 100) \div initial ELSE @]

\* The entry of a node after its result: counters unless the node is NotReady,
\* and markNodeReadyForMaintenance for a cordoned node that is drained.
NodeResult(ns, w) ==
    IF w.state = "off" \/ ~ns.listed \/ w.err = "notReady" THEN ns
    ELSE LET upd == updateNodeDrainStatus(ns, w.counts)
         IN  IF Outcome(w) = "drained" /\ ns.cordoned /\ ~ns.ready
             THEN [upd EXCEPT !.ready = TRUE, !.progress = 100] ELSE upd

setDrainConditions(c, allDone, anyBlocked, inFlight) ==
    [c EXCEPT !.succeeded = allDone,
              !.inProgress = ~allDone /\ (inFlight \/ ~anyBlocked),
              !.blocked = ~allDone /\ anyBlocked]

\* Wrong: a blocked drain waits for an event.
BadRequeue(results) == \E w \in results : InFlight(w)

\* drainCheckInterval or drainBlockedRetry, unless every node is drained.
Requeue(results) == \E w \in results : Outcome(w) # "drained"

\* Wrong: the deadline is counted from the current pass.
BadDeadlineExceeded(startedAt, timeout) == clock > clock + timeout

DeadlineExceeded(startedAt, timeout) == timeout # 0 /\ clock > startedAt + timeout

\* Wrong: the start of the drain moves with every pass.
BadStartedAt(before, allDone) == IF allDone THEN before ELSE clock

\* DrainStartedAt is set by the first pass that leaves something to do.
StartedAt(before, allDone) == IF allDone \/ before # 0 THEN before ELSE clock

\* applyDrainResults, once every goroutine has returned: record the start of the
\* drain, stop at the deadline (without a new phase and without a requeue), or
\* set conditions, aggregates and phase and requeue.
applyDrainResults ==
    /\ pc = "drain"
    /\ \A n \in Nodes : worker[n].state # "wait" /\ worker[n].todo = {}
    /\ LET results == {worker[n] : n \in {m \in Nodes : worker[m].state # "off"}}
           allDone == \A w \in results : Outcome(w) = "drained"
           anyBlocked == \E w \in results :
                            Outcome(w) \in {"stuck", "blocked", "notReady"}
           inFlight == \E w \in results : InFlight(w)
           nodes == [n \in Nodes |-> NodeResult(planCopy.nodes[n], worker[n])]
           startedAt == StartedAt(planCopy.startedAt, allDone)
           late == ~allDone /\ DeadlineExceeded(startedAt, planCopy.spec.timeout)
           started == [planCopy EXCEPT !.nodes = nodes, !.startedAt = startedAt]
           stopped == [started EXCEPT !.conditions =
                          [@ EXCEPT !.timedOut = TRUE, !.inProgress = FALSE,
                                    !.succeeded = FALSE]]
           going == recomputePlanSummaries([started EXCEPT
                        !.conditions = setDrainConditions(@, allDone, anyBlocked, inFlight),
                        !.allReady = Listed(nodes) # {}
                                        /\ \A n \in Listed(nodes) : nodes[n].ready])
       IN  /\ \E new \in {IF late THEN stopped ELSE going} :
                 WritePlan(MergePlan(planCopy, new))
           /\ wake' = (wake \/ (~late /\ Requeue(results)))
    /\ EndPass
    /\ UNCHANGED <<node, podVars, queued, clock, bounds>>

\* The patch of applyDrainResults fails: the pass is retried with backoff.
applyFails ==
    /\ pc = "drain"
    /\ \A n \in Nodes : worker[n].state # "wait" /\ worker[n].todo = {}
    /\ faults < MaxFaults /\ faults' = faults + 1
    /\ queued' = TRUE
    /\ EndPass
    /\ UNCHANGED <<node, podVars, planVars, wake, clock, edits>>

Pass ==
    \/ Reconcile \/ applyDrainResults
    \/ \E n \in Nodes : drainNode(n) \/ \E x \in Pods : evictPod(n, x)

(***************************************************************************)
(* The rest of the operator process.                                       *)
(***************************************************************************)

\* The delayed requeue is due; how long it takes is left open.
TimerFires ==
    /\ wake /\ wake' = FALSE /\ queued' = TRUE
    /\ UNCHANGED <<node, podVars, planVars, clock, passVars, bounds>>

\* The controller does not watch pods: no event comes of a pod.
SyncPod(x) ==
    /\ podCache[x] # pod[x]
    /\ podCache' = [podCache EXCEPT ![x] = pod[x]]
    /\ UNCHANGED <<node, pod, budget, planVars, queued, wake, clock, passVars, bounds>>

SyncPlan ==
    /\ planCache # plan
    /\ planCache' = plan
    /\ queued' = (queued \/ planCache.spec # plan.spec)
    /\ UNCHANGED <<node, podVars, plan, gaveUp, wake, clock, passVars, bounds>>

\* The operator dies and starts again; the plan is listed and queued.
Crash ==
    /\ faults < MaxFaults /\ faults' = faults + 1
    /\ podCache' = pod /\ planCache' = plan
    /\ queued' = TRUE /\ wake' = FALSE
    /\ EndPass
    /\ UNCHANGED <<node, pod, budget, plan, gaveUp, clock, edits>>

(***************************************************************************)
(* The environment: users, scheduler, kubelets, disruption controller.     *)
(***************************************************************************)

UserStep(op) == op \in UserOps /\ edits < MaxEdits /\ edits' = edits + 1

EditSpec ==
    /\ UserStep("edit")
    /\ \E s \in Specs \ {plan.spec} : WritePlan([plan EXCEPT !.spec = s])
    /\ queued' = (queued \/ ~PlanLag)
    /\ UNCHANGED <<node, podVars, wake, clock, passVars, faults>>

\* A change of node n, seen by nodeRelevantChange and nodeRelevantToPlan.
SetNode(n, o) ==
    /\ node' = [node EXCEPT ![n] = o]
    /\ queued' = (queued \/ node[n].owned
                    \/ (node[n].unschedulable # o.unschedulable
                          /\ n \in planCache.spec.nodes))
    /\ UNCHANGED <<podVars, planVars, wake, clock, passVars, faults>>

UserCordon(n) == /\ UserStep("cordon") /\ ~node[n].unschedulable
                 /\ SetNode(n, [node[n] EXCEPT !.unschedulable = TRUE])
UserUncordon(n) == /\ UserStep("uncordon") /\ node[n].unschedulable
                   /\ SetNode(n, [node[n] EXCEPT !.unschedulable = FALSE])
NodeDown(n) == /\ UserStep("health") /\ node[n].healthy
               /\ SetNode(n, [node[n] EXCEPT !.healthy = FALSE])
NodeUp(n) == /\ ~node[n].healthy /\ UNCHANGED edits
             /\ SetNode(n, [node[n] EXCEPT !.healthy = TRUE])

PodStep == UNCHANGED <<node, planVars, queued, wake, clock, passVars, faults>>

\* A pod is bound to its node: by the scheduler when the node is schedulable, by
\* its DaemonSet or its kubelet always.
RunPod(x) ==
    /\ UserStep("run") /\ pod[x].phase = "gone"
    /\ ~node[Home[x]].unschedulable \/ Traits[x] \intersect {"daemonSet", "mirror"} # {}
    /\ SetPod(x, [phase |-> "running", deletedAt |-> 0])
    /\ UNCHANGED budget /\ PodStep

FinishPod(x) ==
    /\ UserStep("finish") /\ pod[x].phase = "running"
    /\ SetPod(x, [pod[x] EXCEPT !.phase = "finished"])
    /\ UNCHANGED budget /\ PodStep

UserDeletesPod(x) ==
    /\ UserStep("delete") /\ pod[x].phase # "gone" /\ pod[x].deletedAt = 0
    /\ DeletePod(x, FALSE) /\ PodStep

\* The kubelet is done with a deleted pod.
RemovePod(x) ==
    /\ pod[x].deletedAt # 0 /\ pod[x].phase # "gone" /\ x \notin Stubborn
    /\ node[Home[x]].healthy
    /\ SetPod(x, [phase |-> "gone", deletedAt |-> 0])
    /\ UNCHANGED <<budget, edits>> /\ PodStep

\* A replacement of an evicted pod got ready somewhere else.
BudgetRecovers ==
    /\ budget < MaxBudget /\ budget' = budget + 1
    /\ UNCHANGED <<pod, podCache, edits>> /\ PodStep

Tick ==
    /\ clock < MaxClock /\ clock' = clock + 1
    /\ UNCHANGED <<node, podVars, planVars, queued, wake, passVars, bounds>>

Next ==
    \/ Pass \/ applyFails \/ TimerFires \/ SyncPlan \/ Crash
    \/ EditSpec \/ BudgetRecovers \/ Tick
    \/ \E n \in Nodes : \/ drainNodeFails(n) \/ UserCordon(n) \/ UserUncordon(n)
                        \/ NodeDown(n) \/ NodeUp(n)
    \/ \E x \in Pods : \/ SyncPod(x) \/ RunPod(x) \/ FinishPod(x)
                       \/ UserDeletesPod(x) \/ RemovePod(x)

Spec == Init /\ [][Next]_vars

\* The operator's process runs, informers catch up, timers fire, time passes.
OperatorFairness ==
    /\ WF_vars(Pass) /\ WF_vars(TimerFires) /\ WF_vars(Tick)
    /\ WF_vars(SyncPlan \/ \E x \in Pods : SyncPod(x))

\* The cluster lets the drain proceed: deleted pods that are not stubborn go away,
\* nodes recover and the disruption budget does, too.
ClusterFairness ==
    WF_vars(\/ BudgetRecovers
            \/ \E n \in Nodes : NodeUp(n)
            \/ \E x \in Pods : RemovePod(x))

FairSpec == Spec /\ OperatorFairness
HelpfulSpec == Spec /\ OperatorFairness /\ ClusterFairness

(***************************************************************************)
(* Properties.                                                             *)
(***************************************************************************)

\* A node is marked ReadyForMaintenance only when nothing runs on it that the
\* drain has to remove, terminating and stuck pods included - whatever kubelets,
\* the other goroutines and users who leave the cordon alone did since its pods
\* were listed.  (An uncordon in mid-pass lets new pods in behind the list.)
ReadyWhenDrainedStep ==
    \A n \in Nodes : ~plan.nodes[n].ready /\ plan'.nodes[n].ready => Drained(n)

\* Every step marks only drained nodes as ready.
ReadyWhenDrained == [][ReadyWhenDrainedStep]_vars

\* A node that is ready for maintenance stays so in the status as long as the
\* plan names it: UpdateStatus carries the entry over from pass to pass.
ReadyIsKeptStep ==
    \A n \in plan.spec.nodes : plan.nodes[n].ready => plan'.nodes[n].ready

\* No step takes back that a node is ready.
ReadyIsKept == [][ReadyIsKeptStep]_vars

\* The drain never takes a mirror or DaemonSet pod, and a pod without controller
\* or with emptyDir data only if the plan allowed it when the running pass began,
\* whatever an edit in mid-pass allows or forbids.
ProtectedPodsSurviveStep ==
    \A x \in Pods : pod[x].deletedAt = 0 /\ pod'[x].deletedAt # 0 /\ edits' = edits =>
        /\ Traits[x] \intersect {"mirror", "daemonSet"} = {}
        /\ "controlled" \in Traits[x] \/ planCopy.spec.opts.force
        /\ "emptyDir" \in Traits[x] => planCopy.spec.opts.deleteEmptyDirData

\* No step of the drain takes a protected pod.
ProtectedPodsSurvive == [][ProtectedPodsSurviveStep]_vars

\* docs/maintenance-lifecycle.md on the timeout: "The operator stops retrying."
\* From the moment the API server has DrainTimedOut on, whatever users, retries
\* and crashes do to the plan and to its conditions later, no pod is evicted any
\* more.  It takes a current plan cache: UpdateStatus from an older copy wipes the
\* condition out and the same pass evicts (DrainTimedOutLag.cfg).
NoEvictionAfterTimeoutStep ==
    (\E n \in Nodes : worker'[n].evicted > worker[n].evicted) => ~gaveUp

\* No step evicts a pod after the timeout.
NoEvictionAfterTimeout == [][NoEvictionAfterTimeoutStep]_vars

\* The drain's deadline never moves: DrainStartedAt is set once, by whichever
\* pass first leaves something to do, and no retry, crash or old copy of the plan
\* sets it again.
DeadlineNeverMovesStep == plan.startedAt # 0 => plan'.startedAt = plan.startedAt

\* No step moves the deadline.
DeadlineNeverMoves == [][DeadlineNeverMovesStep]_vars

\* docs/events-and-conditions.md on DrainTimedOut: "Once set, it is not cleared
\* by the operator."
TimedOutIsTerminalStep == plan.conditions.timedOut => plan'.conditions.timedOut

\* No step clears DrainTimedOut.
TimedOutIsTerminal == [][TimedOutIsTerminalStep]_vars

\* When the cluster lets it, a drain comes to its end: every node of the spec is
\* ready for maintenance or was given up as drifted.  Nothing watches pods, so
\* this rests on the requeue of every pass that leaves something to do.
DrainCompletes ==
    <>[](plan.spec.drain =>
            \A n \in plan.spec.nodes : plan.nodes[n].ready \/ plan.nodes[n].drifted)

\* A drain with a timeout that cannot finish times out, be it stuck, blocked or
\* waiting for a NotReady node (if time does not end before the deadline), unless
\* every node was given up as drifted.
TimeoutFires ==
    plan.startedAt # 0 /\ plan.startedAt + plan.spec.timeout < MaxClock
        ~> \/ plan.conditions.timedOut \/ plan.conditions.succeeded
           \/ \A n \in plan.spec.nodes : plan.nodes[n].drifted
=============================================================================
