# A TLA+ model of node-maintenance-orchestrator

The operator watches `NodeMaintenancePlan` and `Node` objects and brings the
nodes a plan names into maintenance: it annotates them as owned by the plan,
cordons them, evicts their pods and reports progress in the plan's status; when
the plan is deleted a finalizer gives the nodes back. It is a level-driven
controller: each pass reads informer caches, sends a handful of patches, and
relies on events and delayed requeues to be called again. What is hard about it
is what happens *between* two of those patches, and what a pass decides from a
copy that is no longer true. That is what the modules here are about.

## 1. Inventory

| Component | State it keeps | Operations | Interacts through |
|---|---|---|---|
| Reconcile pass (`internal/controller`) | workqueue, delayed requeues; local copies of plan and nodes during a pass | `Reconcile`, `ensureFinalizer`, `handleDeletion` | calls the maintenance service step by step; up to 10 plans at a time, never two passes of one plan |
| Watches and filters (`*_predicates.go`, `SetupWithManager`) | informer caches | `planPredicate`, `nodeRelevantChange`, `nodeRelevantToPlan`, `nodeToPlans` | turn cache updates into workqueue entries |
| Ownership (`ownership.go`, `reconcile.go`, `cleanup.go`, `nodes.go`) | annotations on nodes; snapshot of a selector in the status | resolve, adopt, release, clean up | patches nodes |
| Cordon (`cordon.go`) | `spec.unschedulable`, cordoned annotation | cordon, uncordon | patches nodes |
| Schedule (`schedule.go`) | none | which phase may act now, when to come back | gates adoption, cordon, drain |
| Drift (`drift.go`, `reconcile_drift.go`) | drift reason in the node's status entry | detect, release | reads node and status, patches nodes |
| Status (`status.go`, `conditions.go`, `node_health.go`) | node entries, conditions, phase, summaries | `UpdateStatus`, `recomputePlanSummaries` | patches the plan; entries feed the next pass's decisions |
| Drain (`drain_*.go`) | counters, `drainStartedAt`, drain conditions | classify, evict, apply results, time out | goroutines per node under a semaphore; eviction API; plan status |
| Preview (`reconcile_preview.go`) | preview in the node entries | dry run | patches the plan |
| Webhook (`internal/webhook/validator.go`) | none | `Handle`, `validateNodeSelector` | answers the API server's reviews of plan writes, from the caches |
| Certificate bootstrap (`certbootstrap.go`, `cmd/main.go`) | CA in a shared Secret; certificate files per pod; `caBundle` of the webhook configuration | `EnsureCerts` at start-up and at every tick of the renewal loop | replicas race through the Secret and the configuration |
| Metrics (`internal/metrics`) | the registry of the process | `RecordPlan`, `DeletePlan` | called at the end of a pass and before the finalizer is removed |

Hard behaviours: passes of two plans and edits by users between any two patches;
failure of a call or of the process in mid-pass; caches that lag behind the API
server, so that a merge patch is computed from an old object; events dropped by
the filters; goroutines, kubelets and the disruption budget moving pods during a
drain; deadlines kept in a status that is itself rewritten by every pass; a
webhook that reviews users and operator alike from a cache; nodes that leave and
come back under the same name; replicas that rotate a shared CA at the same time,
or die between two files.
`PROJECT.json` lists these hazards line by line.

What makes the components correct, in short: a node is never left annotated or
cordoned without a plan that will undo it; a node given back to its users stays
given back; cordons respect their start time; nodes and status end up as the
plans ask; only pods the options allow are evicted; "ready for maintenance"
means empty; a drain ends, or times out once and for all; the nodes of a selector
are chosen once; metrics go with their plan; certificates are trusted and do not
expire.

## 2. Modules

| Module | Content |
|---|---|
| `KubeAPI` | what a JSON merge patch does to one field: the new value where the two local objects differ, the server's value elsewhere. External, from how `client.MergeFrom` is used |
| `Ownership` | the whole pass of any number of plans, one action per API call; the event filters; users; faults |
| `OwnershipProofs` | types, ownership and the refinement of `Lease` by `Ownership`, for any number of plans |
| `SoloPlanProofs` | what `Ownership` guarantees to a plan that shares its nodes with no other: cordons, start times, drift |
| `Membership` | which nodes belong to a plan: lists, selectors and snapshots, nodes that come and go, the webhook, the node watch, the metric series |
| `MembershipProofs` | types, metric series, snapshots and the refinement of `Lease` by `Membership` |
| `Lease` | the abstract specification of ownership that `Ownership` and `Membership` implement |
| `Certs` | certificates of the webhook and metrics servers: any number of replicas, restarts, renewal |
| `CertsProofs` | types, trust and expiry in `Certs` |
| `Drain` | draining the nodes of one plan: goroutines, evictions, results, status, timeout |
| `DrainProofs` | types and counters, deadline, timeout, protected pods and readiness in `Drain` |
| `MCOwnership`, `MCMembership`, `MCDrain`, `MCCerts` | the plan specs, pods and clusters of the TLC runs |
| `OwnershipClaims`, `MembershipClaims`, `DrainClaims`, `CertClaims` | sentences of the documents that the code does not keep |

Definitions named `Bad...` are plausible mistakes; each stands before the
definition it varies, and replacing that definition by it breaks a property.
They are not used by any specification.

### Ownership

`node` and `plan` are the API server, `nodeCache` and `planCache` the informers.
Per plan, `pc` is where its pass stands, `planCopy` and `nodeCopy` are the Go
objects the pass holds, `work` is the `OwnershipResolution` plus the schedule
and the rest of the loop that is running. `queue` and `wake` are the workqueue
and its `AddAfter`.

A pass runs `Reconcile` (Get), `EnsureFinalizer`, `Resolve`
(`ComputeOwnershipResolution`, `ComputeSchedule`), `AdoptNode` per node,
`UpdateStatus`, `ReconcilePreview`, `ReconcileDrift` per node, `CordonGate`,
`ReconcileCordon` per node, `UncordonNode` and `ReleaseNode` per node that left
the spec, and ends in `SkipDrain` or `ReconcileDrain`. A deletion runs
`ListOwned`, `UncordonNode`/`ReleaseNode` per node and `RemoveFinalizer`.
`Fail` abandons the pass at any point; `Crash` abandons all of them and refills
the caches. `Commit` is the one place where a write reaches the API server, the
caches (unless they may lag) and, through `Woken`, the workqueue.

Every patch of a node goes through `PatchNode`: no patch when the operation
finds nothing to do in its copy, otherwise a merge patch against the copy, whose
response becomes the new copy.

Abstractions. Plans name their nodes in a list (selectors are in `Membership`). The nodes a pass
reads are read in one step. A lagging cache jumps to the newest version of an
object when it catches up. `generation` stands for generation and UID.
`ReconcilePreview` keeps its patch and drops its contents, and whether it is
skipped is left open. `ReconcileDrain` may find any of its nodes drained and ask
for a poll or not, which covers everything `Drain` does. The API server refuses
to add a finalizer to an object that is being deleted. The webhook is optional
and taken to be absent here. Nodes are not deleted here and nobody but the
operator edits its annotations.

### Membership

The same pass without cordons and drains, so that its patches are the adoption,
the status and the release, and with everything that decides *which* nodes they
are about. `Desired` is the choice between list, snapshot and selector,
`Resolution` the `OwnershipResolution`, `StatusOf` what the status patch leaves in
the server (`resolvedNodes` and `nodeSnapshotTaken` included). `Admitted` is
`Handle`; `Reviewed` is applied to every CREATE and UPDATE of a plan, by users
(`CreatePlan`, `EditSpec`) and by the operator (`EnsureFinalizer`,
`RemoveFinalizer`), because the rules in `config/webhook/manifests.yaml` do not
tell them apart; the status subresource is not reviewed. A call that is refused,
because the webhook denies it or the object is gone, ends the pass in `Retry`.
`NodeJoins`, `NodeLeaves` and `Relabel` are the cluster. `series` is the metrics
registry: `Finish` records, `DeleteSeries` deletes, `Crash` empties it.

Abstractions. A selector is a set of labels the node must have. The node cache is
current (its lag is in `Ownership`), a plan cache may lag. Plans that exist in the
initial state may have got past an unreachable webhook (`failurePolicy: Ignore`).
Only the existence of a series is kept, not its value.

### Lease

Two variables: who holds each node, and which plans are protected by their
finalizer. A protected plan claims, a node becomes free, a plan gives up its
protection when it holds nothing. `Ownership` and `Membership` map `holder` to the
annotations in the API server and `protected` to the plans with a finalizer;
`ImplementsLease` is the specification under that mapping. A claim may take the
node from another plan: that is what the code does (`Stealing`), so the abstract
specification allows it and promises the rest.

### Certs

`secret` and `config` are the shared objects, `disk` and `served` what each pod has
on its volume and uses. `EnsureCerts` is cut at every API call and every renamed
file: `GetSecret`, then `RotateSecret`, or `CreateSecret` and, for the loser of
the race, `RereadSecret`; `WriteFile` per file in any order (the code ranges over a
Go map); `FindConfig`, `PublishBundle`; then the metrics certificate. `Proceed`
chooses the next server from `caRotated` and the certificate's end. `Start` and
`StartManager` are `main`; `BootDeadline` is the two-minute context, and an error at
start-up leaves a process in mode `"plain"`, without webhook and renewal loop.
`StartRenewer`/`Renew` are the runnable, behind leader election when that is on.
`Reload` is the certificate watcher of controller-runtime (external), which loads
only a pair that matches.

Abstractions. A CA is a number and an end, a certificate the CA that signed it and
an end. Time counts renewal checks. A start-up (two minutes), an election, a reload
and every single call take far less than that interval of twelve hours, so the clock
waits for them. It does not wait for `patchCABundle`: the context of the renewal loop
has no deadline, so a loop that finds no webhook configuration hangs (`Waiting`) while
time goes on, the ticker drops ticks and other replicas work. `missed` is a history
variable: per replica, the checks that failed and the intervals spent in that wait
since the last check that completed on time.

### Drain

One plan whose cordon is enabled and has no start time, so that "owned" is one
flag. `Reconcile` is the pass up to the fan-out in one step, since `Ownership`
has its interleavings. Then every node has a goroutine in `worker`: `drainNode`
takes a slot and lists pods from `podCache`, `evictPod` sends one request (not
found, refused by the budget, or accepted; with `respectPodDisruptionBudgets`
off a refusal is followed by a plain delete), `drainNodeFails` is an error from
the list or a request, and `applyDrainResults` computes outcome, counters,
conditions, deadline, phase and requeue and writes them in one patch.
`status.nodes` and `status.conditions` are lists that a merge patch replaces as
a whole, and so they are here. `gaveUp` is a history variable: a pass of this plan
has recorded `DrainTimedOut`, whether or not the condition is still there.

Abstractions. Pods are told apart by the traits `classifyPods` looks at; the
`PodDisruptionBudget` is one counter; grace period and the stuck buffer are one
constant `Grace`; the order of evictions on a node is left open; the two requeue
intervals are one timer that fires at some time. Events, issue texts, formatted
summaries, `evictedTotal`, `NotReadySince` and the NodeNotReady condition are
left out. Messages of conditions are left out, so a change of wording alone does
not make two lists differ.

## 3. Runs

All runs use `-workers 2` and end within three minutes. `CHECK_DEADLOCK FALSE`
everywhere: the operator rightly idles when nothing changes, and the bounds end
every behaviour.

| Run | Instance | Checks | Shows |
|---|---|---|---|
| `Lifecycle` | 1 plan, 1 node, all spec shapes, 2 user operations, 1 fault, plan cache lags | `TypeOK`, `NoOrphan`, `NoPhantomDrift` | create, edit, delete, re-create, with a crash or failure anywhere |
| `Schedule` | 1 plan, 2 nodes, cordon from time 1, drain from time 2, 2 operations, 1 fault | `NoAbandonedCordon`, `CordonOnTime`, `HandsOffReleased`, `NoEarlyReturn` | start times, drift, completed maintenance |
| `Converge` | 2 plans, 1 node, 2 operations, fair | `OwnershipInv`, `NodesConverge`, `StatusConverges`, `DeletionCompletes`, `ImplementsLease` | competition for a node; no lost wake-up; refinement of `Lease` |
| `ConvergeLag` | 1 plan, 1 node, start times, node cache lags, fair | `NodesConverge`, `StatusConverges` | convergence by events and timer alone |
| `DrainReady` | 2 nodes, 4 pods of all kinds, option edits, 1 fault | `TypeOK`, `ProtectedPodsSurvive`, `ReadyWhenDrained`, `ReadyIsKept` | who is evicted, and when a node is ready |
| `DrainTimeout` | 2 nodes, a pod that never ends, timeout, plan cache lags, 1 fault | `DeadlineNeverMoves` | the deadline under restarts and old copies |
| `DrainLiveness` | 2 nodes, guarded pods, 1 operation, 1 fault, fair cluster | `DrainCompletes` | progress without a pod watch |
| `DrainDeadline` | 1 node, a stuck and a guarded pod, timeout, pod cache lags, fair | `TimeoutFires`, `TimedOutIsTerminal`, `NoEvictionAfterTimeout` | a hopeless drain ends, once and for all |
| `Membership` | 2 plans (one with a lagging cache), 1 node, list or selector, webhook, every operation, 1 fault, fair | `TypeOK`, `NoGhostSeries`, `SnapshotFrozen`, `MembershipConverges`, `ImplementsLease` | selection, admission, watch and metrics while the node comes and goes |
| `Certs` | 2 replicas, both servers, a left-over CA of any age, 1 fault, fair | `TypeOK`, `NoForeignCA`, `SoloTrusted`, `NeverExpired`, `BootEnds` | create and rotation races, failures and restarts, renewal, a renewal loop that hangs |
| `OrphanNodeLag` | 1 plan, node cache lags | `NoOrphan` (violated) | finding 1 |
| `DeletionStuck` | 1 plan that lists 2 nodes, webhook | `DeletedPlansVanish` (violated) | finding 2 |

**Bounds.** `MaxEdits` bounds what users and the cluster do of their own accord,
`MaxFaults` failures and crashes, `MaxClock` time, `MaxBudget` the budget; they
appear only in guards. Two operations suffice for delete and re-create, for a
cordon followed by an uncordon and for an edit that meets a deletion; one fault
can strike between any two calls. Two plans are needed for conflicts, two nodes
for a spec that loses one of its nodes and for two goroutines. A clock of 2 or 3
has a time before, at and after each start time or deadline. `Membership` makes
one operation of users or cluster beside the two plans of the initial state, which
stand for the operations that led there; with two operations and no fault it was
also checked (936,000 states, not kept as a run because of its length). In `Certs` a
certificate lives for three checks and is renewed from two checks before its end,
and the clock runs to four: far enough for a certificate of the first start to
expire, for a renewal to fail once and be repeated, for a second rotation, and for a
loop to hang until its metrics certificate has expired, with `missed` at
`RenewBefore`. `DrainReady` leaves uncordoning users out, as `ReadyWhenDrained`
assumes them away.

**Fairness.** Passes proceed, timers fire, informers catch up and time passes
(weak fairness): the workers of controller-runtime, the delaying queue and the
list-and-watch loops do just that as long as the process lives. Nothing is
assumed of users or of whoever applies the webhook configuration, and faults are
bounded rather than fair. `BootEnds` uses that the start-up context has a deadline.
`MembershipConverges` speaks of the plans whose cache is current: a status written
from an old copy is never corrected (`StaleStatusPlanLag`, `SnapshotLag`). `HelpfulSpec` adds
that deleted pods end, nodes recover and the budget does; without it no drain
can be promised to end, and `TimeoutFires` does not use it. Because edits are
bounded, `<>[]` properties say: once users stop, this is where the system
settles.

## 4. What the runs found

1. *Orphans.* `CleanUp` lists the plan's nodes from the cache. A plan deleted
   right after an adoption the cache does not show loses its finalizer while a
   node keeps annotation and cordon, for ever. The theorem `OrphanFree` says that
   this lag is the only way.
2. *Stuck deletion.* The patch that removes the finalizer is an UPDATE, so the
   webhook reviews it. When a node of `spec.nodes` has left the cluster, which is
   what maintenance often ends in, `Handle` denies the patch; clean-up is retried
   for ever and the plan stays in Terminating. `MembershipConverges` says that
   this is the only thing that can hold up a plan.

Further disagreements met on the way. Each has a configuration that violates the
property named; they are kept out of the list of runs, which is limited to the
questions above.

| Configuration (module) | Property | The code | The document |
|---|---|---|---|
| `Stealing` (`OwnershipClaims`) | `NoStealing` | `AdoptNode` patches without precondition: two plans that resolve a node before either patches it both adopt it, the second one wins | architecture.md:42 "Two plans cannot own the same node" |
| `DrainTimedOutPhase` (`DrainClaims`) | `PhaseFollowsTimeout` | the branch that records the timeout returns before the phase is recomputed and asks for no requeue | maintenance-lifecycle.md:119 "the plan moves to `TimedOut`" |
| `DrainSlots` (`DrainClaims`) | `MaxParallelNodesEvicting` | `maxParallel` bounds concurrent eviction requests, not nodes with pods on their way out | architecture.md:67 "A slot opens the moment a node finishes draining" |
| `SnapshotLag` (`MembershipClaims`) | `SnapshotPopulatedOnce` | a pass that does not see the first snapshot yet takes another one | api-reference.md:84 "Populated once and never updated" |
| `SnapshotRejoin` (`MembershipClaims`) | `SnapshotNodesKept` | events are matched by the live selector: a snapshot node that comes back without the label wakes nobody | architecture.md:52 "use the snapshot, not a live label query" |
| `AdmissionRace` (`MembershipClaims`) | `NoConflict` | the webhook sees an owner only after the first pass | comment ownership.go:33 "should be empty if admission controller is working correctly" |
| `NodeSeries` (`MembershipClaims`) | `NoGhostNodeSeries` | the series of a node that left the status stay | comment metrics.go:142 "removes all metric series" |
| `CertTrust` (`CertClaims`) | `EveryPodTrusted` | a rotation replaces the `caBundle` at once; the other replicas keep certificates of the old CA | comment certbootstrap.go:50 "trusts every pod's server cert" |
| `CertRotationRace` (`CertClaims`) | `BundleIsSharedCA` | the patch of a rotation is not exclusive: the `caBundle` may end with a CA the Secret lost | comment certbootstrap.go:46 "the same CA" |
| `CertPair` (`CertClaims`) | `StartupSafe` | after a crash between the two renames the pair does not match, is not due, and the manager does not start | comment certbootstrap.go:94 "safe to call on every pod startup" |
| `CertBundle` (`CertClaims`) | `BundlePatchedOnStartup` | the `caBundle` is patched only together with a new certificate | manifests.yaml:9 "the operator patches it on startup" |
| `CertFollower` (`CertClaims`) | `CertsRotateInPlace` | with leader election only the leader renews | comment certbootstrap.go:74 "without requiring a pod restart" |
| `CertHang` (`CertClaims`) | `CertsRotateInPlace` | without a webhook configuration the renewal loop hangs in `patchCABundle`, before the metrics certificate, which expires | comment certbootstrap.go:74 "certs rotate before expiry" |
| `EarlyCordon` (`MCOwnership`) | `CordonOnTime` | the schedule is computed once per pass, the plan copy is refreshed by each patch: an edit that postpones the cordon in mid-pass is executed at once | api-reference.md:31 "time at which cordoning begins" |
| `ReadoptPlanLag` (`MCOwnership`) | `HandsOffReleased` | a lagging plan cache hides the drift just recorded, the node is adopted and cordoned again | comment reconcile_drift.go:14 "will not re-adopt it" |
| `StaleStatusPlanLag` (`MCOwnership`) | `StatusConverges` | a status written from an old copy is never corrected, as status updates are filtered | architecture.md:13 reconciles on "status updates" |
| `RemovedNode` (`OwnershipClaims`) | `RemovedNodeReleasedByPass` | the release loop is behind the schedule gate | maintenance-lifecycle.md:127 "on the next reconcile ... releases that node" |
| `ExternalCordon` (`OwnershipClaims`) | `ExternalCordonKept` | clean-up and release uncordon a node somebody else cordoned | drift-handling.md:30 "does not uncordon" |
| `ExternalCordonDrift` (`OwnershipClaims`) | `ExternalCordonDriftClears` | recorded drift is carried forward for ever | drift-handling.md:33 "drift clears automatically" |
| `DrainInFlight` (`DrainClaims`) | `InProgressWhileEvicting` | a blocked node's evictions of this pass do not count as in flight | events-and-conditions.md:18 |
| `DrainAbandoned` (`DrainClaims`) | `InProgressClears` | a pass without nodes to drain leaves the drain conditions alone | events-and-conditions.md:18 |
| `DrainAllReady` (`DrainClaims`) | `AllReadyAccurate` | the same for the all-ready flag | api-reference.md:81 |
| `DrainTimedOutLag` (`MCDrain`) | `NoEvictionAfterTimeout` | `UpdateStatus` replaces the conditions by a list made from an old copy, which clears `DrainTimedOut`, and the same pass evicts again | maintenance-lifecycle.md:119 "The operator stops retrying", events-and-conditions.md:31 "not cleared by the operator" |
| `DrainPodLag` (`MCDrain`) | `ReadyWhenDrained` | the pod list is a cached one | api-reference.md:104 "fully drained" |
| `DrainPhase` (`DrainClaims`) | `DrainingBeforeBlocked` | `computePhase` tests `DrainBlocked` first | maintenance-lifecycle.md:19 "the phase is `Draining`" |
| `DrainBlockedCount` (`DrainClaims`) | `BlockedNodesCounted` | only nodes with nothing but blocked pods count | api-reference.md:78 "at least one pod blocking drain" |
| `DrainProgress` (`DrainClaims`) | `ProgressIsHonest` | a failed pod list is written as zero pods, 100 percent | api-reference.md:96 |

## 5. Theorems

TLAPS checks five modules of theorems, for every value of the constants that
satisfies the named assumptions (`OwnershipAssumption`, `MembershipAssumption`,
`DrainAssumption`, `CertsAssumption`): any sets of nodes, plans, labels, specs and
replicas, any finite set of pods, any bounds. What a theorem assumes beyond that is
in its `ASSUME`; where a configuration shows that it fails otherwise, the
configuration is named.

| Theorem | States | Assumes |
|---|---|---|
| `TypeCorrect` | `Spec => []TypeOK` (`Ownership`) | |
| `OwnershipInvariant`, `OrphanFree` | `[]OwnershipInv`, `[]NoOrphan` | `~NodeLag` (`OrphanNodeLag`) |
| `LeaseRefinement` | `ImplementsLease` (`Ownership`) | `~NodeLag` |
| `CordonsKept` | `[]NoAbandonedCordon` | `~NodeLag`, `OnePlan` |
| `ReturnsWhenDone` | `NoEarlyReturn` | `~NodeLag`, `OnePlan` |
| `CordonsOnTime` | `CordonOnTime` | `~NodeLag`, `OnePlan`, `EditsKeepStart` (`EarlyCordon`) |
| `NoPhantoms` | `[]NoPhantomDrift` | `~NodeLag`, `OnePlan`, nobody uncordons |
| `MembershipTypeCorrect` | `[]TypeOK` (`Membership`) | |
| `GhostFree` | `[]NoGhostSeries` | |
| `SnapshotsFrozen` | `SnapshotFrozen` | |
| `MembershipRefinesLease` | `ImplementsLease` (`Membership`) | |
| `DrainTypeCorrect` | `[]TypeOK` (`Drain`) | |
| `DeadlineFixed` | `DeadlineNeverMoves` | |
| `NoLateEvictions` | `NoEvictionAfterTimeout` | `~PlanLag` (`DrainTimedOutLag`) |
| `ProtectedPods` | `ProtectedPodsSurvive` | |
| `ReadinessKept` | `ReadyIsKept` | `~PlanLag` |
| `TimeoutKept` | `TimedOutIsTerminal` | `~PlanLag` (`DrainTimedOutLag`) |
| `ReadyMeansDrained` | `ReadyWhenDrained` | `~PodLag` (`DrainPodLag`), `~PlanLag`, nobody uncordons |
| `CertsTypeCorrect` | `[]TypeOK` (`Certs`) | |
| `ForeignFree` | `[]NoForeignCA` | |
| `SoloReplicaTrusted` | `[]SoloTrusted` | |
| `ExpiryFree` | `[]NeverExpired` | `EveryoneRenews` (`CertFollower`) |

None of these properties is inductive by itself; each proof goes through a
strengthening that TLC checked first, on the instances of the runs and, for
`Membership`, also with both plan caches lagging, without webhook and with two
operations.

**Ownership.** `NoOrphan` can only be broken by `RemoveFinalizer`, and whether it is
depends on what the pass collected earlier. `OwnershipInv` adds `nodeCache = node`
(from `~NodeLag`); `PlanInv`, how the plan in the server, the plan in the cache and
the state of the pass hang together (a pass past `ensureFinalizer` works on a
protected plan; a clean-up runs only when neither the server nor the cache shows an
active plan; a cached deletion is never followed by an active plan before the cache
moves on), which is what keeps a lagging *plan* cache harmless; and `CleanUpInv`, a
running clean-up has every node the plan owns still on its list, and its copy of
such a node shows the plan as owner, so that `ReleaseNode` does not return early.
From these every step is a step of `Lease` or leaves owners and finalizers alone:
`AdoptNode` claims, a release frees, `EnsureFinalizer` protects, `RemoveFinalizer`
and `CreatePlan` retire a plan that holds nothing.

**One plan.** `SoloInv` adds that the copies of nodes a pass holds agree with the
server in the operator's own annotations (`CopiesCurrent`: only the unschedulable
flag can be changed by others) and what the lists of the pass contain (`WorkInv`).
With `OnePlan` dropped, TLC finds a violation of each of the four properties for two
plans that adopt the same node: adoption has no precondition (`Stealing`).
`CordonsOnTime` further needs that the copy of the plan a pass works with still has
the cordon of the server (`SpecInv`, from `PlanInv`: an active plan in a lagging
cache is still the same plan) and that the schedule computed by `Resolve` stays true
as time goes on (`DueInv`). `EditsKeepStart` lets users edit anything but the start
of the cordon; an edit of that is what `EarlyCordon` shows. `NoPhantoms` rests on
`FlagInv`: a node annotated as cordoned is unschedulable, in the server and in every
copy.

**Membership.** `MembershipInv` is `PlanInv` again, `OwnerInv` (the owner of a node is
protected, and a clean-up has the node on its list), `SeriesInv` (the registry has a
plan only while its finalizer holds it, and not between `DeletePlan` and the removal
of the finalizer) and `SnapshotInv` (a pass that knows of a snapshot takes no other
and adopts from it). No hypothesis is needed: the model's node cache is current, and
the lag of the plan cache, the webhook's refusals and nodes that leave and come back
are all covered.

**Drain.** `TypeOK` bounds the counters by the number of pods, which holds because
`classifyPods` puts a pod into one class and a goroutine evicts each at most once
(`CountsInv`, with the library's facts on cardinalities). `PassInv` says that the pass
drains with the server's own deadline and only while the server has no
`DrainTimedOut`, because its copy is the response to its last status patch: that is
why the deadline needs no assumption on the plan cache. The ban on late evictions
does, since it is about the time after a timeout and not about the flag: that a flag
once set stays set is `FreshInv`, the rest of the agreement between copy and server,
which needs a current plan cache; with it `gaveUp` and the flag are the same.
`ProtectedPodsSurvive` relates a pod that a step asks to leave to the options of the
pass that asks, so it needs only what a goroutine has on its list. `SeenInv`
is what ready means: the node of a goroutine is cordoned, and as long as its outcome
may be "drained" every pod that occupies it is still on the goroutine's list.

**Certs.** `StoredInv` follows a CA from the Secret to local variables, disk,
listeners and `caBundle`. `PassInv` says what a running check has established,
whatever other replicas do to the Secret meanwhile: the CA it is about to store is
fresh, and, as long as no tick has come while it ran, nothing it is done with is
expiring. `ProcessInv` ties modes, ticks and checks together; from it a check that
waits while the clock moves belongs to a renewal loop and so does get a tick.
`LifeInv` keeps a margin: what a managed replica depends on has `RenewBefore` checks
left, less `missed` and less one while a check is due or under way (`Late`). A check
that completes on time restores the margin, a failure or an interval of waiting costs
one each, and nothing else costs any; so nothing expires while
`missed < RenewBefore` (720 hours against a check every 12), and there is no
assumption on the number of faults or on the length of a wait. That the bound is
needed is what `CertHang` shows.
`SoloCertInv` says which CA signed what a single replica
has on disk at each point of `EnsureCerts`. `CertsAssumption` asks for
`RenewBefore <= Validity`, as the constants of `certbootstrap.go` have it: otherwise
a new certificate would be due at once.

Only model-checked. Liveness (`NodesConverge`, `StatusConverges`,
`DeletionCompletes`, `MembershipConverges`, `DrainCompletes`, `TimeoutFires`,
`BootEnds`): the prover has no fairness and no `ENABLED`. `HandsOffReleased`: its
proof is open, see section 8. The findings of section 4, which are violations.

## 6. Reading a property against the code

`NoOrphan`: order of `ensureFinalizer` and the first adoption; `handleDeletion`
after `CleanUp`. `NoAbandonedCordon`: `ReleaseNode` clears both annotations in
one patch. `NoPhantomDrift`: `AdoptNode` cordons in the same patch.
`HandsOffReleased`: the two skips in `ReconcileOwnership`, and `UpdateStatus`
before `ReconcileDrift`. `CordonOnTime`: `ComputeSchedule`. `NodesConverge`,
`StatusConverges`: the predicates. `DeletionCompletes`: `planPredicate`.
`ReadyWhenDrained`: the switch of `applyDrainResults`. `ProtectedPodsSurvive`:
`classifyPods`. `DrainCompletes`: the returned requeue. `DeadlineNeverMoves`,
`TimeoutFires`, `NoEvictionAfterTimeout`, `TimedOutIsTerminal`: the timeout block
and the skip at the head of `ReconcileDrain`, and the conditions `UpdateStatus` keeps. `NoEarlyReturn`: the early returns of
`UncordonNode` and the annotation that `AdoptNode` sets. `ImplementsLease`:
`ensureFinalizer` before the first adoption, `CleanUp` before the finalizer goes.
`SnapshotFrozen`: the switch in `ComputeOwnershipResolution`. `MembershipConverges`:
`nodeRelevantToPlan`, the retries of refused calls. `NoGhostSeries`: `DeletePlan`
before the last patch of `handleDeletion`. `NoForeignCA`: the `AlreadyExists` branch
of `ensureCA`. `SoloTrusted`: `caRotated` in `EnsureCerts`. `NeverExpired`:
`renewBefore` against `renewalCheckInterval`, and the loop in `patchCABundle`; a torn pair is the exception, since
`serverCertNeedsRenewal` looks at `tls.crt` alone. `BootEnds`: the context of `main`.

## 7. Running it

    tlc -workers 2 -config Lifecycle.cfg MCOwnership
    tlc -workers 2 -config Membership.cfg MCMembership
    tlc -workers 2 -config DrainReady.cfg MCDrain
    tlc -workers 2 -config Certs.cfg MCCerts
    tlc -workers 2 -config CertPair.cfg CertClaims
    tlapm OwnershipProofs.tla
    tlapm SoloPlanProofs.tla
    tlapm MembershipProofs.tla
    tlapm DrainProofs.tla
    tlapm CertsProofs.tla

## 8. Not modelled, and the plan

Order of the work: ownership first, since a mistake there leaves nodes out of
service; then the drain, which is the longest piece of logic; then selection,
admission, metrics, the abstract ownership and the certificates. These are done.
Next:

1. *Theorems*: `HandsOffReleased`, for plans that always cordon and a current plan
   cache (`ReadoptPlanLag` needs the lag). It wants, beside `SoloInv`, that the copy
   has the server's status during a pass, and that a node which the plan owns and
   whose status is ready or drifted is annotated as cordoned.
2. *Status*: `NotReadySince` and the NodeNotReady condition with its threshold.

Not modelled. The contents of the preview and the values of the gauges: computed
from the status, read by nobody in the program. Events and log texts: written and
never read. Issue lists of `nodes.go` (`NodeNotFound`, `NoMatchingNodes`): built and
dropped by the caller. Key material, subject names and file permissions of the
certificates. Flags and library options in `cmd/main.go`. Generated deep copies,
charts, manifests and dashboards.
