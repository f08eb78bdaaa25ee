-------------------------- MODULE MembershipProofs --------------------------
(***************************************************************************)
(* Theorems about Membership, for any nodes, plans, labels and specs, with *)
(* or without the webhook, and however far the plan cache lags.            *)
(***************************************************************************)
EXTENDS Membership, TLAPS

(***************************************************************************)
(* The inductive invariant.                                                *)
(***************************************************************************)

\* A plan the operator works on like any other: created, protected by the
\* finalizer, not being deleted.
Active(o) == o.present /\ ~o.deleting /\ o.finalizer

WorkingStates == {"resolve", "adopt", "release"}
CleaningStates == {"list", "clean", "remove"}

\* A plan in the API server (pl), in the cache (ca) and the state of its pass
\* (at): a pass past ensureFinalizer works on a protected plan, a clean-up runs
\* only when neither the server nor the cache has an active plan.
PlanPassInv(pl, ca, at) ==
    /\ pl.deleting => pl.present /\ pl.finalizer
    /\ Active(ca) => pl.present /\ pl.finalizer
    /\ ca.deleting => ~Active(pl)
    /\ at = "finalizer" /\ ca.deleting => pl.deleting
    /\ at \in WorkingStates => pl.present /\ pl.finalizer
    /\ at \in CleaningStates => ~Active(ca) /\ ~Active(pl)

PlanInv == \A p \in Plans : PlanPassInv(plan[p], planCache[p], pc[p])

\* The owner of a node is protected by a finalizer, and if it is being cleaned
\* up, the clean-up has the node on its list.
OwnedSafely(n, p) ==
    node[n].owner = p =>
        /\ node[n].present
        /\ plan[p].present /\ plan[p].finalizer
        /\ pc[p] = "clean" => n \in work[p].release
        /\ pc[p] # "remove"

OwnerInv == \A n \in Nodes, p \in Plans : OwnedSafely(n, p)

\* The registry has a plan only while its finalizer holds it, and not between
\* DeletePlan and the removal of the finalizer.
SeriesHeld(p) ==
    series[p].plan => plan[p].present /\ plan[p].finalizer /\ pc[p] # "remove"

SeriesInv == \A p \in Plans : SeriesHeld(p)

\* A pass that knows of a snapshot takes no other one, and adopts from it.
SnapshotObeyed(p) ==
    pc[p] = "adopt" /\ planCopy[p].snapshot =>
        /\ ~work[p].fresh
        /\ planCopy[p].spec.selector # {} => work[p].adopt \subseteq planCopy[p].resolved

SnapshotInv == \A p \in Plans : SnapshotObeyed(p)

\* The four together are preserved by every step.
MembershipInv == PlanInv /\ OwnerInv /\ SeriesInv /\ SnapshotInv

(***************************************************************************)
(* Types.                                                                  *)
(***************************************************************************)

Series == [plan: BOOLEAN, nodes: SUBSET Nodes]

\* Objects that are absent, new or empty.
LEMMA EmptyTypes ==
    /\ NoNode \in NodeObject /\ \A ls \in SUBSET Labels : NewNode(ls) \in NodeObject
    /\ NoPlanObject \in PlanObject /\ NoWork \in PassWork /\ NoSeries \in Series
<1>1. NoNode \in NodeObject /\ \A ls \in SUBSET Labels : NewNode(ls) \in NodeObject
  BY DEF NoNode, NewNode, NodeObject
<1>2. 0 \in 0..MaxEdits
  BY MembershipAssumption
<1>3. [nodes |-> {}, selector |-> {}] \in PlanSpec
  BY DEF PlanSpec
<1>4. NoPlanObject \in PlanObject
  BY <1>2, <1>3 DEF NoPlanObject, NewPlan, PlanObject
<1>5. NoWork \in PassWork /\ NoSeries \in Series
  BY DEF NoWork, PassWork, NoSeries, Series
<1> QED BY <1>1, <1>4, <1>5

\* A plan that has just been created.
LEMMA NewPlanType ==
    ASSUME NEW s \in Specs, NEW g \in 0..MaxEdits
    PROVE  /\ NewPlan(s, g) \in PlanObject
           /\ NewPlan(s, g).present /\ ~NewPlan(s, g).deleting /\ ~NewPlan(s, g).finalizer
<1>1. s \in PlanSpec
  BY MembershipAssumption
<1> QED BY <1>1 DEF NewPlan, PlanObject

\* A write changes the server, and each cached plan follows or lags.
LEMMA CommitEffect ==
    ASSUME NEW nn, NEW np, NEW q, Commit(nn, np, q)
    PROVE  /\ node' = nn /\ plan' = np
           /\ \A p \in Plans : planCache'[p] = planCache[p] \/ planCache'[p] = np[p]
BY DEF Commit

\* A write keeps the types.
LEMMA CommitType ==
    ASSUME TypeOK, NEW nn \in [Nodes -> NodeObject], NEW np \in [Plans -> PlanObject],
           NEW q \in SUBSET Plans, Commit(nn, np, q)
    PROVE  /\ node' \in [Nodes -> NodeObject] /\ plan' \in [Plans -> PlanObject]
           /\ planCache' \in [Plans -> PlanObject] /\ queue' \in SUBSET Plans
<1>1. planCache' = [p \in Plans |-> IF p \in Lagging THEN planCache[p] ELSE np[p]]
  BY DEF Commit
<1>2. planCache' \in [Plans -> PlanObject]
  BY <1>1 DEF TypeOK
<1>3. queue' \in SUBSET Plans
  BY DEF Commit, Woken
<1> QED BY <1>2, <1>3 DEF Commit

\* The end of a pass.
LEMMA EndPassType ==
    ASSUME TypeOK, NEW p \in Plans, EndPass(p)
    PROVE  /\ pc' = [pc EXCEPT ![p] = "idle"]
           /\ pc' \in [Plans -> {"idle", "finalizer", "resolve", "adopt", "release",
                                 "list", "clean", "remove"}]
           /\ planCopy' \in [Plans -> PlanObject] /\ work' \in [Plans -> PassWork]
           /\ \A q \in Plans \ {p} : work'[q] = work[q] /\ planCopy'[q] = planCopy[q]
BY EmptyTypes DEF EndPass, Goto, TypeOK

\* ComputeOwnershipResolution.
LEMMA ResolutionType ==
    ASSUME NEW p, NEW pl \in PlanObject
    PROVE  /\ Resolution(p, pl) \in PassWork
           /\ Resolution(p, pl).fresh <=> pl.spec.selector # {} /\ ~pl.snapshot
           /\ pl.spec.selector # {} /\ pl.snapshot
                 => Resolution(p, pl).adopt \subseteq pl.resolved
<1>1. Desired(pl) \in SUBSET Nodes
  BY DEF Desired, Present, Matching, PlanObject, PlanSpec
<1>2. pl.spec.selector # {} /\ pl.snapshot => Desired(pl) \subseteq pl.resolved
  BY DEF Desired
<1>3. OwnedBy(p) \in SUBSET Nodes
  BY DEF OwnedBy, Present
<1> HIDE DEF Desired, OwnedBy
<1> QED BY <1>1, <1>2, <1>3 DEF Resolution, PassWork, PlanObject

\* Two versions of a plan in the same stage of its life.
SameLife(a, b) ==
    a.present = b.present /\ a.deleting = b.deleting /\ a.finalizer = b.finalizer

\* UpdateStatus's patch: the snapshot only changes for a fresh resolution.
LEMMA StatusOfType ==
    ASSUME NEW pl \in PlanObject, NEW w \in PassWork, NEW srv \in PlanObject
    PROVE  LET o == StatusOf(pl, w, srv)
           IN  /\ o \in PlanObject /\ SameLife(srv, o)
               /\ srv.snapshot => o.snapshot
               /\ ~w.fresh => o.resolved = srv.resolved
<1> DEFINE a == MergeField(srv.listed, pl.listed, w.all)
           b == IF w.fresh THEN MergeField(srv.resolved, pl.resolved, w.all) ELSE srv.resolved
           c == srv.snapshot \/ w.fresh
<1>1. a \in SUBSET Nodes /\ b \in SUBSET Nodes
  BY DEF MergeField, PlanObject, PassWork
<1>2. c \in BOOLEAN
  OBVIOUS
<1>3. StatusOf(pl, w, srv) = [srv EXCEPT !.listed = a, !.resolved = b, !.snapshot = c]
  BY DEF StatusOf
<1>4. (srv.snapshot => c) /\ (~w.fresh => b = srv.resolved)
  OBVIOUS
<1> HIDE DEF a, b, c
<1>5. LET o == [srv EXCEPT !.listed = a, !.resolved = b, !.snapshot = c]
      IN  o \in PlanObject /\ SameLife(srv, o) /\ o.snapshot = c /\ o.resolved = b
  BY <1>1, <1>2 DEF SameLife, PlanObject
<1> QED BY <1>3, <1>4, <1>5

\* An operation of a user or of the cluster.
LEMMA UserWritesType ==
    ASSUME TypeOK, NEW op, NEW nn \in [Nodes -> NodeObject], NEW np \in [Plans -> PlanObject],
           UserWrites(op, nn, np)
    PROVE  TypeOK'
<1>1. Commit(nn, np, queue) /\ queue \in SUBSET Plans
  BY DEF UserWrites, TypeOK
<1>2. /\ node' \in [Nodes -> NodeObject] /\ plan' \in [Plans -> PlanObject]
      /\ planCache' \in [Plans -> PlanObject] /\ queue' \in SUBSET Plans
  BY <1>1, CommitType
<1>3. edits' \in 0..MaxEdits
  BY MembershipAssumption DEF UserWrites, TypeOK
<1>4. UNCHANGED <<series, pc, planCopy, work, faults>>
  BY DEF UserWrites, passVars
<1> QED BY <1>2, <1>3, <1>4 DEF TypeOK

\* CreatePlan writes a plan without finalizer.
LEMMA CreateEffect ==
    ASSUME TypeOK, NEW p \in Plans, CreatePlan(p)
    PROVE  \E np \in [Plans -> PlanObject] :
              /\ UserWrites("create", node, np)
              /\ ~plan[p].present /\ \A q \in Plans \ {p} : np[q] = plan[q]
              /\ np[p].present /\ ~np[p].deleting /\ ~np[p].finalizer
<1>1. PICK s \in Specs : UserWrites("create", node, [plan EXCEPT ![p] = NewPlan(s, edits + 1)])
  BY DEF CreatePlan
<1>2. edits + 1 \in 0..MaxEdits
  BY <1>1, MembershipAssumption DEF UserWrites, TypeOK
<1> DEFINE o == NewPlan(s, edits + 1)
           np == [plan EXCEPT ![p] = o]
<1>3. o \in PlanObject /\ o.present /\ ~o.deleting /\ ~o.finalizer
  BY <1>2, NewPlanType
<1> HIDE DEF o
<1>4. np \in [Plans -> PlanObject] /\ np[p] = o /\ \A q \in Plans \ {p} : np[q] = plan[q]
  BY <1>3 DEF TypeOK
<1>5. UserWrites("create", node, np) /\ ~plan[p].present
  BY <1>1 DEF CreatePlan, o
<1> HIDE DEF np
<1> QED BY <1>3, <1>4, <1>5

\* EditSpec changes spec and generation.
LEMMA EditEffect ==
    ASSUME TypeOK, NEW p \in Plans, EditSpec(p)
    PROVE  \E np \in [Plans -> PlanObject] :
              /\ UserWrites("edit", node, np)
              /\ \A q \in Plans : SameLife(plan[q], np[q]) /\ np[q].snapshot = plan[q].snapshot
                                     /\ np[q].resolved = plan[q].resolved
<1>1. PICK s \in Specs : UserWrites("edit", node, [plan EXCEPT ![p].spec = s,
                                                               ![p].generation = edits + 1])
  BY DEF EditSpec
<1>2. edits + 1 \in 0..MaxEdits /\ s \in PlanSpec
  BY <1>1, MembershipAssumption DEF UserWrites, TypeOK
<1> DEFINE g == edits + 1
           o == [plan[p] EXCEPT !.spec = s, !.generation = g]
           np == [plan EXCEPT ![p].spec = s, ![p].generation = g]
<1>3. UserWrites("edit", node, np)
  BY <1>1
<1> HIDE DEF g
<1>4. g \in 0..MaxEdits
  BY <1>2 DEF g
<1>5. plan[p] \in PlanObject /\ plan \in [Plans -> PlanObject]
  BY DEF TypeOK
<1>6. /\ o \in PlanObject /\ SameLife(plan[p], o) /\ o.snapshot = plan[p].snapshot
      /\ o.resolved = plan[p].resolved
  BY <1>2, <1>4, <1>5 DEF SameLife, PlanObject
<1>7. np = [plan EXCEPT ![p] = o]
  BY <1>5
<1>8. np \in [Plans -> PlanObject] /\ np[p] = o /\ \A q \in Plans \ {p} : np[q] = plan[q]
  <2> HIDE DEF o, np
  <2> QED BY <1>5, <1>6, <1>7
<1> HIDE DEF o, np
<1> QED BY <1>3, <1>6, <1>8 DEF SameLife

\* DeletePlan marks a plan with a finalizer, and removes one without.
LEMMA DeleteEffect ==
    ASSUME TypeOK, NEW p \in Plans, DeletePlan(p)
    PROVE  \E np \in [Plans -> PlanObject] :
              /\ UserWrites("delete", node, np)
              /\ plan[p].present /\ ~plan[p].deleting
              /\ \A q \in Plans \ {p} : np[q] = plan[q]
              /\ plan[p].finalizer =>
                    /\ np[p].present /\ np[p].deleting /\ np[p].finalizer
                    /\ np[p].snapshot = plan[p].snapshot /\ np[p].resolved = plan[p].resolved
              /\ ~plan[p].finalizer => ~np[p].present /\ ~np[p].deleting /\ ~np[p].finalizer
<1> DEFINE o == IF plan[p].finalizer THEN [plan[p] EXCEPT !.deleting = TRUE] ELSE NoPlanObject
           np == [plan EXCEPT ![p] = o]
<1>0. plan[p] \in PlanObject /\ plan \in [Plans -> PlanObject]
  BY DEF TypeOK
<1>1. UserWrites("delete", node, np) /\ plan[p].present /\ ~plan[p].deleting
  BY DEF DeletePlan
<1>2. /\ o \in PlanObject
      /\ plan[p].finalizer => /\ o.present /\ o.deleting /\ o.finalizer
                              /\ o.snapshot = plan[p].snapshot /\ o.resolved = plan[p].resolved
      /\ ~plan[p].finalizer => ~o.present /\ ~o.deleting /\ ~o.finalizer
  <2>1. CASE plan[p].finalizer
    BY <1>0, <1>1, <2>1 DEF PlanObject
  <2>2. CASE ~plan[p].finalizer
    BY <2>2, EmptyTypes DEF NoPlanObject, NewPlan
  <2> QED BY <2>1, <2>2
<1> HIDE DEF o
<1>3. np \in [Plans -> PlanObject] /\ np[p] = o /\ \A q \in Plans \ {p} : np[q] = plan[q]
  BY <1>0, <1>2
<1> HIDE DEF np
<1> QED BY <1>1, <1>2, <1>3

\* What the cluster does to nodes: a node joins, leaves or is relabelled.
ClusterOps == {"join", "leave", "relabel"}

\* A node joins, leaves or is relabelled: it is free, or keeps its owner.
LEMMA ClusterEffect ==
    ASSUME TypeOK, NEW n \in Nodes, NodeJoins(n) \/ NodeLeaves(n) \/ Relabel(n)
    PROVE  \E nn \in [Nodes -> NodeObject], op \in ClusterOps :
              /\ UserWrites(op, nn, plan) /\ \A m \in Nodes \ {n} : nn[m] = node[m]
              /\ nn[n].owner = NoPlan \/ (nn[n].present /\ nn[n].owner = node[n].owner)
<1>0. node[n] \in NodeObject /\ node \in [Nodes -> NodeObject]
  BY DEF TypeOK
<1>1. \E o \in NodeObject, op \in ClusterOps :
         /\ UserWrites(op, [node EXCEPT ![n] = o], plan)
         /\ o.owner = NoPlan \/ (o.present /\ o.owner = node[n].owner)
  <2>1. CASE NodeJoins(n)
    <3>1. PICK ls \in SUBSET Labels : UserWrites("join", [node EXCEPT ![n] = NewNode(ls)], plan)
      BY <2>1 DEF NodeJoins
    <3>2. NewNode(ls) \in NodeObject /\ NewNode(ls).owner = NoPlan
      BY EmptyTypes DEF NewNode
    <3> QED BY <3>1, <3>2 DEF ClusterOps
  <2>2. CASE NodeLeaves(n)
    <3>1. UserWrites("leave", [node EXCEPT ![n] = NoNode], plan)
      BY <2>2 DEF NodeLeaves
    <3>2. NoNode \in NodeObject /\ NoNode.owner = NoPlan
      BY EmptyTypes DEF NoNode
    <3> QED BY <3>1, <3>2 DEF ClusterOps
  <2>3. CASE Relabel(n)
    <3>1. PICK ls \in SUBSET Labels : UserWrites("relabel", [node EXCEPT ![n].labels = ls], plan)
      BY <2>3 DEF Relabel
    <3> DEFINE o == [node[n] EXCEPT !.labels = ls]
    <3>2. o \in NodeObject /\ o.present = node[n].present /\ o.owner = node[n].owner
      BY <1>0 DEF NodeObject
    <3>3. [node EXCEPT ![n].labels = ls] = [node EXCEPT ![n] = o]
      BY <1>0
    <3>4. node[n].present
      BY <2>3 DEF Relabel
    <3> HIDE DEF o
    <3>5. UserWrites("relabel", [node EXCEPT ![n] = o], plan)
      BY <3>1, <3>3
    <3> QED BY <3>2, <3>4, <3>5 DEF ClusterOps
  <2> QED BY <2>1, <2>2, <2>3
<1>2. PICK o \in NodeObject, op \in ClusterOps :
         /\ UserWrites(op, [node EXCEPT ![n] = o], plan)
         /\ o.owner = NoPlan \/ (o.present /\ o.owner = node[n].owner)
  BY <1>1
<1> DEFINE nn == [node EXCEPT ![n] = o]
<1>3. nn \in [Nodes -> NodeObject] /\ nn[n] = o /\ \A m \in Nodes \ {n} : nn[m] = node[m]
  BY <1>0
<1>4. UserWrites(op, nn, plan)
  BY <1>2
<1> HIDE DEF nn
<1> QED BY <1>2, <1>3, <1>4

\* What every patch of the operator writes.
LEMMA PatchEffect ==
    ASSUME TypeOK, NEW p \in Plans
    PROVE  /\ \A n \in Nodes, o \in Plans \union {NoPlan} :
                 LET nn == [node EXCEPT ![n].owner = o]
                 IN  /\ nn \in [Nodes -> NodeObject]
                     /\ nn[n].owner = o /\ nn[n].present = node[n].present
                     /\ \A m \in Nodes \ {n} : nn[m] = node[m]
           /\ \A o \in PlanObject :
                 LET np == [plan EXCEPT ![p] = o]
                 IN  /\ np \in [Plans -> PlanObject]
                     /\ np[p] = o /\ \A q \in Plans \ {p} : np[q] = plan[q]
<1>1. node \in [Nodes -> NodeObject] /\ plan \in [Plans -> PlanObject]
  BY DEF TypeOK
<1>2. ASSUME NEW n \in Nodes, NEW o \in Plans \union {NoPlan}
      PROVE  LET nn == [node EXCEPT ![n].owner = o]
             IN  /\ nn \in [Nodes -> NodeObject]
                 /\ nn[n].owner = o /\ nn[n].present = node[n].present
                 /\ \A m \in Nodes \ {n} : nn[m] = node[m]
  BY <1>1 DEF NodeObject
<1>3. ASSUME NEW o \in PlanObject
      PROVE  LET np == [plan EXCEPT ![p] = o]
             IN  /\ np \in [Plans -> PlanObject]
                 /\ np[p] = o /\ \A q \in Plans \ {p} : np[q] = plan[q]
  BY <1>1
<1> QED BY <1>2, <1>3

\* The patch that adds the finalizer.
LEMMA EnsureFinalizerEffect ==
    ASSUME TypeOK, NEW p \in Plans, EnsureFinalizer(p)
    PROVE  /\ pc[p] = "finalizer" /\ plan[p].present /\ pc' = [pc EXCEPT ![p] = "resolve"]
           /\ node' = node /\ plan' \in [Plans -> PlanObject]
           /\ plan'[p].present /\ plan'[p].finalizer /\ plan'[p].deleting = plan[p].deleting
           /\ plan'[p].snapshot = plan[p].snapshot /\ plan'[p].resolved = plan[p].resolved
           /\ \A q \in Plans \ {p} : plan'[q] = plan[q]
           /\ \A q \in Plans : planCache'[q] = planCache[q] \/ planCache'[q] = plan'[q]
           /\ planCache' \in [Plans -> PlanObject] /\ queue' \in SUBSET Plans
           /\ planCopy' = [planCopy EXCEPT ![p] = plan'[p]]
           /\ UNCHANGED <<series, work, edits, faults>>
<1> DEFINE o == [plan[p] EXCEPT !.finalizer = TRUE]
           np == [plan EXCEPT ![p] = o]
<1>0. plan[p] \in PlanObject /\ node \in [Nodes -> NodeObject] /\ queue \in SUBSET Plans
  BY DEF TypeOK
<1>1. /\ pc[p] = "finalizer" /\ plan[p].present /\ pc' = [pc EXCEPT ![p] = "resolve"]
      /\ Commit(node, np, queue) /\ planCopy' = [planCopy EXCEPT ![p] = o]
      /\ UNCHANGED <<series, work, edits, faults>>
  BY DEF EnsureFinalizer, Goto, bounds
<1>2. /\ o \in PlanObject /\ o.finalizer /\ o.present = plan[p].present
      /\ o.deleting = plan[p].deleting /\ o.snapshot = plan[p].snapshot
      /\ o.resolved = plan[p].resolved
  BY <1>0 DEF PlanObject
<1> HIDE DEF o
<1>3. np \in [Plans -> PlanObject] /\ np[p] = o /\ \A q \in Plans \ {p} : np[q] = plan[q]
  BY <1>2, PatchEffect
<1> HIDE DEF np
<1>4. /\ node' = node /\ plan' = np
      /\ \A q \in Plans : planCache'[q] = planCache[q] \/ planCache'[q] = np[q]
  BY <1>1, CommitEffect
<1>5. planCache' \in [Plans -> PlanObject] /\ queue' \in SUBSET Plans
  BY <1>0, <1>1, <1>3, CommitType
<1> QED BY <1>1, <1>2, <1>3, <1>4, <1>5

\* The patch of the status.
LEMMA UpdateStatusEffect ==
    ASSUME TypeOK, NEW p \in Plans, UpdateStatus(p)
    PROVE  /\ pc[p] = "adopt" /\ pc' = [pc EXCEPT ![p] = "release"]
           /\ node' = node /\ plan' \in [Plans -> PlanObject]
           /\ SameLife(plan[p], plan'[p])
           /\ plan[p].snapshot => plan'[p].snapshot
           /\ ~work[p].fresh => plan'[p].resolved = plan[p].resolved
           /\ \A q \in Plans \ {p} : plan'[q] = plan[q]
           /\ \A q \in Plans : planCache'[q] = planCache[q] \/ planCache'[q] = plan'[q]
           /\ planCache' \in [Plans -> PlanObject] /\ queue' \in SUBSET Plans
           /\ planCopy' = [planCopy EXCEPT ![p] = plan'[p]]
           /\ UNCHANGED <<series, work, edits, faults>>
<1> DEFINE o == StatusOf(planCopy[p], work[p], plan[p])
           np == [plan EXCEPT ![p] = o]
<1>0. /\ plan[p] \in PlanObject /\ planCopy[p] \in PlanObject /\ work[p] \in PassWork
      /\ node \in [Nodes -> NodeObject] /\ queue \in SUBSET Plans
  BY DEF TypeOK
<1>1. /\ pc[p] = "adopt" /\ pc' = [pc EXCEPT ![p] = "release"]
      /\ Commit(node, np, queue) /\ planCopy' = [planCopy EXCEPT ![p] = o]
      /\ UNCHANGED <<series, work, edits, faults>>
  BY DEF UpdateStatus, Goto, bounds
<1>2. /\ o \in PlanObject /\ SameLife(plan[p], o)
      /\ plan[p].snapshot => o.snapshot
      /\ ~work[p].fresh => o.resolved = plan[p].resolved
  BY <1>0, StatusOfType
<1> HIDE DEF o
<1>3. np \in [Plans -> PlanObject] /\ np[p] = o /\ \A q \in Plans \ {p} : np[q] = plan[q]
  BY <1>2, PatchEffect
<1> HIDE DEF np
<1>4. /\ node' = node /\ plan' = np
      /\ \A q \in Plans : planCache'[q] = planCache[q] \/ planCache'[q] = np[q]
  BY <1>1, CommitEffect
<1>5. planCache' \in [Plans -> PlanObject] /\ queue' \in SUBSET Plans
  BY <1>0, <1>1, <1>3, CommitType
<1> QED BY <1>1, <1>2, <1>3, <1>4, <1>5

\* The patch that removes the finalizer.
LEMMA RemoveFinalizerEffect ==
    ASSUME TypeOK, NEW p \in Plans, RemoveFinalizer(p)
    PROVE  /\ pc[p] = "remove" /\ EndPass(p)
           /\ node' = node /\ plan' \in [Plans -> PlanObject]
           /\ ~plan'[p].deleting /\ ~plan'[p].finalizer
           /\ plan'[p].present =>
                 /\ plan[p].present /\ plan'[p].snapshot = plan[p].snapshot
                 /\ plan'[p].resolved = plan[p].resolved
           /\ \A q \in Plans \ {p} : plan'[q] = plan[q]
           /\ \A q \in Plans : planCache'[q] = planCache[q] \/ planCache'[q] = plan'[q]
           /\ planCache' \in [Plans -> PlanObject] /\ queue' \in SUBSET Plans
           /\ UNCHANGED <<series, edits, faults>>
<1> DEFINE o == IF plan[p].deleting THEN NoPlanObject ELSE [plan[p] EXCEPT !.finalizer = FALSE]
           np == [plan EXCEPT ![p] = o]
<1>0. plan[p] \in PlanObject /\ node \in [Nodes -> NodeObject] /\ queue \in SUBSET Plans
  BY DEF TypeOK
<1>1. pc[p] = "remove" /\ EndPass(p) /\ UNCHANGED <<series, edits, faults>>
  BY DEF RemoveFinalizer, bounds
<1>a. Commit(node, np, queue)
  BY DEF RemoveFinalizer
<1>2. /\ o \in PlanObject /\ ~o.deleting /\ ~o.finalizer
      /\ o.present => plan[p].present /\ o.snapshot = plan[p].snapshot
                         /\ o.resolved = plan[p].resolved
  <2>1. CASE plan[p].deleting
    BY <2>1, EmptyTypes DEF NoPlanObject, NewPlan
  <2>2. CASE ~plan[p].deleting
    BY <1>0, <2>2 DEF PlanObject
  <2> QED BY <2>1, <2>2
<1> HIDE DEF o
<1>3. np \in [Plans -> PlanObject] /\ np[p] = o /\ \A q \in Plans \ {p} : np[q] = plan[q]
  BY <1>2, PatchEffect
<1> HIDE DEF np
<1>4. /\ node' = node /\ plan' = np
      /\ \A q \in Plans : planCache'[q] = planCache[q] \/ planCache'[q] = np[q]
  BY <1>a, CommitEffect
<1>5. planCache' \in [Plans -> PlanObject] /\ queue' \in SUBSET Plans
  BY <1>0, <1>a, <1>3, CommitType
<1> QED BY <1>1, <1>2, <1>3, <1>4, <1>5

\* The patch of a node's owner: an adoption, or a release.
LEMMA OwnerEffect ==
    ASSUME TypeOK, NEW p \in Plans, NEW n \in Nodes, AdoptNode(p, n) \/ ReleaseNode(p, n)
    PROVE  /\ node' \in [Nodes -> NodeObject] /\ plan' = plan
           /\ node[n].present /\ node'[n].present
           /\ \A m \in Nodes \ {n} : node'[m] = node[m]
           /\ \/ /\ pc[p] = "adopt" /\ n \in work[p].adopt /\ node'[n].owner = p
                 /\ work' = [work EXCEPT ![p].adopt = @ \ {n}]
              \/ /\ pc[p] \in {"release", "clean"} /\ node'[n].owner = NoPlan
                 /\ work' = [work EXCEPT ![p].release = @ \ {n}]
           /\ \A q \in Plans : planCache'[q] = planCache[q] \/ planCache'[q] = plan'[q]
           /\ planCache' \in [Plans -> PlanObject] /\ queue' \in SUBSET Plans
           /\ UNCHANGED <<series, pc, planCopy, edits, faults>>
<1>0. plan \in [Plans -> PlanObject] /\ queue \in SUBSET Plans
  BY DEF TypeOK
<1>1. PICK o \in Plans \union {NoPlan} :
         /\ Commit([node EXCEPT ![n].owner = o], plan, queue)
         /\ \/ /\ pc[p] = "adopt" /\ n \in work[p].adopt /\ o = p
               /\ work' = [work EXCEPT ![p].adopt = @ \ {n}]
            \/ /\ pc[p] \in {"release", "clean"} /\ o = NoPlan
               /\ work' = [work EXCEPT ![p].release = @ \ {n}]
  <2>1. CASE AdoptNode(p, n)
    BY <2>1 DEF AdoptNode
  <2>2. CASE ReleaseNode(p, n)
    BY <2>2 DEF ReleaseNode
  <2> QED BY <2>1, <2>2
<1>2. node[n].present /\ UNCHANGED <<series, pc, planCopy, edits, faults>>
  BY DEF AdoptNode, ReleaseNode, bounds
<1> DEFINE nn == [node EXCEPT ![n].owner = o]
<1>3. /\ nn \in [Nodes -> NodeObject] /\ nn[n].owner = o /\ nn[n].present = node[n].present
      /\ \A m \in Nodes \ {n} : nn[m] = node[m]
  BY PatchEffect
<1>4. Commit(nn, plan, queue)
  BY <1>1
<1> HIDE DEF nn
<1>5. /\ node' = nn /\ plan' = plan
      /\ \A q \in Plans : planCache'[q] = planCache[q] \/ planCache'[q] = plan[q]
  BY <1>4, CommitEffect
<1>6. planCache' \in [Plans -> PlanObject] /\ queue' \in SUBSET Plans
  BY <1>0, <1>3, <1>4, CommitType
<1> QED BY <1>1, <1>2, <1>3, <1>5, <1>6

\* Reconcile branches on what the cache has.
LEMMA ReconcileEffect ==
    ASSUME TypeOK, NEW p \in Plans, Reconcile(p)
    PROVE  /\ pc[p] = "idle" /\ queue' = queue \ {p}
           /\ UNCHANGED <<node, plan, planCache, series, work, edits, faults>>
           /\ \E at \in {"idle", "list", "resolve", "finalizer"}, o \in PlanObject :
                 /\ pc' = [pc EXCEPT ![p] = at] /\ planCopy' = [planCopy EXCEPT ![p] = o]
                 /\ at = "list" => planCache[p].present /\ planCache[p].deleting
                 /\ at = "resolve" => Active(planCache[p])
                 /\ at = "finalizer" => planCache[p].present /\ ~planCache[p].deleting
<1> DEFINE c == planCache[p]
           at == CASE ~c.present -> "idle"
                   [] c.present /\ c.deleting -> IF c.finalizer THEN "list" ELSE "idle"
                   [] OTHER -> IF c.finalizer THEN "resolve" ELSE "finalizer"
           o == IF at = "idle" THEN NoPlanObject ELSE c
<1>1. c \in PlanObject
  BY DEF TypeOK
<1>2. /\ pc[p] = "idle" /\ queue' = queue \ {p}
      /\ UNCHANGED <<node, plan, planCache, series, work, edits, faults>>
  BY DEF Reconcile, server, bounds
<1>3. pc' = [pc EXCEPT ![p] = at] /\ planCopy' = [planCopy EXCEPT ![p] = o]
  BY DEF Reconcile, Goto
<1>4. o \in PlanObject
  BY <1>1, EmptyTypes
<1>5. /\ at \in {"idle", "list", "resolve", "finalizer"}
      /\ at = "list" => c.present /\ c.deleting
      /\ at = "resolve" => Active(c)
      /\ at = "finalizer" => c.present /\ ~c.deleting
  <2>1. CASE ~c.present
    BY <2>1
  <2>2. CASE c.present /\ c.deleting
    BY <2>2
  <2>3. CASE c.present /\ ~c.deleting
    BY <2>3 DEF Active
  <2> QED BY <2>1, <2>2, <2>3
<1> HIDE DEF at, o
<1> QED BY <1>2, <1>3, <1>4, <1>5

\* The steps of a pass that only touch its own memory, and the registry.
LEMMA QuietEffect ==
    ASSUME TypeOK, NEW p \in Plans,
           \/ Resolve(p) \/ ListOwned(p) \/ DeleteSeries(p) \/ Finish(p)
           \/ Retry(p) \/ Fail(p)
    PROVE  UNCHANGED <<node, plan, planCache, edits>>
BY DEF Resolve, ListOwned, DeleteSeries, Finish, Retry, Fail, server, bounds

\* Every operation of a user or of the cluster leaves the passes alone.
LEMMA UserEffect ==
    ASSUME NEW op, NEW nn, NEW np, UserWrites(op, nn, np)
    PROVE  /\ UNCHANGED <<series, pc, planCopy, work>>
           /\ node' = nn /\ plan' = np
           /\ \A q \in Plans : planCache'[q] = planCache[q] \/ planCache'[q] = plan'[q]
<1>1. Commit(nn, np, queue) /\ UNCHANGED <<series, pc, planCopy, work>>
  BY DEF UserWrites, passVars
<1> QED BY <1>1, CommitEffect

\* A step of the operator, of a user, of the cluster or of a fault.
LEMMA TypeStep ==
    ASSUME TypeOK, [Next]_vars
    PROVE  TypeOK'
<1>0. node \in [Nodes -> NodeObject] /\ plan \in [Plans -> PlanObject]
  BY DEF TypeOK
<1>1. ASSUME NEW p \in Plans, Reconcile(p)
      PROVE  TypeOK'
  <2>1. /\ queue' = queue \ {p}
        /\ UNCHANGED <<node, plan, planCache, series, work, edits, faults>>
    BY <1>1, ReconcileEffect
  <2>2. PICK at \in {"idle", "list", "resolve", "finalizer"}, o \in PlanObject :
           pc' = [pc EXCEPT ![p] = at] /\ planCopy' = [planCopy EXCEPT ![p] = o]
    BY <1>1, ReconcileEffect
  <2> QED BY <2>1, <2>2 DEF TypeOK
<1>2. ASSUME NEW p \in Plans, EnsureFinalizer(p)
      PROVE  TypeOK'
  <2>1. /\ node' = node /\ plan' \in [Plans -> PlanObject]
        /\ planCache' \in [Plans -> PlanObject] /\ queue' \in SUBSET Plans
        /\ pc' = [pc EXCEPT ![p] = "resolve"] /\ planCopy' = [planCopy EXCEPT ![p] = plan'[p]]
        /\ UNCHANGED <<series, work, edits, faults>>
    BY <1>2, EnsureFinalizerEffect
  <2> QED BY <2>1 DEF TypeOK
<1>3. ASSUME NEW p \in Plans, UpdateStatus(p)
      PROVE  TypeOK'
  <2>1. /\ node' = node /\ plan' \in [Plans -> PlanObject]
        /\ planCache' \in [Plans -> PlanObject] /\ queue' \in SUBSET Plans
        /\ pc' = [pc EXCEPT ![p] = "release"] /\ planCopy' = [planCopy EXCEPT ![p] = plan'[p]]
        /\ UNCHANGED <<series, work, edits, faults>>
    BY <1>3, UpdateStatusEffect
  <2> QED BY <2>1 DEF TypeOK
<1>4. ASSUME NEW p \in Plans, RemoveFinalizer(p)
      PROVE  TypeOK'
  <2>1. /\ node' = node /\ plan' \in [Plans -> PlanObject] /\ EndPass(p)
        /\ planCache' \in [Plans -> PlanObject] /\ queue' \in SUBSET Plans
        /\ UNCHANGED <<series, edits, faults>>
    BY <1>4, RemoveFinalizerEffect
  <2> QED BY <2>1, EndPassType DEF TypeOK
<1>5. ASSUME NEW p \in Plans, NEW n \in Nodes, AdoptNode(p, n) \/ ReleaseNode(p, n)
      PROVE  TypeOK'
  <2>0. work \in [Plans -> PassWork]
    BY DEF TypeOK
  <2>1. work' \in [Plans -> PassWork]
    <3>1. \/ work' = [work EXCEPT ![p].adopt = @ \ {n}]
          \/ work' = [work EXCEPT ![p].release = @ \ {n}]
      BY <1>5, OwnerEffect
    <3> QED BY <2>0, <3>1 DEF PassWork
  <2>2. /\ node' \in [Nodes -> NodeObject] /\ plan' = plan
        /\ planCache' \in [Plans -> PlanObject] /\ queue' \in SUBSET Plans
        /\ UNCHANGED <<series, pc, planCopy, edits, faults>>
    BY <1>5, OwnerEffect
  <2> QED BY <2>1, <2>2 DEF TypeOK
<1>6. ASSUME NEW p \in Plans, Resolve(p)
      PROVE  TypeOK'
  <2>1. Resolution(p, planCopy[p]) \in PassWork
    BY ResolutionType DEF TypeOK
  <2> QED BY <1>6, <2>1, QuietEffect DEF Resolve, Goto, bounds, TypeOK
<1>7. ASSUME NEW p \in Plans, ListOwned(p)
      PROVE  TypeOK'
  <2>1. OwnedBy(p) \in SUBSET Nodes
    BY DEF OwnedBy, Present
  <2>2. work' \in [Plans -> PassWork]
    BY <1>7, <2>1 DEF ListOwned, PassWork, TypeOK
  <2> QED BY <1>7, <2>2, QuietEffect DEF ListOwned, Goto, bounds, TypeOK
<1>8. ASSUME NEW p \in Plans, DeleteSeries(p)
      PROVE  TypeOK'
  <2>1. series' \in [Plans -> Series]
    BY <1>8 DEF DeleteSeries, DeletedSeries, Series, TypeOK
  <2> QED BY <1>8, <2>1, QuietEffect DEF DeleteSeries, Goto, bounds, Series, TypeOK
<1>9. ASSUME NEW p \in Plans, Finish(p)
      PROVE  TypeOK'
  <2>1. planCopy[p].listed \in SUBSET Nodes
    BY DEF PlanObject, TypeOK
  <2>2. series' \in [Plans -> Series]
    BY <1>9, <2>1 DEF Finish, RecordPlan, Series, TypeOK
  <2> QED BY <1>9, <2>2, QuietEffect, EndPassType DEF Finish, bounds, Series, TypeOK
<1>10. ASSUME NEW p \in Plans, Retry(p) \/ Fail(p)
       PROVE  TypeOK'
  <2>1. queue' \in SUBSET Plans /\ EndPass(p) /\ series' = series
    BY <1>10 DEF Retry, Fail, TypeOK
  <2>2. faults' \in 0..MaxFaults
    BY <1>10, MembershipAssumption DEF Retry, Fail, bounds, TypeOK
  <2> QED BY <1>10, <2>1, <2>2, QuietEffect, EndPassType DEF TypeOK
<1>11. ASSUME NEW p \in Plans, SyncPlan(p)
       PROVE  TypeOK'
  <2>1. queue' \in SUBSET Plans
    BY <1>11 DEF SyncPlan, Woken, TypeOK
  <2> QED BY <1>11, <2>1 DEF SyncPlan, server, passVars, bounds, TypeOK
<1>12. CASE Crash
  <2>1. faults' \in 0..MaxFaults
    BY <1>12, MembershipAssumption DEF Crash, TypeOK
  <2>2. series' \in [Plans -> Series] /\ queue' \in SUBSET Plans
    BY <1>12, EmptyTypes DEF Crash
  <2>3. planCopy' \in [Plans -> PlanObject] /\ work' \in [Plans -> PassWork]
    BY <1>12, EmptyTypes DEF Crash
  <2> QED BY <1>12, <2>1, <2>2, <2>3 DEF Crash, server, Series, TypeOK
<1>13. ASSUME NEW p \in Plans, CreatePlan(p)
       PROVE  TypeOK'
  <2>1. PICK np \in [Plans -> PlanObject] : UserWrites("create", node, np)
    BY <1>13, CreateEffect
  <2> QED BY <1>0, <2>1, UserWritesType
<1>14. ASSUME NEW p \in Plans, EditSpec(p)
       PROVE  TypeOK'
  <2>1. PICK np \in [Plans -> PlanObject] : UserWrites("edit", node, np)
    BY <1>14, EditEffect
  <2> QED BY <1>0, <2>1, UserWritesType
<1>15. ASSUME NEW p \in Plans, DeletePlan(p)
       PROVE  TypeOK'
  <2>1. PICK np \in [Plans -> PlanObject] : UserWrites("delete", node, np)
    BY <1>15, DeleteEffect
  <2> QED BY <1>0, <2>1, UserWritesType
<1>16. ASSUME NEW n \in Nodes, NodeJoins(n) \/ NodeLeaves(n) \/ Relabel(n)
       PROVE  TypeOK'
  <2>1. PICK nn \in [Nodes -> NodeObject], op \in ClusterOps : UserWrites(op, nn, plan)
    BY <1>16, ClusterEffect
  <2> QED BY <1>0, <2>1, UserWritesType
<1>17. CASE UNCHANGED vars
  BY <1>17 DEF vars, TypeOK
<1> QED BY <1>1, <1>2, <1>3, <1>4, <1>5, <1>6, <1>7, <1>8, <1>9, <1>10, <1>11, <1>12,
           <1>13, <1>14, <1>15, <1>16, <1>17 DEF Next, Pass

\* The types hold for the plans that Init starts from.
LEMMA TypeInit == Init => TypeOK
<1> SUFFICES ASSUME Init PROVE TypeOK
  OBVIOUS
<1>1. 0 \in 0..MaxEdits /\ 0 \in 0..MaxFaults
  BY MembershipAssumption
<1>2. node \in [Nodes -> NodeObject]
  BY EmptyTypes DEF Init
<1>3. plan \in [Plans -> PlanObject]
  BY <1>1, EmptyTypes, NewPlanType DEF Init
<1>4. series \in [Plans -> Series]
  BY EmptyTypes DEF Init
<1>5. planCopy \in [Plans -> PlanObject] /\ work \in [Plans -> PassWork]
  BY EmptyTypes DEF Init
<1> QED BY <1>1, <1>2, <1>3, <1>4, <1>5 DEF Init, TypeOK, Series

\* Every variable keeps its type: what the passes, the users, the cluster and
\* the crashes write are nodes, plans and resolutions.
THEOREM MembershipTypeCorrect == Spec => []TypeOK
BY TypeInit, TypeStep, PTL DEF Spec

(***************************************************************************)
(* Plans and their passes.                                                 *)
(***************************************************************************)

\* The pass goes on within its branch of Reconcile, or ends.
Moves(at, at2) ==
    \/ at2 \in {at, "idle"}
    \/ at \in WorkingStates /\ at2 \in WorkingStates
    \/ at \in CleaningStates /\ at2 \in CleaningStates

\* The invariant survives a step that leaves the plan in the same stage.
LEMMA PlanPassKeep ==
    ASSUME NEW pl \in PlanObject, NEW pl2 \in PlanObject,
           NEW ca \in PlanObject, NEW ca2 \in PlanObject, NEW at, NEW at2,
           PlanPassInv(pl, ca, at), SameLife(pl, pl2), ca2 = ca \/ ca2 = pl2,
           Moves(at, at2)
    PROVE  PlanPassInv(pl2, ca2, at2)
<1>1. CASE ca2 = ca
  BY <1>1 DEF PlanPassInv, SameLife, Moves, Active, WorkingStates, CleaningStates,
              PlanObject
<1>2. CASE ca2 = pl2
  BY <1>2 DEF PlanPassInv, SameLife, Moves, Active, WorkingStates, CleaningStates,
              PlanObject
<1> QED BY <1>1, <1>2

\* Every step preserves the part of the invariant about plans and passes.
LEMMA PlanInvStep ==
    ASSUME TypeOK, TypeOK', PlanInv, [Next]_vars
    PROVE  PlanInv'
<1> SUFFICES ASSUME NEW q \in Plans
             PROVE  PlanPassInv(plan'[q], planCache'[q], pc'[q])
  BY DEF PlanInv
<1>0. /\ plan[q] \in PlanObject /\ planCache[q] \in PlanObject
      /\ plan'[q] \in PlanObject /\ planCache'[q] \in PlanObject
      /\ PlanPassInv(plan[q], planCache[q], pc[q])
      /\ DOMAIN pc = Plans
  BY DEF TypeOK, PlanInv
<1>K. ASSUME SameLife(plan[q], plan'[q]),
             planCache'[q] = planCache[q] \/ planCache'[q] = plan'[q],
             Moves(pc[q], pc'[q])
      PROVE  PlanPassInv(plan'[q], planCache'[q], pc'[q])
  BY <1>0, <1>K, PlanPassKeep
<1>1. ASSUME NEW p \in Plans, Reconcile(p)
      PROVE  PlanPassInv(plan'[q], planCache'[q], pc'[q])
  <2>1. plan' = plan /\ planCache' = planCache
    BY <1>1, ReconcileEffect
  <2>2. PICK at \in {"idle", "list", "resolve", "finalizer"} :
           /\ pc' = [pc EXCEPT ![p] = at]
           /\ at = "list" => planCache[p].present /\ planCache[p].deleting
           /\ at = "resolve" => Active(planCache[p])
           /\ at = "finalizer" => planCache[p].present /\ ~planCache[p].deleting
    BY <1>1, ReconcileEffect
  <2>3. CASE p # q
    BY <1>0, <2>1, <2>2, <2>3
  <2>4. CASE p = q
    <3>1. pc'[q] = at
      BY <1>0, <2>2, <2>4
    <3> QED BY <1>0, <2>1, <2>2, <2>4, <3>1
            DEF PlanPassInv, Active, WorkingStates, CleaningStates, PlanObject
  <2> QED BY <2>3, <2>4
<1>2. ASSUME NEW p \in Plans, EnsureFinalizer(p)
      PROVE  PlanPassInv(plan'[q], planCache'[q], pc'[q])
  <2>1. /\ pc[p] = "finalizer" /\ plan[p].present /\ pc' = [pc EXCEPT ![p] = "resolve"]
        /\ plan'[p].present /\ plan'[p].finalizer /\ plan'[p].deleting = plan[p].deleting
        /\ p # q => plan'[q] = plan[q]
        /\ planCache'[q] = planCache[q] \/ planCache'[q] = plan'[q]
    BY <1>2, EnsureFinalizerEffect
  <2>2. CASE p # q
    BY <1>0, <1>K, <2>1, <2>2 DEF SameLife, Moves
  <2>3. CASE p = q
    <3>1. pc'[q] = "resolve"
      BY <1>0, <2>1, <2>3
    <3> QED BY <1>0, <2>1, <2>3, <3>1
            DEF PlanPassInv, Active, WorkingStates, CleaningStates, PlanObject
  <2> QED BY <2>2, <2>3
<1>3. ASSUME NEW p \in Plans,
             \/ Resolve(p) \/ ListOwned(p) \/ DeleteSeries(p) \/ Finish(p)
             \/ Retry(p) \/ Fail(p)
      PROVE  PlanPassInv(plan'[q], planCache'[q], pc'[q])
  <2>1. plan' = plan /\ planCache' = planCache
    BY <1>3, QuietEffect
  <2>2. Moves(pc[q], pc'[q])
    BY <1>0, <1>3 DEF Resolve, ListOwned, DeleteSeries, Finish, Retry, Fail, Goto, EndPass,
                      Moves, WorkingStates, CleaningStates
  <2> QED BY <1>K, <2>1, <2>2 DEF SameLife
<1>4. ASSUME NEW p \in Plans, UpdateStatus(p)
      PROVE  PlanPassInv(plan'[q], planCache'[q], pc'[q])
  <2>1. /\ pc[p] = "adopt" /\ pc' = [pc EXCEPT ![p] = "release"]
        /\ SameLife(plan[p], plan'[p]) /\ (p # q => plan'[q] = plan[q])
        /\ planCache'[q] = planCache[q] \/ planCache'[q] = plan'[q]
    BY <1>4, UpdateStatusEffect
  <2>2. Moves(pc[q], pc'[q])
    BY <1>0, <2>1 DEF Moves, WorkingStates
  <2>3. SameLife(plan[q], plan'[q])
    BY <2>1 DEF SameLife
  <2> QED BY <1>K, <2>1, <2>2, <2>3
<1>5. ASSUME NEW p \in Plans, NEW n \in Nodes, AdoptNode(p, n) \/ ReleaseNode(p, n)
      PROVE  PlanPassInv(plan'[q], planCache'[q], pc'[q])
  <2>1. /\ plan' = plan /\ pc' = pc
        /\ planCache'[q] = planCache[q] \/ planCache'[q] = plan'[q]
    BY <1>5, OwnerEffect
  <2> QED BY <1>K, <2>1 DEF SameLife, Moves
<1>6. ASSUME NEW p \in Plans, RemoveFinalizer(p)
      PROVE  PlanPassInv(plan'[q], planCache'[q], pc'[q])
  <2>1. /\ pc[p] = "remove" /\ EndPass(p)
        /\ ~plan'[p].deleting /\ ~plan'[p].finalizer
        /\ p # q => plan'[q] = plan[q]
        /\ planCache'[q] = planCache[q] \/ planCache'[q] = plan'[q]
    BY <1>6, RemoveFinalizerEffect
  <2>2. pc' = [pc EXCEPT ![p] = "idle"]
    BY <2>1 DEF EndPass, Goto
  <2>3. CASE p # q
    BY <1>0, <1>K, <2>1, <2>2, <2>3 DEF SameLife, Moves
  <2>4. CASE p = q
    <3>1. pc'[q] = "idle"
      BY <1>0, <2>2, <2>4
    <3> QED BY <1>0, <2>1, <2>4, <3>1
            DEF PlanPassInv, Active, WorkingStates, CleaningStates, PlanObject
  <2> QED BY <2>3, <2>4
<1>7. ASSUME NEW p \in Plans, CreatePlan(p)
      PROVE  PlanPassInv(plan'[q], planCache'[q], pc'[q])
  <2>1. PICK np \in [Plans -> PlanObject] :
           /\ UserWrites("create", node, np)
           /\ ~plan[p].present /\ \A r \in Plans \ {p} : np[r] = plan[r]
           /\ np[p].present /\ ~np[p].deleting /\ ~np[p].finalizer
    BY <1>7, CreateEffect
  <2>2. /\ plan' = np /\ pc' = pc
        /\ planCache'[q] = planCache[q] \/ planCache'[q] = plan'[q]
    BY <2>1, UserEffect
  <2>3. CASE p # q
    BY <1>K, <2>1, <2>2, <2>3 DEF SameLife, Moves
  <2>4. CASE p = q
    BY <1>0, <2>1, <2>2, <2>4
       DEF PlanPassInv, Active, WorkingStates, CleaningStates, PlanObject
  <2> QED BY <2>3, <2>4
<1>8. ASSUME NEW p \in Plans, EditSpec(p)
      PROVE  PlanPassInv(plan'[q], planCache'[q], pc'[q])
  <2>1. PICK np \in [Plans -> PlanObject] :
           UserWrites("edit", node, np) /\ SameLife(plan[q], np[q])
    BY <1>8, EditEffect
  <2>2. /\ plan' = np /\ pc' = pc
        /\ planCache'[q] = planCache[q] \/ planCache'[q] = plan'[q]
    BY <2>1, UserEffect
  <2> QED BY <1>K, <2>1, <2>2 DEF Moves
<1>9. ASSUME NEW p \in Plans, DeletePlan(p)
      PROVE  PlanPassInv(plan'[q], planCache'[q], pc'[q])
  <2>1. PICK np \in [Plans -> PlanObject] :
           /\ UserWrites("delete", node, np)
           /\ plan[p].present /\ ~plan[p].deleting
           /\ \A r \in Plans \ {p} : np[r] = plan[r]
           /\ plan[p].finalizer => np[p].present /\ np[p].deleting /\ np[p].finalizer
           /\ ~plan[p].finalizer => ~np[p].present /\ ~np[p].deleting /\ ~np[p].finalizer
    BY <1>9, DeleteEffect
  <2>2. /\ plan' = np /\ pc' = pc
        /\ planCache'[q] = planCache[q] \/ planCache'[q] = plan'[q]
    BY <2>1, UserEffect
  <2>3. CASE p # q
    BY <1>K, <2>1, <2>2, <2>3 DEF SameLife, Moves
  <2>4. CASE p = q
    BY <1>0, <2>1, <2>2, <2>4
       DEF PlanPassInv, Active, WorkingStates, CleaningStates, PlanObject
  <2> QED BY <2>3, <2>4
<1>10. ASSUME NEW n \in Nodes, NodeJoins(n) \/ NodeLeaves(n) \/ Relabel(n)
       PROVE  PlanPassInv(plan'[q], planCache'[q], pc'[q])
  <2>1. PICK nn \in [Nodes -> NodeObject], op \in ClusterOps : UserWrites(op, nn, plan)
    BY <1>10, ClusterEffect
  <2>2. /\ plan' = plan /\ pc' = pc
        /\ planCache'[q] = planCache[q] \/ planCache'[q] = plan'[q]
    BY <2>1, UserEffect
  <2> QED BY <1>K, <2>2 DEF SameLife, Moves
<1>11. ASSUME NEW p \in Plans, SyncPlan(p)
       PROVE  PlanPassInv(plan'[q], planCache'[q], pc'[q])
  <2>1. plan' = plan /\ pc' = pc /\ planCache' = [planCache EXCEPT ![p] = plan[p]]
    BY <1>11 DEF SyncPlan, passVars, server
  <2> QED BY <1>K, <2>1 DEF SameLife, Moves, TypeOK
<1>12. CASE Crash
  <2>1. plan' = plan /\ planCache' = plan /\ pc'[q] = "idle"
    BY <1>12 DEF Crash, server
  <2> QED BY <1>K, <2>1 DEF SameLife, Moves
<1>13. CASE UNCHANGED vars
  BY <1>0, <1>13 DEF vars
<1> QED BY <1>1, <1>2, <1>3, <1>4, <1>5, <1>6, <1>7, <1>8, <1>9, <1>10,
           <1>11, <1>12, <1>13 DEF Next, Pass

(***************************************************************************)
(* Owners.                                                                 *)
(***************************************************************************)

\* Every step preserves the part of the invariant about owners.
LEMMA OwnerInvStep ==
    ASSUME TypeOK, TypeOK', PlanInv, OwnerInv, [Next]_vars
    PROVE  OwnerInv'
<1> SUFFICES ASSUME NEW n \in Nodes, NEW q \in Plans
             PROVE  OwnedSafely(n, q)'
  BY DEF OwnerInv
<1>0. /\ OwnedSafely(n, q) /\ PlanPassInv(plan[q], planCache[q], pc[q])
      /\ DOMAIN pc = Plans /\ DOMAIN work = Plans /\ DOMAIN node = Nodes /\ q # NoPlan
      /\ plan[q] \in PlanObject /\ plan'[q] \in PlanObject
  BY MembershipAssumption DEF TypeOK, OwnerInv, PlanInv
<1>K. ASSUME node'[n] = node[n], SameLife(plan[q], plan'[q]),
             pc'[q] \in {pc[q], "idle", "finalizer", "resolve", "adopt", "release", "list"},
             pc'[q] = "clean" => work'[q] = work[q]
      PROVE  OwnedSafely(n, q)'
  BY <1>0, <1>K DEF OwnedSafely, SameLife
<1>1. ASSUME NEW p \in Plans, Reconcile(p)
      PROVE  OwnedSafely(n, q)'
  <2>1. /\ UNCHANGED <<node, plan, work>>
        /\ \E at \in {"idle", "list", "resolve", "finalizer"} : pc' = [pc EXCEPT ![p] = at]
    BY <1>1, ReconcileEffect
  <2>2. pc'[q] \in {pc[q], "idle", "list", "resolve", "finalizer"}
    BY <1>0, <2>1
  <2> QED BY <1>K, <2>1, <2>2 DEF SameLife
<1>2. ASSUME NEW p \in Plans, EnsureFinalizer(p)
      PROVE  OwnedSafely(n, q)'
  <2>1. /\ node' = node /\ work' = work /\ pc' = [pc EXCEPT ![p] = "resolve"]
        /\ plan'[p].present /\ plan'[p].finalizer /\ (p # q => plan'[q] = plan[q])
    BY <1>2, EnsureFinalizerEffect
  <2> QED BY <1>0, <2>1 DEF OwnedSafely
<1>3. ASSUME NEW p \in Plans, UpdateStatus(p)
      PROVE  OwnedSafely(n, q)'
  <2>1. /\ node' = node /\ work' = work /\ pc' = [pc EXCEPT ![p] = "release"]
        /\ SameLife(plan[p], plan'[p]) /\ (p # q => plan'[q] = plan[q])
    BY <1>3, UpdateStatusEffect
  <2> QED BY <1>0, <2>1 DEF OwnedSafely, SameLife
<1>4. ASSUME NEW p \in Plans, RemoveFinalizer(p)
      PROVE  OwnedSafely(n, q)'
  <2>1. /\ pc[p] = "remove" /\ EndPass(p) /\ node' = node /\ (p # q => plan'[q] = plan[q])
    BY <1>4, RemoveFinalizerEffect
  <2>2. pc' = [pc EXCEPT ![p] = "idle"] /\ (p # q => work'[q] = work[q])
    BY <2>1, EndPassType
  <2> QED BY <1>0, <2>1, <2>2 DEF OwnedSafely
<1>5. ASSUME NEW p \in Plans, Resolve(p)
      PROVE  OwnedSafely(n, q)'
  <2>1. /\ UNCHANGED <<node, plan>> /\ pc' = [pc EXCEPT ![p] = "adopt"]
        /\ p # q => work'[q] = work[q]
    BY <1>0, <1>5, QuietEffect DEF Resolve, Goto
  <2> QED BY <1>0, <2>1 DEF OwnedSafely
<1>6. ASSUME NEW p \in Plans, ListOwned(p)
      PROVE  OwnedSafely(n, q)'
  <2>1. UNCHANGED <<node, plan>> /\ pc' = [pc EXCEPT ![p] = "clean"]
    BY <1>6, QuietEffect DEF ListOwned, Goto
  <2>2. CASE p # q
    <3>1. work'[q] = work[q]
      BY <1>0, <1>6, <2>2 DEF ListOwned
    <3> QED BY <1>0, <2>1, <2>2, <3>1 DEF OwnedSafely
  <2>3. CASE p = q
    <3>1. work'[q].release = OwnedBy(q)
      BY <1>6, <2>3 DEF ListOwned, TypeOK, PassWork
    <3>2. node[n].owner = q => n \in OwnedBy(q)
      BY <1>0 DEF OwnedSafely, OwnedBy, Present
    <3> QED BY <1>0, <2>1, <2>3, <3>1, <3>2 DEF OwnedSafely
  <2> QED BY <2>2, <2>3
<1>7. ASSUME NEW p \in Plans, DeleteSeries(p)
      PROVE  OwnedSafely(n, q)'
  <2>1. /\ pc[p] = "clean" /\ work[p].release = {} /\ UNCHANGED <<node, plan, work>>
        /\ pc' = [pc EXCEPT ![p] = "remove"]
    BY <1>7, QuietEffect DEF DeleteSeries, Goto
  <2> QED BY <1>0, <2>1 DEF OwnedSafely
<1>8. ASSUME NEW p \in Plans, Finish(p) \/ Retry(p) \/ Fail(p)
      PROVE  OwnedSafely(n, q)'
  <2>1. UNCHANGED <<node, plan>> /\ EndPass(p)
    BY <1>8, QuietEffect DEF Finish, Retry, Fail
  <2>2. pc' = [pc EXCEPT ![p] = "idle"] /\ (p # q => work'[q] = work[q])
    BY <2>1, EndPassType
  <2> QED BY <1>0, <2>1, <2>2 DEF OwnedSafely
<1>9. ASSUME NEW p \in Plans, NEW m \in Nodes, AdoptNode(p, m) \/ ReleaseNode(p, m)
      PROVE  OwnedSafely(n, q)'
  <2>1. /\ plan' = plan /\ pc' = pc /\ node'[m].present
        /\ m # n => node'[n] = node[n]
        /\ \/ /\ pc[p] = "adopt" /\ node'[m].owner = p
              /\ work' = [work EXCEPT ![p].adopt = @ \ {m}]
           \/ /\ pc[p] \in {"release", "clean"} /\ node'[m].owner = NoPlan
              /\ work' = [work EXCEPT ![p].release = @ \ {m}]
    BY <1>9, OwnerEffect
  <2>2. CASE pc[p] = "adopt" /\ node'[m].owner = p /\ work' = [work EXCEPT ![p].adopt = @ \ {m}]
    <3>1. plan[p].present /\ plan[p].finalizer
      BY <2>2 DEF PlanInv, PlanPassInv, WorkingStates
    <3>2. p # q => work'[q] = work[q]
      BY <1>0, <2>2
    <3> QED BY <1>0, <2>1, <2>2, <3>1, <3>2 DEF OwnedSafely
  <2>3. CASE /\ node'[m].owner = NoPlan
             /\ work' = [work EXCEPT ![p].release = @ \ {m}]
    <3>1. m # n /\ n \in work[q].release => n \in work'[q].release
      BY <1>0, <2>3 DEF TypeOK, PassWork
    <3> QED BY <1>0, <2>1, <2>3, <3>1 DEF OwnedSafely
  <2> QED BY <2>1, <2>2, <2>3
<1>10. ASSUME NEW p \in Plans, CreatePlan(p)
       PROVE  OwnedSafely(n, q)'
  <2>1. PICK np \in [Plans -> PlanObject] :
           /\ UserWrites("create", node, np)
           /\ ~plan[p].present /\ \A r \in Plans \ {p} : np[r] = plan[r]
    BY <1>10, CreateEffect
  <2>2. node' = node /\ plan' = np /\ UNCHANGED <<pc, work>>
    BY <2>1, UserEffect
  <2> QED BY <1>0, <2>1, <2>2 DEF OwnedSafely
<1>11. ASSUME NEW p \in Plans, EditSpec(p)
       PROVE  OwnedSafely(n, q)'
  <2>1. PICK np \in [Plans -> PlanObject] :
           UserWrites("edit", node, np) /\ SameLife(plan[q], np[q])
    BY <1>11, EditEffect
  <2>2. node' = node /\ plan' = np /\ UNCHANGED <<pc, work>>
    BY <2>1, UserEffect
  <2> QED BY <1>K, <2>1, <2>2
<1>12. ASSUME NEW p \in Plans, DeletePlan(p)
       PROVE  OwnedSafely(n, q)'
  <2>1. PICK np \in [Plans -> PlanObject] :
           /\ UserWrites("delete", node, np) /\ \A r \in Plans \ {p} : np[r] = plan[r]
           /\ plan[p].finalizer => np[p].present /\ np[p].finalizer
    BY <1>12, DeleteEffect
  <2>2. node' = node /\ plan' = np /\ UNCHANGED <<pc, work>>
    BY <2>1, UserEffect
  <2> QED BY <1>0, <2>1, <2>2 DEF OwnedSafely
<1>13. ASSUME NEW m \in Nodes, NodeJoins(m) \/ NodeLeaves(m) \/ Relabel(m)
       PROVE  OwnedSafely(n, q)'
  <2>1. PICK nn \in [Nodes -> NodeObject], op \in ClusterOps :
           /\ UserWrites(op, nn, plan) /\ \A r \in Nodes \ {m} : nn[r] = node[r]
           /\ nn[m].owner = NoPlan \/ (nn[m].present /\ nn[m].owner = node[m].owner)
    BY <1>13, ClusterEffect
  <2>2. node' = nn /\ plan' = plan /\ UNCHANGED <<pc, work>>
    BY <2>1, UserEffect
  <2> QED BY <1>0, <2>1, <2>2 DEF OwnedSafely
<1>14. ASSUME NEW p \in Plans, SyncPlan(p)
       PROVE  OwnedSafely(n, q)'
  <2>1. UNCHANGED <<node, plan, pc, work>>
    BY <1>14 DEF SyncPlan, server, passVars
  <2> QED BY <1>0, <2>1 DEF OwnedSafely
<1>15. CASE Crash
  <2>1. UNCHANGED <<node, plan>> /\ pc'[q] = "idle"
    BY <1>15 DEF Crash, server
  <2> QED BY <1>0, <2>1 DEF OwnedSafely
<1>16. CASE UNCHANGED vars
  BY <1>0, <1>16 DEF vars, OwnedSafely
<1> QED BY <1>1, <1>2, <1>3, <1>4, <1>5, <1>6, <1>7, <1>8, <1>9, <1>10, <1>11, <1>12,
           <1>13, <1>14, <1>15, <1>16 DEF Next, Pass

(***************************************************************************)
(* Metric series and snapshots.                                            *)
(***************************************************************************)

\* Every step preserves the part of the invariant about the registry.
LEMMA SeriesInvStep ==
    ASSUME TypeOK, TypeOK', PlanInv, SeriesInv, [Next]_vars
    PROVE  SeriesInv'
<1> SUFFICES ASSUME NEW q \in Plans
             PROVE  SeriesHeld(q)'
  BY DEF SeriesInv
<1>0. /\ SeriesHeld(q) /\ PlanPassInv(plan[q], planCache[q], pc[q])
      /\ DOMAIN pc = Plans /\ DOMAIN series = Plans
      /\ plan[q] \in PlanObject /\ plan'[q] \in PlanObject
  BY DEF TypeOK, SeriesInv, PlanInv
<1>1. ASSUME NEW p \in Plans, Reconcile(p)
      PROVE  SeriesHeld(q)'
  <2>1. /\ UNCHANGED <<plan, series>>
        /\ \E at \in {"idle", "list", "resolve", "finalizer"} : pc' = [pc EXCEPT ![p] = at]
    BY <1>1, ReconcileEffect
  <2>2. pc'[q] \in {pc[q], "idle", "list", "resolve", "finalizer"}
    BY <1>0, <2>1
  <2> QED BY <1>0, <2>1, <2>2 DEF SeriesHeld
<1>2. ASSUME NEW p \in Plans, EnsureFinalizer(p)
      PROVE  SeriesHeld(q)'
  <2>1. /\ series' = series /\ pc' = [pc EXCEPT ![p] = "resolve"]
        /\ plan'[p].present /\ plan'[p].finalizer /\ (p # q => plan'[q] = plan[q])
    BY <1>2, EnsureFinalizerEffect
  <2> QED BY <1>0, <2>1 DEF SeriesHeld
<1>3. ASSUME NEW p \in Plans, UpdateStatus(p)
      PROVE  SeriesHeld(q)'
  <2>1. /\ series' = series /\ pc' = [pc EXCEPT ![p] = "release"]
        /\ SameLife(plan[p], plan'[p]) /\ (p # q => plan'[q] = plan[q])
    BY <1>3, UpdateStatusEffect
  <2> QED BY <1>0, <2>1 DEF SeriesHeld, SameLife
<1>4. ASSUME NEW p \in Plans, RemoveFinalizer(p)
      PROVE  SeriesHeld(q)'
  <2>1. /\ pc[p] = "remove" /\ EndPass(p) /\ series' = series
        /\ p # q => plan'[q] = plan[q]
    BY <1>4, RemoveFinalizerEffect
  <2>2. pc' = [pc EXCEPT ![p] = "idle"]
    BY <2>1, EndPassType
  <2> QED BY <1>0, <2>1, <2>2 DEF SeriesHeld
<1>5. ASSUME NEW p \in Plans, Resolve(p) \/ ListOwned(p)
      PROVE  SeriesHeld(q)'
  <2>1. /\ UNCHANGED <<plan, series>>
        /\ pc' = [pc EXCEPT ![p] = "adopt"] \/ pc' = [pc EXCEPT ![p] = "clean"]
    BY <1>5, QuietEffect DEF Resolve, ListOwned, Goto
  <2> QED BY <1>0, <2>1 DEF SeriesHeld
<1>6. ASSUME NEW p \in Plans, DeleteSeries(p)
      PROVE  SeriesHeld(q)'
  <2>1. plan' = plan /\ pc' = [pc EXCEPT ![p] = "remove"]
    BY <1>6, QuietEffect DEF DeleteSeries, Goto
  <2>2. ~series'[p].plan /\ (p # q => series'[q] = series[q])
    BY <1>0, <1>6 DEF DeleteSeries, DeletedSeries
  <2> QED BY <1>0, <2>1, <2>2 DEF SeriesHeld
<1>7. ASSUME NEW p \in Plans, Finish(p)
      PROVE  SeriesHeld(q)'
  <2>1. plan' = plan /\ pc[p] = "release" /\ EndPass(p)
    BY <1>7, QuietEffect DEF Finish
  <2>2. pc' = [pc EXCEPT ![p] = "idle"]
    BY <2>1, EndPassType
  <2>3. p # q => series'[q] = series[q]
    BY <1>0, <1>7 DEF Finish, RecordPlan
  <2>4. p = q => plan[q].present /\ plan[q].finalizer
    BY <1>0, <2>1 DEF PlanPassInv, WorkingStates
  <2> QED BY <1>0, <2>1, <2>2, <2>3, <2>4 DEF SeriesHeld
<1>8. ASSUME NEW p \in Plans, Retry(p) \/ Fail(p)
      PROVE  SeriesHeld(q)'
  <2>1. plan' = plan /\ EndPass(p) /\ series' = series
    BY <1>8, QuietEffect DEF Retry, Fail
  <2>2. pc' = [pc EXCEPT ![p] = "idle"]
    BY <2>1, EndPassType
  <2> QED BY <1>0, <2>1, <2>2 DEF SeriesHeld
<1>9. ASSUME NEW p \in Plans, NEW n \in Nodes, AdoptNode(p, n) \/ ReleaseNode(p, n)
      PROVE  SeriesHeld(q)'
  <2>1. UNCHANGED <<plan, series, pc>>
    BY <1>9, OwnerEffect
  <2> QED BY <1>0, <2>1 DEF SeriesHeld
<1>10. ASSUME NEW p \in Plans, CreatePlan(p)
       PROVE  SeriesHeld(q)'
  <2>1. PICK np \in [Plans -> PlanObject] :
           /\ UserWrites("create", node, np)
           /\ ~plan[p].present /\ \A r \in Plans \ {p} : np[r] = plan[r]
    BY <1>10, CreateEffect
  <2>2. plan' = np /\ UNCHANGED <<series, pc>>
    BY <2>1, UserEffect
  <2> QED BY <1>0, <2>1, <2>2 DEF SeriesHeld
<1>11. ASSUME NEW p \in Plans, EditSpec(p)
       PROVE  SeriesHeld(q)'
  <2>1. PICK np \in [Plans -> PlanObject] :
           UserWrites("edit", node, np) /\ SameLife(plan[q], np[q])
    BY <1>11, EditEffect
  <2>2. plan' = np /\ UNCHANGED <<series, pc>>
    BY <2>1, UserEffect
  <2> QED BY <1>0, <2>1, <2>2 DEF SeriesHeld, SameLife
<1>12. ASSUME NEW p \in Plans, DeletePlan(p)
       PROVE  SeriesHeld(q)'
  <2>1. PICK np \in [Plans -> PlanObject] :
           /\ UserWrites("delete", node, np) /\ \A r \in Plans \ {p} : np[r] = plan[r]
           /\ plan[p].finalizer => np[p].present /\ np[p].finalizer
    BY <1>12, DeleteEffect
  <2>2. plan' = np /\ UNCHANGED <<series, pc>>
    BY <2>1, UserEffect
  <2> QED BY <1>0, <2>1, <2>2 DEF SeriesHeld
<1>13. ASSUME NEW n \in Nodes, NodeJoins(n) \/ NodeLeaves(n) \/ Relabel(n)
       PROVE  SeriesHeld(q)'
  <2>1. PICK nn \in [Nodes -> NodeObject], op \in ClusterOps : UserWrites(op, nn, plan)
    BY <1>13, ClusterEffect
  <2>2. UNCHANGED <<plan, series, pc>>
    BY <2>1, UserEffect
  <2> QED BY <1>0, <2>2 DEF SeriesHeld
<1>14. CASE Crash
  <2>1. ~series'[q].plan
    BY <1>14 DEF Crash, NoSeries
  <2> QED BY <2>1 DEF SeriesHeld
<1>15. ASSUME (\E p \in Plans : SyncPlan(p)) \/ UNCHANGED vars
       PROVE  SeriesHeld(q)'
  <2>1. UNCHANGED <<plan, series, pc>>
    BY <1>15 DEF SyncPlan, server, passVars, vars
  <2> QED BY <1>0, <2>1 DEF SeriesHeld
<1> QED BY <1>1, <1>2, <1>3, <1>4, <1>5, <1>6, <1>7, <1>8, <1>9, <1>10, <1>11, <1>12,
           <1>13, <1>14, <1>15 DEF Next, Pass

\* Every step preserves the part of the invariant about snapshots.
LEMMA SnapshotInvStep ==
    ASSUME TypeOK, TypeOK', SnapshotInv, [Next]_vars
    PROVE  SnapshotInv'
<1> SUFFICES ASSUME NEW q \in Plans
             PROVE  SnapshotObeyed(q)'
  BY DEF SnapshotInv
<1>0. /\ SnapshotObeyed(q)
      /\ DOMAIN pc = Plans /\ DOMAIN work = Plans /\ DOMAIN planCopy = Plans
      /\ planCopy[q] \in PlanObject
  BY DEF TypeOK, SnapshotInv
<1>1. ASSUME NEW p \in Plans, Reconcile(p)
      PROVE  SnapshotObeyed(q)'
  <2>1. PICK at \in {"idle", "list", "resolve", "finalizer"}, o \in PlanObject :
           /\ pc' = [pc EXCEPT ![p] = at] /\ planCopy' = [planCopy EXCEPT ![p] = o]
           /\ work' = work
    BY <1>1, ReconcileEffect
  <2> QED BY <1>0, <2>1 DEF SnapshotObeyed
<1>2. ASSUME NEW p \in Plans, EnsureFinalizer(p) \/ UpdateStatus(p)
      PROVE  SnapshotObeyed(q)'
  <2>1. /\ work' = work
        /\ pc' = [pc EXCEPT ![p] = "resolve"] \/ pc' = [pc EXCEPT ![p] = "release"]
        /\ planCopy' = [planCopy EXCEPT ![p] = plan'[p]]
    BY <1>2, EnsureFinalizerEffect, UpdateStatusEffect
  <2> QED BY <1>0, <2>1 DEF SnapshotObeyed
<1>3. ASSUME NEW p \in Plans, Resolve(p)
      PROVE  SnapshotObeyed(q)'
  <2>1. planCopy' = planCopy /\ work' = [work EXCEPT ![p] = Resolution(p, planCopy[p])]
    BY <1>3 DEF Resolve
  <2>2. CASE p # q
    <3>1. pc'[q] = pc[q] /\ work'[q] = work[q]
      BY <1>0, <1>3, <2>1, <2>2 DEF Resolve, Goto
    <3> QED BY <1>0, <2>1, <3>1 DEF SnapshotObeyed
  <2>3. CASE p = q
    <3>1. work'[q] = Resolution(q, planCopy[q])
      BY <1>0, <2>1, <2>3
    <3>2. /\ Resolution(q, planCopy[q]).fresh
                <=> planCopy[q].spec.selector # {} /\ ~planCopy[q].snapshot
          /\ planCopy[q].spec.selector # {} /\ planCopy[q].snapshot
                => Resolution(q, planCopy[q]).adopt \subseteq planCopy[q].resolved
      BY <1>0, ResolutionType
    <3> QED BY <2>1, <3>1, <3>2 DEF SnapshotObeyed
  <2> QED BY <2>2, <2>3
<1>4. ASSUME NEW p \in Plans, ListOwned(p) \/ DeleteSeries(p)
      PROVE  SnapshotObeyed(q)'
  <2>1. /\ planCopy' = planCopy
        /\ pc' = [pc EXCEPT ![p] = "clean"] \/ pc' = [pc EXCEPT ![p] = "remove"]
        /\ p # q => work'[q] = work[q]
    BY <1>0, <1>4 DEF ListOwned, DeleteSeries, Goto
  <2> QED BY <1>0, <2>1 DEF SnapshotObeyed
<1>5. ASSUME NEW p \in Plans, Finish(p) \/ RemoveFinalizer(p) \/ Retry(p) \/ Fail(p)
      PROVE  SnapshotObeyed(q)'
  <2>1. EndPass(p)
    BY <1>5 DEF Finish, RemoveFinalizer, Retry, Fail
  <2>2. /\ pc' = [pc EXCEPT ![p] = "idle"]
        /\ p # q => work'[q] = work[q] /\ planCopy'[q] = planCopy[q]
    BY <2>1, EndPassType
  <2> QED BY <1>0, <2>2 DEF SnapshotObeyed
<1>6. ASSUME NEW p \in Plans, NEW n \in Nodes, AdoptNode(p, n) \/ ReleaseNode(p, n)
      PROVE  SnapshotObeyed(q)'
  <2>1. /\ UNCHANGED <<pc, planCopy>>
        /\ \/ work' = [work EXCEPT ![p].adopt = @ \ {n}]
           \/ work' = [work EXCEPT ![p].release = @ \ {n}]
    BY <1>6, OwnerEffect
  <2>2. work'[q].fresh = work[q].fresh /\ work'[q].adopt \subseteq work[q].adopt
    <3>1. work \in [Plans -> PassWork]
      BY DEF TypeOK
    <3>2. CASE work' = [work EXCEPT ![p].adopt = @ \ {n}]
      BY <3>1, <3>2 DEF PassWork
    <3>3. CASE work' = [work EXCEPT ![p].release = @ \ {n}]
      BY <3>1, <3>3 DEF PassWork
    <3> QED BY <2>1, <3>2, <3>3
  <2> QED BY <1>0, <2>1, <2>2 DEF SnapshotObeyed
<1>7. CASE Crash
  BY <1>7 DEF Crash, SnapshotObeyed
<1>8. ASSUME \/ \E p \in Plans : CreatePlan(p) \/ EditSpec(p) \/ DeletePlan(p) \/ SyncPlan(p)
             \/ \E n \in Nodes : NodeJoins(n) \/ NodeLeaves(n) \/ Relabel(n)
             \/ UNCHANGED vars
      PROVE  SnapshotObeyed(q)'
  <2>1. UNCHANGED <<pc, planCopy, work>>
    BY <1>8 DEF CreatePlan, EditSpec, DeletePlan, SyncPlan, NodeJoins, NodeLeaves, Relabel,
                UserWrites, passVars, vars
  <2> QED BY <1>0, <2>1 DEF SnapshotObeyed
<1> QED BY <1>1, <1>2, <1>3, <1>4, <1>5, <1>6, <1>7, <1>8 DEF Next, Pass

(***************************************************************************)
(* Theorems.                                                               *)
(***************************************************************************)

\* Plans start without finalizer, nodes without owner, the registry empty.
LEMMA InvInit == Init => MembershipInv
<1> SUFFICES ASSUME Init PROVE MembershipInv
  OBVIOUS
<1>1. \A p \in Plans : ~plan[p].deleting /\ ~plan[p].finalizer /\ planCache[p] = plan[p]
  BY DEF Init, NoPlanObject, NewPlan
<1>2. \A p \in Plans : pc[p] = "idle" /\ ~series[p].plan
  BY DEF Init, NoSeries
<1>3. \A n \in Nodes : node[n].owner = NoPlan
  BY DEF Init, NoNode, NewNode
<1>4. PlanInv
  BY <1>1, <1>2 DEF PlanInv, PlanPassInv, Active, WorkingStates, CleaningStates
<1>5. OwnerInv
  BY <1>3, MembershipAssumption DEF OwnerInv, OwnedSafely
<1>6. SeriesInv /\ SnapshotInv
  BY <1>2 DEF SeriesInv, SeriesHeld, SnapshotInv, SnapshotObeyed
<1> QED BY <1>4, <1>5, <1>6 DEF MembershipInv

\* Passes that work, clean up, are refused by the webhook or killed keep who is
\* protected by a finalizer, who owns a node and what a snapshot allows in step.
THEOREM MembershipInvariant == Spec => []MembershipInv
<1>1. TypeOK /\ TypeOK' /\ MembershipInv /\ [Next]_vars => MembershipInv'
  BY PlanInvStep, OwnerInvStep, SeriesInvStep, SnapshotInvStep DEF MembershipInv
<1> QED BY <1>1, InvInit, MembershipTypeCorrect, PTL DEF Spec

\* The registry never reports a plan that is gone, with or without the webhook
\* and however the passes, deletions and crashes interleave.
THEOREM GhostFree == Spec => []NoGhostSeries
<1>1. MembershipInv => NoGhostSeries
  BY DEF MembershipInv, SeriesInv, SeriesHeld, NoGhostSeries
<1> QED BY <1>1, MembershipInvariant, PTL

\* A step keeps a snapshot that the cache and the pass know.
LEMMA SnapshotStep ==
    ASSUME TypeOK, TypeOK', MembershipInv, [Next]_vars
    PROVE  SnapshotFrozenStep
<1> DEFINE Kept(q) == plan'[q].snapshot /\ plan'[q].resolved = plan[q].resolved
<1> SUFFICES ASSUME NEW q \in Plans, SnapshotSeen(q), plan'[q].present
             PROVE  /\ Kept(q)
                    /\ \A n \in Nodes :
                          /\ planCopy[q].spec.selector # {}
                          /\ node[n].owner # q /\ node'[n].owner = q
                          => n \in plan[q].resolved
  BY DEF SnapshotFrozenStep
<1>0. /\ plan[q].present /\ plan[q].snapshot /\ SnapshotObeyed(q) /\ q # NoPlan
      /\ pc[q] # "idle" => planCopy[q].snapshot /\ planCopy[q].resolved = plan[q].resolved
  BY MembershipAssumption DEF SnapshotSeen, MembershipInv, SnapshotInv
<1>S. ASSUME node' = node, Kept(q)
      PROVE  /\ Kept(q)
             /\ \A n \in Nodes :
                   /\ planCopy[q].spec.selector # {}
                   /\ node[n].owner # q /\ node'[n].owner = q
                   => n \in plan[q].resolved
  BY <1>S
<1> HIDE DEF Kept
<1>1. ASSUME NEW p \in Plans, EnsureFinalizer(p)
      PROVE  node' = node /\ Kept(q)
  <2>1. /\ node' = node /\ plan'[p].snapshot = plan[p].snapshot
        /\ plan'[p].resolved = plan[p].resolved /\ (p # q => plan'[q] = plan[q])
    BY <1>1, EnsureFinalizerEffect
  <2> QED BY <1>0, <2>1 DEF Kept
<1>2. ASSUME NEW p \in Plans, UpdateStatus(p)
      PROVE  node' = node /\ Kept(q)
  <2>1. /\ pc[p] = "adopt" /\ node' = node
        /\ plan[p].snapshot => plan'[p].snapshot
        /\ ~work[p].fresh => plan'[p].resolved = plan[p].resolved
        /\ p # q => plan'[q] = plan[q]
    BY <1>2, UpdateStatusEffect
  <2> QED BY <1>0, <2>1 DEF Kept, SnapshotObeyed
<1>3. ASSUME NEW p \in Plans, RemoveFinalizer(p)
      PROVE  node' = node /\ Kept(q)
  <2>1. /\ node' = node /\ (p # q => plan'[q] = plan[q])
        /\ plan'[p].present => /\ plan'[p].snapshot = plan[p].snapshot
                               /\ plan'[p].resolved = plan[p].resolved
    BY <1>3, RemoveFinalizerEffect
  <2> QED BY <1>0, <2>1 DEF Kept
<1>4. ASSUME NEW p \in Plans, CreatePlan(p)
      PROVE  node' = node /\ Kept(q)
  <2>1. PICK np \in [Plans -> PlanObject] :
           /\ UserWrites("create", node, np)
           /\ ~plan[p].present /\ \A r \in Plans \ {p} : np[r] = plan[r]
    BY <1>4, CreateEffect
  <2>2. node' = node /\ plan' = np
    BY <2>1, UserEffect
  <2> QED BY <1>0, <2>1, <2>2 DEF Kept
<1>5. ASSUME NEW p \in Plans, EditSpec(p)
      PROVE  node' = node /\ Kept(q)
  <2>1. PICK np \in [Plans -> PlanObject] :
           /\ UserWrites("edit", node, np)
           /\ np[q].snapshot = plan[q].snapshot /\ np[q].resolved = plan[q].resolved
    BY <1>5, EditEffect
  <2>2. node' = node /\ plan' = np
    BY <2>1, UserEffect
  <2> QED BY <1>0, <2>1, <2>2 DEF Kept
<1>6. ASSUME NEW p \in Plans, DeletePlan(p)
      PROVE  node' = node /\ Kept(q)
  <2>1. PICK np \in [Plans -> PlanObject] :
           /\ UserWrites("delete", node, np) /\ \A r \in Plans \ {p} : np[r] = plan[r]
           /\ plan[p].finalizer => /\ np[p].snapshot = plan[p].snapshot
                                   /\ np[p].resolved = plan[p].resolved
           /\ ~plan[p].finalizer => ~np[p].present
    BY <1>6, DeleteEffect
  <2>2. node' = node /\ plan' = np
    BY <2>1, UserEffect
  <2> QED BY <1>0, <2>1, <2>2 DEF Kept
<1>7. ASSUME \/ \E p \in Plans : \/ Reconcile(p) \/ Resolve(p) \/ ListOwned(p)
                                 \/ DeleteSeries(p) \/ Finish(p) \/ Retry(p) \/ Fail(p)
                                 \/ SyncPlan(p)
             \/ Crash \/ UNCHANGED vars
      PROVE  node' = node /\ Kept(q)
  <2>1. node' = node /\ plan' = plan
    BY <1>7, QuietEffect, ReconcileEffect DEF SyncPlan, Crash, vars, server
  <2> QED BY <1>0, <2>1 DEF Kept
<1>8. ASSUME NEW m \in Nodes, NodeJoins(m) \/ NodeLeaves(m) \/ Relabel(m)
      PROVE  Kept(q) /\ \A n \in Nodes : node'[n].owner # node[n].owner => node'[n].owner # q
  <2>1. PICK nn \in [Nodes -> NodeObject], op \in ClusterOps :
           /\ UserWrites(op, nn, plan) /\ \A r \in Nodes \ {m} : nn[r] = node[r]
           /\ nn[m].owner = NoPlan \/ (nn[m].present /\ nn[m].owner = node[m].owner)
    BY <1>8, ClusterEffect
  <2>2. node' = nn /\ plan' = plan
    BY <2>1, UserEffect
  <2> QED BY <1>0, <2>1, <2>2 DEF Kept
<1>9. ASSUME NEW p \in Plans, NEW m \in Nodes, AdoptNode(p, m) \/ ReleaseNode(p, m)
      PROVE  /\ Kept(q)
             /\ \A n \in Nodes :
                   /\ planCopy[q].spec.selector # {}
                   /\ node[n].owner # q /\ node'[n].owner = q
                   => n \in plan[q].resolved
  <2>1. /\ plan' = plan /\ \A n \in Nodes \ {m} : node'[n] = node[n]
        /\ \/ pc[p] = "adopt" /\ m \in work[p].adopt /\ node'[m].owner = p
           \/ node'[m].owner = NoPlan
    BY <1>9, OwnerEffect
  <2>2. Kept(q)
    BY <1>0, <2>1 DEF Kept
  <2>3. ASSUME NEW n \in Nodes, planCopy[q].spec.selector # {},
               node[n].owner # q, node'[n].owner = q
        PROVE  n \in plan[q].resolved
    <3>1. n = m /\ p = q /\ pc[q] = "adopt" /\ n \in work[q].adopt
      BY <1>0, <2>1, <2>3
    <3> QED BY <1>0, <2>3, <3>1 DEF SnapshotObeyed
  <2> QED BY <2>2, <2>3
<1> QED BY <1>S, <1>1, <1>2, <1>3, <1>4, <1>5, <1>6, <1>7, <1>8, <1>9 DEF Next, Pass

\* The membership of a selector plan is frozen once the snapshot of its first
\* pass is in the cache, whatever edits, relabellings, joins and crashes follow.
THEOREM SnapshotsFrozen == Spec => SnapshotFrozen
<1>1. TypeOK /\ TypeOK' /\ MembershipInv /\ [Next]_vars => SnapshotFrozenStep
  BY SnapshotStep
<1> QED BY <1>1, MembershipTypeCorrect, MembershipInvariant, PTL DEF Spec, SnapshotFrozen

\* Every step is a step of the abstract ownership, or changes neither an owner
\* nor a finalizer.
LEMMA LeaseStep ==
    ASSUME TypeOK, TypeOK', MembershipInv, [Next]_vars
    PROVE  [L!Next]_(L!leaseVars)
<1> DEFINE H == [n \in Nodes |-> node[n].owner]
           P == {p \in Plans : plan[p].finalizer}
<1>0. PlanInv /\ OwnerInv
  BY DEF MembershipInv
<1>S. ASSUME \A n \in Nodes : node'[n].owner = node[n].owner,
             \A q \in Plans : plan'[q].finalizer = plan[q].finalizer
      PROVE  UNCHANGED L!leaseVars
  BY <1>S DEF L!leaseVars
<1>R. ASSUME NEW p \in Plans, node' = node,
             \A n \in Nodes : node[n].owner # p,
             ~plan'[p].finalizer, \A q \in Plans \ {p} : plan'[q] = plan[q]
      PROVE  L!Next
  <2>1. {q \in Plans : plan'[q].finalizer} = P \ {p}
    BY <1>R
  <2>2. L!Retire(p)
    BY <1>R, <2>1 DEF L!Retire
  <2> QED BY <2>2 DEF L!Next
<1>F. ASSUME NEW n \in Nodes, plan' = plan, node'[n].owner = NoPlan,
             \A m \in Nodes \ {n} : node'[m] = node[m]
      PROVE  L!Next
  <2>1. [m \in Nodes |-> node'[m].owner] = [H EXCEPT ![n] = NoPlan]
    BY <1>F
  <2>2. L!Free(n)
    BY <1>F, <2>1 DEF L!Free
  <2> QED BY <2>2 DEF L!Next
<1>1. ASSUME NEW p \in Plans, EnsureFinalizer(p)
      PROVE  L!Next
  <2>1. node' = node /\ plan'[p].finalizer /\ \A q \in Plans \ {p} : plan'[q] = plan[q]
    BY <1>1, EnsureFinalizerEffect
  <2>2. {q \in Plans : plan'[q].finalizer} = P \union {p}
    BY <2>1
  <2>3. L!Protect(p)
    BY <2>1, <2>2 DEF L!Protect
  <2> QED BY <2>3 DEF L!Next
<1>2. ASSUME NEW p \in Plans, UpdateStatus(p)
      PROVE  UNCHANGED L!leaseVars
  <2>1. /\ node' = node /\ SameLife(plan[p], plan'[p])
        /\ \A q \in Plans \ {p} : plan'[q] = plan[q]
    BY <1>2, UpdateStatusEffect
  <2>2. \A q \in Plans : plan'[q].finalizer = plan[q].finalizer
    BY <2>1 DEF SameLife
  <2> QED BY <1>S, <2>1, <2>2
<1>3. ASSUME NEW p \in Plans, RemoveFinalizer(p)
      PROVE  L!Next
  <2>1. /\ pc[p] = "remove" /\ node' = node /\ ~plan'[p].finalizer
        /\ \A q \in Plans \ {p} : plan'[q] = plan[q]
    BY <1>3, RemoveFinalizerEffect
  <2>2. \A n \in Nodes : node[n].owner # p
    BY <1>0, <2>1 DEF OwnerInv, OwnedSafely
  <2> QED BY <1>R, <2>1, <2>2
<1>4. ASSUME NEW p \in Plans, CreatePlan(p)
      PROVE  L!Next
  <2>1. PICK np \in [Plans -> PlanObject] :
           /\ UserWrites("create", node, np) /\ ~plan[p].present /\ ~np[p].finalizer
           /\ \A r \in Plans \ {p} : np[r] = plan[r]
    BY <1>4, CreateEffect
  <2>2. node' = node /\ plan' = np
    BY <2>1, UserEffect
  <2>3. \A n \in Nodes : node[n].owner # p
    BY <1>0, <2>1 DEF OwnerInv, OwnedSafely
  <2> QED BY <1>R, <2>1, <2>2, <2>3
<1>5. ASSUME NEW p \in Plans, EditSpec(p) \/ DeletePlan(p)
      PROVE  UNCHANGED L!leaseVars
  <2>1. \A q \in Plans : plan[q].finalizer \in BOOLEAN /\ plan'[q].finalizer \in BOOLEAN
    BY DEF TypeOK, PlanObject
  <2>2. CASE EditSpec(p)
    <3>1. PICK np \in [Plans -> PlanObject] :
             UserWrites("edit", node, np) /\ \A q \in Plans : SameLife(plan[q], np[q])
      BY <2>2, EditEffect
    <3>2. node' = node /\ plan' = np
      BY <3>1, UserEffect
    <3> QED BY <1>S, <3>1, <3>2 DEF SameLife
  <2>3. CASE DeletePlan(p)
    <3>1. PICK np \in [Plans -> PlanObject] :
             /\ UserWrites("delete", node, np) /\ \A r \in Plans \ {p} : np[r] = plan[r]
             /\ plan[p].finalizer => np[p].finalizer
             /\ ~plan[p].finalizer => ~np[p].finalizer
      BY <2>3, DeleteEffect
    <3>2. node' = node /\ plan' = np
      BY <3>1, UserEffect
    <3>3. \A q \in Plans : plan'[q].finalizer = plan[q].finalizer
      BY <2>1, <3>1, <3>2
    <3> QED BY <1>S, <3>2, <3>3
  <2> QED BY <1>5, <2>2, <2>3
<1>6. ASSUME NEW n \in Nodes, NodeJoins(n) \/ NodeLeaves(n) \/ Relabel(n)
      PROVE  L!Next \/ UNCHANGED L!leaseVars
  <2>1. PICK nn \in [Nodes -> NodeObject], op \in ClusterOps :
           /\ UserWrites(op, nn, plan) /\ \A r \in Nodes \ {n} : nn[r] = node[r]
           /\ nn[n].owner = NoPlan \/ nn[n].owner = node[n].owner
    BY <1>6, ClusterEffect
  <2>2. node' = nn /\ plan' = plan
    BY <2>1, UserEffect
  <2>3. CASE nn[n].owner = NoPlan
    BY <1>F, <2>1, <2>2, <2>3
  <2>4. CASE nn[n].owner = node[n].owner
    <3>1. \A m \in Nodes : node'[m].owner = node[m].owner
      BY <2>1, <2>2, <2>4
    <3> QED BY <1>S, <2>2, <3>1
  <2> QED BY <2>1, <2>3, <2>4
<1>7. ASSUME NEW p \in Plans, NEW n \in Nodes, AdoptNode(p, n) \/ ReleaseNode(p, n)
      PROVE  L!Next
  <2>1. /\ plan' = plan /\ \A m \in Nodes \ {n} : node'[m] = node[m]
        /\ (pc[p] = "adopt" /\ node'[n].owner = p) \/ node'[n].owner = NoPlan
    BY <1>7, OwnerEffect
  <2>2. CASE pc[p] = "adopt" /\ node'[n].owner = p
    <3>1. p \in P
      BY <1>0, <2>2 DEF PlanInv, PlanPassInv, WorkingStates
    <3>2. [m \in Nodes |-> node'[m].owner] = [H EXCEPT ![n] = p]
      BY <2>1, <2>2
    <3>3. L!Claim(p, n)
      BY <2>1, <3>1, <3>2 DEF L!Claim
    <3> QED BY <3>3 DEF L!Next
  <2>3. CASE node'[n].owner = NoPlan
    BY <1>F, <2>1, <2>3
  <2> QED BY <2>1, <2>2, <2>3
<1>8. ASSUME \/ \E p \in Plans : \/ Reconcile(p) \/ Resolve(p) \/ ListOwned(p)
                                 \/ DeleteSeries(p) \/ Finish(p) \/ Retry(p) \/ Fail(p)
                                 \/ SyncPlan(p)
             \/ Crash \/ UNCHANGED vars
      PROVE  UNCHANGED L!leaseVars
  <2>1. node' = node /\ plan' = plan
    BY <1>8, QuietEffect, ReconcileEffect DEF SyncPlan, Crash, vars, server
  <2> QED BY <1>S, <2>1
<1> QED BY <1>1, <1>2, <1>3, <1>4, <1>5, <1>6, <1>7, <1>8 DEF Next, Pass

\* Selection, admission and the passes implement the abstract ownership of
\* module Lease, however far the plan cache lags: only a plan that has its
\* finalizer takes a node, and the finalizer goes only when no node names the
\* plan any more.
THEOREM MembershipRefinesLease == Spec => ImplementsLease
<1>1. Init => L!Init
  <2> SUFFICES ASSUME Init PROVE L!Init
    OBVIOUS
  <2>1. \A n \in Nodes : node[n].owner = NoPlan
    BY DEF Init, NoNode, NewNode
  <2>2. \A p \in Plans : ~plan[p].finalizer
    BY DEF Init, NoPlanObject, NewPlan
  <2> QED BY <2>1, <2>2 DEF L!Init
<1>2. TypeOK /\ TypeOK' /\ MembershipInv /\ [Next]_vars => [L!Next]_(L!leaseVars)
  BY LeaseStep
<1> QED BY <1>1, <1>2, MembershipTypeCorrect, MembershipInvariant, PTL
        DEF Spec, ImplementsLease, L!Spec
=============================================================================
