--------------------------- MODULE SoloPlanProofs ---------------------------
(***************************************************************************)
(* What Ownership guarantees to a plan that does not share its nodes: the  *)
(* proofs here assume that there is at most one plan and that the node     *)
(* cache does not lag.  Nodes, specs, users, failed calls, crashes and the *)
(* lag of the plan cache are arbitrary.  Two plans that race for a node    *)
(* break each of these properties, because AdoptNode has no precondition.  *)
(***************************************************************************)
EXTENDS OwnershipProofs

OnePlan == \A p, q \in Plans : p = q

(***************************************************************************)
(* The invariant of a pass.                                                *)
(***************************************************************************)

\* From Resolve or ListOwned on, a pass holds copies of the nodes ...
HoldingStates == {"adopt", "preview", "drift", "cordon", "drain", "clean"}

\* ... which agree with the server in the operator's own annotations: only the
\* unschedulable flag can be changed by somebody else.
CopiesCurrent ==
    \A p \in Plans, n \in Nodes : pc[p] \in HoldingStates =>
        /\ nodeCopy[p][n].owner = node[n].owner
        /\ nodeCopy[p][n].cordoned = node[n].cordoned

ResolvedStates == {"adopt", "preview", "drift", "cordon"}

\* What the loops of the pass of p still have to do: nodes to release are owned
\* and not desired, nodes to cordon or uncordon are owned, and a clean-up works
\* on a plan that is being deleted.
WorkInv(p) ==
    /\ pc[p] \notin {"cordon", "clean"} => work[p].freed = {}
    /\ work[p].freed \intersect work[p].release = {}
    /\ pc[p] = "cordon" => work[p].freed = {} \/ work[p].todo = {}
    /\ pc[p] \in ResolvedStates => /\ work[p].stable \subseteq work[p].all
                                   /\ work[p].release \intersect work[p].all = {}
    /\ pc[p] \in ResolvedStates \union {"clean"} =>
          \A n \in work[p].release : nodeCopy[p][n].owner = p
    /\ pc[p] = "drift" => work[p].todo \subseteq work[p].stable
    /\ pc[p] = "cordon" => \A n \in work[p].todo : nodeCopy[p][n].owner = p
    /\ pc[p] \in CleaningStates => planCopy[p].deleting

SoloInv ==
    /\ nodeCache = node
    /\ CopiesCurrent
    /\ \A p \in Plans : WorkInv(p)
    /\ NoAbandonedCordon

\* A patch through a current copy: the annotations become what the operation
\* made of the copy, the unschedulable flag only if the operation changed it.
LEMMA SoloPatch ==
    ASSUME TypeOK, ~NodeLag, nodeCache = node, NEW p \in Plans, NEW n \in Nodes,
           nodeCopy[p][n].owner = node[n].owner,
           nodeCopy[p][n].cordoned = node[n].cordoned,
           NEW new \in NodeObject, PatchNode(p, n, new)
    PROVE  /\ plan' = plan /\ nodeCache' = node'
           /\ \A m \in Nodes \ {n} : /\ node'[m] = node[m]
                                     /\ nodeCopy'[p][m] = nodeCopy[p][m]
           /\ node'[n].owner = new.owner /\ node'[n].cordoned = new.cordoned
           /\ node'[n].unschedulable =
                 IF new.unschedulable = nodeCopy[p][n].unschedulable
                 THEN node[n].unschedulable ELSE new.unschedulable
           /\ nodeCopy'[p][n].owner = new.owner
           /\ nodeCopy'[p][n].cordoned = new.cordoned
           /\ \/ nodeCopy'[p][n] = node'[n]
              \/ nodeCopy'[p][n] = nodeCopy[p][n] /\ node'[n] = node[n]
<1> DEFINE merged == MergeNode(node[n], nodeCopy[p][n], new)
<1>0. /\ node \in [Nodes -> NodeObject]
      /\ nodeCopy \in [Plans -> [Nodes -> NodeObject]]
  BY DEF TypeOK
<1>1. CASE new = nodeCopy[p][n]
  BY <1>0, <1>1 DEF PatchNode, server, caches
<1>2. CASE new # nodeCopy[p][n]
  <2>1. /\ node' = [node EXCEPT ![n] = merged] /\ plan' = plan /\ nodeCache' = node'
        /\ nodeCopy' = [nodeCopy EXCEPT ![p][n] = merged]
    BY <1>2, CommitEffect DEF PatchNode
  <2>2. /\ merged.owner = new.owner /\ merged.cordoned = new.cordoned
        /\ merged.unschedulable =
              IF new.unschedulable = nodeCopy[p][n].unschedulable
              THEN node[n].unschedulable ELSE new.unschedulable
    BY DEF MergeNode, MergeField
  <2> HIDE DEF merged
  <2> QED BY <1>0, <2>1, <2>2
<1> QED BY <1>1, <1>2

\* The operations on a copy, field by field.
LEMMA AdoptedFields ==
    ASSUME NEW a \in NodeObject, NEW p \in Plans, NEW f \in BOOLEAN
    PROVE  /\ Adopted(a, p, f) \in NodeObject
           /\ Adopted(a, p, f).owner = p
           /\ Adopted(a, p, f).cordoned = (a.cordoned \/ f)
           /\ Adopted(a, p, f).unschedulable = (a.unschedulable \/ f)
BY DEF Adopted, NodeObject

\* ReconcileCordon and UncordonNode leave the owner, and write both marks.
LEMMA CordonedFields ==
    ASSUME NEW a \in NodeObject
    PROVE  /\ Cordoned(a) \in NodeObject /\ Uncordoned(a) \in NodeObject
           /\ Cordoned(a).owner = a.owner
           /\ Cordoned(a).cordoned = TRUE /\ Cordoned(a).unschedulable = TRUE
           /\ Uncordoned(a).owner = a.owner
           /\ Uncordoned(a).cordoned = FALSE /\ Uncordoned(a).unschedulable = FALSE
BY DEF Cordoned, Uncordoned, NodeObject

\* ReleaseNode clears the marks of a node the plan owns, and leaves it unschedulable or not.
LEMMA ReleasedFields ==
    ASSUME NEW a \in NodeObject, NEW p \in Plans
    PROVE  /\ Released(a, p) \in NodeObject
           /\ Released(a, p).owner = IF a.owner = p THEN NoPlan ELSE a.owner
           /\ Released(a, p).cordoned = IF a.owner = p THEN FALSE ELSE a.cordoned
           /\ Released(a, p).unschedulable = a.unschedulable
BY DEF Released, NodeObject

\* What a step does that is neither a patch of a node nor one of the steps of a
\* pass that set up its loops.
LEMMA SoloKeep ==
    ASSUME SoloInv, nodeCache' = node',
           \A n \in Nodes : /\ node'[n].owner = node[n].owner
                            /\ node'[n].cordoned = node[n].cordoned,
           \A p \in Plans : /\ pc'[p] = pc[p] /\ work'[p] = work[p]
                            /\ nodeCopy'[p] = nodeCopy[p]
                            /\ planCopy'[p] = planCopy[p]
    PROVE  SoloInv'
BY DEF SoloInv, CopiesCurrent, WorkInv, NoAbandonedCordon

\* The end of a pass, whatever its outcome.
LEMMA SoloEnd ==
    ASSUME TypeOK, OnePlan, SoloInv, nodeCache' = node', NEW p \in Plans, EndPass(p),
           \A n \in Nodes : /\ node'[n].owner = node[n].owner
                            /\ node'[n].cordoned = node[n].cordoned
    PROVE  SoloInv'
<1>1. \A q \in Plans : pc'[q] = "idle" /\ work'[q] = NoWork
  BY DEF OnePlan, EndPass, TypeOK
<1>2. \A q \in Plans : WorkInv(q)'
  BY <1>1 DEF WorkInv, NoWork, ResolvedStates, CleaningStates
<1> QED BY <1>1, <1>2 DEF SoloInv, CopiesCurrent, NoAbandonedCordon, HoldingStates

\* The patches of a pass preserve the invariant.
LEMMA SoloPatchStep ==
    ASSUME TypeOK, ~NodeLag, OnePlan, SoloInv, NEW p \in Plans, NEW n \in Nodes,
           \/ AdoptNode(p, n) \/ ReconcileDrift(p, n) \/ ReconcileCordon(p, n)
           \/ UncordonNode(p, n) \/ ReleaseNode(p, n)
    PROVE  SoloInv'
<1> DEFINE copy == nodeCopy[p][n]
           now == planCopy[p].spec.cordon /\ work[p].cordon
<1>0. /\ copy \in NodeObject /\ now \in BOOLEAN
      /\ work \in [Plans -> PassWork] /\ work[p] \in PassWork
      /\ nodeCache = node /\ WorkInv(p)
      /\ \A m \in Nodes : node[m].cordoned => node[m].owner # NoPlan
      /\ \A q \in Plans : q = p
  BY DEF TypeOK, SoloInv, NoAbandonedCordon, OnePlan
<1>1. pc' = pc /\ planCopy' = planCopy /\ pc[p] \in HoldingStates
  BY DEF AdoptNode, ReconcileDrift, ReconcileCordon, UncordonNode, ReleaseNode,
         HoldingStates
<1>2. \A m \in Nodes : /\ nodeCopy[p][m].owner = node[m].owner
                       /\ nodeCopy[p][m].cordoned = node[m].cordoned
  BY <1>1 DEF SoloInv, CopiesCurrent
<1>R. /\ Released(copy, p) \in NodeObject
      /\ Released(copy, p).cordoned => Released(copy, p).owner # NoPlan
  <2>1. copy.cordoned => copy.owner # NoPlan
    BY <1>0, <1>2
  <2> HIDE DEF copy
  <2>2. /\ Released(copy, p) \in NodeObject
        /\ Released(copy, p).owner = IF copy.owner = p THEN NoPlan ELSE copy.owner
        /\ Released(copy, p).cordoned = IF copy.owner = p THEN FALSE ELSE copy.cordoned
    BY <1>0, ReleasedFields
  <2> QED BY <2>1, <2>2
<1>P. ASSUME NEW new \in NodeObject, PatchNode(p, n, new),
             new.cordoned => new.owner # NoPlan
      PROVE  /\ nodeCache' = node' /\ CopiesCurrent' /\ NoAbandonedCordon'
             /\ \A m \in Nodes \ {n} : nodeCopy'[p][m] = nodeCopy[p][m]
             /\ nodeCopy'[p][n].owner = new.owner
  <2>1. /\ nodeCache' = node'
        /\ \A m \in Nodes \ {n} : /\ node'[m] = node[m]
                                  /\ nodeCopy'[p][m] = nodeCopy[p][m]
        /\ node'[n].owner = new.owner /\ node'[n].cordoned = new.cordoned
        /\ nodeCopy'[p][n].owner = new.owner
        /\ nodeCopy'[p][n].cordoned = new.cordoned
    BY <1>0, <1>2, <1>P, SoloPatch
  <2>2. CopiesCurrent'
    BY <1>0, <1>2, <2>1 DEF CopiesCurrent
  <2>3. NoAbandonedCordon'
    BY <1>0, <1>P, <2>1 DEF NoAbandonedCordon
  <2> QED BY <2>1, <2>2, <2>3
<1>Q. ASSUME nodeCache' = node', CopiesCurrent', NoAbandonedCordon', WorkInv(p)'
      PROVE  SoloInv'
  BY <1>0, <1>Q DEF SoloInv
<1>3. CASE AdoptNode(p, n)
  <2>1. /\ pc[p] = "adopt" /\ PatchNode(p, n, Adopted(copy, p, now))
        /\ work' = [work EXCEPT ![p].todo = @ \ {n}]
    BY <1>3 DEF AdoptNode
  <2>2. Adopted(copy, p, now) \in NodeObject /\ Adopted(copy, p, now).owner = p
    <3> HIDE DEF copy, now
    <3> QED BY <1>0, AdoptedFields
  <2>3. /\ nodeCache' = node' /\ CopiesCurrent' /\ NoAbandonedCordon'
        /\ \A m \in Nodes \ {n} : nodeCopy'[p][m] = nodeCopy[p][m]
        /\ nodeCopy'[p][n].owner = p
    BY <1>P, <2>1, <2>2, OwnershipAssumption
  <2>4. /\ work'[p].freed = work[p].freed /\ work'[p].release = work[p].release
        /\ work'[p].stable = work[p].stable /\ work'[p].all = work[p].all
    BY <1>0, <2>1 DEF PassWork
  <2>5. WorkInv(p)'
    BY <1>0, <1>1, <2>1, <2>3, <2>4 DEF WorkInv, ResolvedStates, CleaningStates, PassWork
  <2> QED BY <1>Q, <2>3, <2>5
<1>4. CASE ReconcileDrift(p, n)
  <2>1. /\ pc[p] = "drift" /\ PatchNode(p, n, Released(copy, p)) /\ n \in work[p].todo
        /\ work' = [work EXCEPT ![p].todo = @ \ {n}]
    BY <1>4 DEF ReconcileDrift
  <2>2. /\ Released(copy, p) \in NodeObject
        /\ Released(copy, p).cordoned => Released(copy, p).owner # NoPlan
    BY <1>R
  <2>3. /\ nodeCache' = node' /\ CopiesCurrent' /\ NoAbandonedCordon'
        /\ \A m \in Nodes \ {n} : nodeCopy'[p][m] = nodeCopy[p][m]
    BY <1>P, <2>1, <2>2
  <2>4. /\ work'[p].freed = work[p].freed /\ work'[p].release = work[p].release
        /\ work'[p].stable = work[p].stable /\ work'[p].all = work[p].all
        /\ work'[p].todo = work[p].todo \ {n}
    BY <1>0, <2>1 DEF PassWork
  <2>5. n \notin work[p].release
    BY <1>0, <2>1 DEF WorkInv, ResolvedStates
  <2>6. WorkInv(p)'
    BY <1>0, <1>1, <2>1, <2>3, <2>4, <2>5
       DEF WorkInv, ResolvedStates, CleaningStates, PassWork
  <2> QED BY <1>Q, <2>3, <2>6
<1>5. CASE ReconcileCordon(p, n)
  <2>1. /\ pc[p] = "cordon" /\ n \in work[p].todo
        /\ work' = [work EXCEPT ![p].todo = @ \ {n}]
        /\ PatchNode(p, n, Cordoned(copy)) \/ PatchNode(p, n, Uncordoned(copy))
    BY <1>5 DEF ReconcileCordon
  <2>2. copy.owner = p
    BY <1>0, <2>1 DEF WorkInv
  <2>3. \A new \in {Cordoned(copy), Uncordoned(copy)} :
            new \in NodeObject /\ new.owner = p
    BY <1>0, <2>2, CordonedFields
  <2>4. /\ nodeCache' = node' /\ CopiesCurrent' /\ NoAbandonedCordon'
        /\ \A m \in Nodes \ {n} : nodeCopy'[p][m] = nodeCopy[p][m]
        /\ nodeCopy'[p][n].owner = p
    BY <1>P, <2>1, <2>3, OwnershipAssumption
  <2>5. /\ work'[p].freed = work[p].freed /\ work'[p].release = work[p].release
        /\ work'[p].stable = work[p].stable /\ work'[p].all = work[p].all
        /\ work'[p].todo = work[p].todo \ {n}
    BY <1>0, <2>1 DEF PassWork
  <2>6. WorkInv(p)'
    BY <1>0, <1>1, <2>1, <2>4, <2>5 DEF WorkInv, ResolvedStates, CleaningStates, PassWork
  <2> QED BY <1>Q, <2>4, <2>6
<1>6. CASE UncordonNode(p, n)
  <2>1. /\ pc[p] \in {"cordon", "clean"}
        /\ work[p].todo = {} /\ work[p].freed = {} /\ n \in work[p].release
        /\ work' = [work EXCEPT ![p].release = @ \ {n}, ![p].freed = {n}]
        /\ PatchNode(p, n, Uncordoned(copy))
    BY <1>6 DEF UncordonNode
  <2>2. copy.owner = p
    BY <1>0, <2>1 DEF WorkInv, ResolvedStates
  <2>3. /\ Uncordoned(copy) \in NodeObject /\ Uncordoned(copy).owner = p
        /\ ~Uncordoned(copy).cordoned
    BY <1>0, <2>2, CordonedFields
  <2>4. /\ nodeCache' = node' /\ CopiesCurrent' /\ NoAbandonedCordon'
        /\ \A m \in Nodes \ {n} : nodeCopy'[p][m] = nodeCopy[p][m]
        /\ nodeCopy'[p][n].owner = p
    BY <1>P, <2>1, <2>3
  <2>5. /\ work'[p].freed = {n} /\ work'[p].release = work[p].release \ {n}
        /\ work'[p].stable = work[p].stable /\ work'[p].all = work[p].all
        /\ work'[p].todo = {}
    BY <1>0, <2>1 DEF PassWork
  <2>6. WorkInv(p)'
    BY <1>0, <1>1, <2>1, <2>4, <2>5 DEF WorkInv, ResolvedStates, CleaningStates, PassWork
  <2> QED BY <1>Q, <2>4, <2>6
<1>7. CASE ReleaseNode(p, n)
  <2>1. /\ pc[p] \in {"cordon", "clean"} /\ n \in work[p].freed
        /\ work' = [work EXCEPT ![p].freed = @ \ {n}]
        /\ PatchNode(p, n, Released(copy, p))
    BY <1>7 DEF ReleaseNode
  <2>2. /\ Released(copy, p) \in NodeObject
        /\ Released(copy, p).cordoned => Released(copy, p).owner # NoPlan
    BY <1>R
  <2>3. /\ nodeCache' = node' /\ CopiesCurrent' /\ NoAbandonedCordon'
        /\ \A m \in Nodes \ {n} : nodeCopy'[p][m] = nodeCopy[p][m]
    BY <1>P, <2>1, <2>2
  <2>4. /\ work'[p].freed = work[p].freed \ {n} /\ work'[p].release = work[p].release
        /\ work'[p].stable = work[p].stable /\ work'[p].all = work[p].all
        /\ work'[p].todo = work[p].todo
    BY <1>0, <2>1 DEF PassWork
  <2>5. n \notin work[p].release /\ (pc[p] = "cordon" => work[p].todo = {})
    BY <1>0, <2>1 DEF WorkInv
  <2>6. WorkInv(p)'
    BY <1>0, <1>1, <2>1, <2>3, <2>4, <2>5
       DEF WorkInv, ResolvedStates, CleaningStates, PassWork
  <2> QED BY <1>Q, <2>3, <2>6
<1> QED BY <1>3, <1>4, <1>5, <1>6, <1>7

\* Every step preserves the invariant.
LEMMA SoloStep ==
    ASSUME TypeOK, ~NodeLag, OnePlan, SoloInv, [Next]_vars
    PROVE  SoloInv'
<1>0. /\ node \in [Nodes -> NodeObject] /\ planCache \in [Plans -> PlanObject]
      /\ pc \in [Plans -> PassStates] /\ work \in [Plans -> PassWork]
      /\ planCopy \in [Plans -> PlanObject]
      /\ nodeCopy \in [Plans -> [Nodes -> NodeObject]]
      /\ nodeCache = node /\ NoAbandonedCordon /\ CopiesCurrent
      /\ \A p \in Plans : WorkInv(p)
  BY DEF TypeOK, SoloInv
<1>P. ASSUME NEW p \in Plans, node' = node, nodeCache' = node, WorkInv(p)',
             \A n \in Nodes : pc'[p] \in HoldingStates =>
                 /\ nodeCopy'[p][n].owner = node[n].owner
                 /\ nodeCopy'[p][n].cordoned = node[n].cordoned
      PROVE  SoloInv'
  BY <1>0, <1>P DEF SoloInv, CopiesCurrent, NoAbandonedCordon, OnePlan
<1>1. ASSUME NEW p \in Plans, Reconcile(p) PROVE SoloInv'
  <2>1. /\ node' = node /\ nodeCache' = nodeCache
        /\ work' = work /\ pc[p] = "idle"
        /\ pc'[p] = CASE ~planCache[p].present -> "idle"
                      [] planCache[p].present /\ planCache[p].deleting ->
                             IF planCache[p].finalizer THEN "list" ELSE "idle"
                      [] OTHER -> IF planCache[p].finalizer THEN "resolve" ELSE "finalizer"
        /\ planCopy'[p] = IF planCache[p].present
                                /\ (planCache[p].deleting => planCache[p].finalizer)
                          THEN planCache[p] ELSE NoPlanObject
    BY <1>0, <1>1 DEF Reconcile, Goto, server, caches
  <2>2. /\ pc'[p] \in {"idle", "list", "resolve", "finalizer"}
        /\ pc'[p] = "list" => planCopy'[p].deleting
    <3>1. /\ planCache[p].present \in BOOLEAN /\ planCache[p].deleting \in BOOLEAN
          /\ planCache[p].finalizer \in BOOLEAN
      BY <1>0 DEF PlanObject
    <3>2. CASE ~planCache[p].present
      BY <2>1, <3>1, <3>2
    <3>3. CASE planCache[p].present /\ ~planCache[p].deleting
      BY <2>1, <3>1, <3>3
    <3>4. CASE planCache[p].present /\ planCache[p].deleting
      BY <2>1, <3>1, <3>4
    <3> QED BY <3>1, <3>2, <3>3, <3>4
  <2>3. WorkInv(p)'
    BY <1>0, <2>1, <2>2 DEF WorkInv, ResolvedStates, CleaningStates
  <2> QED BY <1>0, <1>P, <2>1, <2>2, <2>3 DEF HoldingStates
<1>2. ASSUME NEW p \in Plans, EnsureFinalizer(p) PROVE SoloInv'
  <2>1. /\ node' = node /\ nodeCache' = node
        /\ work' = work /\ pc[p] = "finalizer" /\ pc'[p] = "resolve"
    BY <1>0, <1>2, CommitEffect DEF EnsureFinalizer, PatchPlan, Goto
  <2>2. WorkInv(p)'
    BY <1>0, <2>1 DEF WorkInv, ResolvedStates, CleaningStates
  <2> QED BY <1>P, <2>1, <2>2 DEF HoldingStates
<1>3. ASSUME NEW p \in Plans, Resolve(p) PROVE SoloInv'
  <2>1. /\ node' = node /\ nodeCache' = node
        /\ nodeCopy'[p] = node /\ pc'[p] = "adopt"
        /\ work'[p].freed = {}
        /\ work'[p].all = planCopy[p].spec.nodes
        /\ work'[p].stable = {n \in planCopy[p].spec.nodes : node[n].owner = p}
        /\ work'[p].release =
               {n \in Nodes \ planCopy[p].spec.nodes : node[n].owner = p}
    BY <1>0, <1>3 DEF Resolve, Goto, server, caches
  <2>2. WorkInv(p)'
    BY <2>1 DEF WorkInv, ResolvedStates, CleaningStates
  <2> QED BY <1>P, <2>1, <2>2
<1>4. ASSUME NEW p \in Plans, UpdateStatus(p) \/ ReconcilePreview(p) PROVE SoloInv'
  <2>1. node' = node /\ nodeCache' = node
    BY <1>0, <1>4, StatusWriteEffect
  <2>2. /\ nodeCopy' = nodeCopy /\ pc[p] \in HoldingStates
        /\ \A n \in Nodes : /\ nodeCopy'[p][n].owner = node[n].owner
                            /\ nodeCopy'[p][n].cordoned = node[n].cordoned
    BY <1>0, <1>4 DEF UpdateStatus, ReconcilePreview, CopiesCurrent, HoldingStates
  <2>3. CASE UpdateStatus(p)
    <3>1. work' = work /\ pc[p] = "adopt" /\ pc'[p] = "preview"
      BY <1>0, <2>3 DEF UpdateStatus, Goto
    <3>2. WorkInv(p)'
      BY <1>0, <2>2, <3>1 DEF WorkInv, ResolvedStates, CleaningStates
    <3> QED BY <1>P, <2>1, <2>2, <3>2
  <2>4. CASE ReconcilePreview(p)
    <3>1. /\ pc[p] = "preview" /\ pc'[p] = "drift"
          /\ work'[p].freed = work[p].freed /\ work'[p].release = work[p].release
          /\ work'[p].stable = work[p].stable /\ work'[p].all = work[p].all
          /\ work'[p].todo =
                 DriftReleases(p, nodeCopy[p], planCopy'[p], work[p].stable)
      BY <1>0, <2>4 DEF ReconcilePreview, Goto, PassWork
    <3>2. work'[p].todo \subseteq work[p].stable
      BY <3>1 DEF DriftReleases
    <3>3. WorkInv(p)'
      BY <1>0, <2>2, <3>1, <3>2 DEF WorkInv, ResolvedStates, CleaningStates
    <3> QED BY <1>P, <2>1, <2>2, <3>3
  <2> QED BY <1>4, <2>3, <2>4
<1>5. ASSUME NEW p \in Plans, CordonGate(p) PROVE SoloInv'
  <2>1. /\ node' = node /\ nodeCache' = node /\ nodeCopy' = nodeCopy
        /\ pc[p] = "drift" /\ pc'[p] \in {"cordon", "drain"}
        /\ \A n \in Nodes : /\ nodeCopy'[p][n].owner = node[n].owner
                            /\ nodeCopy'[p][n].cordoned = node[n].cordoned
    BY <1>0, <1>5 DEF CordonGate, Goto, server, caches, CopiesCurrent, HoldingStates
  <2>2. /\ work'[p].freed = work[p].freed
        /\ work'[p].stable = work[p].stable /\ work'[p].all = work[p].all
        /\ pc'[p] = "cordon" =>
              /\ work'[p].release = work[p].release
              /\ work'[p].todo =
                     CordonPatches(p, nodeCopy[p], planCopy[p], work[p].stable)
        /\ pc'[p] = "drain" => work'[p].release = {}
    BY <1>0, <1>5 DEF CordonGate, Goto, PassWork
  <2>3. pc'[p] = "cordon" => \A n \in work'[p].todo : nodeCopy[p][n].owner = p
    BY <2>2 DEF CordonPatches
  <2>4. WorkInv(p)'
    BY <1>0, <2>1, <2>2, <2>3 DEF WorkInv, ResolvedStates, CleaningStates
  <2> QED BY <1>P, <2>1, <2>4
<1>6. ASSUME NEW p \in Plans,
             SkipDrain(p) \/ ReconcileDrain(p) \/ RemoveFinalizer(p)
                \/ PlanGone(p) \/ Fail(p)
      PROVE SoloInv'
  <2>1. EndPass(p)
    BY <1>6 DEF SkipDrain, ReconcileDrain, RemoveFinalizer, PlanGone, Fail
  <2>2. node' = node /\ nodeCache' = node
    BY <1>0, <1>6, CommitEffect
       DEF SkipDrain, ReconcileDrain, RemoveFinalizer, PlanGone, Fail, server, caches
  <2> QED BY <2>1, <2>2, SoloEnd
<1>7. ASSUME NEW p \in Plans, ListOwned(p) PROVE SoloInv'
  <2>1. /\ node' = node /\ nodeCache' = node /\ planCopy' = planCopy
        /\ nodeCopy'[p] = node /\ pc[p] = "list" /\ pc'[p] = "clean"
        /\ work'[p].freed = work[p].freed
        /\ work'[p].release = {n \in Nodes : node[n].owner = p}
    BY <1>0, <1>7 DEF ListOwned, Goto, server, caches, PassWork
  <2>2. WorkInv(p)'
    BY <1>0, <2>1 DEF WorkInv, ResolvedStates, CleaningStates
  <2> QED BY <1>P, <2>1, <2>2
<1>8. ASSUME NEW p \in Plans, NEW n \in Nodes,
             \/ AdoptNode(p, n) \/ ReconcileDrift(p, n) \/ ReconcileCordon(p, n)
             \/ UncordonNode(p, n) \/ ReleaseNode(p, n)
      PROVE SoloInv'
  BY <1>8, SoloPatchStep
<1>9. ASSUME NEW p \in Plans, CreatePlan(p) \/ EditSpec(p) \/ DeletePlan(p)
      PROVE SoloInv'
  <2>1. PICK np : UserWrites(node, np)
    BY <1>9 DEF CreatePlan, EditSpec, DeletePlan
  <2>2. node' = node /\ nodeCache' = node' /\ UNCHANGED passVars
    BY <2>1, CommitEffect DEF UserWrites
  <2> QED BY <2>2, SoloKeep DEF passVars
<1>10. ASSUME NEW n \in Nodes, UserCordon(n) \/ UserUncordon(n)
       PROVE SoloInv'
  <2>1. PICK f : UserWrites([node EXCEPT ![n].unschedulable = f], plan)
    BY <1>10 DEF UserCordon, UserUncordon
  <2>2. /\ node' = [node EXCEPT ![n].unschedulable = f] /\ nodeCache' = node'
        /\ UNCHANGED passVars
    BY <2>1, CommitEffect DEF UserWrites
  <2>3. \A m \in Nodes : /\ node'[m].owner = node[m].owner
                         /\ node'[m].cordoned = node[m].cordoned
    BY <1>0, <2>2 DEF NodeObject
  <2> QED BY <2>2, <2>3, SoloKeep DEF passVars
<1>11. ASSUME NEW p \in Plans, TimerFires(p) \/ SyncPlan(p) PROVE SoloInv'
  <2>1. node' = node /\ nodeCache' = node /\ UNCHANGED passVars
    BY <1>0, <1>11 DEF TimerFires, SyncPlan, server, caches
  <2> QED BY <2>1, SoloKeep DEF passVars
<1>12. ASSUME NEW n \in Nodes, SyncNode(n) PROVE FALSE
  BY <1>0, <1>12 DEF SyncNode
<1>13. CASE Crash
  <2>1. /\ node' = node /\ nodeCache' = node
        /\ \A p \in Plans : pc'[p] = "idle" /\ work'[p] = NoWork
    BY <1>13 DEF Crash, server
  <2>2. \A p \in Plans : WorkInv(p)'
    BY <2>1 DEF WorkInv, NoWork, ResolvedStates, CleaningStates
  <2> QED BY <1>0, <2>1, <2>2 DEF SoloInv, CopiesCurrent, NoAbandonedCordon, HoldingStates
<1>14. CASE Tick \/ UNCHANGED vars
  <2>1. node' = node /\ nodeCache' = node /\ UNCHANGED passVars
    BY <1>0, <1>14 DEF Tick, vars, server, caches, passVars
  <2> QED BY <2>1, SoloKeep DEF passVars
<1> QED BY <1>1, <1>2, <1>3, <1>4, <1>5, <1>6, <1>7, <1>8, <1>9, <1>10, <1>11,
           <1>12, <1>13, <1>14 DEF Next, Pass

\* The invariant of a pass holds in every state.
THEOREM SoloInvariant ==
    ASSUME ~NodeLag, OnePlan
    PROVE  Spec => []SoloInv
<1>1. Init => SoloInv
  <2> SUFFICES ASSUME Init PROVE SoloInv
    OBVIOUS
  <2>1. /\ nodeCache = node /\ \A n \in Nodes : ~node[n].cordoned
        /\ \A p \in Plans : pc[p] = "idle" /\ work[p] = NoWork
    BY DEF Init
  <2>2. \A p \in Plans : WorkInv(p)
    BY <2>1 DEF WorkInv, NoWork, ResolvedStates, CleaningStates
  <2> QED BY <2>1, <2>2 DEF SoloInv, CopiesCurrent, NoAbandonedCordon, HoldingStates
<1>2. TypeOK /\ SoloInv /\ [Next]_vars => SoloInv'
  BY SoloStep
<1> QED BY <1>1, <1>2, TypeCorrect, PTL DEF Spec

\* A cordon of the operator is never left without a plan that undoes it.
THEOREM CordonsKept ==
    ASSUME ~NodeLag, OnePlan
    PROVE  Spec => []NoAbandonedCordon
<1>1. SoloInv => NoAbandonedCordon
  BY DEF SoloInv
<1> QED BY <1>1, SoloInvariant, PTL

(***************************************************************************)
(* What the operator's own steps do to the unschedulable flag.             *)
(***************************************************************************)

\* A step that is not a user's changes nodes only through a patch of a pass.
LEMMA OperatorPatches ==
    ASSUME TypeOK, [Next]_vars, OperatorStep
    PROVE  \/ node' = node
           \/ \E p \in Plans, n \in Nodes :
                 \/ AdoptNode(p, n) \/ ReconcileDrift(p, n) \/ ReconcileCordon(p, n)
                 \/ UncordonNode(p, n) \/ ReleaseNode(p, n)
<1>1. ASSUME NEW p \in Plans,
             \/ Reconcile(p) \/ Resolve(p) \/ CordonGate(p) \/ SkipDrain(p)
             \/ ListOwned(p) \/ PlanGone(p) \/ Fail(p) \/ TimerFires(p) \/ SyncPlan(p)
      PROVE  node' = node
  BY <1>1 DEF Reconcile, Resolve, CordonGate, SkipDrain, ListOwned, PlanGone, Fail,
              TimerFires, SyncPlan, server
<1>2. ASSUME NEW p \in Plans,
             \/ EnsureFinalizer(p) \/ UpdateStatus(p) \/ ReconcilePreview(p)
             \/ ReconcileDrain(p) \/ RemoveFinalizer(p)
      PROVE  node' = node
  BY <1>2, StatusWriteEffect, CommitEffect DEF EnsureFinalizer, PatchPlan, RemoveFinalizer
<1>3. ASSUME NEW op, UserStep(op) PROVE FALSE
  BY <1>3, OwnershipAssumption DEF UserStep, OperatorStep, TypeOK
<1>4. CASE Crash \/ Tick \/ UNCHANGED vars
  BY <1>4 DEF Crash, Tick, vars, server
<1>5. ASSUME NEW n \in Nodes, SyncNode(n) PROVE node' = node
  BY <1>5 DEF SyncNode, server
<1> QED BY <1>1, <1>2, <1>3, <1>4, <1>5
        DEF Next, Pass, CreatePlan, EditSpec, DeletePlan, UserCordon, UserUncordon

\* When the patch of one node makes it schedulable or unschedulable, the
\* operation is one that means to, and it is for the plan that owns the node.
LEMMA PatchUnschedulable ==
    ASSUME TypeOK, ~NodeLag, SoloInv, NEW p \in Plans, NEW n \in Nodes,
           \/ AdoptNode(p, n) \/ ReconcileDrift(p, n) \/ ReconcileCordon(p, n)
           \/ UncordonNode(p, n) \/ ReleaseNode(p, n)
    PROVE  /\ \A m \in Nodes \ {n} : node'[m] = node[m]
           /\ node[n].unschedulable /\ ~node'[n].unschedulable =>
                 /\ node[n].owner = p
                 /\ \/ UncordonNode(p, n)
                    \/ ReconcileCordon(p, n) /\ ~planCopy[p].spec.cordon
           /\ ~node[n].unschedulable /\ node'[n].unschedulable =>
                 /\ node'[n].owner = p
                 /\ planCopy[p].spec.cordon
                 /\ \/ AdoptNode(p, n) /\ work[p].cordon
                    \/ ReconcileCordon(p, n)
<1> DEFINE copy == nodeCopy[p][n]
           now == planCopy[p].spec.cordon /\ work[p].cordon
<1>0. /\ copy \in NodeObject /\ now \in BOOLEAN /\ nodeCache = node /\ WorkInv(p)
      /\ node[n] \in NodeObject
  BY DEF TypeOK, SoloInv
<1>1. copy.owner = node[n].owner /\ copy.cordoned = node[n].cordoned
  BY DEF SoloInv, CopiesCurrent, HoldingStates,
         AdoptNode, ReconcileDrift, ReconcileCordon, UncordonNode, ReleaseNode
<1>P. ASSUME NEW new \in NodeObject, PatchNode(p, n, new)
      PROVE  /\ \A m \in Nodes \ {n} : node'[m] = node[m]
             /\ node'[n].owner = new.owner
             /\ node'[n].unschedulable = IF new.unschedulable = copy.unschedulable
                                         THEN node[n].unschedulable
                                         ELSE new.unschedulable
  BY <1>0, <1>1, <1>P, SoloPatch
<1>2. CASE AdoptNode(p, n)
  <2>1. PatchNode(p, n, Adopted(copy, p, now))
    BY <1>2 DEF AdoptNode
  <2>2. /\ Adopted(copy, p, now) \in NodeObject /\ Adopted(copy, p, now).owner = p
        /\ Adopted(copy, p, now).unschedulable = (copy.unschedulable \/ now)
    <3> HIDE DEF copy, now
    <3> QED BY <1>0, AdoptedFields
  <2>3. copy.unschedulable \in BOOLEAN /\ node[n].unschedulable \in BOOLEAN
    BY <1>0 DEF NodeObject
  <2>4. /\ \A m \in Nodes \ {n} : node'[m] = node[m]
        /\ node'[n].owner = p
        /\ node'[n].unschedulable =
              IF (copy.unschedulable \/ now) = copy.unschedulable
              THEN node[n].unschedulable ELSE (copy.unschedulable \/ now)
    BY <1>P, <2>1, <2>2
  <2>5. CASE now
    BY <1>2, <2>3, <2>4, <2>5
  <2>6. CASE ~now
    BY <2>3, <2>4, <2>6
  <2> QED BY <2>5, <2>6
<1>3. CASE ReconcileDrift(p, n) \/ ReleaseNode(p, n)
  <2>1. PatchNode(p, n, Released(copy, p))
    BY <1>3 DEF ReconcileDrift, ReleaseNode
  <2>2. /\ Released(copy, p) \in NodeObject
        /\ Released(copy, p).unschedulable = copy.unschedulable
    <3> HIDE DEF copy
    <3> QED BY <1>0, ReleasedFields
  <2> QED BY <1>P, <2>1, <2>2
<1>4. CASE ReconcileCordon(p, n)
  <2>1. copy.owner = p
    BY <1>0, <1>4 DEF ReconcileCordon, WorkInv
  <2>2. /\ Cordoned(copy) \in NodeObject /\ Uncordoned(copy) \in NodeObject
        /\ Cordoned(copy).owner = p /\ Uncordoned(copy).owner = p
        /\ Cordoned(copy).unschedulable = TRUE
        /\ Uncordoned(copy).unschedulable = FALSE
    <3> HIDE DEF copy
    <3> QED BY <1>0, <2>1, CordonedFields
  <2>3. CASE planCopy[p].spec.cordon
    <3>1. PatchNode(p, n, Cordoned(copy))
      BY <1>4, <2>3 DEF ReconcileCordon
    <3> QED BY <1>P, <1>4, <2>2, <2>3, <3>1
  <2>4. CASE ~planCopy[p].spec.cordon
    <3>1. PatchNode(p, n, Uncordoned(copy))
      BY <1>4, <2>4 DEF ReconcileCordon
    <3> QED BY <1>P, <1>1, <1>4, <2>1, <2>2, <2>4, <3>1
  <2> QED BY <2>3, <2>4
<1>5. CASE UncordonNode(p, n)
  <2>1. copy.owner = p
    BY <1>0, <1>5 DEF UncordonNode, WorkInv, ResolvedStates
  <2>2. /\ Uncordoned(copy) \in NodeObject /\ Uncordoned(copy).unschedulable = FALSE
    <3> HIDE DEF copy
    <3> QED BY <1>0, CordonedFields
  <2>3. PatchNode(p, n, Uncordoned(copy))
    BY <1>5 DEF UncordonNode
  <2> QED BY <1>P, <1>1, <1>5, <2>1, <2>2, <2>3
<1> QED BY <1>2, <1>3, <1>4, <1>5

\* The operator puts a node back into service only for the plan that owns it,
\* and only when that plan is being deleted, does not cordon, or did not list
\* the node: no failed call, crash or event in the middle of a maintenance
\* makes a node schedulable (CleanUp and the two loops of ReconcileCordon).
THEOREM ReturnsWhenDone ==
    ASSUME ~NodeLag, OnePlan
    PROVE  Spec => NoEarlyReturn
<1>1. TypeOK /\ SoloInv /\ [Next]_vars => NoEarlyReturnStep
  <2> SUFFICES ASSUME TypeOK, SoloInv, [Next]_vars, OperatorStep, NEW n \in Nodes,
                      node[n].unschedulable, ~node'[n].unschedulable
               PROVE  \E p \in Plans :
                         /\ node[n].owner = p
                         /\ \/ pc[p] = "cordon" /\ n \notin work[p].all
                            \/ \E o \in {plan[p], planCopy[p]} :
                                  o.deleting \/ ~o.spec.cordon
    BY DEF NoEarlyReturnStep
  <2>1. PICK p \in Plans, m \in Nodes :
           \/ AdoptNode(p, m) \/ ReconcileDrift(p, m) \/ ReconcileCordon(p, m)
           \/ UncordonNode(p, m) \/ ReleaseNode(p, m)
    BY OperatorPatches
  <2>2. /\ node[n].owner = p
        /\ \/ UncordonNode(p, n)
           \/ ReconcileCordon(p, n) /\ ~planCopy[p].spec.cordon
    BY <2>1, PatchUnschedulable
  <2>3. WorkInv(p)
    BY DEF SoloInv
  <2>4. CASE UncordonNode(p, n)
    BY <2>2, <2>3, <2>4 DEF UncordonNode, WorkInv, ResolvedStates, CleaningStates
  <2> QED BY <2>2, <2>4
<1> QED BY <1>1, SoloInvariant, TypeCorrect, PTL DEF Spec, NoEarlyReturn

(***************************************************************************)
(* Cordons come on time, as long as edits do not move the start of a       *)
(* cordon: such an edit between ComputeSchedule and ReconcileCordon is     *)
(* outrun by the decision already taken.  Edits of anything else, of the   *)
(* list of nodes above all, are arbitrary, and plans come and go.          *)
(***************************************************************************)

SameStart(s, t) == s.cordon = t.cordon /\ s.startAt = t.startAt

\* Edits, if there are any, choose between specs that cordon at one time.
EditsKeepStart == "edit" \in UserOps => \A s, t \in Specs : SameStart(s, t)

\* A plan has one of the specs users choose from.
ChosenInv == \A p \in Plans : plan[p].present => plan[p].spec \in Specs

\* The cordon a pass works for is the one in the API server, although the pass
\* read it from a cache that may lag: an active plan in the cache is still the
\* same plan in the server.
SpecInv ==
    \A p \in Plans :
        /\ pc[p] \in WorkingStates => SameStart(planCopy[p].spec, plan[p].spec)
        /\ Active(planCache[p]) => SameStart(planCache[p].spec, plan[p].spec)

\* The schedule computed by Resolve is still right when it is acted on.
DueInv ==
    \A p \in Plans :
        /\ pc[p] = "cordon" => work[p].cordon
        /\ pc[p] \in ResolvedStates /\ work[p].cordon /\ planCopy[p].spec.cordon
              => planCopy[p].spec.startAt <= clock

\* The three status writes of a pass leave the spec alone; the copy, when it is
\* refreshed, becomes the plan in the server.
LEMMA StatusWriteSpec ==
    ASSUME TypeOK, NEW p \in Plans,
           UpdateStatus(p) \/ ReconcilePreview(p) \/ ReconcileDrain(p)
    PROVE  /\ \A q \in Plans : plan'[q].spec = plan[q].spec
           /\ \/ planCopy'[p] = planCopy[p] \/ planCopy'[p] = plan'[p]
              \/ pc'[p] = "idle"
           /\ \A q \in Plans \ {p} : planCopy'[q] = planCopy[q] /\ pc'[q] = pc[q]
           /\ pc[p] \in WorkingStates
<1>0. /\ plan[p] \in PlanObject /\ plan \in [Plans -> PlanObject]
      /\ planCopy \in [Plans -> PlanObject] /\ pc \in [Plans -> PassStates]
  BY DEF TypeOK
<1>1. CASE UpdateStatus(p)
  <2> DEFINE st == MergeField(plan[p].status, planCopy[p].status,
                buildNodeStatuses(p, nodeCopy[p], planCopy[p], work[p].all))
             co == MergeField(plan[p].conflict, planCopy[p].conflict,
                              work[p].conflict)
             obj == [plan[p] EXCEPT !.status = st, !.conflict = co]
  <2>1. PatchPlan(p, obj, queue) /\ pc[p] = "adopt" /\ pc' = [pc EXCEPT ![p] = "preview"]
    BY <1>1 DEF UpdateStatus, Goto
  <2> HIDE DEF st, co
  <2>2. obj.spec = plan[p].spec
    BY <1>0 DEF PlanObject
  <2> HIDE DEF obj
  <2>3. plan' = [plan EXCEPT ![p] = obj] /\ planCopy' = [planCopy EXCEPT ![p] = obj]
    BY <2>1, CommitEffect DEF PatchPlan
  <2> QED BY <1>0, <2>1, <2>2, <2>3 DEF WorkingStates
<1>2. CASE ReconcilePreview(p)
  <2> DEFINE obj == [plan[p] EXCEPT !.status = planCopy[p].status]
  <2>1. /\ pc[p] = "preview" /\ pc' = [pc EXCEPT ![p] = "drift"]
        /\ UNCHANGED <<server, caches, queue, planCopy>> \/ PatchPlan(p, obj, queue)
    BY <1>2 DEF ReconcilePreview, Goto
  <2>2. obj.spec = plan[p].spec
    BY <1>0 DEF PlanObject
  <2> HIDE DEF obj
  <2>3. \/ plan' = plan /\ planCopy' = planCopy
        \/ plan' = [plan EXCEPT ![p] = obj] /\ planCopy' = [planCopy EXCEPT ![p] = obj]
    BY <2>1, CommitEffect DEF PatchPlan, server
  <2> QED BY <1>0, <2>1, <2>2, <2>3 DEF WorkingStates
<1>3. CASE ReconcileDrain(p)
  <2>1. PICK st, q : Commit(node, [plan EXCEPT ![p].status = st], q)
    BY <1>3 DEF ReconcileDrain
  <2>2. plan' = [plan EXCEPT ![p].status = st]
    BY <2>1, CommitEffect
  <2>3. /\ EndPass(p) /\ pc[p] \in WorkingStates
    BY <1>3 DEF ReconcileDrain, CordonDone, WorkingStates
  <2>4. \A q2 \in Plans : plan'[q2].spec = plan[q2].spec
    BY <1>0, <2>2 DEF PlanObject
  <2> QED BY <1>0, <2>3, <2>4 DEF EndPass
<1> QED BY <1>1, <1>2, <1>3

\* Only CreatePlan and EditSpec write a spec, and both choose from Specs.
LEMMA ChosenStep ==
    ASSUME TypeOK, ChosenInv, [Next]_vars
    PROVE  ChosenInv'
<1> SUFFICES ASSUME NEW q \in Plans, plan'[q].present
             PROVE  plan'[q].spec \in Specs
  BY DEF ChosenInv
<1>0. /\ plan \in [Plans -> PlanObject] /\ plan[q] \in PlanObject
      /\ plan[q].present => plan[q].spec \in Specs
  BY DEF TypeOK, ChosenInv
<1>1. ASSUME NEW p \in Plans, EnsureFinalizer(p)
      PROVE  plan'[q].spec \in Specs
  <2>1. plan' = [plan EXCEPT ![p].finalizer = TRUE]
    BY <1>1, CommitEffect DEF EnsureFinalizer, PatchPlan
  <2> QED BY <1>0, <2>1 DEF PlanObject
<1>2. ASSUME NEW p \in Plans, UpdateStatus(p) \/ ReconcilePreview(p) \/ ReconcileDrain(p)
      PROVE  plan'[q].spec \in Specs
  <2>1. plan'[q].spec = plan[q].spec /\ SameLife(plan[q], plan'[q])
    BY <1>2, StatusWriteSpec, StatusWriteEffect
  <2> QED BY <1>0, <2>1 DEF SameLife
<1>3. ASSUME NEW p \in Plans, NEW n \in Nodes,
             \/ AdoptNode(p, n) \/ ReconcileDrift(p, n) \/ ReconcileCordon(p, n)
             \/ UncordonNode(p, n) \/ ReleaseNode(p, n)
      PROVE  plan'[q].spec \in Specs
  <2>1. \E new : PatchNode(p, n, new)
    BY <1>3 DEF AdoptNode, ReconcileDrift, ReconcileCordon, UncordonNode, ReleaseNode
  <2>2. plan' = plan
    BY <2>1, CommitEffect DEF PatchNode, server
  <2> QED BY <1>0, <2>2
<1>4. ASSUME NEW p \in Plans, RemoveFinalizer(p) \/ DeletePlan(p)
      PROVE  plan'[q].spec \in Specs
  <2>1. PICK o \in {NoPlanObject, [plan[p] EXCEPT !.finalizer = FALSE],
                    [plan[p] EXCEPT !.deleting = TRUE]} : plan' = [plan EXCEPT ![p] = o]
    BY <1>4, CommitEffect DEF RemoveFinalizer, DeletePlan, UserWrites
  <2> QED BY <1>0, <2>1 DEF PlanObject, NoPlanObject
<1>5. ASSUME NEW p \in Plans, CreatePlan(p)
      PROVE  plan'[q].spec \in Specs
  <2>1. PICK s \in Specs : plan' = [plan EXCEPT ![p] = NewPlan(s, edits + 1)]
    BY <1>5, CommitEffect DEF CreatePlan, UserWrites
  <2> QED BY <1>0, <2>1 DEF NewPlan
<1>6. ASSUME NEW p \in Plans, EditSpec(p)
      PROVE  plan'[q].spec \in Specs
  <2>1. PICK s \in Specs :
           UserWrites(node, [plan EXCEPT ![p].spec = s, ![p].generation = edits + 1])
    BY <1>6 DEF EditSpec
  <2>2. plan' = [plan EXCEPT ![p].spec = s, ![p].generation = edits + 1]
    BY <2>1, CommitEffect DEF UserWrites
  <2> QED BY <1>0, <2>2 DEF PlanObject
<1>7. ASSUME NEW n \in Nodes, UserCordon(n) \/ UserUncordon(n) \/ SyncNode(n)
      PROVE  plan'[q].spec \in Specs
  <2>1. plan' = plan
    BY <1>7, CommitEffect DEF UserCordon, UserUncordon, SyncNode, UserWrites, server
  <2> QED BY <1>0, <2>1
<1>8. ASSUME \/ \E p \in Plans : \/ Reconcile(p) \/ Resolve(p) \/ CordonGate(p)
                                 \/ SkipDrain(p) \/ ListOwned(p) \/ PlanGone(p)
                                 \/ Fail(p) \/ TimerFires(p) \/ SyncPlan(p)
             \/ Crash \/ Tick \/ UNCHANGED vars
      PROVE  plan'[q].spec \in Specs
  <2>1. plan' = plan
    BY <1>8 DEF Reconcile, Resolve, CordonGate, SkipDrain, ListOwned, PlanGone, Fail,
                TimerFires, SyncPlan, Crash, Tick, vars, server
  <2> QED BY <1>0, <2>1
<1> QED BY <1>1, <1>2, <1>3, <1>4, <1>5, <1>6, <1>7, <1>8 DEF Next, Pass

\* Every step preserves the agreement of the specs.
LEMMA SpecStep ==
    ASSUME TypeOK, EditsKeepStart, PlanInv, ChosenInv, SpecInv, [Next]_vars
    PROVE  SpecInv'
<1> SUFFICES ASSUME NEW q \in Plans
             PROVE  /\ pc'[q] \in WorkingStates => SameStart(planCopy'[q].spec, plan'[q].spec)
                    /\ Active(planCache'[q]) => SameStart(planCache'[q].spec, plan'[q].spec)
  BY DEF SpecInv
<1> DEFINE Goal == /\ pc'[q] \in WorkingStates => SameStart(planCopy'[q].spec, plan'[q].spec)
                   /\ Active(planCache'[q]) => SameStart(planCache'[q].spec, plan'[q].spec)
<1>0. /\ plan \in [Plans -> PlanObject] /\ planCache \in [Plans -> PlanObject]
      /\ planCopy \in [Plans -> PlanObject] /\ pc \in [Plans -> PassStates]
      /\ pc[q] \in WorkingStates => SameStart(planCopy[q].spec, plan[q].spec)
      /\ Active(planCache[q]) => SameStart(planCache[q].spec, plan[q].spec)
      /\ PlanPassInv(plan[q], planCache[q], pc[q])
  BY DEF TypeOK, PlanInv, SpecInv
<1>K. ASSUME plan'[q].spec = plan[q].spec,
             planCache'[q] = planCache[q] \/ planCache'[q] = plan'[q],
             \/ pc'[q] \notin WorkingStates
             \/ pc[q] \in WorkingStates /\ planCopy'[q] = planCopy[q]
             \/ planCopy'[q] = plan'[q]
      PROVE  Goal
  BY <1>0, <1>K DEF SameStart
<1>D. ASSUME ~Active(planCache[q]), ~plan'[q].finalizer, pc'[q] \notin WorkingStates,
             planCache'[q] = planCache[q] \/ planCache'[q] = plan'[q]
      PROVE  Goal
  BY <1>D DEF Active
<1>1. ASSUME NEW p \in Plans, Reconcile(p) PROVE Goal
  <2>1. plan' = plan /\ planCache' = planCache
    BY <1>1 DEF Reconcile, server, caches
  <2>2. CASE p # q
    <3>1. pc'[q] = pc[q] /\ planCopy'[q] = planCopy[q]
      BY <1>0, <1>1, <2>2 DEF Reconcile, Goto
    <3> QED BY <1>K, <2>1, <3>1
  <2>3. CASE p = q
    <3> DEFINE obj == planCache[q]
    <3>1. /\ pc'[q] = CASE ~obj.present -> "idle"
                        [] obj.present /\ obj.deleting ->
                               IF obj.finalizer THEN "list" ELSE "idle"
                        [] OTHER -> IF obj.finalizer THEN "resolve" ELSE "finalizer"
          /\ planCopy'[q] = IF obj.present /\ (obj.deleting => obj.finalizer)
                            THEN obj ELSE NoPlanObject
      BY <1>0, <1>1, <2>3 DEF Reconcile, Goto
    <3>2. obj.present \in BOOLEAN /\ obj.deleting \in BOOLEAN /\ obj.finalizer \in BOOLEAN
      BY <1>0 DEF PlanObject
    <3>3. pc'[q] \in WorkingStates => Active(obj) /\ planCopy'[q] = obj
      <4>1. CASE ~obj.present \/ obj.deleting
        BY <3>1, <3>2, <4>1 DEF WorkingStates
      <4>2. CASE obj.present /\ ~obj.deleting
        BY <3>1, <3>2, <4>2 DEF WorkingStates, Active
      <4> QED BY <3>2, <4>1, <4>2
    <3> QED BY <1>0, <2>1, <3>3
  <2> QED BY <2>2, <2>3
<1>2. ASSUME NEW p \in Plans, EnsureFinalizer(p) PROVE Goal
  <2> DEFINE obj == [plan[p] EXCEPT !.finalizer = TRUE]
  <2>1. /\ plan' = [plan EXCEPT ![p] = obj]
        /\ planCache' = planCache \/ planCache' = plan'
        /\ planCopy' = [planCopy EXCEPT ![p] = obj]
        /\ pc' = [pc EXCEPT ![p] = "resolve"]
    BY <1>2, CommitEffect DEF EnsureFinalizer, PatchPlan, Goto
  <2>2. obj.spec = plan[p].spec
    BY <1>0 DEF PlanObject
  <2> HIDE DEF obj
  <2>3. CASE p = q
    BY <1>0, <1>K, <2>1, <2>2, <2>3
  <2>4. CASE p # q
    BY <1>0, <1>K, <2>1, <2>4
  <2> QED BY <2>3, <2>4
<1>3. ASSUME NEW p \in Plans,
             \/ Resolve(p) \/ CordonGate(p) \/ SkipDrain(p)
             \/ ListOwned(p) \/ PlanGone(p) \/ Fail(p)
      PROVE  Goal
  <2>1. plan' = plan /\ planCache' = planCache
    BY <1>3 DEF Resolve, CordonGate, SkipDrain, ListOwned, PlanGone, Fail, server, caches
  <2>2. \/ pc'[q] \notin WorkingStates
        \/ pc[q] \in WorkingStates /\ planCopy'[q] = planCopy[q]
    BY <1>0, <1>3 DEF Resolve, CordonGate, SkipDrain, ListOwned, PlanGone, Fail,
                      EndPass, Goto, WorkingStates
  <2> QED BY <1>K, <2>1, <2>2
<1>4. ASSUME NEW p \in Plans, UpdateStatus(p) \/ ReconcilePreview(p) \/ ReconcileDrain(p)
      PROVE  Goal
  <2>1. /\ plan'[q].spec = plan[q].spec
        /\ \/ planCopy'[p] = planCopy[p] \/ planCopy'[p] = plan'[p]
           \/ pc'[p] = "idle"
        /\ p # q => planCopy'[q] = planCopy[q] /\ pc'[q] = pc[q]
        /\ pc[p] \in WorkingStates
    BY <1>4, StatusWriteSpec
  <2>2. planCache' = planCache \/ planCache' = plan'
    BY <1>4, StatusWriteEffect
  <2> QED BY <1>K, <2>1, <2>2 DEF WorkingStates
<1>5. ASSUME NEW p \in Plans, NEW n \in Nodes,
             \/ AdoptNode(p, n) \/ ReconcileDrift(p, n) \/ ReconcileCordon(p, n)
             \/ UncordonNode(p, n) \/ ReleaseNode(p, n)
      PROVE  Goal
  <2>1. pc' = pc /\ planCopy' = planCopy /\ \E new : PatchNode(p, n, new)
    BY <1>5 DEF AdoptNode, ReconcileDrift, ReconcileCordon, UncordonNode, ReleaseNode
  <2>2. plan' = plan /\ (planCache' = planCache \/ planCache' = plan')
    BY <2>1, CommitEffect DEF PatchNode, server, caches
  <2> QED BY <1>K, <2>1, <2>2
<1>6. ASSUME NEW p \in Plans, RemoveFinalizer(p) PROVE Goal
  <2>1. /\ plan' = [plan EXCEPT ![p] = IF @.deleting THEN NoPlanObject
                                       ELSE [@ EXCEPT !.finalizer = FALSE]]
        /\ planCache' = planCache \/ planCache' = plan'
        /\ pc[p] = "clean" /\ pc' = [pc EXCEPT ![p] = "idle"]
        /\ planCopy' = [planCopy EXCEPT ![p] = NoPlanObject]
    BY <1>6, CommitEffect DEF RemoveFinalizer, EndPass
  <2>2. CASE p # q
    BY <1>0, <1>K, <2>1, <2>2
  <2>3. CASE p = q
    <3>1. ~Active(planCache[q])
      BY <1>0, <2>1, <2>3 DEF PlanPassInv, CleaningStates
    <3>2. ~plan'[q].finalizer
      BY <1>0, <2>1, <2>3 DEF PlanObject, NoPlanObject
    <3>3. pc'[q] \notin WorkingStates
      BY <1>0, <2>1, <2>3 DEF WorkingStates
    <3> QED BY <1>D, <2>1, <3>1, <3>2, <3>3
  <2> QED BY <2>2, <2>3
<1>7. ASSUME NEW p \in Plans, CreatePlan(p) PROVE Goal
  <2>1. /\ ~plan[p].present /\ pc' = pc /\ planCopy' = planCopy
        /\ \E s \in Specs : plan' = [plan EXCEPT ![p] = NewPlan(s, edits + 1)]
        /\ planCache' = planCache \/ planCache' = plan'
    BY <1>7, CommitEffect DEF CreatePlan, UserWrites, passVars
  <2>2. CASE p # q
    BY <1>0, <1>K, <2>1, <2>2
  <2>3. CASE p = q
    <3>1. ~Active(planCache[q]) /\ pc'[q] \notin WorkingStates
      BY <1>0, <2>1, <2>3 DEF PlanPassInv
    <3>2. ~plan'[q].finalizer
      BY <1>0, <2>1, <2>3 DEF NewPlan
    <3> QED BY <1>D, <2>1, <3>1, <3>2
  <2> QED BY <2>2, <2>3
<1>8. ASSUME NEW p \in Plans, EditSpec(p) PROVE Goal
  <2>1. PICK s \in Specs :
           UserWrites(node, [plan EXCEPT ![p].spec = s, ![p].generation = edits + 1])
    BY <1>8 DEF EditSpec
  <2>2. /\ plan' = [plan EXCEPT ![p].spec = s, ![p].generation = edits + 1]
        /\ planCache' = planCache \/ planCache' = plan'
        /\ pc' = pc /\ planCopy' = planCopy
    BY <2>1, CommitEffect DEF UserWrites, passVars
  <2>3. CASE p # q
    BY <1>0, <1>K, <2>2, <2>3
  <2>4. CASE p = q
    <3>1. plan'[q].spec = s /\ plan[q].spec \in Specs /\ "edit" \in UserOps
      BY <1>0, <1>8, <2>2, <2>4 DEF EditSpec, UserStep, ChosenInv, PlanObject
    <3>2. SameStart(plan[q].spec, plan'[q].spec)
      BY <3>1 DEF EditsKeepStart
    <3> QED BY <1>0, <2>2, <3>2 DEF SameStart
  <2> QED BY <2>3, <2>4
<1>9. ASSUME NEW p \in Plans, DeletePlan(p) PROVE Goal
  <2>1. /\ plan' = [plan EXCEPT ![p] =
               IF @.finalizer THEN [@ EXCEPT !.deleting = TRUE] ELSE NoPlanObject]
        /\ planCache' = planCache \/ planCache' = plan'
        /\ pc' = pc /\ planCopy' = planCopy
    BY <1>9, CommitEffect DEF DeletePlan, UserWrites, passVars
  <2>2. CASE p # q
    BY <1>0, <1>K, <2>1, <2>2
  <2>3. CASE p = q /\ plan[q].finalizer
    <3>1. plan'[q].spec = plan[q].spec
      BY <1>0, <2>1, <2>3 DEF PlanObject
    <3> QED BY <1>K, <2>1, <3>1
  <2>4. CASE p = q /\ ~plan[q].finalizer
    <3>1. ~Active(planCache[q]) /\ pc'[q] \notin WorkingStates
      BY <1>0, <2>1, <2>4 DEF PlanPassInv
    <3>2. ~plan'[q].finalizer
      BY <1>0, <2>1, <2>4 DEF NoPlanObject
    <3> QED BY <1>D, <2>1, <3>1, <3>2
  <2> QED BY <2>2, <2>3, <2>4
<1>10. ASSUME NEW n \in Nodes, UserCordon(n) \/ UserUncordon(n) \/ SyncNode(n)
       PROVE  Goal
  <2>1. /\ plan' = plan /\ pc' = pc /\ planCopy' = planCopy
        /\ planCache' = planCache \/ planCache' = plan'
    BY <1>10, CommitEffect DEF UserCordon, UserUncordon, SyncNode, UserWrites,
                               passVars, server
  <2> QED BY <1>K, <2>1
<1>11. ASSUME NEW p \in Plans, TimerFires(p) \/ SyncPlan(p) PROVE Goal
  <2>1. /\ plan' = plan /\ pc' = pc /\ planCopy' = planCopy
        /\ planCache'[q] = planCache[q] \/ planCache'[q] = plan'[q]
    BY <1>0, <1>11 DEF TimerFires, SyncPlan, passVars, server, caches
  <2> QED BY <1>K, <2>1
<1>12. CASE Crash
  <2>1. plan' = plan /\ planCache' = plan /\ pc'[q] = "idle"
    BY <1>12 DEF Crash, server
  <2> QED BY <1>K, <2>1 DEF WorkingStates
<1>13. CASE Tick \/ UNCHANGED vars
  BY <1>K, <1>13 DEF Tick, vars, server, caches, passVars
<1> QED BY <1>1, <1>2, <1>3, <1>4, <1>5, <1>6, <1>7, <1>8, <1>9, <1>10,
           <1>11, <1>12, <1>13 DEF Next, Pass

\* Every step keeps the schedule of a running pass right.
LEMMA DueStep ==
    ASSUME TypeOK, SpecInv, DueInv, [Next]_vars
    PROVE  DueInv'
<1> SUFFICES ASSUME NEW q \in Plans
             PROVE  /\ pc'[q] = "cordon" => work'[q].cordon
                    /\ pc'[q] \in ResolvedStates /\ work'[q].cordon
                          /\ planCopy'[q].spec.cordon
                             => planCopy'[q].spec.startAt <= clock'
  BY DEF DueInv
<1> DEFINE Goal == /\ pc'[q] = "cordon" => work'[q].cordon
                   /\ pc'[q] \in ResolvedStates /\ work'[q].cordon
                         /\ planCopy'[q].spec.cordon
                            => planCopy'[q].spec.startAt <= clock'
<1>0. /\ pc \in [Plans -> PassStates] /\ work \in [Plans -> PassWork]
      /\ planCopy \in [Plans -> PlanObject]
      /\ clock \in Nat /\ planCopy[q].spec.startAt \in Nat
      /\ pc[q] = "cordon" => work[q].cordon
      /\ pc[q] \in ResolvedStates /\ work[q].cordon /\ planCopy[q].spec.cordon
            => planCopy[q].spec.startAt <= clock
  BY DEF TypeOK, DueInv, PlanObject, PlanSpec
<1>K. ASSUME pc[q] \in ResolvedStates, SameStart(planCopy'[q].spec, planCopy[q].spec),
             work'[q].cordon = work[q].cordon, clock' = clock \/ clock' = clock + 1,
             pc'[q] = "cordon" => pc[q] = "cordon" \/ work[q].cordon
      PROVE  Goal
  BY <1>0, <1>K DEF SameStart
<1>I. ASSUME pc'[q] \notin ResolvedStates PROVE Goal
  BY <1>I DEF ResolvedStates
<1>S. ASSUME pc'[q] = pc[q], planCopy'[q] = planCopy[q], work'[q] = work[q],
             clock' = clock \/ clock' = clock + 1
      PROVE  Goal
  BY <1>I, <1>K, <1>S DEF SameStart
<1>1. ASSUME NEW p \in Plans, Reconcile(p) PROVE Goal
  <2>1. CASE p = q
    <3>1. pc'[q] \in {"idle", "list", "resolve", "finalizer"}
      BY <1>0, <1>1, <2>1 DEF Reconcile, Goto
    <3> QED BY <1>I, <3>1 DEF ResolvedStates
  <2>2. CASE p # q
    BY <1>0, <1>1, <1>S, <2>2 DEF Reconcile, Goto
  <2> QED BY <2>1, <2>2
<1>2. ASSUME NEW p \in Plans, EnsureFinalizer(p) \/ ListOwned(p) PROVE Goal
  <2>1. CASE p = q
    <3>1. pc'[q] \in {"resolve", "clean"}
      BY <1>0, <1>2, <2>1 DEF EnsureFinalizer, ListOwned, Goto
    <3> QED BY <1>I, <3>1 DEF ResolvedStates
  <2>2. CASE p # q
    BY <1>0, <1>2, <1>S, <2>2 DEF EnsureFinalizer, PatchPlan, ListOwned, Goto
  <2> QED BY <2>1, <2>2
<1>3. ASSUME NEW p \in Plans, Resolve(p) PROVE Goal
  <2>1. CASE p = q
    <3>1. /\ pc'[q] = "adopt" /\ clock' = clock /\ planCopy' = planCopy
          /\ work'[q].cordon = cordonShouldAct(planCopy[q].spec)
      BY <1>0, <1>3, <2>1 DEF Resolve, Goto
    <3> QED BY <1>0, <3>1 DEF cordonShouldAct, ShouldAct
  <2>2. CASE p # q
    BY <1>0, <1>3, <1>S, <2>2 DEF Resolve, Goto
  <2> QED BY <2>1, <2>2
<1>4. ASSUME NEW p \in Plans, UpdateStatus(p) \/ ReconcilePreview(p) PROVE Goal
  <2>1. /\ plan'[p].spec = plan[p].spec
        /\ \/ planCopy'[p] = planCopy[p] \/ planCopy'[p] = plan'[p]
           \/ pc'[p] = "idle"
        /\ p # q => planCopy'[q] = planCopy[q] /\ pc'[q] = pc[q]
        /\ pc[p] \in WorkingStates
    BY <1>4, StatusWriteSpec
  <2>2. /\ clock' = clock /\ work'[q].cordon = work[q].cordon
        /\ p # q => work'[q] = work[q]
    BY <1>0, <1>4 DEF UpdateStatus, ReconcilePreview, PassWork
  <2>3. CASE p = q
    <3>1. /\ pc[q] \in {"adopt", "preview"} /\ pc'[q] \in {"preview", "drift"}
      BY <1>0, <1>4, <2>3 DEF UpdateStatus, ReconcilePreview, Goto
    <3>2. SameStart(planCopy'[q].spec, planCopy[q].spec)
      BY <2>1, <2>3, <3>1 DEF SpecInv, SameStart
    <3> QED BY <1>K, <2>2, <3>1, <3>2 DEF ResolvedStates
  <2>4. CASE p # q
    BY <1>S, <2>1, <2>2, <2>4
  <2> QED BY <2>3, <2>4
<1>5. ASSUME NEW p \in Plans, CordonGate(p) PROVE Goal
  <2>1. /\ pc[p] = "drift" /\ clock' = clock /\ planCopy' = planCopy
        /\ work'[q].cordon = work[q].cordon /\ (p # q => work'[q] = work[q])
        /\ pc' = [pc EXCEPT ![p] = IF work[p].cordon THEN "cordon" ELSE "drain"]
    <3>1. CASE work[p].cordon
      BY <1>0, <1>5, <3>1 DEF CordonGate, Goto, PassWork
    <3>2. CASE ~work[p].cordon
      BY <1>0, <1>5, <3>2 DEF CordonGate, Goto, PassWork
    <3> QED BY <3>1, <3>2
  <2>2. CASE p = q
    BY <1>0, <1>K, <2>1, <2>2 DEF ResolvedStates, SameStart
  <2>3. CASE p # q
    BY <1>0, <1>S, <2>1, <2>3
  <2> QED BY <2>2, <2>3
<1>6. ASSUME NEW p \in Plans, NEW n \in Nodes,
             \/ AdoptNode(p, n) \/ ReconcileDrift(p, n) \/ ReconcileCordon(p, n)
             \/ UncordonNode(p, n) \/ ReleaseNode(p, n)
      PROVE  Goal
  <2>1. /\ pc' = pc /\ planCopy' = planCopy /\ clock' = clock
        /\ work'[q].cordon = work[q].cordon
    BY <1>0, <1>6 DEF AdoptNode, ReconcileDrift, ReconcileCordon, UncordonNode,
                      ReleaseNode, PassWork
  <2> QED BY <1>I, <1>K, <2>1 DEF SameStart
<1>7. ASSUME NEW p \in Plans,
             SkipDrain(p) \/ ReconcileDrain(p) \/ RemoveFinalizer(p)
                \/ PlanGone(p) \/ Fail(p)
      PROVE Goal
  <2>1. EndPass(p) /\ clock' = clock
    BY <1>7 DEF SkipDrain, ReconcileDrain, RemoveFinalizer, PlanGone, Fail
  <2>2. CASE p = q
    <3>1. pc'[q] = "idle"
      BY <1>0, <2>1, <2>2 DEF EndPass
    <3> QED BY <1>I, <3>1 DEF ResolvedStates
  <2>3. CASE p # q
    BY <1>0, <1>S, <2>1, <2>3 DEF EndPass
  <2> QED BY <2>2, <2>3
<1>8. ASSUME NEW p \in Plans,
             \/ CreatePlan(p) \/ EditSpec(p) \/ DeletePlan(p) \/ TimerFires(p)
             \/ SyncPlan(p)
      PROVE Goal
  <2>1. UNCHANGED <<passVars, clock>>
    BY <1>8 DEF CreatePlan, EditSpec, DeletePlan, UserWrites, TimerFires, SyncPlan
  <2> QED BY <1>S, <2>1 DEF passVars
<1>9. ASSUME NEW n \in Nodes, SyncNode(n) \/ UserCordon(n) \/ UserUncordon(n)
      PROVE Goal
  <2>1. UNCHANGED <<passVars, clock>>
    BY <1>9 DEF SyncNode, UserCordon, UserUncordon, UserWrites
  <2> QED BY <1>S, <2>1 DEF passVars
<1>10. CASE Crash
  <2>1. pc'[q] = "idle"
    BY <1>10 DEF Crash
  <2> QED BY <1>I, <2>1 DEF ResolvedStates
<1>11. CASE Tick \/ UNCHANGED vars
  <2>1. UNCHANGED passVars /\ (clock' = clock \/ clock' = clock + 1)
    BY <1>11 DEF Tick, vars, passVars
  <2> QED BY <1>S, <2>1 DEF passVars
<1> QED BY <1>1, <1>2, <1>3, <1>4, <1>5, <1>6, <1>7, <1>8, <1>9, <1>10, <1>11
        DEF Next, Pass

\* When edits do not move cordons, the operator makes a node unschedulable only
\* for a plan that owns it from then on, that asks for a cordon, and whose start
\* time has come (AdoptNode, CordonNode, ComputeSchedule).
THEOREM CordonsOnTime ==
    ASSUME ~NodeLag, OnePlan, EditsKeepStart
    PROVE  Spec => CordonOnTime
<1>1. Init => ChosenInv /\ SpecInv /\ DueInv
  <2> SUFFICES ASSUME Init PROVE ChosenInv /\ SpecInv /\ DueInv
    OBVIOUS
  <2>1. \A p \in Plans : pc[p] = "idle" /\ planCache[p] = plan[p]
    BY DEF Init
  <2>2. ChosenInv
    BY DEF Init, ChosenInv, NoPlanObject, NewPlan
  <2> QED BY <2>1, <2>2 DEF SpecInv, SameStart, DueInv, WorkingStates, ResolvedStates
<1>2. /\ TypeOK /\ OwnershipInv /\ ChosenInv /\ SpecInv /\ DueInv /\ [Next]_vars
         => ChosenInv' /\ SpecInv' /\ DueInv'
  BY ChosenStep, SpecStep, DueStep DEF OwnershipInv
<1>3. TypeOK /\ SoloInv /\ SpecInv /\ DueInv /\ [Next]_vars => CordonOnTimeStep
  <2> SUFFICES ASSUME TypeOK, SoloInv, SpecInv, DueInv, [Next]_vars, OperatorStep,
                      NEW n \in Nodes,
                      ~node[n].unschedulable, node'[n].unschedulable
               PROVE  \E p \in Plans :
                         /\ node'[n].owner = p
                         /\ \E s \in {plan[p].spec, planCopy[p].spec} :
                               s.cordon /\ s.startAt <= clock
    BY DEF CordonOnTimeStep
  <2>1. PICK p \in Plans, m \in Nodes :
           \/ AdoptNode(p, m) \/ ReconcileDrift(p, m) \/ ReconcileCordon(p, m)
           \/ UncordonNode(p, m) \/ ReleaseNode(p, m)
    BY OperatorPatches
  <2>2. /\ node'[n].owner = p
        /\ planCopy[p].spec.cordon
        /\ \/ AdoptNode(p, n) /\ work[p].cordon
           \/ ReconcileCordon(p, n)
    BY <2>1, PatchUnschedulable
  <2>3. pc[p] \in ResolvedStates /\ work[p].cordon
    BY <2>2 DEF AdoptNode, ReconcileCordon, DueInv, ResolvedStates
  <2>4. planCopy[p].spec.startAt <= clock
    BY <2>2, <2>3 DEF DueInv
  <2> QED BY <2>2, <2>4
<1> QED BY <1>1, <1>2, <1>3, SoloInvariant, OwnershipInvariant, TypeCorrect, PTL
        DEF Spec, CordonOnTime

(***************************************************************************)
(* The operator does not mistake its own work for a manual uncordon.       *)
(***************************************************************************)

NoUncordons == "uncordon" \notin UserOps

\* A node annotated as cordoned is unschedulable, in the server and in every
\* copy a pass holds; a copy is at most behind on somebody's cordon.
FlagInv ==
    /\ \A n \in Nodes : node[n].cordoned => node[n].unschedulable
    /\ \A p \in Plans, n \in Nodes : pc[p] \in HoldingStates =>
          /\ nodeCopy[p][n].cordoned => nodeCopy[p][n].unschedulable
          /\ nodeCopy[p][n].unschedulable => node[n].unschedulable

\* No status, wherever it is kept, has a manual uncordon in it.
NoDrift(o) == \A n \in Nodes : o.status[n].drift # "ManualUncordon"

DriftInv ==
    \A p \in Plans : NoDrift(plan[p]) /\ NoDrift(planCache[p]) /\ NoDrift(planCopy[p])

\* Every step keeps annotation and flag together.
LEMMA FlagStep ==
    ASSUME TypeOK, ~NodeLag, OnePlan, NoUncordons, SoloInv, FlagInv, [Next]_vars
    PROVE  FlagInv'
<1>0. /\ node \in [Nodes -> NodeObject] /\ pc \in [Plans -> PassStates]
      /\ nodeCopy \in [Plans -> [Nodes -> NodeObject]] /\ nodeCache = node
  BY DEF TypeOK, SoloInv
<1>K. ASSUME \A n \in Nodes : /\ node'[n].cordoned = node[n].cordoned
                              /\ node[n].unschedulable => node'[n].unschedulable,
             \A q \in Plans : pc'[q] \in HoldingStates =>
                 \/ pc[q] \in HoldingStates /\ nodeCopy'[q] = nodeCopy[q]
                 \/ nodeCopy'[q] = node'
      PROVE  FlagInv'
  <2>1. \A n \in Nodes : node'[n].cordoned => node'[n].unschedulable
    BY <1>K DEF FlagInv
  <2>2. ASSUME NEW q \in Plans, NEW n \in Nodes, pc'[q] \in HoldingStates
        PROVE  /\ nodeCopy'[q][n].cordoned => nodeCopy'[q][n].unschedulable
               /\ nodeCopy'[q][n].unschedulable => node'[n].unschedulable
    BY <1>K, <2>1, <2>2 DEF FlagInv
  <2> QED BY <2>1, <2>2 DEF FlagInv
<1>1. ASSUME NEW p \in Plans,
             \/ Reconcile(p) \/ Resolve(p) \/ CordonGate(p) \/ SkipDrain(p)
             \/ ListOwned(p) \/ PlanGone(p) \/ Fail(p)
      PROVE  FlagInv'
  <2>1. node' = node
    BY <1>1 DEF Reconcile, Resolve, CordonGate, SkipDrain, ListOwned, PlanGone, Fail, server
  <2>2. \A q \in Plans : pc'[q] \in HoldingStates =>
            \/ pc[q] \in HoldingStates /\ nodeCopy'[q] = nodeCopy[q]
            \/ nodeCopy'[q] = node'
    <3>1. CASE Reconcile(p)
      BY <1>0, <3>1 DEF Reconcile, Goto, HoldingStates
    <3>2. CASE Resolve(p) \/ ListOwned(p)
      BY <1>0, <2>1, <3>2 DEF Resolve, ListOwned, Goto
    <3>3. CASE CordonGate(p)
      BY <1>0, <3>3 DEF CordonGate, Goto, HoldingStates
    <3>4. CASE SkipDrain(p) \/ PlanGone(p) \/ Fail(p)
      BY <1>0, <3>4 DEF SkipDrain, PlanGone, Fail, EndPass, HoldingStates
    <3> QED BY <1>1, <3>1, <3>2, <3>3, <3>4
  <2> QED BY <1>K, <2>1, <2>2
<1>2. ASSUME NEW p \in Plans,
             \/ EnsureFinalizer(p) \/ UpdateStatus(p) \/ ReconcilePreview(p)
             \/ ReconcileDrain(p) \/ RemoveFinalizer(p)
      PROVE  FlagInv'
  <2>1. node' = node
    BY <1>2, StatusWriteEffect, CommitEffect
       DEF EnsureFinalizer, PatchPlan, RemoveFinalizer
  <2>2. \A q \in Plans : pc'[q] \in HoldingStates =>
            pc[q] \in HoldingStates /\ nodeCopy'[q] = nodeCopy[q]
    BY <1>0, <1>2 DEF EnsureFinalizer, UpdateStatus, ReconcilePreview, ReconcileDrain,
                      RemoveFinalizer, EndPass, Goto, HoldingStates
  <2> QED BY <1>K, <2>1, <2>2
<1>3. ASSUME NEW p \in Plans, NEW n \in Nodes,
             \/ AdoptNode(p, n) \/ ReconcileDrift(p, n) \/ ReconcileCordon(p, n)
             \/ UncordonNode(p, n) \/ ReleaseNode(p, n)
      PROVE  FlagInv'
  <2> DEFINE copy == nodeCopy[p][n]
             now == planCopy[p].spec.cordon /\ work[p].cordon
  <2>0. /\ copy \in NodeObject /\ now \in BOOLEAN /\ node[n] \in NodeObject
        /\ copy.cordoned \in BOOLEAN /\ copy.unschedulable \in BOOLEAN
        /\ node[n].unschedulable \in BOOLEAN
    BY <1>0 DEF NodeObject
  <2>1. pc' = pc /\ pc[p] \in HoldingStates
    BY <1>3 DEF AdoptNode, ReconcileDrift, ReconcileCordon, UncordonNode, ReleaseNode,
                HoldingStates
  <2>2. /\ copy.owner = node[n].owner /\ copy.cordoned = node[n].cordoned
        /\ copy.cordoned => copy.unschedulable
        /\ copy.unschedulable => node[n].unschedulable
    BY <2>1 DEF SoloInv, CopiesCurrent, FlagInv
  <2>3. PICK new \in NodeObject :
            PatchNode(p, n, new) /\ (new.cordoned => new.unschedulable)
    <3>1. CASE AdoptNode(p, n)
      <4>1. /\ Adopted(copy, p, now) \in NodeObject
            /\ Adopted(copy, p, now).cordoned = (copy.cordoned \/ now)
            /\ Adopted(copy, p, now).unschedulable = (copy.unschedulable \/ now)
        <5> HIDE DEF copy, now
        <5> QED BY <2>0, AdoptedFields
      <4>2. PatchNode(p, n, Adopted(copy, p, now))
        BY <3>1 DEF AdoptNode
      <4>3. Adopted(copy, p, now).cordoned => Adopted(copy, p, now).unschedulable
        <5> HIDE DEF copy, now
        <5> QED BY <2>0, <2>2, <4>1
      <4> QED BY <4>1, <4>2, <4>3
    <3>2. CASE ReconcileDrift(p, n) \/ ReleaseNode(p, n)
      <4>1. /\ Released(copy, p) \in NodeObject
            /\ Released(copy, p).cordoned = IF copy.owner = p THEN FALSE ELSE copy.cordoned
            /\ Released(copy, p).unschedulable = copy.unschedulable
        <5> HIDE DEF copy
        <5> QED BY <2>0, ReleasedFields
      <4>2. PatchNode(p, n, Released(copy, p))
        BY <3>2 DEF ReconcileDrift, ReleaseNode
      <4> QED BY <2>2, <4>1, <4>2
    <3>3. CASE ReconcileCordon(p, n) \/ UncordonNode(p, n)
      <4>1. \A new \in {Cordoned(copy), Uncordoned(copy)} :
                new \in NodeObject /\ (new.cordoned => new.unschedulable)
        <5> HIDE DEF copy
        <5>1. /\ Cordoned(copy) \in NodeObject /\ Uncordoned(copy) \in NodeObject
              /\ Cordoned(copy).unschedulable = TRUE
              /\ Uncordoned(copy).cordoned = FALSE
          BY <2>0, CordonedFields
        <5> QED BY <5>1
      <4>2. \E new \in {Cordoned(copy), Uncordoned(copy)} : PatchNode(p, n, new)
        BY <3>3 DEF ReconcileCordon, UncordonNode
      <4> QED BY <4>1, <4>2
    <3> QED BY <1>3, <3>1, <3>2, <3>3
  <2>4. /\ \A m \in Nodes \ {n} : /\ node'[m] = node[m]
                                  /\ nodeCopy'[p][m] = nodeCopy[p][m]
        /\ node'[n].cordoned = new.cordoned
        /\ node'[n].unschedulable = IF new.unschedulable = copy.unschedulable
                                    THEN node[n].unschedulable ELSE new.unschedulable
        /\ \/ nodeCopy'[p][n] = node'[n]
           \/ nodeCopy'[p][n] = copy /\ node'[n] = node[n]
    BY <1>0, <2>2, <2>3, SoloPatch
  <2>5. node'[n].cordoned => node'[n].unschedulable
    BY <2>0, <2>2, <2>3, <2>4
  <2>6. \A m \in Nodes : node'[m].cordoned => node'[m].unschedulable
    BY <2>4, <2>5 DEF FlagInv
  <2>7. ASSUME NEW m \in Nodes
        PROVE  /\ nodeCopy'[p][m].cordoned => nodeCopy'[p][m].unschedulable
               /\ nodeCopy'[p][m].unschedulable => node'[m].unschedulable
    <3>1. CASE m = n
      BY <2>2, <2>4, <2>5, <3>1
    <3>2. CASE m # n
      BY <2>1, <2>4, <3>2 DEF FlagInv
    <3> QED BY <3>1, <3>2
  <2> QED BY <2>6, <2>7 DEF FlagInv, OnePlan
<1>4. ASSUME NEW p \in Plans,
             \/ CreatePlan(p) \/ EditSpec(p) \/ DeletePlan(p) \/ TimerFires(p)
             \/ SyncPlan(p)
      PROVE  FlagInv'
  <2>1. node' = node /\ UNCHANGED passVars
    BY <1>4, CommitEffect
       DEF CreatePlan, EditSpec, DeletePlan, UserWrites, TimerFires, SyncPlan, server
  <2> QED BY <1>K, <2>1 DEF passVars
<1>5. ASSUME NEW n \in Nodes, UserCordon(n) PROVE FlagInv'
  <2>1. node' = [node EXCEPT ![n].unschedulable = TRUE] /\ UNCHANGED passVars
    BY <1>5, CommitEffect DEF UserCordon, UserWrites
  <2>2. \A m \in Nodes : /\ node'[m].cordoned = node[m].cordoned
                         /\ node[m].unschedulable => node'[m].unschedulable
    BY <1>0, <2>1 DEF NodeObject
  <2> QED BY <1>K, <2>1, <2>2 DEF passVars
<1>6. ASSUME NEW n \in Nodes, UserUncordon(n) \/ SyncNode(n) PROVE FALSE
  BY <1>0, <1>6 DEF UserUncordon, UserStep, NoUncordons, SyncNode
<1>7. CASE Crash
  BY <1>K, <1>7 DEF Crash, server, HoldingStates
<1>8. CASE Tick \/ UNCHANGED vars
  BY <1>K, <1>8 DEF Tick, vars, server, passVars
<1> QED BY <1>1, <1>2, <1>3, <1>4, <1>5, <1>6, <1>7, <1>8 DEF Next, Pass

\* A pass that looks at a copy whose annotation and flag agree finds no manual
\* uncordon, and carries none forward.
LEMMA BuildNoDrift ==
    ASSUME NEW p \in Plans, NEW objs, NEW pl \in PlanObject, NoDrift(pl), NEW all,
           \A n \in Nodes : objs[n].cordoned => objs[n].unschedulable
    PROVE  \A n \in Nodes :
              buildNodeStatuses(p, objs, pl, all)[n].drift # "ManualUncordon"
<1> SUFFICES ASSUME NEW n \in Nodes
             PROVE  buildNodeStatuses(p, objs, pl, all)[n].drift # "ManualUncordon"
  OBVIOUS
<1> DEFINE found == DetectNodeDrift(p, objs[n], pl, n)
<1>1. found \in {"", "MaintenanceComplete", "ExternalCordon"}
  BY DEF DetectNodeDrift
<1>2. pl.status[n] \in NodeStatus /\ pl.status[n].drift # "ManualUncordon"
  BY DEF PlanObject, NoDrift
<1>3. buildNodeStatus(p, objs[n], pl, n).drift =
          CASE found = "MaintenanceComplete" -> ""
            [] found = "" -> pl.status[n].drift
            [] OTHER -> found
  BY <1>2 DEF buildNodeStatus, NodeStatus
<1>4. buildNodeStatus(p, objs[n], pl, n).drift # "ManualUncordon"
  <2> HIDE DEF found
  <2>1. CASE found = ""
    BY <1>2, <1>3, <2>1
  <2>2. CASE found = "MaintenanceComplete"
    BY <1>3, <2>2
  <2>3. CASE found = "ExternalCordon"
    BY <1>3, <2>3
  <2> QED BY <1>1, <2>1, <2>2, <2>3
<1>5. buildNodeStatuses(p, objs, pl, all)[n]
          \in {buildNodeStatus(p, objs[n], pl, n), NoNodeStatus}
  BY DEF buildNodeStatuses
<1>6. NoNodeStatus.drift # "ManualUncordon"
  BY DEF NoNodeStatus
<1> QED BY <1>4, <1>5, <1>6

\* Every step keeps the statuses free of manual uncordons.
LEMMA DriftStep ==
    ASSUME TypeOK, SoloInv, FlagInv, DriftInv, [Next]_vars
    PROVE  DriftInv'
<1>0. /\ plan \in [Plans -> PlanObject] /\ planCache \in [Plans -> PlanObject]
      /\ planCopy \in [Plans -> PlanObject] /\ pc \in [Plans -> PassStates]
      /\ \A q \in Plans : /\ NoDrift(plan[q]) /\ NoDrift(planCache[q])
                          /\ NoDrift(planCopy[q])
  BY DEF TypeOK, DriftInv
<1>N. NoDrift(NoPlanObject)
  BY DEF NoDrift, NoPlanObject, NoStatus, NoNodeStatus
<1>K. ASSUME \A q \in Plans : NoDrift(plan'[q]),
             \A q \in Plans : planCache'[q] = planCache[q] \/ planCache'[q] = plan'[q],
             \A q \in Plans : \/ planCopy'[q] = planCopy[q] \/ planCopy'[q] = plan'[q]
                              \/ planCopy'[q] = planCache[q] \/ planCopy'[q] = NoPlanObject
      PROVE  DriftInv'
  BY <1>0, <1>N, <1>K DEF DriftInv
<1>P. ASSUME NEW p \in Plans, NEW obj, NoDrift(obj), PatchPlan(p, obj, queue)
      PROVE  DriftInv'
  <2>1. /\ plan' = [plan EXCEPT ![p] = obj] /\ planCopy' = [planCopy EXCEPT ![p] = obj]
        /\ planCache' = planCache \/ planCache' = plan'
    BY <1>P, CommitEffect DEF PatchPlan
  <2>2. \A q \in Plans : plan'[q] = IF q = p THEN obj ELSE plan[q]
    BY <1>0, <2>1
  <2>3. \A q \in Plans : planCopy'[q] = IF q = p THEN obj ELSE planCopy[q]
    BY <1>0, <2>1
  <2>4. \A q \in Plans : NoDrift(plan'[q])
    BY <1>0, <1>P, <2>2
  <2> QED BY <1>K, <2>1, <2>2, <2>3, <2>4
<1>1. ASSUME NEW p \in Plans,
             \/ Reconcile(p) \/ Resolve(p) \/ CordonGate(p) \/ SkipDrain(p)
             \/ ListOwned(p) \/ PlanGone(p) \/ Fail(p)
      PROVE  DriftInv'
  <2>1. plan' = plan /\ planCache' = planCache
    BY <1>1 DEF Reconcile, Resolve, CordonGate, SkipDrain, ListOwned, PlanGone, Fail,
                server, caches
  <2>2. \A q \in Plans : \/ planCopy'[q] = planCopy[q]
                         \/ planCopy'[q] = planCache[q] \/ planCopy'[q] = NoPlanObject
    BY <1>0, <1>1 DEF Reconcile, Resolve, CordonGate, SkipDrain, ListOwned, PlanGone,
                      Fail, EndPass
  <2> QED BY <1>0, <1>K, <2>1, <2>2
<1>2. ASSUME NEW p \in Plans, EnsureFinalizer(p) PROVE DriftInv'
  <2>1. NoDrift([plan[p] EXCEPT !.finalizer = TRUE])
    BY <1>0 DEF NoDrift, PlanObject
  <2> QED BY <1>2, <1>P, <2>1 DEF EnsureFinalizer
<1>3. ASSUME NEW p \in Plans, UpdateStatus(p) PROVE DriftInv'
  <2> DEFINE statuses == buildNodeStatuses(p, nodeCopy[p], planCopy[p], work[p].all)
             st == MergeField(plan[p].status, planCopy[p].status, statuses)
             co == MergeField(plan[p].conflict, planCopy[p].conflict, work[p].conflict)
             obj == [plan[p] EXCEPT !.status = st, !.conflict = co]
  <2>1. PatchPlan(p, obj, queue) /\ pc[p] \in HoldingStates
    BY <1>3 DEF UpdateStatus, HoldingStates
  <2>2. \A n \in Nodes : statuses[n].drift # "ManualUncordon"
    <3>1. \A n \in Nodes : nodeCopy[p][n].cordoned => nodeCopy[p][n].unschedulable
      BY <2>1 DEF FlagInv
    <3>2. planCopy[p] \in PlanObject /\ NoDrift(planCopy[p])
      BY <1>0
    <3> QED BY <3>1, <3>2, BuildNoDrift
  <2> HIDE DEF statuses, co
  <2>3. \A n \in Nodes : st[n].drift # "ManualUncordon"
    BY <1>0, <2>2 DEF MergeField, NoDrift
  <2> HIDE DEF st
  <2>4. NoDrift(obj)
    BY <1>0, <2>3 DEF NoDrift, PlanObject
  <2> HIDE DEF obj
  <2> QED BY <1>P, <2>1, <2>4
<1>4. ASSUME NEW p \in Plans, ReconcilePreview(p) PROVE DriftInv'
  <2> DEFINE obj == [plan[p] EXCEPT !.status = planCopy[p].status]
  <2>1. UNCHANGED <<server, caches, queue, planCopy>> \/ PatchPlan(p, obj, queue)
    BY <1>4 DEF ReconcilePreview
  <2>2. NoDrift(obj)
    BY <1>0 DEF NoDrift, PlanObject
  <2>3. CASE UNCHANGED <<server, caches, queue, planCopy>>
    BY <1>0, <1>K, <2>3 DEF server, caches
  <2> HIDE DEF obj
  <2> QED BY <1>P, <2>1, <2>2, <2>3
<1>5. ASSUME NEW p \in Plans, ReconcileDrain(p) PROVE DriftInv'
  <2>1. PICK drained \in SUBSET DrainTargets(p), poll \in BOOLEAN :
             LET st == planCopy[p].status
                 marked == [n \in Nodes |-> [st[n] EXCEPT !.ready =
                     @ \/ (n \in drained /\ st[n].listed /\ st[n].cordoned)]]
             IN  Commit(node, [plan EXCEPT ![p].status = MergeField(@, st, marked)],
                        IF poll THEN queue \union {p} ELSE queue)
    BY <1>5 DEF ReconcileDrain
  <2> DEFINE st == planCopy[p].status
             marked == [n \in Nodes |-> [st[n] EXCEPT !.ready =
                 @ \/ (n \in drained /\ st[n].listed /\ st[n].cordoned)]]
             new == MergeField(plan[p].status, st, marked)
  <2>2. st \in [Nodes -> NodeStatus]
    BY <1>0 DEF PlanObject
  <2>3. \A n \in Nodes : marked[n].drift = st[n].drift
    BY <2>2 DEF NodeStatus
  <2>4. /\ plan' = [plan EXCEPT ![p].status = new]
        /\ planCache' = planCache \/ planCache' = plan'
    BY <2>1, CommitEffect
  <2> HIDE DEF marked
  <2>5. \A n \in Nodes : new[n].drift # "ManualUncordon"
    BY <1>0, <2>3 DEF MergeField, NoDrift
  <2> HIDE DEF new
  <2>6. \A q \in Plans : NoDrift(plan'[q])
    BY <1>0, <2>4, <2>5 DEF NoDrift, PlanObject
  <2>7. \A q \in Plans : planCopy'[q] = planCopy[q] \/ planCopy'[q] = NoPlanObject
    BY <1>0, <1>5 DEF ReconcileDrain, EndPass
  <2> QED BY <1>K, <2>4, <2>6, <2>7
<1>6. ASSUME NEW p \in Plans, NEW n \in Nodes,
             \/ AdoptNode(p, n) \/ ReconcileDrift(p, n) \/ ReconcileCordon(p, n)
             \/ UncordonNode(p, n) \/ ReleaseNode(p, n)
      PROVE  DriftInv'
  <2>1. planCopy' = planCopy /\ \E new : PatchNode(p, n, new)
    BY <1>6 DEF AdoptNode, ReconcileDrift, ReconcileCordon, UncordonNode, ReleaseNode
  <2>2. plan' = plan /\ (planCache' = planCache \/ planCache' = plan')
    BY <2>1, CommitEffect DEF PatchNode, server, caches
  <2> QED BY <1>0, <1>K, <2>1, <2>2
<1>7. ASSUME NEW p \in Plans, RemoveFinalizer(p) PROVE DriftInv'
  <2>1. /\ plan' = [plan EXCEPT ![p] = IF @.deleting THEN NoPlanObject
                                       ELSE [@ EXCEPT !.finalizer = FALSE]]
        /\ planCache' = planCache \/ planCache' = plan'
        /\ planCopy' = [planCopy EXCEPT ![p] = NoPlanObject]
    BY <1>7, CommitEffect DEF RemoveFinalizer, EndPass
  <2>2. NoDrift([plan[p] EXCEPT !.finalizer = FALSE])
    BY <1>0 DEF NoDrift, PlanObject
  <2>3. \A q \in Plans : NoDrift(plan'[q])
    BY <1>0, <1>N, <2>1, <2>2
  <2>4. \A q \in Plans : planCopy'[q] = planCopy[q] \/ planCopy'[q] = NoPlanObject
    BY <1>0, <2>1
  <2> QED BY <1>K, <2>1, <2>3, <2>4
<1>8. ASSUME NEW p \in Plans, CreatePlan(p) \/ EditSpec(p) \/ DeletePlan(p)
      PROVE  DriftInv'
  <2>1. PICK obj : UserWrites(node, [plan EXCEPT ![p] = obj]) /\ NoDrift(obj)
    <3>1. CASE CreatePlan(p)
      <4>1. \A s \in Specs : NoDrift(NewPlan(s, edits + 1))
        BY DEF NoDrift, NewPlan, NoStatus, NoNodeStatus
      <4> QED BY <3>1, <4>1 DEF CreatePlan
    <3>2. CASE EditSpec(p)
      <4>1. PICK s : UserWrites(node,
                [plan EXCEPT ![p].spec = s, ![p].generation = edits + 1])
        BY <3>2 DEF EditSpec
      <4> DEFINE obj == [plan[p] EXCEPT !.spec = s, !.generation = edits + 1]
      <4>2. NoDrift(obj)
        BY <1>0 DEF NoDrift, PlanObject
      <4>3. [plan EXCEPT ![p].spec = s, ![p].generation = edits + 1]
                = [plan EXCEPT ![p] = obj]
        BY <1>0
      <4> HIDE DEF obj
      <4> QED BY <4>1, <4>2, <4>3
    <3>3. CASE DeletePlan(p)
      <4>1. NoDrift([plan[p] EXCEPT !.deleting = TRUE])
        BY <1>0 DEF NoDrift, PlanObject
      <4> QED BY <1>N, <3>3, <4>1 DEF DeletePlan
    <3> QED BY <1>8, <3>1, <3>2, <3>3
  <2>2. /\ plan' = [plan EXCEPT ![p] = obj] /\ planCopy' = planCopy
        /\ planCache' = planCache \/ planCache' = plan'
    BY <2>1, CommitEffect DEF UserWrites, passVars
  <2>3. \A q \in Plans : NoDrift(plan'[q])
    BY <1>0, <2>1, <2>2
  <2> QED BY <1>K, <2>2, <2>3
<1>9. ASSUME NEW n \in Nodes, UserCordon(n) \/ UserUncordon(n) \/ SyncNode(n)
      PROVE  DriftInv'
  <2>1. /\ plan' = plan /\ planCopy' = planCopy
        /\ planCache' = planCache \/ planCache' = plan'
    BY <1>9, CommitEffect DEF UserCordon, UserUncordon, SyncNode, UserWrites,
                              passVars, server
  <2> QED BY <1>0, <1>K, <2>1
<1>10. ASSUME NEW p \in Plans, TimerFires(p) \/ SyncPlan(p) PROVE DriftInv'
  <2>1. /\ plan' = plan /\ planCopy' = planCopy
        /\ \A q \in Plans : planCache'[q] = planCache[q] \/ planCache'[q] = plan'[q]
    BY <1>0, <1>10 DEF TimerFires, SyncPlan, passVars, server, caches
  <2> QED BY <1>0, <1>K, <2>1
<1>11. CASE Crash
  BY <1>0, <1>K, <1>11 DEF Crash, server
<1>12. CASE Tick \/ UNCHANGED vars
  BY <1>0, <1>K, <1>12 DEF Tick, vars, server, caches, passVars
<1> QED BY <1>1, <1>2, <1>3, <1>4, <1>5, <1>6, <1>7, <1>8, <1>9, <1>10, <1>11,
           <1>12 DEF Next, Pass

\* When no user uncordons a node, DetectNodeDrift never reports a manual
\* uncordon: the operator's patches, interrupted anywhere, never look like one.
THEOREM NoPhantoms ==
    ASSUME ~NodeLag, OnePlan, NoUncordons
    PROVE  Spec => []NoPhantomDrift
<1>1. Init => FlagInv /\ DriftInv
  <2> SUFFICES ASSUME Init PROVE FlagInv /\ DriftInv
    OBVIOUS
  <2>1. FlagInv
    BY DEF Init, FlagInv, HoldingStates
  <2>2. NoDrift(NoPlanObject) /\ \A s \in Specs : NoDrift(NewPlan(s, 0))
    BY DEF NoDrift, NoPlanObject, NewPlan, NoStatus, NoNodeStatus
  <2>3. DriftInv
    BY <2>2 DEF Init, DriftInv
  <2> QED BY <2>1, <2>3
<1>2. TypeOK /\ SoloInv /\ FlagInv /\ DriftInv /\ [Next]_vars => FlagInv' /\ DriftInv'
  BY FlagStep, DriftStep
<1>3. DriftInv => NoPhantomDrift
  BY DEF DriftInv, NoDrift, NoPhantomDrift
<1> QED BY <1>1, <1>2, <1>3, SoloInvariant, TypeCorrect, PTL DEF Spec
=============================================================================
