---------------------------- MODULE CertsProofs ----------------------------
(***************************************************************************)
(* Theorems about Certs, for any set of replicas, any of the two servers   *)
(* and any lifetimes: what the certificates, the Secret and the caBundle   *)
(* may be after any interleaving of replicas, failures and restarts.       *)
(***************************************************************************)
EXTENDS Certs, TLAPS

(***************************************************************************)
(* Control: what holds at a step of EnsureCerts whatever the others do.    *)
(***************************************************************************)

\* Where EnsureCerts of r is and what its local variables hold.
CtrlInv(r) ==
    /\ pc[r] = "write" => local[r].srv \in Servers
    /\ pc[r] \in {"find", "publish"} => "webhook" \in Servers
    /\ pc[r] \in {"rotate", "create"} => local[r].ca.id # 0

TypeInv == TypeOK /\ \A r \in Replicas : CtrlInv(r)

\* NextServer names a configured server that is due, the webhook first.
LEMMA NextServerChoice ==
    ASSUME NEW r, NEW rotated, NEW previous
    PROVE  LET s == NextServer(r, rotated, previous)
           IN  \/ s = "webhook" /\ s \in Servers /\ previous = "none"
               \/ s = "metrics" /\ s \in Servers
               \/ s = "none"
BY DEF NextServer

\* Proceed moves only r: it begins with a server, or it returns.
LEMMA ProceedStep ==
    ASSUME TypeOK, NEW r \in Replicas, NEW ca, NEW rotated, NEW previous,
           Proceed(r, ca, rotated, previous)
    PROVE  LET s == NextServer(r, rotated, previous)
           IN  /\ \A q \in Replicas \ {r} : pc'[q] = pc[q] /\ local'[q] = local[q]
               /\ s # "none" =>
                     /\ pc'[r] = "write"
                     /\ local'[r] = [ca |-> ca, rotated |-> rotated, srv |-> s,
                                     files |-> Files, seen |-> 0]
               /\ s = "none" =>
                     /\ pc'[r] = IF mode[r] = "boot" THEN "done" ELSE "idle"
                     /\ local'[r] = NoLocal
BY DEF Proceed, TypeOK

\* A check that is on time and completes clears its count of missed checks.
LEMMA ProceedMissed ==
    ASSUME TypeOK, NEW r \in Replicas, NEW ca, NEW rotated, NEW previous,
           Proceed(r, ca, rotated, previous)
    PROVE  /\ missed' \in [Replicas -> Nat]
           /\ \A q \in Replicas \ {r} : missed'[q] = missed[q]
           /\ missed'[r] = IF pc'[r] \in {"idle", "done"} /\ ~tick[r] THEN 0 ELSE missed[r]
<1> DEFINE s == NextServer(r, rotated, previous)
<1>1. /\ pc' = [pc EXCEPT ![r] = IF s # "none" THEN "write"
                                 ELSE IF mode[r] = "boot" THEN "done" ELSE "idle"]
      /\ missed' = [missed EXCEPT ![r] = IF s = "none" /\ ~tick[r] THEN 0 ELSE @]
  BY DEF Proceed
<1> HIDE DEF s
<1>2. pc'[r] \in {"idle", "done"} <=> s = "none"
  BY <1>1 DEF TypeOK
<1> QED BY <1>1, <1>2 DEF TypeOK

\* Proceed keeps the types and the control of r.
LEMMA ProceedType ==
    ASSUME TypeInv, NEW r \in Replicas, NEW ca \in CACert, NEW rotated \in BOOLEAN,
           NEW previous, Proceed(r, ca, rotated, previous)
    PROVE  /\ pc' \in [Replicas -> CallStates \union {"idle", "done"}]
           /\ local' \in [Replicas -> Local]
           /\ \A q \in Replicas : CtrlInv(q)'
<1> DEFINE s == NextServer(r, rotated, previous)
<1>1. s = "none" \/ (s \in Servers /\ s \in {"webhook", "metrics"})
  BY NextServerChoice
<1> HIDE DEF s
<1>2. /\ pc' = [pc EXCEPT ![r] = IF s # "none" THEN "write"
                                 ELSE IF mode[r] = "boot" THEN "done" ELSE "idle"]
      /\ local' = [local EXCEPT ![r] =
               IF s = "none" THEN NoLocal
               ELSE [ca |-> ca, rotated |-> rotated, srv |-> s, files |-> Files,
                     seen |-> 0]]
  BY DEF Proceed, s
<1>3. NoLocal \in Local
  BY CertsAssumption DEF NoLocal, Local, NoCA, CACert, Times
<1>4. s # "none" => [ca |-> ca, rotated |-> rotated, srv |-> s, files |-> Files,
                     seen |-> 0] \in Local
  BY <1>1, CertsAssumption DEF Local
<1>5. local' \in [Replicas -> Local]
  BY <1>2, <1>3, <1>4 DEF TypeInv, TypeOK
<1>6. pc' \in [Replicas -> CallStates \union {"idle", "done"}]
  BY <1>2 DEF TypeInv, TypeOK, CallStates
<1>7. ASSUME NEW q \in Replicas PROVE CtrlInv(q)'
  <2>1. CASE q = r
    BY <2>1, <1>1, <1>2 DEF CtrlInv, TypeInv, TypeOK
  <2>2. CASE q # r
    BY <2>2, <1>2 DEF CtrlInv, TypeInv, TypeOK
  <2> QED BY <2>1, <2>2
<1> QED BY <1>5, <1>6, <1>7

\* Assigning one of EnsureCerts' local variables keeps their type.
LEMMA LocalUpdate ==
    ASSUME NEW l \in Local
    PROVE  /\ \A ca \in CACert : [l EXCEPT !.ca = ca] \in Local
           /\ \A F \in SUBSET Files : [l EXCEPT !.files = F] \in Local
           /\ \A b \in 0..MaxCAs : [l EXCEPT !.seen = b] \in Local
BY DEF Local

\* The initial states are well typed.
LEMMA TypeInit == Init => TypeInv
<1> SUFFICES ASSUME Init PROVE TypeInv
  OBVIOUS
<1>1. NoLocal \in Local
  BY CertsAssumption DEF NoLocal, Local, NoCA, CACert, Times
<1>2. EmptyDirs \in [Servers -> CertDir] /\ NotServing \in [Servers -> ServerCert]
  BY CertsAssumption DEF EmptyDirs, EmptyDir, NotServing, NoCert, CertDir, ServerCert, Times
<1>3. secret \in CACert /\ issued \in 0..MaxCAs /\ stored \in SUBSET (1..MaxCAs)
  BY CertsAssumption DEF Init, NoCA, CACert, Times
<1>4. TypeOK
  BY <1>1, <1>2, <1>3, CertsAssumption DEF Init, TypeOK, Modes, CallStates
<1> QED BY <1>4 DEF Init, TypeInv, CtrlInv

\* Every step keeps the type of missed.
LEMMA MissedType == TypeOK /\ [Next]_vars => missed' \in [Replicas -> Nat]
<1> SUFFICES ASSUME TypeOK, [Next]_vars PROVE missed' \in [Replicas -> Nat]
  OBVIOUS
<1>1. ASSUME UNCHANGED missed PROVE missed' \in [Replicas -> Nat]
  BY <1>1 DEF TypeOK
<1>2. ASSUME NEW r \in Replicas, EnsureCerts(r) PROVE missed' \in [Replicas -> Nat]
  <2>1. \/ UNCHANGED missed
        \/ Proceed(r, secret, FALSE, "none") \/ Proceed(r, secret, TRUE, "none")
        \/ Proceed(r, local[r].ca, TRUE, "none")
        \/ Proceed(r, local[r].ca, local[r].rotated, local[r].srv)
        \/ Proceed(r, local[r].ca, local[r].rotated, "webhook")
    BY <1>2 DEF EnsureCerts, GetSecret, Generate, RotateSecret, CreateSecret, Store,
                RereadSecret, WriteFile, FindConfig, PublishBundle
  <2> QED BY <1>1, <2>1, ProceedMissed
<1>3. ASSUME NEW r \in Replicas, CallFails(r) PROVE missed' \in [Replicas -> Nat]
  BY <1>3 DEF CallFails, TypeOK
<1>4. CASE Tick
  BY <1>4 DEF Tick, TypeOK
<1>5. ASSUME NEW r \in Replicas,
             \/ BootDeadline(r) \/ Start(r) \/ StartManager(r) \/ StartRenewer(r)
             \/ Renew(r) \/ Crash(r) \/ \E s \in Servers : Reload(r, s)
      PROVE  UNCHANGED missed
  BY <1>5 DEF BootDeadline, Start, StartManager, StartRenewer, Renew, Crash, Reload
<1>6. CASE InstallConfig \/ UNCHANGED vars
  BY <1>1, <1>6 DEF InstallConfig, vars
<1> QED BY <1>1, <1>2, <1>3, <1>4, <1>5, <1>6 DEF Next

\* Every step keeps the types and the control.
LEMMA TypeStep == TypeInv /\ [Next]_vars => TypeInv'
<1> SUFFICES ASSUME TypeInv, [Next]_vars PROVE TypeInv'
  OBVIOUS
<1>m. missed' \in [Replicas -> Nat]
  BY MissedType DEF TypeInv
<1> USE CertsAssumption, <1>m
<1>0. NoLocal \in Local
  BY DEF NoLocal, Local, NoCA, CACert, Times
<1>1. EmptyDirs \in [Servers -> CertDir] /\ NotServing \in [Servers -> ServerCert]
  BY DEF EmptyDirs, EmptyDir, NotServing, NoCert, CertDir, ServerCert, Times
<1>2. ASSUME NEW r \in Replicas, NEW label \in {"create", "rotate"}, Generate(r, label)
      PROVE  /\ issued' \in 0..MaxCAs
             /\ pc' \in [Replicas -> CallStates \union {"idle", "done"}]
             /\ local' \in [Replicas -> Local]
             /\ \A q \in Replicas : CtrlInv(q)'
  <2>1. [id |-> issued + 1, end |-> clock + Validity] \in CACert
    BY <1>2 DEF Generate, TypeInv, TypeOK, CACert, Times
  <2>2. local' \in [Replicas -> Local]
    <3>1. local[r] \in Local
      BY DEF TypeInv, TypeOK
    <3>2. [local[r] EXCEPT !.ca = [id |-> issued + 1, end |-> clock + Validity]] \in Local
      BY <2>1, <3>1, LocalUpdate
    <3> QED BY <1>2, <3>2 DEF Generate, TypeInv, TypeOK
  <2>3. ASSUME NEW q \in Replicas PROVE CtrlInv(q)'
    <3>1. CASE q = r
      <4>1. pc'[r] = label /\ local'[r].ca = [id |-> issued + 1, end |-> clock + Validity]
        BY <1>2 DEF Generate, TypeInv, TypeOK, Local
      <4>2. issued + 1 # 0
        BY DEF TypeInv, TypeOK
      <4> QED BY <3>1, <4>1, <4>2 DEF CtrlInv
    <3>2. CASE q # r
      BY <1>2, <3>2 DEF Generate, TypeInv, TypeOK, CtrlInv
    <3> QED BY <3>1, <3>2
  <2> QED BY <1>2, <2>2, <2>3 DEF Generate, TypeInv, TypeOK, CallStates
<1>3. ASSUME NEW r \in Replicas, GetSecret(r) PROVE TypeInv'
  <2>1. CASE secret = NoCA /\ Generate(r, "create")
    BY <1>2, <1>3, <2>1 DEF GetSecret, TypeInv, TypeOK, cluster, process
  <2>2. CASE secret # NoCA /\ Expiring(secret.end) /\ Generate(r, "rotate")
    BY <1>2, <1>3, <2>2 DEF GetSecret, TypeInv, TypeOK, cluster, process
  <2>3. CASE Proceed(r, secret, FALSE, "none") /\ UNCHANGED issued
    <3>1. secret \in CACert
      BY DEF TypeInv, TypeOK
    <3> QED BY <1>3, <2>3, <3>1, ProceedType DEF GetSecret, TypeInv, TypeOK, cluster, process
  <2> QED BY <1>3, <2>1, <2>2, <2>3 DEF GetSecret
<1>4. ASSUME NEW r \in Replicas, local[r].ca.id # 0, Store(r),
             UNCHANGED <<clock, config, disk, served, process, issued, faults>>
      PROVE  TypeInv'
  <2>1. local[r].ca \in CACert
    BY DEF TypeInv, TypeOK, Local
  <2>2. local[r].ca.id \in 1..MaxCAs
    BY <1>4, <2>1 DEF CACert
  <2> QED BY <1>4, <2>1, <2>2, ProceedType DEF Store, TypeInv, TypeOK, process
<1>5. ASSUME NEW r \in Replicas, RotateSecret(r) PROVE TypeInv'
  BY <1>4, <1>5 DEF RotateSecret, TypeInv, CtrlInv
<1>6. ASSUME NEW r \in Replicas, CreateSecret(r) PROVE TypeInv'
  <2>1. CASE Store(r)
    BY <1>4, <1>6, <2>1 DEF CreateSecret, TypeInv, CtrlInv
  <2>2. CASE pc' = [pc EXCEPT ![r] = "reread"] /\ UNCHANGED <<secret, stored, local>>
    BY <1>6, <2>2 DEF CreateSecret, TypeInv, TypeOK, CtrlInv, CallStates, process
  <2> QED BY <1>6, <2>1, <2>2 DEF CreateSecret
<1>7. ASSUME NEW r \in Replicas, RereadSecret(r) PROVE TypeInv'
  <2>1. secret \in CACert
    BY DEF TypeInv, TypeOK
  <2> QED BY <1>7, <2>1, ProceedType DEF RereadSecret, TypeInv, TypeOK, cluster, process
<1>8. ASSUME NEW r \in Replicas, NEW f \in Files, WriteFile(r, f) PROVE TypeInv'
  <2> DEFINE s == local[r].srv
             dir == [crt |-> IF f = "crt" THEN NewCert(r) ELSE disk[r][s].crt,
                     paired |-> local[r].files = {f}]
  <2>1. s \in Servers
    BY <1>8 DEF WriteFile, TypeInv, CtrlInv
  <2>2. NewCert(r) \in ServerCert
    BY DEF NewCert, ServerCert, TypeInv, TypeOK, Local, CACert, Times
  <2>3. dir \in CertDir
    <3>0. \A x \in Servers : disk[r][x].crt \in ServerCert
      BY DEF TypeInv, TypeOK, CertDir
    <3>1. disk[r][s].crt \in ServerCert
      BY <2>1, <3>0
    <3>2. dir.crt \in ServerCert /\ dir.paired \in BOOLEAN
      BY <2>2, <3>1
    <3> QED BY <3>2 DEF CertDir
  <2>4. disk' = [disk EXCEPT ![r][s] = dir]
    BY <1>8 DEF WriteFile
  <2> HIDE DEF dir
  <2>5. disk' \in [Replicas -> [Servers -> CertDir]]
    BY <2>1, <2>3, <2>4 DEF TypeInv, TypeOK
  <2>6. /\ pc' \in [Replicas -> CallStates \union {"idle", "done"}]
        /\ local' \in [Replicas -> Local]
        /\ \A q \in Replicas : CtrlInv(q)'
    <3>1. CASE local[r].files # {f}
      <4>1. /\ local' = [local EXCEPT ![r].files = @ \ {f}]
            /\ UNCHANGED pc
        BY <1>8, <3>1 DEF WriteFile
      <4>2. local' \in [Replicas -> Local]
        <5>1. local[r] \in Local /\ (local[r].files \ {f}) \in SUBSET Files
          BY DEF TypeInv, TypeOK, Local
        <5>2. [local[r] EXCEPT !.files = local[r].files \ {f}] \in Local
          BY <5>1, LocalUpdate
        <5> QED BY <4>1, <5>2 DEF TypeInv, TypeOK
      <4>3. \A q \in Replicas : local'[q].srv = local[q].srv /\ local'[q].ca = local[q].ca
        BY <4>1 DEF TypeInv, TypeOK, Local
      <4> QED BY <4>1, <4>2, <4>3 DEF TypeInv, TypeOK, CtrlInv
    <3>2. CASE local[r].files = {f} /\ s = "webhook"
      <4>1. /\ local' = [local EXCEPT ![r].files = {}]
            /\ pc' = [pc EXCEPT ![r] = "find"]
        BY <1>8, <3>2 DEF WriteFile
      <4>2. local' \in [Replicas -> Local]
        <5>1. local[r] \in Local /\ {} \in SUBSET Files
          BY DEF TypeInv, TypeOK, Local
        <5>2. [local[r] EXCEPT !.files = {}] \in Local
          BY <5>1, LocalUpdate
        <5> QED BY <4>1, <5>2 DEF TypeInv, TypeOK
      <4>3. \A q \in Replicas : local'[q].srv = local[q].srv /\ local'[q].ca = local[q].ca
        BY <4>1 DEF TypeInv, TypeOK, Local
      <4> QED BY <4>1, <4>2, <4>3, <2>1, <3>2 DEF TypeInv, TypeOK, CtrlInv, CallStates
    <3>3. CASE local[r].files = {f} /\ s # "webhook"
      <4>1. local[r].ca \in CACert /\ local[r].rotated \in BOOLEAN
        BY DEF TypeInv, TypeOK, Local
      <4>2. Proceed(r, local[r].ca, local[r].rotated, s)
        BY <1>8, <3>3 DEF WriteFile
      <4> QED BY <4>1, <4>2, ProceedType
    <3> QED BY <3>1, <3>2, <3>3
  <2> QED BY <1>8, <2>5, <2>6 DEF WriteFile, TypeInv, TypeOK, cluster, process
<1>9. ASSUME NEW r \in Replicas, FindConfig(r) PROVE TypeInv'
  <2>1. /\ local' = [local EXCEPT ![r].seen = config.bundle]
        /\ pc[r] = "find" /\ pc' = [pc EXCEPT ![r] = "publish"]
    BY <1>9 DEF FindConfig
  <2>2. local' \in [Replicas -> Local]
    <3>1. local[r] \in Local /\ config.bundle \in 0..MaxCAs
      BY DEF TypeInv, TypeOK
    <3>2. [local[r] EXCEPT !.seen = config.bundle] \in Local
      BY <3>1, LocalUpdate
    <3> QED BY <2>1, <3>2 DEF TypeInv, TypeOK
  <2>3. \A q \in Replicas : local'[q].srv = local[q].srv /\ local'[q].ca = local[q].ca
    BY <2>1 DEF TypeInv, TypeOK, Local
  <2>4. \A q \in Replicas : CtrlInv(q)'
    BY <2>1, <2>3 DEF TypeInv, TypeOK, CtrlInv
  <2> QED BY <1>9, <2>1, <2>2, <2>4 DEF FindConfig, TypeInv, TypeOK, CallStates, cluster, process
<1>10. ASSUME NEW r \in Replicas, PublishBundle(r) PROVE TypeInv'
  <2>1. local[r].ca \in CACert /\ local[r].rotated \in BOOLEAN
    BY DEF TypeInv, TypeOK, Local
  <2>2. config' \in [present: BOOLEAN, bundle: 0..MaxCAs]
    BY <1>10, <2>1 DEF PublishBundle, MergeField, TypeInv, TypeOK, CACert
  <2> QED BY <1>10, <2>1, <2>2, ProceedType DEF PublishBundle, TypeInv, TypeOK, process
<1>11. ASSUME NEW r \in Replicas, ErrorReturn(r), faults' \in 0..MaxFaults
       PROVE  TypeInv'
  BY <1>0, <1>11 DEF ErrorReturn, TypeInv, TypeOK, CtrlInv, Modes, cluster
<1>12. ASSUME NEW r \in Replicas, CallFails(r) \/ BootDeadline(r) PROVE TypeInv'
  <2>1. ErrorReturn(r)
    BY <1>12 DEF CallFails, BootDeadline
  <2>2. faults' \in 0..MaxFaults
    BY <1>12 DEF CallFails, BootDeadline, TypeInv, TypeOK
  <2> QED BY <1>11, <2>1, <2>2
<1>13. ASSUME NEW r \in Replicas, Start(r) PROVE TypeInv'
  BY <1>13 DEF Start, TypeInv, TypeOK, CtrlInv, Modes, CallStates, cluster
<1>14. ASSUME NEW r \in Replicas, Exit(r), disk' \in [Replicas -> [Servers -> CertDir]],
              faults' \in 0..MaxFaults, UNCHANGED <<clock, cluster, issued>>
       PROVE  TypeInv'
  BY <1>0, <1>1, <1>14 DEF Exit, TypeInv, TypeOK, CtrlInv, Modes, cluster
<1>15. ASSUME NEW r \in Replicas, StartManager(r) PROVE TypeInv'
  <2>1. CASE Exit(r)
    BY <1>14, <1>15, <2>1 DEF StartManager, TypeInv, TypeOK, cluster
  <2>2. CASE \A s \in Servers : disk[r][s].paired
    <3>1. [s \in Servers |-> disk[r][s].crt] \in [Servers -> ServerCert]
      BY DEF TypeInv, TypeOK, CertDir
    <3>2. /\ mode' = [mode EXCEPT ![r] = "managed"]
          /\ served' = [served EXCEPT ![r] = [s \in Servers |-> disk[r][s].crt]]
          /\ pc' = [pc EXCEPT ![r] = "idle"]
          /\ UNCHANGED <<renewing, tick, local>>
          /\ UNCHANGED <<clock, cluster, disk, issued, faults>>
      BY <1>15, <2>2 DEF StartManager
    <3>3. served' \in [Replicas -> [Servers -> ServerCert]]
      BY <3>1, <3>2 DEF TypeInv, TypeOK
    <3> QED BY <3>2, <3>3 DEF TypeInv, TypeOK, CtrlInv, Modes, cluster
  <2> QED BY <1>15, <2>1, <2>2 DEF StartManager
<1>16. ASSUME NEW r \in Replicas, StartRenewer(r) \/ Renew(r) PROVE TypeInv'
  BY <1>16 DEF StartRenewer, Renew, TypeInv, TypeOK, CtrlInv, CallStates, cluster
<1>17. ASSUME NEW r \in Replicas, Crash(r) PROVE TypeInv'
  <2>1. disk' \in [Replicas -> [Servers -> CertDir]] /\ faults' \in 0..MaxFaults
    BY <1>1, <1>17 DEF Crash, TypeInv, TypeOK
  <2> QED BY <1>14, <1>17, <2>1 DEF Crash
<1>18. ASSUME NEW r \in Replicas, NEW s \in Servers, Reload(r, s) PROVE TypeInv'
  <2>1. disk[r][s].crt \in ServerCert
    BY DEF TypeInv, TypeOK, CertDir
  <2> QED BY <1>18, <2>1 DEF Reload, TypeInv, TypeOK, CtrlInv, cluster, process
<1>19. CASE InstallConfig
  BY <1>19 DEF InstallConfig, TypeInv, TypeOK, CtrlInv, process
<1>20. CASE Tick
  BY <1>20 DEF Tick, TypeInv, TypeOK, CtrlInv, cluster
<1>21. CASE UNCHANGED vars
  BY <1>21 DEF vars, TypeInv, TypeOK, CtrlInv
<1> QED BY <1>3, <1>5, <1>6, <1>7, <1>8, <1>9, <1>10, <1>12, <1>13, <1>15, <1>16, <1>17,
           <1>18, <1>19, <1>20, <1>21 DEF Next, EnsureCerts

\* The model is well typed: a file is only ever written for a configured
\* server, and only a generated CA is stored.
THEOREM CertsTypeCorrect == Spec => []TypeOK
<1>1. TypeInv => TypeOK
  BY DEF TypeInv
<1> QED BY TypeInit, TypeStep, <1>1, PTL DEF Spec

(***************************************************************************)
(* Every CA in use has been in the Secret.                                 *)
(***************************************************************************)

\* EnsureCerts of r uses a CA that has been stored.  The loser of the create
\* race finds the winner's CA when it reads the Secret again.
KnownCA(r) ==
    /\ pc[r] \in {"write", "find", "publish"} => local[r].ca.id \in stored
    /\ pc[r] = "reread" => secret # NoCA

\* The certificates of r on disk and in its listeners were signed by stored CAs.
KnownCerts(r) ==
    \A s \in Servers : /\ disk[r][s].crt.ca \in stored \union {0}
                       /\ served[r][s].ca \in stored \union {0}

\* The inductive invariant behind NoForeignCA.
StoredInv ==
    /\ secret # NoCA => secret.id \in stored
    /\ config.bundle \in stored \union {0}
    /\ \A r \in Replicas : KnownCA(r) /\ KnownCerts(r)

\* Proceed with a stored CA keeps KnownCA.
LEMMA ProceedKnown ==
    ASSUME TypeInv, StoredInv, NEW r \in Replicas, NEW ca, NEW rotated, NEW previous,
           Proceed(r, ca, rotated, previous),
           ca.id \in stored', stored \subseteq stored', secret # NoCA => secret' # NoCA
    PROVE  \A q \in Replicas : KnownCA(q)'
<1> SUFFICES ASSUME NEW q \in Replicas PROVE KnownCA(q)'
  OBVIOUS
<1> DEFINE s == NextServer(r, rotated, previous)
<1>1. /\ q # r => pc'[q] = pc[q] /\ local'[q] = local[q]
      /\ s # "none" =>
            /\ pc'[r] = "write"
            /\ local'[r] = [ca |-> ca, rotated |-> rotated, srv |-> s,
                            files |-> Files, seen |-> 0]
      /\ s = "none" => pc'[r] = IF mode[r] = "boot" THEN "done" ELSE "idle"
  BY ProceedStep DEF TypeInv
<1> HIDE DEF s
<1>2. CASE q = r
  BY <1>1, <1>2 DEF KnownCA
<1>3. CASE q # r
  BY <1>1, <1>3 DEF KnownCA, StoredInv
<1> QED BY <1>2, <1>3

\* Every step keeps the invariant.
LEMMA StoredStep == TypeInv /\ StoredInv /\ [Next]_vars => StoredInv'
<1> SUFFICES ASSUME TypeInv, StoredInv, [Next]_vars PROVE StoredInv'
  OBVIOUS
<1> USE CertsAssumption
<1>1. ASSUME NEW r \in Replicas, GetSecret(r) PROVE StoredInv'
  <2>1. UNCHANGED <<secret, config, stored, disk, served>>
    BY <1>1 DEF GetSecret, cluster
  <2>2. \A q \in Replicas : KnownCA(q)'
    <3>1. CASE Generate(r, "create") \/ Generate(r, "rotate")
      BY <2>1, <3>1 DEF Generate, KnownCA, StoredInv, TypeInv, TypeOK
    <3>2. CASE secret # NoCA /\ Proceed(r, secret, FALSE, "none")
      BY <2>1, <3>2, ProceedKnown DEF StoredInv
    <3> QED BY <1>1, <3>1, <3>2 DEF GetSecret
  <2> QED BY <2>1, <2>2 DEF StoredInv, KnownCerts
<1>2. ASSUME NEW r \in Replicas, Store(r), local[r].ca.id # 0,
             UNCHANGED <<config, disk, served>>
      PROVE  StoredInv'
  <2>1. secret' # NoCA /\ secret'.id \in stored' /\ stored \subseteq stored'
    BY <1>2 DEF Store, NoCA
  <2>2. \A q \in Replicas : KnownCA(q)'
    BY <1>2, <2>1, ProceedKnown DEF Store
  <2> QED BY <1>2, <2>1, <2>2 DEF StoredInv, KnownCerts
<1>3. ASSUME NEW r \in Replicas, RotateSecret(r) \/ CreateSecret(r) PROVE StoredInv'
  <2>1. /\ UNCHANGED <<config, disk, served>>
        /\ local[r].ca.id # 0
    BY <1>3 DEF RotateSecret, CreateSecret, TypeInv, CtrlInv
  <2>2. CASE Store(r)
    BY <1>2, <2>1, <2>2
  <2>3. CASE secret # NoCA /\ pc' = [pc EXCEPT ![r] = "reread"]
             /\ UNCHANGED <<secret, stored, local>>
    BY <2>1, <2>3 DEF StoredInv, KnownCA, KnownCerts, TypeInv, TypeOK
  <2> QED BY <1>3, <2>2, <2>3 DEF RotateSecret, CreateSecret
<1>4. ASSUME NEW r \in Replicas, RereadSecret(r) PROVE StoredInv'
  <2>1. secret # NoCA /\ secret.id \in stored
    BY <1>4 DEF RereadSecret, StoredInv, KnownCA
  <2>2. UNCHANGED <<secret, config, stored, disk, served>>
    BY <1>4 DEF RereadSecret, cluster
  <2>3. \A q \in Replicas : KnownCA(q)'
    BY <1>4, <2>1, <2>2, ProceedKnown DEF RereadSecret
  <2> QED BY <2>2, <2>3 DEF StoredInv, KnownCerts
<1>5. ASSUME NEW r \in Replicas, NEW f \in Files, WriteFile(r, f) PROVE StoredInv'
  <2>1. UNCHANGED <<secret, config, stored, served>> /\ local[r].ca.id \in stored
    BY <1>5 DEF WriteFile, cluster, StoredInv, KnownCA
  <2>2. ASSUME NEW q \in Replicas, NEW s \in Servers
        PROVE  disk'[q][s].crt.ca \in stored \union {0}
    <3> DEFINE w == local[r].srv
               c == IF f = "crt" THEN NewCert(r) ELSE disk[r][w].crt
    <3>1. w \in Servers
      BY <1>5 DEF WriteFile, TypeInv, CtrlInv
    <3>2. c.ca \in stored \union {0}
      BY <2>1, <3>1 DEF NewCert, StoredInv, KnownCerts
    <3>3. disk' = [disk EXCEPT ![r][w] = [crt |-> c, paired |-> local[r].files = {f}]]
      BY <1>5 DEF WriteFile
    <3> HIDE DEF w, c
    <3>4. disk'[q][s].crt = IF q = r /\ s = w THEN c ELSE disk[q][s].crt
      BY <3>1, <3>3 DEF TypeInv, TypeOK
    <3> QED BY <3>2, <3>4 DEF StoredInv, KnownCerts
  <2>3. \A q \in Replicas : KnownCA(q)'
    <3>1. CASE local' = [local EXCEPT ![r].files = @ \ {f}] /\ UNCHANGED pc
      <4>1. \A q \in Replicas : local'[q].ca = local[q].ca
        BY <3>1 DEF TypeInv, TypeOK, Local
      <4> QED BY <2>1, <3>1, <4>1 DEF KnownCA, StoredInv
    <3>2. CASE local' = [local EXCEPT ![r].files = {}] /\ pc' = [pc EXCEPT ![r] = "find"]
      <4>1. \A q \in Replicas : local'[q].ca = local[q].ca
        BY <3>2 DEF TypeInv, TypeOK, Local
      <4> QED BY <2>1, <3>2, <4>1 DEF KnownCA, StoredInv, TypeInv, TypeOK
    <3>3. CASE Proceed(r, local[r].ca, local[r].rotated, local[r].srv)
      BY <2>1, <3>3, ProceedKnown
    <3> QED BY <1>5, <3>1, <3>2, <3>3 DEF WriteFile
  <2> QED BY <2>1, <2>2, <2>3 DEF StoredInv, KnownCerts
<1>6. ASSUME NEW r \in Replicas, FindConfig(r) PROVE StoredInv'
  <2>1. local' = [local EXCEPT ![r].seen = config.bundle]
    BY <1>6 DEF FindConfig
  <2>2. \A q \in Replicas : local'[q].ca = local[q].ca
    BY <2>1 DEF TypeInv, TypeOK, Local
  <2> QED BY <1>6, <2>2 DEF FindConfig, cluster, StoredInv, KnownCA, KnownCerts, TypeInv, TypeOK
<1>7. ASSUME NEW r \in Replicas, PublishBundle(r) PROVE StoredInv'
  <2>1. UNCHANGED <<secret, stored, disk, served>> /\ local[r].ca.id \in stored
    BY <1>7 DEF PublishBundle, StoredInv, KnownCA
  <2>2. config'.bundle \in stored \union {0}
    BY <1>7, <2>1 DEF PublishBundle, MergeField, StoredInv, TypeInv, TypeOK
  <2>3. \A q \in Replicas : KnownCA(q)'
    BY <1>7, <2>1, ProceedKnown DEF PublishBundle
  <2> QED BY <2>1, <2>2, <2>3 DEF StoredInv, KnownCerts
<1>8. ASSUME NEW r \in Replicas, CallFails(r) \/ BootDeadline(r) PROVE StoredInv'
  <2>1. ErrorReturn(r)
    BY <1>8 DEF CallFails, BootDeadline
  <2> QED BY <2>1 DEF ErrorReturn, cluster, StoredInv, KnownCA, KnownCerts, TypeInv, TypeOK
<1>9. ASSUME NEW r \in Replicas, Start(r) \/ StartRenewer(r) \/ Renew(r) PROVE StoredInv'
  BY <1>9 DEF Start, StartRenewer, Renew, cluster, StoredInv, KnownCA, KnownCerts, TypeInv,
              TypeOK
<1>10. ASSUME NEW r \in Replicas, Exit(r), UNCHANGED cluster,
              disk' = disk \/ disk' = [disk EXCEPT ![r] = EmptyDirs]
       PROVE  StoredInv'
  <2>1. ASSUME NEW q \in Replicas PROVE KnownCerts(q)' /\ KnownCA(q)'
    <3>1. \A s \in Servers : EmptyDirs[s].crt.ca = 0 /\ NotServing[s].ca = 0
      BY DEF EmptyDirs, EmptyDir, NotServing, NoCert
    <3> QED BY <1>10, <3>1 DEF Exit, cluster, StoredInv, KnownCA, KnownCerts, TypeInv, TypeOK
  <2> QED BY <1>10, <2>1 DEF cluster, StoredInv
<1>11. ASSUME NEW r \in Replicas, StartManager(r) PROVE StoredInv'
  <2>1. CASE Exit(r)
    BY <1>10, <1>11, <2>1 DEF StartManager
  <2>2. CASE \A s \in Servers : disk[r][s].paired
    <3>1. /\ served' = [served EXCEPT ![r] = [s \in Servers |-> disk[r][s].crt]]
          /\ pc' = [pc EXCEPT ![r] = "idle"]
          /\ UNCHANGED <<local, secret, config, stored, disk>>
      BY <1>11, <2>2 DEF StartManager, cluster
    <3>2. ASSUME NEW q \in Replicas, NEW s \in Servers
          PROVE  served'[q][s] = IF q = r THEN disk[q][s].crt ELSE served[q][s]
      BY <3>1 DEF TypeInv, TypeOK
    <3> QED BY <3>1, <3>2 DEF StoredInv, KnownCA, KnownCerts, TypeInv, TypeOK
  <2> QED BY <1>11, <2>1, <2>2 DEF StartManager
<1>12. ASSUME NEW r \in Replicas, Crash(r) PROVE StoredInv'
  BY <1>10, <1>12 DEF Crash, cluster
<1>13. ASSUME NEW r \in Replicas, NEW s \in Servers, Reload(r, s) PROVE StoredInv'
  <2>1. /\ served' = [served EXCEPT ![r][s] = disk[r][s].crt]
        /\ UNCHANGED <<pc, local, secret, config, stored, disk>>
    BY <1>13 DEF Reload, cluster
  <2>2. ASSUME NEW q \in Replicas, NEW t \in Servers
        PROVE  served'[q][t] = IF q = r /\ t = s THEN disk[q][t].crt ELSE served[q][t]
    BY <2>1 DEF TypeInv, TypeOK
  <2> QED BY <2>1, <2>2 DEF StoredInv, KnownCA, KnownCerts
<1>14. CASE InstallConfig \/ Tick \/ UNCHANGED vars
  BY <1>14 DEF InstallConfig, Tick, vars, cluster, StoredInv, KnownCA, KnownCerts
<1> QED BY <1>1, <1>3, <1>4, <1>5, <1>6, <1>7, <1>8, <1>9, <1>11, <1>12, <1>13, <1>14
        DEF Next, EnsureCerts

\* NoForeignCA holds in every reachable state: whatever the order in which any
\* number of replicas create, rotate and read the Secret, fail and restart, a
\* certificate on disk or in a listener and the caBundle name a CA that was in
\* the Secret.
THEOREM ForeignFree == Spec => []NoForeignCA
<1>1. Init => StoredInv
  <2> SUFFICES ASSUME Init PROVE StoredInv
    OBVIOUS
  <2>1. secret # NoCA => secret.id \in stored
    BY DEF Init
  <2>2. \A r \in Replicas : KnownCA(r) /\ KnownCerts(r)
    BY DEF Init, KnownCA, KnownCerts, EmptyDirs, EmptyDir, NotServing, NoCert
  <2> QED BY <2>1, <2>2 DEF Init, StoredInv
<1>2. StoredInv => NoForeignCA
  BY DEF StoredInv, KnownCerts, NoForeignCA, CAsInUse
<1> QED BY TypeInit, TypeStep, StoredStep, <1>1, <1>2, PTL DEF Spec

(***************************************************************************)
(* One step of EnsureCerts, and the process around it.                     *)
(***************************************************************************)

\* What WriteFile does to the directories.
LEMMA WriteFileDisk ==
    ASSUME TypeInv, NEW r \in Replicas, NEW f \in Files, WriteFile(r, f)
    PROVE  /\ local[r].srv \in Servers
           /\ \A s \in Servers :
                 /\ disk'[r][s].crt = IF s = local[r].srv /\ f = "crt" THEN NewCert(r)
                                      ELSE disk[r][s].crt
                 /\ s = local[r].srv => (disk'[r][s].paired <=> local[r].files = {f})
                 /\ s # local[r].srv => disk'[r][s] = disk[r][s]
           /\ \A q \in Replicas \ {r} : disk'[q] = disk[q]
<1> DEFINE w == local[r].srv
           c == IF f = "crt" THEN NewCert(r) ELSE disk[r][w].crt
           b == local[r].files = {f}
<1>1. w \in Servers
  BY DEF WriteFile, TypeInv, CtrlInv
<1>2. disk' = [disk EXCEPT ![r][w] = [crt |-> c, paired |-> b]]
  BY DEF WriteFile
<1> HIDE DEF c, b
<1>3. /\ disk'[r][w] = [crt |-> c, paired |-> b]
      /\ \A s \in Servers : s # w => disk'[r][s] = disk[r][s]
      /\ \A q \in Replicas \ {r} : disk'[q] = disk[q]
  BY <1>1, <1>2 DEF TypeInv, TypeOK
<1>4. disk'[r][w].crt = c /\ disk'[r][w].paired = b
  BY <1>3
<1>5. ASSUME NEW s \in Servers
      PROVE  disk'[r][s].crt = IF s = w /\ f = "crt" THEN NewCert(r) ELSE disk[r][s].crt
  BY <1>3, <1>4 DEF c
<1>6. disk'[r][w].paired <=> local[r].files = {f}
  BY <1>4 DEF b
<1> QED BY <1>1, <1>3, <1>5, <1>6

\* Where WriteFile leads: to the other file, to patchCABundle or, after the
\* metrics server, out of EnsureCerts.
LEMMA WriteFileControl ==
    ASSUME TypeInv, NEW r \in Replicas, NEW f \in Files, WriteFile(r, f)
    PROVE  /\ \A q \in Replicas \ {r} : pc'[q] = pc[q] /\ local'[q] = local[q]
           /\ local[r].files # {f} =>
                 /\ pc'[r] = "write"
                 /\ local'[r] = [local[r] EXCEPT !.files = @ \ {f}]
           /\ local[r].files = {f} /\ local[r].srv = "webhook" =>
                 /\ pc'[r] = "find"
                 /\ local'[r] = [local[r] EXCEPT !.files = {}]
           /\ local[r].files = {f} /\ local[r].srv # "webhook" =>
                 /\ local[r].srv = "metrics"
                 /\ pc'[r] = IF mode[r] = "boot" THEN "done" ELSE "idle"
                 /\ local'[r] = NoLocal
           /\ \A q \in Replicas \ {r} : missed'[q] = missed[q]
           /\ missed'[r] = IF pc'[r] \in {"idle", "done"} /\ ~tick[r] THEN 0 ELSE missed[r]
<1>1. CASE local[r].files # {f}
  <2>1. /\ local' = [local EXCEPT ![r].files = @ \ {f}]
        /\ pc[r] = "write" /\ UNCHANGED <<pc, missed>>
    BY <1>1 DEF WriteFile
  <2> QED BY <1>1, <2>1 DEF TypeInv, TypeOK
<1>2. CASE local[r].files = {f} /\ local[r].srv = "webhook"
  <2>1. /\ local' = [local EXCEPT ![r].files = {}] /\ pc' = [pc EXCEPT ![r] = "find"]
        /\ UNCHANGED missed
    BY <1>2 DEF WriteFile
  <2> QED BY <1>2, <2>1 DEF TypeInv, TypeOK
<1>3. CASE local[r].files = {f} /\ local[r].srv # "webhook"
  <2>1. local[r].srv = "metrics"
    BY <1>3, CertsAssumption DEF WriteFile, TypeInv, CtrlInv
  <2>2. Proceed(r, local[r].ca, local[r].rotated, "metrics")
    BY <1>3, <2>1 DEF WriteFile
  <2>3. NextServer(r, local[r].rotated, "metrics") = "none"
    BY DEF NextServer
  <2>4. /\ pc' = [pc EXCEPT ![r] = IF mode[r] = "boot" THEN "done" ELSE "idle"]
        /\ local' = [local EXCEPT ![r] = NoLocal]
    BY <2>2, <2>3 DEF Proceed
  <2>5. /\ \A q \in Replicas \ {r} : missed'[q] = missed[q]
        /\ missed'[r] = IF pc'[r] \in {"idle", "done"} /\ ~tick[r] THEN 0 ELSE missed[r]
    BY <2>2, ProceedMissed DEF TypeInv
  <2> QED BY <1>3, <2>1, <2>4, <2>5 DEF TypeInv, TypeOK
<1> QED BY <1>1, <1>2, <1>3

\* A step of EnsureCerts touches only what belongs to r, and the shared objects;
\* when it returns, it was at startup or in the renewal loop.
LEMMA EnsureCertsFrame ==
    ASSUME TypeInv, NEW r \in Replicas, EnsureCerts(r)
    PROVE  /\ UNCHANGED <<clock, served, mode, renewing, tick, faults>>
           /\ pc[r] \in CallStates
           /\ \A q \in Replicas \ {r} :
                 /\ pc'[q] = pc[q] /\ local'[q] = local[q]
                 /\ disk'[q] = disk[q] /\ missed'[q] = missed[q]
           /\ pc'[r] \in {"idle", "done"} =>
                 pc'[r] = IF mode[r] = "boot" THEN "done" ELSE "idle"
           /\ missed'[r] = IF pc'[r] \in {"idle", "done"} /\ ~tick[r] THEN 0 ELSE missed[r]
<1>1. UNCHANGED <<clock, served, mode, renewing, tick, faults>> /\ pc[r] \in CallStates
  BY DEF EnsureCerts, GetSecret, RotateSecret, CreateSecret, RereadSecret, WriteFile, FindConfig,
         PublishBundle, process, CallStates
<1> DEFINE Moved ==
      /\ \A q \in Replicas \ {r} :
            /\ pc'[q] = pc[q] /\ local'[q] = local[q]
            /\ disk'[q] = disk[q] /\ missed'[q] = missed[q]
      /\ pc'[r] \in {"idle", "done"} => pc'[r] = IF mode[r] = "boot" THEN "done" ELSE "idle"
      /\ missed'[r] = IF pc'[r] \in {"idle", "done"} /\ ~tick[r] THEN 0 ELSE missed[r]
<1> SUFFICES Moved
  BY <1>1
<1>2. ASSUME NEW ca, NEW rotated, NEW previous, Proceed(r, ca, rotated, previous),
             UNCHANGED disk
      PROVE  Moved
  <2>1. /\ \A q \in Replicas \ {r} : pc'[q] = pc[q] /\ local'[q] = local[q]
        /\ pc'[r] = "write" \/ pc'[r] = IF mode[r] = "boot" THEN "done" ELSE "idle"
    BY <1>2, ProceedStep DEF TypeInv
  <2>2. /\ \A q \in Replicas \ {r} : missed'[q] = missed[q]
        /\ missed'[r] = IF pc'[r] \in {"idle", "done"} /\ ~tick[r] THEN 0 ELSE missed[r]
    BY <1>2, ProceedMissed DEF TypeInv
  <2> QED BY <1>2, <2>1, <2>2
<1>3. ASSUME NEW l \in CallStates, pc' = [pc EXCEPT ![r] = l], UNCHANGED <<disk, missed>>,
             \A q \in Replicas \ {r} : local'[q] = local[q]
      PROVE  Moved
  BY <1>3 DEF TypeInv, TypeOK, CallStates
<1>4. CASE GetSecret(r)
  <2>1. UNCHANGED disk
    BY <1>4 DEF GetSecret
  <2>2. CASE Generate(r, "create") \/ Generate(r, "rotate")
    <3>1. \A q \in Replicas \ {r} : local'[q] = local[q]
      BY <2>2 DEF Generate, TypeInv, TypeOK
    <3>2. \E l \in CallStates : pc' = [pc EXCEPT ![r] = l]
      BY <2>2 DEF Generate, CallStates
    <3>3. UNCHANGED missed
      BY <2>2 DEF Generate
    <3> QED BY <1>3, <2>1, <3>1, <3>2, <3>3
  <2>3. CASE Proceed(r, secret, FALSE, "none")
    BY <1>2, <2>1, <2>3
  <2> QED BY <1>4, <2>2, <2>3 DEF GetSecret
<1>5. CASE RotateSecret(r) \/ CreateSecret(r)
  <2>1. UNCHANGED disk
    BY <1>5 DEF RotateSecret, CreateSecret
  <2>2. CASE Proceed(r, local[r].ca, TRUE, "none")
    BY <1>2, <2>1, <2>2
  <2>3. CASE pc' = [pc EXCEPT ![r] = "reread"] /\ UNCHANGED <<local, missed>>
    BY <1>3, <2>1, <2>3 DEF CallStates
  <2> QED BY <1>5, <2>2, <2>3 DEF RotateSecret, CreateSecret, Store
<1>6. CASE RereadSecret(r)
  BY <1>2, <1>6 DEF RereadSecret
<1>7. ASSUME NEW f \in Files, WriteFile(r, f) PROVE Moved
  <2>1. \A q \in Replicas \ {r} : disk'[q] = disk[q]
    BY <1>7, WriteFileDisk
  <2>2. /\ \A q \in Replicas \ {r} : /\ pc'[q] = pc[q] /\ local'[q] = local[q]
                                      /\ missed'[q] = missed[q]
        /\ pc'[r] \in {"write", "find"} \/ pc'[r] = IF mode[r] = "boot" THEN "done" ELSE "idle"
        /\ missed'[r] = IF pc'[r] \in {"idle", "done"} /\ ~tick[r] THEN 0 ELSE missed[r]
    BY <1>7, WriteFileControl
  <2> QED BY <2>1, <2>2
<1>8. CASE FindConfig(r)
  <2>1. /\ pc' = [pc EXCEPT ![r] = "publish"] /\ UNCHANGED <<disk, missed>>
        /\ \A q \in Replicas \ {r} : local'[q] = local[q]
    BY <1>8 DEF FindConfig, TypeInv, TypeOK
  <2> QED BY <1>3, <2>1 DEF CallStates
<1>9. CASE PublishBundle(r)
  BY <1>2, <1>9 DEF PublishBundle
<1> QED BY <1>4, <1>5, <1>6, <1>7, <1>8, <1>9 DEF EnsureCerts

\* A process that is not running does nothing, only the renewal loop has ticks
\* waiting, and a check belongs to the startup or to the loop.
ProcessInv(r) ==
    /\ renewing[r] => mode[r] = "managed"
    /\ tick[r] => renewing[r]
    /\ mode[r] = "down" => pc[r] = "idle"
    /\ pc[r] # "idle" /\ mode[r] # "boot" => renewing[r]
    /\ pc[r] = "done" => mode[r] = "boot"

\* Every step keeps ProcessInv.
LEMMA ProcessStep ==
    ASSUME TypeInv, \A r \in Replicas : ProcessInv(r), [Next]_vars
    PROVE  \A r \in Replicas : ProcessInv(r)'
<1>1. ASSUME NEW r \in Replicas, EnsureCerts(r), NEW q \in Replicas PROVE ProcessInv(q)'
  <2>1. /\ UNCHANGED <<mode, renewing, tick>> /\ pc[r] \in CallStates
        /\ q # r => pc'[q] = pc[q]
        /\ pc'[r] = "done" => mode[r] = "boot"
    BY <1>1, EnsureCertsFrame
  <2>2. q = r => mode[q] # "down" /\ (mode[q] # "boot" => renewing[q])
    BY <2>1 DEF ProcessInv, CallStates
  <2> QED BY <2>1, <2>2 DEF ProcessInv
<1>2. ASSUME NEW r \in Replicas, CallFails(r) \/ BootDeadline(r), NEW q \in Replicas
      PROVE  ProcessInv(q)'
  <2>1. ErrorReturn(r)
    BY <1>2 DEF CallFails, BootDeadline
  <2>2. /\ UNCHANGED <<renewing, tick>>
        /\ pc'[q] = (IF q = r THEN "idle" ELSE pc[q])
        /\ mode'[q] = (IF q = r /\ mode[q] = "boot" THEN "plain" ELSE mode[q])
    BY <2>1 DEF ErrorReturn, TypeInv, TypeOK
  <2> QED BY <2>2 DEF ProcessInv
<1>3. ASSUME NEW r \in Replicas, Start(r) \/ StartRenewer(r) \/ Renew(r), NEW q \in Replicas
      PROVE  ProcessInv(q)'
  <2>1. CASE Start(r)
    <3>1. /\ mode[r] = "down" /\ UNCHANGED <<renewing, tick>>
          /\ mode'[q] = (IF q = r THEN "boot" ELSE mode[q])
          /\ pc'[q] = (IF q = r THEN "get" ELSE pc[q])
      BY <2>1 DEF Start, TypeInv, TypeOK
    <3> QED BY <3>1 DEF ProcessInv
  <2>2. CASE StartRenewer(r)
    <3>1. /\ mode[r] = "managed" /\ UNCHANGED <<mode, tick, pc>>
          /\ renewing'[q] = (IF q = r THEN TRUE ELSE renewing[q])
      BY <2>2 DEF StartRenewer, MayRenew, TypeInv, TypeOK
    <3> QED BY <3>1 DEF ProcessInv
  <2>3. CASE Renew(r)
    <3>1. /\ tick[r] /\ UNCHANGED <<mode, renewing>>
          /\ tick'[q] = (IF q = r THEN FALSE ELSE tick[q])
          /\ pc'[q] = (IF q = r THEN "get" ELSE pc[q])
      BY <2>3 DEF Renew, TypeInv, TypeOK
    <3> QED BY <3>1 DEF ProcessInv
  <2> QED BY <1>3, <2>1, <2>2, <2>3
<1>4. ASSUME NEW r \in Replicas, Exit(r), NEW q \in Replicas PROVE ProcessInv(q)'
  <2>1. CASE q = r
    <3>1. pc'[q] = "idle" /\ mode'[q] = "down" /\ ~renewing'[q] /\ ~tick'[q]
      BY <1>4, <2>1 DEF Exit, TypeInv, TypeOK
    <3> QED BY <3>1 DEF ProcessInv
  <2>2. CASE q # r
    <3>1. /\ pc'[q] = pc[q] /\ mode'[q] = mode[q]
          /\ renewing'[q] = renewing[q] /\ tick'[q] = tick[q]
      BY <1>4, <2>2 DEF Exit, TypeInv, TypeOK
    <3> QED BY <3>1 DEF ProcessInv
  <2> QED BY <2>1, <2>2
<1>5. ASSUME NEW r \in Replicas, StartManager(r), NEW q \in Replicas PROVE ProcessInv(q)'
  <2>1. CASE /\ mode' = [mode EXCEPT ![r] = "managed"]
             /\ pc' = [pc EXCEPT ![r] = "idle"]
             /\ UNCHANGED <<renewing, tick>>
    BY <2>1 DEF ProcessInv, TypeInv, TypeOK
  <2> QED BY <1>4, <1>5, <2>1 DEF StartManager
<1>6. ASSUME NEW r \in Replicas, Crash(r), NEW q \in Replicas PROVE ProcessInv(q)'
  BY <1>4, <1>6 DEF Crash
<1>7. ASSUME UNCHANGED <<mode, renewing, pc>>, tick' = tick \/ tick' = renewing
      PROVE  \A q \in Replicas : ProcessInv(q)'
  BY <1>7 DEF ProcessInv
<1>8. CASE Tick \/ InstallConfig \/ UNCHANGED vars
  BY <1>7, <1>8 DEF Tick, InstallConfig, vars, process
<1>9. ASSUME NEW r \in Replicas, NEW s \in Servers, Reload(r, s)
      PROVE  \A q \in Replicas : ProcessInv(q)'
  BY <1>7, <1>9 DEF Reload, process
<1> QED BY <1>1, <1>2, <1>3, <1>5, <1>6, <1>8, <1>9 DEF Next

(***************************************************************************)
(* What a check of EnsureCerts leaves behind: nothing that is expiring.    *)
(***************************************************************************)

\* EnsureCerts of r is done with the webhook's certificate.
WebhookDone(r) ==
    \/ pc[r] \in {"find", "publish"}
    \/ pc[r] = "write" /\ local[r].srv = "metrics"

\* What a running check has established.  The CA it is about to store is always
\* fresh: time only passes while a check waits for the webhook configuration.
\* The rest holds as long as the check is on time, whatever the other replicas
\* do: they only ever store a CA they have just generated.
PassInv(r) ==
    /\ pc[r] \in {"rotate", "create"} => local[r].ca.end = clock + Validity
    /\ pc[r] = "create" => secret = NoCA \/ ~Expiring(secret.end)
    /\ ~tick[r] =>
          /\ pc[r] \in {"reread", "write", "find", "publish", "done"} => ~Expiring(secret.end)
          /\ pc[r] = "write" /\ "crt" \notin local[r].files
                => ~Expiring(disk[r][local[r].srv].crt.end)
          /\ "webhook" \in Servers /\ WebhookDone(r) => ~Expiring(disk[r]["webhook"].crt.end)
          /\ pc[r] = "done" => \A s \in Servers : ~Expiring(disk[r][s].crt.end)

\* The steps of other replicas leave what q has established.
LEMMA PassFrame ==
    ASSUME TypeInv, NEW q \in Replicas, PassInv(q), clock' = clock, pc'[q] = pc[q],
           tick'[q] = tick[q], local'[q] = local[q], disk'[q] = disk[q],
           secret' = secret \/ secret'.end = clock + Validity
    PROVE  PassInv(q)'
<1>1. secret' # secret => ~Expiring(secret.end)'
  BY CertsAssumption DEF Expiring, TypeInv, TypeOK
<1> QED BY <1>1 DEF PassInv, WebhookDone, Expiring

\* When EnsureCerts goes on, it is with a server that is due; when it returns,
\* no certificate of r is expiring.
LEMMA PassProceed ==
    ASSUME TypeInv, NEW r \in Replicas, NEW ca, NEW rotated, NEW previous \in {"none", "webhook"},
           Proceed(r, ca, rotated, previous), UNCHANGED <<clock, disk, tick>>,
           ~tick[r] => /\ ~Expiring(secret.end)'
                       /\ previous = "webhook" => ~Expiring(disk[r]["webhook"].crt.end)
    PROVE  /\ PassInv(r)'
           /\ ~tick[r] /\ pc'[r] # "write" =>
                 \A s \in Servers : ~Expiring(disk[r][s].crt.end)'
<1> DEFINE s == NextServer(r, rotated, previous)
<1>1. /\ s # "none" =>
            /\ pc'[r] = "write"
            /\ local'[r] = [ca |-> ca, rotated |-> rotated, srv |-> s,
                            files |-> Files, seen |-> 0]
      /\ s = "none" => pc'[r] = IF mode[r] = "boot" THEN "done" ELSE "idle"
  BY ProceedStep DEF TypeInv
<1>2. ~tick[r] /\ s = "none" => \A t \in Servers : ~Expiring(disk[r][t].crt.end)
  BY CertsAssumption DEF NextServer, Due
<1>3. ~tick[r] /\ s = "metrics" /\ "webhook" \in Servers
         => ~Expiring(disk[r]["webhook"].crt.end)
  BY DEF NextServer, Due
<1>4. s \in {"webhook", "metrics", "none"}
  BY DEF NextServer
<1> HIDE DEF s
<1>5. \A e : Expiring(e)' <=> Expiring(e)
  BY DEF Expiring
<1>6. CASE s = "none"
  BY <1>1, <1>2, <1>6 DEF PassInv, WebhookDone, Expiring
<1>7. CASE s # "none"
  <2>1. pc'[r] = "write" /\ local'[r].srv = s /\ "crt" \in local'[r].files
    BY <1>1, <1>7 DEF Files
  <2> QED BY <1>3, <1>4, <1>7, <2>1 DEF PassInv, WebhookDone, Expiring
<1> QED BY <1>6, <1>7

\* Every step keeps what the running checks have established, and a check that
\* returns leaves nothing expiring.
LEMMA PassStep ==
    ASSUME TypeInv, \A r \in Replicas : ProcessInv(r), \A r \in Replicas : PassInv(r),
           [Next]_vars
    PROVE  \A r \in Replicas : PassInv(r)'
<1> USE CertsAssumption
<1>0. ASSUME NEW r \in Replicas, PassInv(r)', clock' = clock,
             secret' = secret \/ secret'.end = clock + Validity,
             \A q \in Replicas \ {r} : /\ pc'[q] = pc[q] /\ local'[q] = local[q]
                                       /\ disk'[q] = disk[q] /\ tick'[q] = tick[q]
      PROVE  \A q \in Replicas : PassInv(q)'
  <2> SUFFICES ASSUME NEW q \in Replicas, q # r PROVE PassInv(q)'
    BY <1>0
  <2> QED BY <1>0, PassFrame
<1>1. ASSUME NEW r \in Replicas, GetSecret(r) PROVE \A q \in Replicas : PassInv(q)'
  <2>1. UNCHANGED <<clock, secret, disk, tick>>
    BY <1>1 DEF GetSecret, cluster, process
  <2>2. CASE (secret = NoCA /\ Generate(r, "create")) \/ Generate(r, "rotate")
    <3>1. /\ pc'[r] \in {"create", "rotate"}
          /\ pc'[r] = "create" => secret = NoCA
          /\ local'[r].ca = [id |-> issued + 1, end |-> clock + Validity]
          /\ \A q \in Replicas \ {r} : pc'[q] = pc[q] /\ local'[q] = local[q]
      BY <2>2 DEF Generate, TypeInv, TypeOK, Local
    <3>2. PassInv(r)'
      BY <2>1, <3>1 DEF PassInv, WebhookDone
    <3> QED BY <1>0, <2>1, <3>1, <3>2
  <2>3. CASE ~Expiring(secret.end) /\ Proceed(r, secret, FALSE, "none")
    <3>1. PassInv(r)'
      <4>1. ~Expiring(secret.end)'
        BY <2>1, <2>3 DEF Expiring
      <4> QED BY <2>1, <2>3, <4>1, PassProceed
    <3>2. \A q \in Replicas \ {r} : pc'[q] = pc[q] /\ local'[q] = local[q]
      BY <2>3, ProceedStep DEF TypeInv
    <3> QED BY <1>0, <2>1, <3>1, <3>2
  <2> QED BY <1>1, <2>2, <2>3 DEF GetSecret
<1>2. ASSUME NEW r \in Replicas, pc[r] \in {"rotate", "create"}, Store(r),
             UNCHANGED <<clock, disk, tick>>
      PROVE  \A q \in Replicas : PassInv(q)'
  <2>1. secret' = local[r].ca /\ Proceed(r, local[r].ca, TRUE, "none")
    BY <1>2 DEF Store
  <2>2. secret'.end = clock + Validity
    BY <1>2, <2>1 DEF PassInv
  <2>3. ~Expiring(secret.end)'
    BY <1>2, <2>2 DEF Expiring, TypeInv, TypeOK
  <2>4. PassInv(r)'
    BY <1>2, <2>1, <2>3, PassProceed
  <2>5. \A q \in Replicas \ {r} : pc'[q] = pc[q] /\ local'[q] = local[q]
    BY <2>1, ProceedStep DEF TypeInv
  <2> QED BY <1>0, <1>2, <2>2, <2>4, <2>5
<1>3. ASSUME NEW r \in Replicas, RotateSecret(r) PROVE \A q \in Replicas : PassInv(q)'
  BY <1>2, <1>3 DEF RotateSecret, process
<1>4. ASSUME NEW r \in Replicas, CreateSecret(r) PROVE \A q \in Replicas : PassInv(q)'
  <2>1. CASE Store(r)
    BY <1>2, <1>4, <2>1 DEF CreateSecret, process
  <2>2. CASE secret # NoCA /\ pc' = [pc EXCEPT ![r] = "reread"]
             /\ UNCHANGED <<secret, stored, local>>
    <3>1. /\ pc'[r] = "reread" /\ pc[r] = "create"
          /\ UNCHANGED <<clock, disk, secret, local, tick>>
          /\ \A q \in Replicas \ {r} : pc'[q] = pc[q]
      BY <1>4, <2>2 DEF CreateSecret, process, TypeInv, TypeOK
    <3>2. PassInv(r)'
      BY <2>2, <3>1 DEF PassInv, WebhookDone, Expiring
    <3> QED BY <1>0, <3>1, <3>2
  <2> QED BY <1>4, <2>1, <2>2 DEF CreateSecret
<1>5. ASSUME NEW r \in Replicas, RereadSecret(r) PROVE \A q \in Replicas : PassInv(q)'
  <2>1. UNCHANGED <<clock, secret, disk, tick>> /\ Proceed(r, secret, TRUE, "none")
    BY <1>5 DEF RereadSecret, cluster, process
  <2>2. ~tick[r] => ~Expiring(secret.end)'
    BY <1>5, <2>1 DEF RereadSecret, PassInv, Expiring
  <2>3. PassInv(r)'
    BY <2>1, <2>2, PassProceed
  <2>4. \A q \in Replicas \ {r} : pc'[q] = pc[q] /\ local'[q] = local[q]
    BY <2>1, ProceedStep DEF TypeInv
  <2> QED BY <1>0, <2>1, <2>3, <2>4
<1>6. ASSUME NEW r \in Replicas, NEW f \in Files, WriteFile(r, f)
      PROVE  \A q \in Replicas : PassInv(q)'
  <2>0. PICK w \in Servers : w = local[r].srv
    BY <1>6, WriteFileDisk
  <2>1. UNCHANGED <<clock, secret, tick>> /\ pc[r] = "write" /\ f \in local[r].files
    BY <1>6 DEF WriteFile, cluster, process
  <2>2. /\ \A s \in Servers :
              disk'[r][s].crt = IF s = w /\ f = "crt" THEN NewCert(r) ELSE disk[r][s].crt
        /\ \A q \in Replicas \ {r} : disk'[q] = disk[q]
    BY <1>6, <2>0, WriteFileDisk
  <2>3. ~Expiring(NewCert(r).end)
    BY DEF NewCert, Expiring, TypeInv, TypeOK
  <2>4. ~tick[r] => ~Expiring(secret.end)
    BY <2>1 DEF PassInv
  <2>5. \A s \in Servers : ~Expiring(disk[r][s].crt.end) => ~Expiring(disk[r][s].crt.end)'
    BY <2>1, <2>2, <2>3 DEF Expiring
  <2>6. ~tick[r] /\ (f = "crt" \/ "crt" \notin local[r].files) => ~Expiring(disk[r][w].crt.end)'
    BY <2>0, <2>1, <2>2, <2>3 DEF Expiring, PassInv
  <2>7. /\ \A q \in Replicas \ {r} : pc'[q] = pc[q] /\ local'[q] = local[q]
        /\ local[r].files # {f} =>
              pc'[r] = "write" /\ local'[r] = [local[r] EXCEPT !.files = @ \ {f}]
        /\ local[r].files = {f} /\ w = "webhook" => pc'[r] = "find"
        /\ local[r].files = {f} /\ w # "webhook" =>
              w = "metrics" /\ pc'[r] = IF mode[r] = "boot" THEN "done" ELSE "idle"
    BY <1>6, <2>0, WriteFileControl
  <2>8. PassInv(r)'
    <3>1. CASE local[r].files # {f}
      <4>1. /\ pc'[r] = "write" /\ local'[r].srv = w
            /\ local'[r].files = local[r].files \ {f}
        BY <2>0, <2>7, <3>1 DEF TypeInv, TypeOK, Local
      <4>2. "crt" \notin local'[r].files => f = "crt" \/ "crt" \notin local[r].files
        BY <4>1
      <4>3. ~tick[r] /\ "webhook" \in Servers /\ w = "metrics"
               => ~Expiring(disk[r]["webhook"].crt.end)'
        BY <2>0, <2>1, <2>5 DEF PassInv, WebhookDone
      <4> QED BY <2>1, <2>4, <2>6, <4>1, <4>2, <4>3 DEF PassInv, WebhookDone, Expiring
    <3>2. CASE local[r].files = {f}
      <4>1. ~tick[r] => ~Expiring(disk[r][w].crt.end)'
        BY <2>6, <3>2
      <4>2. CASE w = "webhook"
        BY <2>1, <2>4, <2>7, <3>2, <4>1, <4>2 DEF PassInv, WebhookDone, Expiring
      <4>3. CASE w # "webhook"
        <5>1. w = "metrics" /\ pc'[r] \in {"done", "idle"}
          BY <2>7, <3>2, <4>3
        <5>2. ~tick[r] => \A s \in Servers : ~Expiring(disk[r][s].crt.end)'
          BY <2>0, <2>1, <2>5, <4>1, <5>1, CertsAssumption DEF PassInv, WebhookDone
        <5> QED BY <2>1, <2>4, <5>1, <5>2 DEF PassInv, WebhookDone, Expiring
      <4> QED BY <4>2, <4>3
    <3> QED BY <3>1, <3>2
  <2> QED BY <1>0, <2>1, <2>2, <2>7, <2>8
<1>7. ASSUME NEW r \in Replicas, FindConfig(r) PROVE \A q \in Replicas : PassInv(q)'
  <2>1. /\ pc[r] = "find" /\ pc'[r] = "publish"
        /\ UNCHANGED <<clock, disk, secret, tick>>
        /\ \A q \in Replicas \ {r} : pc'[q] = pc[q] /\ local'[q] = local[q]
    BY <1>7 DEF FindConfig, cluster, process, TypeInv, TypeOK
  <2>2. PassInv(r)'
    BY <2>1 DEF PassInv, WebhookDone, Expiring
  <2> QED BY <1>0, <2>1, <2>2
<1>8. ASSUME NEW r \in Replicas, PublishBundle(r) PROVE \A q \in Replicas : PassInv(q)'
  <2>1. /\ UNCHANGED <<clock, secret, disk, tick>> /\ pc[r] = "publish"
        /\ Proceed(r, local[r].ca, local[r].rotated, "webhook")
    BY <1>8 DEF PublishBundle, process
  <2>2. "webhook" \in Servers
    BY <2>1 DEF TypeInv, CtrlInv
  <2>3. ~tick[r] => ~Expiring(secret.end)' /\ ~Expiring(disk[r]["webhook"].crt.end)
    BY <2>1, <2>2 DEF PassInv, WebhookDone, Expiring
  <2>4. PassInv(r)'
    BY <2>1, <2>3, PassProceed
  <2>5. \A q \in Replicas \ {r} : pc'[q] = pc[q] /\ local'[q] = local[q]
    BY <2>1, ProceedStep DEF TypeInv
  <2> QED BY <1>0, <2>1, <2>4, <2>5
<1>9. ASSUME NEW r \in Replicas, UNCHANGED <<clock, secret>>, pc'[r] \in {"idle", "get"},
             \A q \in Replicas \ {r} : /\ pc'[q] = pc[q] /\ local'[q] = local[q]
                                       /\ disk'[q] = disk[q] /\ tick'[q] = tick[q]
      PROVE  \A q \in Replicas : PassInv(q)'
  <2>1. PassInv(r)'
    BY <1>9 DEF PassInv, WebhookDone
  <2> QED BY <1>0, <1>9, <2>1
<1>10. ASSUME NEW r \in Replicas, CallFails(r) \/ BootDeadline(r)
       PROVE  \A q \in Replicas : PassInv(q)'
  <2>1. ErrorReturn(r)
    BY <1>10 DEF CallFails, BootDeadline
  <2> QED BY <1>9, <2>1 DEF ErrorReturn, cluster, TypeInv, TypeOK
<1>11. ASSUME NEW r \in Replicas, Start(r) \/ Renew(r) PROVE \A q \in Replicas : PassInv(q)'
  BY <1>9, <1>11 DEF Start, Renew, cluster, TypeInv, TypeOK
<1>12. ASSUME NEW r \in Replicas, Exit(r), UNCHANGED <<clock, cluster>>,
              disk' = disk \/ disk' = [disk EXCEPT ![r] = EmptyDirs]
       PROVE  \A q \in Replicas : PassInv(q)'
  BY <1>9, <1>12 DEF Exit, cluster, TypeInv, TypeOK
<1>13. ASSUME NEW r \in Replicas, StartManager(r) PROVE \A q \in Replicas : PassInv(q)'
  <2>1. CASE Exit(r)
    BY <1>12, <1>13, <2>1 DEF StartManager
  <2>2. CASE pc' = [pc EXCEPT ![r] = "idle"] /\ UNCHANGED <<local, tick>>
    BY <1>9, <1>13, <2>2 DEF StartManager, cluster, TypeInv, TypeOK
  <2> QED BY <1>13, <2>1, <2>2 DEF StartManager
<1>14. ASSUME NEW r \in Replicas, Crash(r) PROVE \A q \in Replicas : PassInv(q)'
  BY <1>12, <1>14 DEF Crash
<1>15. ASSUME UNCHANGED <<clock, secret, pc, local, disk, tick>>
       PROVE  \A q \in Replicas : PassInv(q)'
  BY <1>15, PassFrame
<1>16. ASSUME NEW r \in Replicas, StartRenewer(r) \/ \E s \in Servers : Reload(r, s)
       PROVE  \A q \in Replicas : PassInv(q)'
  BY <1>15, <1>16 DEF StartRenewer, Reload, cluster, process
<1>17. CASE InstallConfig \/ UNCHANGED vars
  BY <1>15, <1>17 DEF InstallConfig, vars, process
<1>18. CASE Tick
  <2> SUFFICES ASSUME NEW q \in Replicas PROVE PassInv(q)'
    OBVIOUS
  <2>1. UNCHANGED pc /\ tick' = renewing /\ (Quiet(q) \/ Waiting(q))
    BY <1>18 DEF Tick
  <2>2. CASE Quiet(q)
    BY <2>1, <2>2 DEF Quiet, PassInv, WebhookDone
  <2>3. CASE Waiting(q)
    <3>1. pc'[q] = "find" /\ tick'[q]
      BY <2>1, <2>3 DEF Waiting, ProcessInv
    <3> QED BY <3>1 DEF PassInv
  <2> QED BY <2>1, <2>2, <2>3
<1> QED BY <1>1, <1>3, <1>4, <1>5, <1>6, <1>7, <1>8, <1>10, <1>11, <1>13, <1>14, <1>16,
           <1>17, <1>18 DEF Next, EnsureCerts

\* A step of EnsureCerts makes no certificate older, and a check that is on time
\* returns with nothing left expiring.
LEMMA EnsureCertsStep ==
    ASSUME TypeInv, \A q \in Replicas : PassInv(q), NEW r \in Replicas, EnsureCerts(r)
    PROVE  /\ secret' = secret \/ secret'.end = clock + Validity
           /\ \A s \in Servers : \/ disk'[r][s].crt.end = disk[r][s].crt.end
                                 \/ disk'[r][s].crt.end = clock + Validity
           /\ ~tick[r] /\ pc'[r] \in {"idle", "done"} =>
                 /\ ~Expiring(secret.end)'
                 /\ \A s \in Servers : ~Expiring(disk[r][s].crt.end)'
<1> USE CertsAssumption
<1>1. UNCHANGED <<clock, tick>>
  BY EnsureCertsFrame
<1>2. CASE GetSecret(r)
  <2>1. UNCHANGED <<secret, disk>>
    BY <1>2 DEF GetSecret, cluster
  <2>2. CASE Generate(r, "create") \/ Generate(r, "rotate")
    <3>1. pc'[r] \in {"create", "rotate"}
      BY <2>2 DEF Generate, TypeInv, TypeOK
    <3> QED BY <2>1, <3>1
  <2>3. CASE ~Expiring(secret.end) /\ Proceed(r, secret, FALSE, "none")
    <3>1. ~Expiring(secret.end)'
      BY <1>1, <2>1, <2>3 DEF Expiring
    <3>2. ~tick[r] /\ pc'[r] # "write" => \A s \in Servers : ~Expiring(disk[r][s].crt.end)'
      BY <1>1, <2>1, <2>3, <3>1, PassProceed
    <3> QED BY <2>1, <3>1, <3>2
  <2> QED BY <1>2, <2>2, <2>3 DEF GetSecret
<1>3. CASE Store(r) /\ pc[r] \in {"rotate", "create"} /\ UNCHANGED disk
  <2>1. secret' = local[r].ca /\ Proceed(r, local[r].ca, TRUE, "none")
    BY <1>3 DEF Store
  <2>2. secret'.end = clock + Validity
    BY <1>3, <2>1 DEF PassInv
  <2>3. ~Expiring(secret.end)'
    BY <1>1, <2>2 DEF Expiring, TypeInv, TypeOK
  <2>4. ~tick[r] /\ pc'[r] # "write" => \A s \in Servers : ~Expiring(disk[r][s].crt.end)'
    BY <1>1, <1>3, <2>1, <2>3, PassProceed
  <2> QED BY <1>3, <2>2, <2>3, <2>4
<1>4. CASE CreateSecret(r) /\ pc' = [pc EXCEPT ![r] = "reread"]
           /\ UNCHANGED <<secret, stored, local>>
  BY <1>4 DEF CreateSecret, TypeInv, TypeOK
<1>5. CASE RereadSecret(r)
  <2>1. UNCHANGED <<secret, disk>> /\ Proceed(r, secret, TRUE, "none")
    BY <1>5 DEF RereadSecret, cluster
  <2>2. ~tick[r] => ~Expiring(secret.end)'
    BY <1>1, <1>5, <2>1 DEF RereadSecret, PassInv, Expiring
  <2>3. ~tick[r] /\ pc'[r] # "write" => \A s \in Servers : ~Expiring(disk[r][s].crt.end)'
    BY <1>1, <2>1, <2>2, PassProceed
  <2> QED BY <2>1, <2>2, <2>3
<1>6. ASSUME NEW f \in Files, WriteFile(r, f)
      PROVE  /\ secret' = secret
             /\ \A s \in Servers : \/ disk'[r][s].crt.end = disk[r][s].crt.end
                                   \/ disk'[r][s].crt.end = clock + Validity
             /\ ~tick[r] /\ pc'[r] \in {"idle", "done"} =>
                   /\ ~Expiring(secret.end)'
                   /\ \A s \in Servers : ~Expiring(disk[r][s].crt.end)'
  <2>1. secret' = secret /\ pc[r] = "write" /\ f \in local[r].files
    BY <1>6 DEF WriteFile, cluster
  <2>2. /\ local[r].srv \in Servers
        /\ \A s \in Servers :
              disk'[r][s].crt = IF s = local[r].srv /\ f = "crt" THEN NewCert(r)
                                ELSE disk[r][s].crt
    BY <1>6, WriteFileDisk
  <2>3. NewCert(r).end = clock + Validity
    BY DEF NewCert
  <2>4. pc'[r] \in {"idle", "done"} => local[r].files = {f} /\ local[r].srv = "metrics"
    BY <1>6, WriteFileControl
  <2>5. ASSUME ~tick[r], pc'[r] \in {"idle", "done"}
        PROVE  /\ ~Expiring(secret.end)'
               /\ \A s \in Servers : ~Expiring(disk[r][s].crt.end)'
    <3>1. ~Expiring(secret.end)'
      BY <1>1, <2>1, <2>5 DEF PassInv, Expiring
    <3>2. ASSUME NEW s \in Servers PROVE ~Expiring(disk[r][s].crt.end)'
      <4>1. CASE s = local[r].srv /\ f = "crt"
        BY <1>1, <2>2, <2>3, <4>1 DEF Expiring, TypeInv, TypeOK
      <4>2. CASE s = local[r].srv /\ f # "crt"
        <5>1. ~Expiring(disk[r][s].crt.end)
          BY <2>1, <2>4, <2>5, <4>2 DEF PassInv
        <5> QED BY <1>1, <2>2, <4>2, <5>1 DEF Expiring
      <4>3. CASE s # local[r].srv
        <5>1. ~Expiring(disk[r][s].crt.end)
          BY <2>1, <2>4, <2>5, <4>3 DEF PassInv, WebhookDone
        <5> QED BY <1>1, <2>2, <4>3, <5>1 DEF Expiring
      <4> QED BY <4>1, <4>2, <4>3
    <3> QED BY <3>1, <3>2
  <2> QED BY <2>1, <2>2, <2>3, <2>5
<1>7. CASE FindConfig(r)
  BY <1>7 DEF FindConfig, cluster, TypeInv, TypeOK
<1>8. CASE PublishBundle(r)
  <2>1. /\ UNCHANGED <<secret, disk>> /\ pc[r] = "publish"
        /\ Proceed(r, local[r].ca, local[r].rotated, "webhook")
    BY <1>8 DEF PublishBundle
  <2>2. "webhook" \in Servers
    BY <2>1 DEF TypeInv, CtrlInv
  <2>3. ~tick[r] => ~Expiring(secret.end)' /\ ~Expiring(disk[r]["webhook"].crt.end)
    BY <1>1, <2>1, <2>2 DEF PassInv, WebhookDone, Expiring
  <2>4. ~tick[r] /\ pc'[r] # "write" => \A s \in Servers : ~Expiring(disk[r][s].crt.end)'
    BY <1>1, <2>1, <2>3, PassProceed
  <2> QED BY <2>1, <2>3, <2>4
<1> QED BY <1>2, <1>3, <1>4, <1>5, <1>6, <1>7, <1>8
        DEF EnsureCerts, RotateSecret, CreateSecret

(***************************************************************************)
(* Nothing a renewing replica depends on expires.                          *)
(***************************************************************************)

\* Every replica with managed certificates runs a renewal loop: without leader
\* election they all do, with it only the one leader.
EveryoneRenews == LeaderElect => \A q, r \in Replicas : q = r

\* Is the check of the present interval still to come, or under way?
Late(r) == IF tick[r] \/ pc[r] # "idle" THEN 1 ELSE 0

\* A certificate has renewBefore left, less one interval for every check missed
\* since the last good one, and one for a check that is not over.
Margin(r, end) == clock + RenewBefore <= end + missed[r] + Late(r)

LifeInv(r) ==
    mode[r] = "managed" => /\ Margin(r, secret.end)
                           /\ \A s \in Servers : Margin(r, disk[r][s].crt.end)

\* Steps that leave r's certificates and its check alone keep its margin.
LEMMA LifeFrame ==
    ASSUME TypeInv, TypeInv', NEW q \in Replicas, LifeInv(q),
           clock' = clock, missed'[q] = missed[q], disk'[q] = disk[q],
           mode'[q] = mode[q], Late(q)' >= Late(q),
           secret' = secret \/ secret'.end = clock + Validity
    PROVE  LifeInv(q)'
<1>1. /\ clock \in Nat /\ missed[q] \in Nat
      /\ secret.end \in Nat /\ secret'.end \in Nat
      /\ \A s \in Servers : disk[q][s].crt.end \in Nat
      /\ Late(q) \in Nat /\ Late(q)' \in Nat
  BY CertsAssumption DEF TypeInv, TypeOK, CACert, CertDir, ServerCert, Times, Late
<1>2. Margin(q, secret.end) => Margin(q, secret.end)'
  BY <1>1, CertsAssumption DEF Margin
<1>3. ASSUME NEW s \in Servers, Margin(q, disk[q][s].crt.end)
      PROVE  Margin(q, disk[q][s].crt.end)'
  <2>1. disk[q][s].crt.end \in Nat /\ disk'[q][s].crt.end = disk[q][s].crt.end
    BY <1>1
  <2>2. clock + RenewBefore <= disk[q][s].crt.end + missed[q] + Late(q)
    BY <1>3 DEF Margin
  <2>3. clock + RenewBefore <= disk[q][s].crt.end + missed[q] + Late(q)'
    BY <1>1, <2>1, <2>2, CertsAssumption
  <2> QED BY <2>1, <2>3 DEF Margin
<1> QED BY <1>2, <1>3 DEF LifeInv

\* A certificate that is not expiring has its margin, whatever the allowances.
LEMMA FreshMargin ==
    ASSUME NEW c \in Nat, NEW b \in Nat, NEW e \in Nat, NEW m \in Nat, NEW l \in Nat,
           ~(e < c + b)
    PROVE  c + b <= e + m + l
OBVIOUS

\* The ends of the certificates and the allowances are natural numbers.
LEMMA LifeTypes ==
    ASSUME TypeInv, NEW r \in Replicas
    PROVE  /\ clock \in Nat /\ missed[r] \in Nat /\ Late(r) \in {0, 1}
           /\ secret.end \in Nat /\ \A s \in Servers : disk[r][s].crt.end \in Nat
BY CertsAssumption DEF Late, TypeInv, TypeOK, CACert, CertDir, ServerCert, Times

\* A margin is kept when the allowance grows with the clock.
LEMMA LaterLife ==
    ASSUME TypeInv, TypeInv', NEW r \in Replicas, LifeInv(r), UNCHANGED <<mode, secret, disk>>,
           clock' + missed[r] + Late(r) <= clock + missed'[r] + Late(r)'
    PROVE  LifeInv(r)'
<1>1. /\ clock \in Nat /\ missed[r] \in Nat /\ Late(r) \in {0, 1}
      /\ clock' \in Nat /\ missed'[r] \in Nat /\ Late(r)' \in {0, 1}
      /\ secret.end \in Nat /\ \A s \in Servers : disk[r][s].crt.end \in Nat
      /\ RenewBefore \in Nat
  BY CertsAssumption DEF Late, TypeInv, TypeOK, CACert, CertDir, ServerCert, Times
<1>2. ASSUME NEW e \in Nat, clock + RenewBefore <= e + missed[r] + Late(r)
      PROVE  clock' + RenewBefore <= e + missed'[r] + Late(r)'
  BY <1>1, <1>2
<1>3. Margin(r, secret.end) => Margin(r, secret.end)'
  BY <1>1, <1>2 DEF Margin
<1>4. ASSUME NEW s \in Servers, Margin(r, disk[r][s].crt.end)
      PROVE  Margin(r, disk[r][s].crt.end)'
  BY <1>1, <1>2, <1>4 DEF Margin
<1> QED BY <1>3, <1>4 DEF LifeInv

\* Every step keeps the margins.
LEMMA LifeStep ==
    ASSUME EveryoneRenews, TypeInv, TypeInv', \A r \in Replicas : ProcessInv(r),
           \A r \in Replicas : PassInv(r), \A r \in Replicas : LifeInv(r), [Next]_vars
    PROVE  \A r \in Replicas : LifeInv(r)'
<1> USE CertsAssumption
<1>0. ASSUME NEW r \in Replicas, LifeInv(r)', clock' = clock,
             secret' = secret \/ secret'.end = clock + Validity,
             \A q \in Replicas \ {r} :
                /\ pc'[q] = pc[q] /\ disk'[q] = disk[q] /\ tick'[q] = tick[q]
                /\ mode'[q] = mode[q] /\ missed'[q] = missed[q]
      PROVE  \A q \in Replicas : LifeInv(q)'
  <2> SUFFICES ASSUME NEW q \in Replicas, q # r PROVE LifeInv(q)'
    BY <1>0
  <2>1. Late(q)' >= Late(q)
    BY <1>0 DEF Late
  <2> QED BY <1>0, <2>1, LifeFrame
<1>2. ASSUME NEW r \in Replicas, EnsureCerts(r) PROVE \A q \in Replicas : LifeInv(q)'
  <2>1. /\ UNCHANGED <<clock, mode, tick>> /\ pc[r] \in CallStates
        /\ \A q \in Replicas \ {r} : /\ pc'[q] = pc[q] /\ disk'[q] = disk[q]
                                      /\ missed'[q] = missed[q]
        /\ missed'[r] = IF pc'[r] \in {"idle", "done"} /\ ~tick[r] THEN 0 ELSE missed[r]
    BY <1>2, EnsureCertsFrame
  <2>2. /\ secret' = secret \/ secret'.end = clock + Validity
        /\ \A s \in Servers : \/ disk'[r][s].crt.end = disk[r][s].crt.end
                              \/ disk'[r][s].crt.end = clock + Validity
    BY <1>2, EnsureCertsStep
  <2>3. CASE pc'[r] \in {"idle", "done"} /\ ~tick[r]
    <3>1. ~Expiring(secret.end)' /\ \A s \in Servers : ~Expiring(disk[r][s].crt.end)'
      BY <1>2, <2>3, EnsureCertsStep
    <3>2. LifeInv(r)'
      <4>1. secret'.end \in Nat /\ \A s \in Servers : disk'[r][s].crt.end \in Nat
        BY DEF TypeInv, TypeOK, CACert, CertDir, ServerCert, Times
      <4>2. /\ clock' \in Nat /\ missed'[r] \in Nat /\ Late(r)' \in Nat
            /\ RenewBefore \in Nat
        BY DEF Late, TypeInv, TypeOK
      <4>3. \A e \in Nat : ~(e < clock' + RenewBefore) =>
               clock' + RenewBefore <= e + missed'[r] + Late(r)'
        BY <4>2, FreshMargin
      <4>4. Margin(r, secret.end)'
        BY <3>1, <4>1, <4>3 DEF Margin, Expiring
      <4>5. \A s \in Servers : Margin(r, disk[r][s].crt.end)'
        BY <3>1, <4>1, <4>3 DEF Margin, Expiring
      <4> QED BY <4>4, <4>5 DEF LifeInv
    <3> QED BY <1>0, <2>1, <2>2, <3>2
  <2>4. CASE ~(pc'[r] \in {"idle", "done"} /\ ~tick[r])
    <3>1. Late(r) = 1 /\ Late(r)' = 1 /\ missed'[r] = missed[r]
      BY <2>1, <2>4 DEF Late, CallStates
    <3>2. /\ clock \in Nat /\ missed[r] \in Nat /\ Validity \in Nat
          /\ RenewBefore \in Nat /\ RenewBefore <= Validity
      BY DEF TypeInv, TypeOK
    <3>3. ASSUME NEW d, NEW e, clock + RenewBefore <= d + missed[r] + 1,
                 e = d \/ e = clock + Validity
          PROVE  clock + RenewBefore <= e + missed[r] + 1
      BY <3>2, <3>3
    <3>4. Margin(r, secret.end) => Margin(r, secret.end)'
      BY <2>1, <2>2, <3>1, <3>3 DEF Margin
    <3>5. ASSUME NEW s \in Servers, Margin(r, disk[r][s].crt.end)
          PROVE  Margin(r, disk[r][s].crt.end)'
      BY <2>1, <2>2, <3>1, <3>3, <3>5 DEF Margin
    <3>6. LifeInv(r)'
      BY <2>1, <3>4, <3>5 DEF LifeInv
    <3> QED BY <1>0, <2>1, <2>2, <3>6
  <2> QED BY <2>3, <2>4
<1>3. ASSUME NEW r \in Replicas, CallFails(r) \/ BootDeadline(r)
      PROVE  \A q \in Replicas : LifeInv(q)'
  <2>1. /\ UNCHANGED <<clock, secret, disk, tick>>
        /\ mode' = [mode EXCEPT ![r] = IF @ = "boot" THEN "plain" ELSE @]
        /\ pc'[r] = "idle"
        /\ \A q \in Replicas \ {r} : /\ pc'[q] = pc[q] /\ mode'[q] = mode[q]
                                      /\ missed'[q] = missed[q]
    BY <1>3 DEF CallFails, BootDeadline, ErrorReturn, cluster, TypeInv, TypeOK
  <2>2. LifeInv(r)'
    <3>1. CASE mode[r] = "managed"
      <4>1. UNCHANGED mode /\ missed'[r] = missed[r] + 1 /\ Late(r)' \in {0, 1}
        BY <1>3, <2>1, <3>1 DEF CallFails, BootDeadline, Late, TypeInv, TypeOK
      <4>2. clock' + missed[r] + Late(r) <= clock + missed'[r] + Late(r)'
        BY <2>1, <4>1, LifeTypes
      <4> QED BY <2>1, <4>1, <4>2, LaterLife
    <3>2. CASE mode[r] # "managed"
      <4>1. mode'[r] # "managed"
        BY <2>1, <3>2 DEF TypeInv, TypeOK
      <4> QED BY <4>1 DEF LifeInv
    <3> QED BY <3>1, <3>2
  <2> QED BY <1>0, <2>1, <2>2
<1>4. ASSUME NEW r \in Replicas, Start(r) PROVE \A q \in Replicas : LifeInv(q)'
  <2>1. /\ UNCHANGED <<clock, secret, disk, tick, missed>> /\ mode'[r] = "boot"
        /\ \A q \in Replicas \ {r} : pc'[q] = pc[q] /\ mode'[q] = mode[q]
    BY <1>4 DEF Start, cluster, TypeInv, TypeOK
  <2>2. LifeInv(r)'
    BY <2>1 DEF LifeInv
  <2> QED BY <1>0, <2>1, <2>2
<1>5. ASSUME NEW r \in Replicas, Exit(r), UNCHANGED <<clock, cluster, missed>>,
             disk' = disk \/ disk' = [disk EXCEPT ![r] = EmptyDirs]
      PROVE  \A q \in Replicas : LifeInv(q)'
  <2>1. /\ UNCHANGED <<clock, secret, missed>> /\ mode'[r] = "down"
        /\ \A q \in Replicas \ {r} :
              /\ pc'[q] = pc[q] /\ disk'[q] = disk[q] /\ tick'[q] = tick[q]
              /\ mode'[q] = mode[q]
    BY <1>5 DEF Exit, cluster, TypeInv, TypeOK
  <2>2. LifeInv(r)'
    BY <2>1 DEF LifeInv
  <2> QED BY <1>0, <2>1, <2>2
<1>6. ASSUME NEW r \in Replicas, StartManager(r) PROVE \A q \in Replicas : LifeInv(q)'
  <2>1. UNCHANGED <<clock, secret, disk, missed>> /\ pc[r] = "done"
    BY <1>6 DEF StartManager, cluster
  <2>2. CASE Exit(r)
    BY <1>5, <1>6, <2>1, <2>2 DEF StartManager
  <2>3. CASE /\ mode' = [mode EXCEPT ![r] = "managed"]
             /\ pc' = [pc EXCEPT ![r] = "idle"]
             /\ UNCHANGED tick
    <3>1. ~tick[r]
      BY <2>1 DEF ProcessInv
    <3>2. ~Expiring(secret.end) /\ \A s \in Servers : ~Expiring(disk[r][s].crt.end)
      BY <2>1, <3>1 DEF PassInv
    <3>3. /\ clock \in Nat /\ missed[r] \in Nat /\ secret.end \in Nat
          /\ \A s \in Servers : disk[r][s].crt.end \in Nat
      BY LifeTypes
    <3>4. Late(r)' = 0
      BY <2>3, <3>1 DEF Late, TypeInv, TypeOK
    <3>5. \A e \in Nat : ~(e < clock + RenewBefore) =>
             clock + RenewBefore <= e + missed[r] + 0
      BY <3>3, FreshMargin
    <3>6. Margin(r, secret.end)'
      BY <2>1, <3>2, <3>3, <3>4, <3>5 DEF Margin, Expiring
    <3>7. \A s \in Servers : Margin(r, disk[r][s].crt.end)'
      BY <2>1, <3>2, <3>3, <3>4, <3>5 DEF Margin, Expiring
    <3>8. LifeInv(r)'
      BY <3>6, <3>7 DEF LifeInv
    <3> QED BY <1>0, <2>1, <2>3, <3>8 DEF TypeInv, TypeOK
  <2> QED BY <1>6, <2>2, <2>3 DEF StartManager
<1>7. ASSUME NEW r \in Replicas, Renew(r) PROVE \A q \in Replicas : LifeInv(q)'
  <2>1. /\ UNCHANGED <<clock, secret, disk, mode, missed>>
        /\ tick[r] /\ pc'[r] = "get"
        /\ \A q \in Replicas \ {r} : pc'[q] = pc[q] /\ tick'[q] = tick[q]
    BY <1>7 DEF Renew, cluster, TypeInv, TypeOK
  <2>2. Late(r)' = Late(r)
    BY <2>1 DEF Late
  <2>3. LifeInv(r)'
    BY <2>1, <2>2 DEF LifeInv, Margin
  <2> QED BY <1>0, <2>1, <2>3
<1>8. ASSUME NEW r \in Replicas, Crash(r) PROVE \A q \in Replicas : LifeInv(q)'
  BY <1>5, <1>8 DEF Crash
<1>9. ASSUME UNCHANGED <<clock, secret, disk, mode, tick, pc, missed>>
       PROVE  \A q \in Replicas : LifeInv(q)'
  BY <1>9 DEF LifeInv, Margin, Late
<1>10. ASSUME NEW r \in Replicas, StartRenewer(r) PROVE \A q \in Replicas : LifeInv(q)'
  BY <1>9, <1>10 DEF StartRenewer, cluster
<1>11. ASSUME NEW r \in Replicas, NEW s \in Servers, Reload(r, s)
       PROVE  \A q \in Replicas : LifeInv(q)'
  BY <1>9, <1>11 DEF Reload, cluster, process
<1>12. CASE InstallConfig \/ UNCHANGED vars
  BY <1>9, <1>12 DEF InstallConfig, vars, process
<1>13. CASE Tick
  <2> SUFFICES ASSUME NEW q \in Replicas PROVE LifeInv(q)'
    OBVIOUS
  <2>1. /\ clock' = clock + 1 /\ tick' = renewing /\ UNCHANGED <<secret, disk, mode, pc>>
        /\ missed'[q] = IF Waiting(q) THEN missed[q] + 1 ELSE missed[q]
        /\ Quiet(q) \/ Waiting(q)
    BY <1>13 DEF Tick, cluster
  <2>2. CASE mode[q] # "managed"
    BY <2>1, <2>2 DEF LifeInv
  <2>3. CASE mode[q] = "managed" /\ Waiting(q)
    <3>1. Late(q) = 1 /\ Late(q)' = 1
      BY <2>1, <2>3 DEF Waiting, Late
    <3>2. clock' + missed[q] + Late(q) <= clock + missed'[q] + Late(q)'
      BY <2>1, <2>3, <3>1, LifeTypes
    <3> QED BY <2>1, <3>2, LaterLife
  <2>4. CASE mode[q] = "managed" /\ ~Waiting(q)
    <3>1. Quiet(q)
      BY <2>1, <2>4
    <3>2. renewing[q]
      <4>1. ~renewing[q] => MayRenew(q)
        BY <2>4 DEF MayRenew, EveryoneRenews
      <4> QED BY <3>1, <4>1 DEF Quiet
    <3>3. Late(q) = 0 /\ Late(q)' = 1
      BY <2>1, <3>1, <3>2 DEF Quiet, Late
    <3>4. clock' + missed[q] + Late(q) <= clock + missed'[q] + Late(q)'
      BY <2>1, <2>4, <3>3, LifeTypes
    <3> QED BY <2>1, <3>4, LaterLife
  <2> QED BY <2>2, <2>3, <2>4
<1> QED BY <1>2, <1>3, <1>4, <1>6, <1>7, <1>8, <1>10, <1>11, <1>12, <1>13 DEF Next

\* NeverExpired holds in every reachable state when every replica renews, for any
\* lifetimes: a replica whose loop runs serves no expired certificate and has no
\* expired CA before renewBefore is used up by its own failed checks and by the
\* wait in patchCABundle, however the others race with it for the Secret.
THEOREM ExpiryFree ==
    ASSUME EveryoneRenews
    PROVE  Spec => []NeverExpired
<1> DEFINE IInv == TypeInv /\ \A r \in Replicas : ProcessInv(r) /\ PassInv(r) /\ LifeInv(r)
<1>1. Init => IInv
  BY TypeInit DEF Init, ProcessInv, PassInv, WebhookDone, LifeInv
<1>2. IInv /\ [Next]_vars => IInv'
  <2> SUFFICES ASSUME IInv, [Next]_vars PROVE IInv'
    OBVIOUS
  <2>1. TypeInv'
    BY TypeStep
  <2> QED BY <2>1, ProcessStep, PassStep, LifeStep
<1>3. IInv => NeverExpired
  <2> SUFFICES ASSUME IInv, NEW r \in Replicas, renewing[r], missed[r] < RenewBefore
               PROVE  /\ clock <= secret.end
                      /\ \A s \in Servers :
                            disk[r][s].paired /\ ~MayReload(r, s) => clock <= served[r][s].end
    BY DEF NeverExpired
  <2>1. /\ clock \in Nat /\ missed[r] \in Nat /\ Late(r) \in {0, 1} /\ RenewBefore \in Nat
        /\ secret.end \in Nat /\ \A s \in Servers : disk[r][s].crt.end \in Nat
    BY LifeTypes, CertsAssumption
  <2>2. /\ mode[r] = "managed" /\ Margin(r, secret.end)
        /\ \A s \in Servers : Margin(r, disk[r][s].crt.end)
    BY DEF ProcessInv, LifeInv
  <2>3. ASSUME NEW e \in Nat, clock + RenewBefore <= e + missed[r] + Late(r)
        PROVE  clock <= e
    BY <2>1, <2>3
  <2>4. clock <= secret.end /\ \A s \in Servers : clock <= disk[r][s].crt.end
    BY <2>1, <2>2, <2>3 DEF Margin
  <2>5. ASSUME NEW s \in Servers, disk[r][s].paired, ~MayReload(r, s)
        PROVE  served[r][s] = disk[r][s].crt
    BY <2>2, <2>5 DEF MayReload
  <2> QED BY <2>4, <2>5
<1> QED BY <1>1, <1>2, <1>3, PTL DEF Spec

(***************************************************************************)
(* A replica that runs alone is trusted.                                   *)
(***************************************************************************)

\* r is the only replica that has ever run, and nothing has failed.
Alone(r) == faults = 0 /\ \A q \in Replicas \ {r} : mode[q] = "down"

Unwritten(r, s) == disk[r][s].crt.end = 0

\* The files of server s make a pair that its clients accept.
Matched(r, s) ==
    /\ disk[r][s].paired
    /\ IF s = "webhook"
       THEN config.present /\ disk[r][s].crt.ca = config.bundle
       ELSE disk[r][s].crt.ca = secret.id

\* Without a fault only the pair being written is torn, and a replica that is
\* not running never ran: StartManager finds its pairs whole.
PairInv(r) ==
    faults = 0 =>
        /\ \A s \in Servers : \/ disk[r][s].paired \/ Unwritten(r, s)
                              \/ pc[r] = "write" /\ local[r].srv = s
        /\ mode[r] = "down" => disk[r] = EmptyDirs

\* What EnsureCerts of the only replica has done for the servers so far.
SoloWork(r) ==
    /\ pc[r] = "create" => secret = NoCA
    /\ pc[r] # "reread"
    /\ pc[r] \in {"get", "rotate", "create"} =>
          \A s \in Servers : Matched(r, s) \/ Unwritten(r, s)
    /\ pc[r] \in {"write", "find", "publish"} => local[r].ca = secret
    /\ pc[r] = "write" /\ "crt" \notin local[r].files
          => disk[r][local[r].srv].crt.ca = secret.id
    /\ pc[r] = "write" /\ local[r].srv = "metrics" /\ "webhook" \in Servers
          => Matched(r, "webhook")
    /\ "metrics" \in Servers
          /\ (pc[r] \in {"find", "publish"} \/ (pc[r] = "write" /\ local[r].srv = "webhook"))
          => local[r].rotated \/ Matched(r, "metrics") \/ Unwritten(r, "metrics")
    /\ pc[r] \in {"find", "publish"} =>
          disk[r]["webhook"].paired /\ disk[r]["webhook"].crt.ca = secret.id
    /\ pc[r] = "publish" => config.present /\ local[r].seen = config.bundle
    /\ pc[r] = "done" \/ (pc[r] = "idle" /\ mode[r] = "managed")
          => \A s \in Servers : Matched(r, s)

SoloCertInv(r) == ProcessInv(r) /\ PairInv(r) /\ (Alone(r) => SoloWork(r))

\* Without a fault the manager starts on whole pairs.
LEMMA PairsWhole ==
    ASSUME TypeInv, NEW r \in Replicas, ProcessInv(r), PassInv(r), PairInv(r), faults = 0,
           pc[r] = "done"
    PROVE  \A s \in Servers : disk[r][s].paired
<1>1. ~tick[r]
  BY DEF ProcessInv
<1>2. \A s \in Servers : ~Unwritten(r, s)
  BY <1>1, CertsAssumption DEF PassInv, Unwritten, Expiring, TypeInv, TypeOK
<1> QED BY <1>2 DEF PairInv

\* The fault counter only grows, and without a fault no process ends.
LEMMA NoExit ==
    ASSUME TypeInv, \A r \in Replicas : ProcessInv(r), \A r \in Replicas : PassInv(r),
           \A r \in Replicas : PairInv(r), [Next]_vars, faults' = 0
    PROVE  faults = 0 /\ \A q \in Replicas : mode'[q] = "down" => mode[q] = "down"
<1>1. faults \in Nat
  BY CertsAssumption DEF TypeInv, TypeOK
<1>2. ASSUME NEW r \in Replicas, EnsureCerts(r)
      PROVE  UNCHANGED <<faults, mode>>
  BY <1>2, EnsureCertsFrame
<1>3. ASSUME NEW r \in Replicas, CallFails(r) \/ Crash(r) PROVE FALSE
  BY <1>1, <1>3 DEF CallFails, Crash
<1>4. ASSUME NEW r \in Replicas, BootDeadline(r)
      PROVE  faults = 0 /\ \A q \in Replicas : mode'[q] = "down" => mode[q] = "down"
  BY <1>4 DEF BootDeadline, ErrorReturn, TypeInv, TypeOK
<1>5. ASSUME NEW r \in Replicas, Start(r) \/ StartRenewer(r) \/ Renew(r)
      PROVE  faults = 0 /\ \A q \in Replicas : mode'[q] = "down" => mode[q] = "down"
  BY <1>5 DEF Start, StartRenewer, Renew, TypeInv, TypeOK
<1>6. ASSUME NEW r \in Replicas, StartManager(r)
      PROVE  faults = 0 /\ \A q \in Replicas : mode'[q] = "down" => mode[q] = "down"
  <2>1. faults = 0 /\ pc[r] = "done"
    BY <1>6 DEF StartManager
  <2>2. \A s \in Servers : disk[r][s].paired
    BY <2>1, PairsWhole
  <2>3. mode' = [mode EXCEPT ![r] = "managed"]
    BY <1>6, <2>2 DEF StartManager
  <2> QED BY <2>1, <2>3 DEF TypeInv, TypeOK
<1>7. CASE InstallConfig \/ Tick \/ UNCHANGED vars
  BY <1>7 DEF InstallConfig, Tick, vars, process
<1>8. ASSUME NEW r \in Replicas, NEW s \in Servers, Reload(r, s)
      PROVE  UNCHANGED <<faults, mode>>
  BY <1>8 DEF Reload, process
<1> QED BY <1>2, <1>3, <1>4, <1>5, <1>6, <1>7, <1>8 DEF Next

\* A step of EnsureCerts tears no pair but the one it is writing.
LEMMA PairEnsureCerts ==
    ASSUME TypeInv, \A q \in Replicas : PassInv(q), NEW r \in Replicas, EnsureCerts(r),
           \A s \in Servers : \/ disk[r][s].paired \/ Unwritten(r, s)
                              \/ pc[r] = "write" /\ local[r].srv = s
    PROVE  \A s \in Servers : \/ disk[r][s].paired' \/ Unwritten(r, s)'
                              \/ pc'[r] = "write" /\ local'[r].srv = s
<1>1. CASE UNCHANGED disk /\ pc[r] # "write"
  BY <1>1 DEF Unwritten
<1>2. ASSUME NEW f \in Files, WriteFile(r, f), NEW s \in Servers
      PROVE  \/ disk[r][s].paired' \/ Unwritten(r, s)'
             \/ pc'[r] = "write" /\ local'[r].srv = s
  <2>1. /\ s = local[r].srv => (disk'[r][s].paired <=> local[r].files = {f})
        /\ s # local[r].srv => disk'[r][s] = disk[r][s]
    BY <1>2, WriteFileDisk
  <2>2. local[r].files # {f} =>
           pc'[r] = "write" /\ local'[r] = [local[r] EXCEPT !.files = @ \ {f}]
    BY <1>2, WriteFileControl
  <2>3. local[r].files # {f} => pc'[r] = "write" /\ local'[r].srv = local[r].srv
    BY <2>2 DEF TypeInv, TypeOK, Local
  <2>4. CASE s = local[r].srv
    BY <2>1, <2>3, <2>4
  <2>5. CASE s # local[r].srv
    BY <2>1, <2>5 DEF Unwritten
  <2> QED BY <2>4, <2>5
<1>3. \/ UNCHANGED disk /\ pc[r] # "write"
      \/ \E f \in Files : WriteFile(r, f)
  BY DEF EnsureCerts, GetSecret, RotateSecret, CreateSecret, RereadSecret, FindConfig,
         PublishBundle
<1> QED BY <1>1, <1>2, <1>3

\* Every step keeps PairInv.
LEMMA PairStep ==
    ASSUME TypeInv, \A r \in Replicas : PassInv(r), \A r \in Replicas : ProcessInv(r),
           \A r \in Replicas : PairInv(r), [Next]_vars
    PROVE  \A r \in Replicas : PairInv(r)'
<1> SUFFICES ASSUME NEW q \in Replicas, faults' = 0
             PROVE  /\ \A s \in Servers : \/ disk'[q][s].paired \/ Unwritten(q, s)'
                                          \/ pc'[q] = "write" /\ local'[q].srv = s
                    /\ mode'[q] = "down" => disk'[q] = EmptyDirs
  BY DEF PairInv
<1>1. faults = 0 /\ (mode'[q] = "down" => mode[q] = "down")
  BY NoExit
<1>2. /\ \A s \in Servers : \/ disk[q][s].paired \/ Unwritten(q, s)
                            \/ pc[q] = "write" /\ local[q].srv = s
      /\ mode[q] = "down" => disk[q] = EmptyDirs
  BY <1>1 DEF PairInv
<1>3. ASSUME NEW r \in Replicas, EnsureCerts(r)
      PROVE  /\ \A s \in Servers : \/ disk'[q][s].paired \/ Unwritten(q, s)'
                                   \/ pc'[q] = "write" /\ local'[q].srv = s
             /\ mode'[q] = "down" => disk'[q] = EmptyDirs
  <2>1. /\ pc[r] \in CallStates
        /\ q # r => pc'[q] = pc[q] /\ local'[q] = local[q] /\ disk'[q] = disk[q]
    BY <1>3, EnsureCertsFrame
  <2>2. CASE q = r
    <3>1. mode[q] # "down"
      BY <2>1, <2>2 DEF ProcessInv, CallStates
    <3> QED BY <1>1, <1>2, <1>3, <2>2, <3>1, PairEnsureCerts
  <2>3. CASE q # r
    BY <1>1, <1>2, <2>1, <2>3 DEF Unwritten
  <2> QED BY <2>2, <2>3
<1>4. ASSUME disk'[q] = disk[q],
             pc[q] = "write" => pc'[q] = "write" /\ local'[q] = local[q]
      PROVE  /\ \A s \in Servers : \/ disk'[q][s].paired \/ Unwritten(q, s)'
                                   \/ pc'[q] = "write" /\ local'[q].srv = s
             /\ mode'[q] = "down" => disk'[q] = EmptyDirs
  BY <1>1, <1>2, <1>4 DEF Unwritten
<1>5. ASSUME NEW r \in Replicas, CallFails(r) \/ Crash(r) PROVE FALSE
  BY <1>1, <1>5 DEF CallFails, Crash
<1>6. ASSUME NEW r \in Replicas, BootDeadline(r)
      PROVE  disk'[q] = disk[q] /\ (pc[q] = "write" => pc'[q] = "write" /\ local'[q] = local[q])
  BY <1>6 DEF BootDeadline, ErrorReturn, TypeInv, TypeOK
<1>7. ASSUME NEW r \in Replicas, Start(r) \/ StartRenewer(r) \/ Renew(r)
      PROVE  disk'[q] = disk[q] /\ (pc[q] = "write" => pc'[q] = "write" /\ local'[q] = local[q])
  BY <1>7 DEF Start, StartRenewer, Renew, ProcessInv, TypeInv, TypeOK
<1>8. ASSUME NEW r \in Replicas, StartManager(r)
      PROVE  disk'[q] = disk[q] /\ (pc[q] = "write" => pc'[q] = "write" /\ local'[q] = local[q])
  <2>1. CASE Exit(r)
    BY <1>8, <2>1 DEF StartManager, Exit, TypeInv, TypeOK
  <2>2. CASE pc' = [pc EXCEPT ![r] = "idle"] /\ UNCHANGED local
    BY <1>8, <2>2 DEF StartManager, TypeInv, TypeOK
  <2> QED BY <1>8, <2>1, <2>2 DEF StartManager
<1>9. ASSUME \/ InstallConfig \/ Tick \/ UNCHANGED vars
             \/ \E r \in Replicas, s \in Servers : Reload(r, s)
      PROVE  UNCHANGED <<disk, pc, local>>
  BY <1>9 DEF InstallConfig, Tick, vars, Reload
<1> QED BY <1>3, <1>4, <1>5, <1>6, <1>7, <1>8, <1>9 DEF Next

\* A server that is not due has a certificate: it does not end at 0.
LEMMA DueUnwritten ==
    ASSUME TypeInv, NEW r, NEW s, NEW rotated, ~Due(r, s, rotated)
    PROVE  ~rotated /\ ~Unwritten(r, s)
BY CertsAssumption DEF Due, Expiring, Unwritten, TypeInv, TypeOK

\* The only replica goes on with the CA in the Secret.
LEMMA SoloProceed ==
    ASSUME TypeInv, NEW r \in Replicas, NEW ca, NEW rotated \in BOOLEAN,
           NEW previous \in {"none", "webhook"},
           Proceed(r, ca, rotated, previous), UNCHANGED disk, secret' = ca,
           previous = "webhook" => Matched(r, "webhook")',
           \A s \in Servers : s # previous => rotated \/ Matched(r, s)' \/ Unwritten(r, s)
    PROVE  SoloWork(r)'
<1> DEFINE s == NextServer(r, rotated, previous)
<1>1. /\ s # "none" =>
            /\ pc'[r] = "write"
            /\ local'[r] = [ca |-> ca, rotated |-> rotated, srv |-> s,
                            files |-> Files, seen |-> 0]
      /\ s = "none" => pc'[r] = IF mode[r] = "boot" THEN "done" ELSE "idle"
  BY ProceedStep DEF TypeInv
<1>2. s = "none" => \A t \in Servers : t # previous => ~Due(r, t, rotated)
  BY CertsAssumption DEF NextServer
<1>3. s = "metrics" /\ "webhook" \in Servers /\ previous = "none"
         => ~Due(r, "webhook", rotated)
  BY DEF NextServer
<1>4. s \in {"webhook", "metrics", "none"} /\ (s = "webhook" => previous = "none")
  BY DEF NextServer
<1> HIDE DEF s
<1>5. \A t \in Servers : t # previous /\ ~Due(r, t, rotated) => Matched(r, t)'
  BY DueUnwritten
<1>6. CASE s = "none"
  <2>1. pc'[r] \in {"done", "idle"}
    BY <1>1, <1>6
  <2>2. \A t \in Servers : Matched(r, t)'
    BY <1>2, <1>5, <1>6, CertsAssumption
  <2> QED BY <2>1, <2>2 DEF SoloWork
<1>7. CASE s # "none"
  <2>1. /\ pc'[r] = "write" /\ local'[r].srv = s /\ "crt" \in local'[r].files
        /\ local'[r].ca = ca /\ local'[r].rotated = rotated
    BY <1>1, <1>7 DEF Files
  <2>2. CASE s = "metrics"
    <3>1. "webhook" \in Servers => Matched(r, "webhook")'
      BY <1>3, <1>5, <2>2
    <3> QED BY <2>1, <2>2, <3>1 DEF SoloWork
  <2>3. CASE s = "webhook"
    <3>1. "metrics" \in Servers => rotated \/ Matched(r, "metrics")' \/ Unwritten(r, "metrics")'
      BY DEF Unwritten
    <3> QED BY <2>1, <2>3, <3>1 DEF SoloWork
  <2> QED BY <1>4, <1>7, <2>2, <2>3
<1> QED BY <1>6, <1>7

\* The steps of EnsureCerts of the only replica.
LEMMA SoloEnsureCerts ==
    ASSUME TypeInv, NEW r \in Replicas, PassInv(r), SoloWork(r), EnsureCerts(r)
    PROVE  SoloWork(r)'
<1>1. CASE GetSecret(r)
  <2>1. UNCHANGED <<secret, config, disk>> /\ pc[r] = "get"
    BY <1>1 DEF GetSecret, cluster
  <2>2. \A s \in Servers : Matched(r, s)' \/ Unwritten(r, s)
    BY <2>1 DEF SoloWork, Matched, Unwritten
  <2>3. CASE (secret = NoCA /\ Generate(r, "create")) \/ Generate(r, "rotate")
    <3>1. pc'[r] \in {"create", "rotate"} /\ (pc'[r] = "create" => secret = NoCA)
      BY <2>3 DEF Generate, TypeInv, TypeOK
    <3> QED BY <2>1, <2>2, <3>1 DEF SoloWork, Unwritten
  <2>4. CASE Proceed(r, secret, FALSE, "none")
    BY <2>1, <2>2, <2>4, SoloProceed
  <2> QED BY <1>1, <2>3, <2>4 DEF GetSecret
<1>2. CASE RotateSecret(r) \/ CreateSecret(r)
  <2>1. Store(r) /\ UNCHANGED disk
    BY <1>2 DEF RotateSecret, CreateSecret, SoloWork
  <2>2. secret' = local[r].ca /\ Proceed(r, local[r].ca, TRUE, "none")
    BY <2>1 DEF Store
  <2> QED BY <2>1, <2>2, SoloProceed
<1>3. CASE RereadSecret(r)
  BY <1>3 DEF RereadSecret, SoloWork
<1>4. ASSUME NEW f \in Files, WriteFile(r, f) PROVE SoloWork(r)'
  <2>0. PICK w \in Servers : w = local[r].srv
    BY <1>4, WriteFileDisk
  <2>1. UNCHANGED <<secret, config>> /\ pc[r] = "write" /\ f \in local[r].files
    BY <1>4 DEF WriteFile, cluster
  <2>2. /\ disk'[r][w].crt = IF f = "crt" THEN NewCert(r) ELSE disk[r][w].crt
        /\ disk'[r][w].paired <=> local[r].files = {f}
        /\ \A s \in Servers \ {w} : disk'[r][s] = disk[r][s]
    <3>1. \A s \in Servers :
             /\ disk'[r][s].crt = IF s = w /\ f = "crt" THEN NewCert(r) ELSE disk[r][s].crt
             /\ s = w => (disk'[r][s].paired <=> local[r].files = {f})
             /\ s # w => disk'[r][s] = disk[r][s]
      BY <1>4, <2>0, WriteFileDisk
    <3> QED BY <3>1
  <2>3. /\ local[r].files # {f} =>
              pc'[r] = "write" /\ local'[r] = [local[r] EXCEPT !.files = @ \ {f}]
        /\ local[r].files = {f} /\ w = "webhook" =>
              pc'[r] = "find" /\ local'[r] = [local[r] EXCEPT !.files = {}]
        /\ local[r].files = {f} /\ w # "webhook" =>
              w = "metrics" /\ pc'[r] \in {"done", "idle"}
    BY <1>4, <2>0, WriteFileControl
  <2>4. local[r] \in Local
    BY DEF TypeInv, TypeOK
  <2>5. local[r].ca = secret /\ NewCert(r).ca = secret.id
    BY <2>1 DEF SoloWork, NewCert
  <2>6. f = "crt" \/ "crt" \notin local[r].files => disk'[r][w].crt.ca = secret'.id
    BY <2>0, <2>1, <2>2, <2>5 DEF SoloWork
  <2>7. \A s \in Servers \ {w} : /\ Matched(r, s) => Matched(r, s)'
                                 /\ Unwritten(r, s) => Unwritten(r, s)'
    BY <2>1, <2>2 DEF Matched, Unwritten
  <2>8. w = "metrics" /\ "webhook" \in Servers => Matched(r, "webhook")'
    BY <2>0, <2>1, <2>7 DEF SoloWork
  <2>9. w = "webhook" /\ "metrics" \in Servers
           => local[r].rotated \/ Matched(r, "metrics")' \/ Unwritten(r, "metrics")'
    BY <2>0, <2>1, <2>7 DEF SoloWork
  <2>10. CASE local[r].files # {f}
    <3>1. /\ pc'[r] = "write" /\ local'[r].srv = w /\ local'[r].ca = secret'
          /\ local'[r].rotated = local[r].rotated
          /\ local'[r].files = local[r].files \ {f}
      BY <2>0, <2>1, <2>3, <2>4, <2>5, <2>10 DEF Local
    <3>2. "crt" \notin local'[r].files => disk'[r][w].crt.ca = secret'.id
      BY <2>6, <3>1
    <3> QED BY <2>8, <2>9, <3>1, <3>2 DEF SoloWork
  <2>11. CASE local[r].files = {f} /\ w = "webhook"
    <3>1. /\ pc'[r] = "find" /\ local'[r].ca = secret'
          /\ local'[r].rotated = local[r].rotated
      BY <2>1, <2>3, <2>4, <2>5, <2>11 DEF Local
    <3>2. disk'[r][w].paired /\ disk'[r][w].crt.ca = secret'.id
      BY <2>2, <2>6, <2>11
    <3> QED BY <2>9, <2>11, <3>1, <3>2 DEF SoloWork
  <2>12. CASE local[r].files = {f} /\ w # "webhook"
    <3>1. w = "metrics" /\ pc'[r] \in {"done", "idle"}
      BY <2>3, <2>12
    <3>2. Matched(r, "metrics")'
      BY <2>2, <2>6, <2>12, <3>1 DEF Matched
    <3>3. \A s \in Servers : Matched(r, s)'
      BY <2>8, <3>1, <3>2, CertsAssumption
    <3> QED BY <3>1, <3>3 DEF SoloWork
  <2> QED BY <2>10, <2>11, <2>12
<1>5. CASE FindConfig(r)
  <2>1. /\ UNCHANGED <<secret, config, disk>> /\ pc[r] = "find" /\ config.present
        /\ pc'[r] = "publish" /\ local' = [local EXCEPT ![r].seen = config.bundle]
    BY <1>5 DEF FindConfig, cluster, TypeInv, TypeOK
  <2>2. /\ local'[r].ca = local[r].ca /\ local'[r].rotated = local[r].rotated
        /\ local'[r].seen = config.bundle
    BY <2>1 DEF TypeInv, TypeOK, Local
  <2> QED BY <2>1, <2>2 DEF SoloWork, Matched, Unwritten
<1>6. CASE PublishBundle(r)
  <2>1. /\ UNCHANGED <<secret, disk>> /\ pc[r] = "publish"
        /\ config' = [config EXCEPT !.bundle = MergeField(@, local[r].seen, local[r].ca.id)]
        /\ Proceed(r, local[r].ca, local[r].rotated, "webhook")
    BY <1>6 DEF PublishBundle
  <2>2. local[r].ca = secret /\ local[r].seen = config.bundle /\ config.present
    BY <2>1 DEF SoloWork
  <2>3. config'.present /\ config'.bundle = secret.id
    BY <2>1, <2>2 DEF MergeField, TypeInv, TypeOK
  <2>4. Matched(r, "webhook")'
    BY <2>1, <2>3 DEF SoloWork, Matched
  <2>5. \A s \in Servers : s # "webhook" =>
           local[r].rotated \/ Matched(r, s)' \/ Unwritten(r, s)
    BY <2>1, CertsAssumption DEF SoloWork, Matched
  <2>6. local[r].rotated \in BOOLEAN
    BY DEF TypeInv, TypeOK, Local
  <2> QED BY <2>1, <2>2, <2>4, <2>5, <2>6, SoloProceed
<1> QED BY <1>1, <1>2, <1>3, <1>4, <1>5, <1>6 DEF EnsureCerts

\* Every step keeps what the only replica has done.
LEMMA SoloCertStep ==
    ASSUME TypeInv, \A r \in Replicas : PassInv(r), \A r \in Replicas : SoloCertInv(r),
           [Next]_vars
    PROVE  \A r \in Replicas : SoloCertInv(r)'
<1>1. \A r \in Replicas : ProcessInv(r)'
  BY ProcessStep DEF SoloCertInv
<1>2. \A r \in Replicas : PairInv(r)'
  BY PairStep DEF SoloCertInv
<1> SUFFICES ASSUME NEW r \in Replicas, Alone(r)' PROVE SoloWork(r)'
  BY <1>1, <1>2 DEF SoloCertInv
<1>3. Alone(r)
  BY NoExit DEF Alone, SoloCertInv
<1>4. SoloWork(r) /\ ProcessInv(r) /\ PairInv(r)
  BY <1>3 DEF SoloCertInv
<1>5. ASSUME NEW q \in Replicas, q # r
      PROVE  /\ mode[q] = "down" /\ mode'[q] = "down" /\ pc[q] = "idle"
             /\ ~renewing[q] /\ ~tick[q]
  <2>1. mode[q] = "down" /\ mode'[q] = "down"
    BY <1>3, <1>5 DEF Alone
  <2>2. renewing[q] \in BOOLEAN /\ tick[q] \in BOOLEAN
    BY DEF TypeInv, TypeOK
  <2> QED BY <2>1, <2>2 DEF SoloCertInv, ProcessInv
<1>6. ASSUME NEW q \in Replicas, q # r,
             \/ EnsureCerts(q) \/ BootDeadline(q) \/ CallFails(q)
             \/ Start(q) \/ StartManager(q) \/ StartRenewer(q) \/ Renew(q) \/ Crash(q)
             \/ \E s \in Servers : Reload(q, s)
      PROVE  FALSE
  <2>1. ~EnsureCerts(q)
    BY <1>5, <1>6 DEF EnsureCerts, GetSecret, RotateSecret, CreateSecret, RereadSecret,
                      WriteFile, FindConfig, PublishBundle
  <2>2. ~BootDeadline(q) /\ ~CallFails(q) /\ ~StartManager(q)
    BY <1>5, <1>6 DEF BootDeadline, CallFails, CallStates, StartManager
  <2>3. ~Start(q)
    BY <1>5, <1>6 DEF Start, TypeInv, TypeOK
  <2>4. ~StartRenewer(q) /\ ~Renew(q) /\ ~Crash(q) /\ \A s \in Servers : ~Reload(q, s)
    BY <1>5, <1>6 DEF StartRenewer, MayRenew, Renew, Crash, Reload, MayReload
  <2> QED BY <1>6, <2>1, <2>2, <2>3, <2>4
<1>7. CASE EnsureCerts(r)
  BY <1>4, <1>7, SoloEnsureCerts
<1>8. CASE CallFails(r) \/ Crash(r)
  BY <1>3, <1>8 DEF CallFails, Crash, Alone, TypeInv, TypeOK
<1>9. CASE BootDeadline(r)
  <2>1. pc'[r] = "idle" /\ mode'[r] = "plain"
    BY <1>9 DEF BootDeadline, ErrorReturn, TypeInv, TypeOK
  <2> QED BY <2>1 DEF SoloWork
<1>10. CASE Start(r)
  <2>1. /\ pc'[r] = "get" /\ UNCHANGED disk
        /\ disk[r] = EmptyDirs
    BY <1>3, <1>4, <1>10 DEF Start, PairInv, Alone, TypeInv, TypeOK
  <2>2. \A s \in Servers : Unwritten(r, s)'
    BY <2>1 DEF Unwritten, EmptyDirs, EmptyDir, NoCert
  <2> QED BY <2>1, <2>2 DEF SoloWork
<1>11. CASE StartManager(r)
  <2>1. /\ UNCHANGED <<secret, config, disk>> /\ pc[r] = "done"
        /\ pc'[r] = "idle"
    BY <1>11 DEF StartManager, Exit, cluster, TypeInv, TypeOK
  <2>2. \A s \in Servers : Matched(r, s)'
    BY <1>4, <2>1 DEF SoloWork, Matched
  <2> QED BY <2>1, <2>2 DEF SoloWork
<1>12. CASE Renew(r)
  <2>1. /\ UNCHANGED <<secret, config, disk, mode>> /\ pc[r] = "idle" /\ mode[r] = "managed"
        /\ pc'[r] = "get"
    BY <1>4, <1>12 DEF Renew, ProcessInv, cluster, TypeInv, TypeOK
  <2>2. \A s \in Servers : Matched(r, s)'
    BY <1>4, <2>1 DEF SoloWork, Matched
  <2> QED BY <2>1, <2>2 DEF SoloWork
<1>13. ASSUME UNCHANGED <<secret, config, disk, mode, pc, local>> PROVE SoloWork(r)'
  BY <1>4, <1>13 DEF SoloWork, Matched, Unwritten
<1>14. CASE StartRenewer(r) \/ Tick \/ UNCHANGED vars \/ \E s \in Servers : Reload(r, s)
  BY <1>13, <1>14 DEF StartRenewer, Tick, Reload, vars, cluster, process
<1>15. CASE InstallConfig
  <2>1. ~config.present /\ UNCHANGED <<secret, disk, mode, pc, local>>
    BY <1>15 DEF InstallConfig, process
  <2>2. \A s \in Servers : /\ Matched(r, s) => Matched(r, s)'
                           /\ Unwritten(r, s) => Unwritten(r, s)'
    BY <2>1 DEF Matched, Unwritten
  <2> QED BY <1>4, <2>1, <2>2 DEF SoloWork
<1> QED BY <1>6, <1>7, <1>8, <1>9, <1>10, <1>11, <1>12, <1>14, <1>15 DEF Next

\* SoloTrusted holds in every reachable state: as long as one replica runs
\* alone and nothing has failed, rotation never leaves it with certificates
\* that its clients reject, for any lifetimes and whatever Secret and webhook
\* configuration it found at its start.
THEOREM SoloReplicaTrusted == Spec => []SoloTrusted
<1> DEFINE IInv == TypeInv /\ \A r \in Replicas : PassInv(r) /\ SoloCertInv(r)
<1>1. Init => IInv
  <2> SUFFICES ASSUME Init PROVE IInv
    OBVIOUS
  <2>1. TypeInv
    BY TypeInit
  <2>2. ASSUME NEW r \in Replicas PROVE PassInv(r) /\ ProcessInv(r) /\ SoloWork(r)
    BY DEF Init, PassInv, WebhookDone, ProcessInv, SoloWork
  <2>3. ASSUME NEW r \in Replicas PROVE PairInv(r)
    BY DEF Init, PairInv, Unwritten, EmptyDirs, EmptyDir, NoCert
  <2> QED BY <2>1, <2>2, <2>3 DEF SoloCertInv
<1>2. IInv /\ [Next]_vars => IInv'
  <2> SUFFICES ASSUME IInv, [Next]_vars PROVE IInv'
    OBVIOUS
  <2>1. \A r \in Replicas : ProcessInv(r)
    BY DEF SoloCertInv
  <2> QED BY <2>1, TypeStep, PassStep, SoloCertStep
<1>3. IInv => SoloTrusted
  <2> SUFFICES ASSUME IInv, NEW r \in Replicas, mode[r] = "managed", Quiet(r), Alone(r)
               PROVE  Trusted(r)
    BY DEF SoloTrusted, Alone
  <2>1. \A s \in Servers : Matched(r, s)
    BY DEF SoloCertInv, SoloWork, Quiet
  <2>2. \A s \in Servers : served[r][s] = disk[r][s].crt
    BY <2>1 DEF Quiet, MayReload, Matched
  <2> QED BY <2>1, <2>2 DEF Trusted, Matched
<1> QED BY <1>1, <1>2, <1>3, PTL DEF Spec
=============================================================================
