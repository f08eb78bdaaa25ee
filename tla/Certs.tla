------------------------------- MODULE Certs -------------------------------
(***************************************************************************)
(* Self-signed certificates for the webhook and the metrics server:        *)
(* CertBootstrapper (internal/webhook/certbootstrap.go) and the part of    *)
(* cmd/main.go that runs it at startup and registers its renewal loop.     *)
(*                                                                         *)
(* Every replica runs EnsureCerts once at startup and then at each tick of *)
(* its renewal loop.  The CA is shared through a Secret, the certificates  *)
(* are files of the pod, and the API server trusts the CA found in the     *)
(* caBundle of the ValidatingWebhookConfiguration.  Each API call and each *)
(* file that is written is one step, so replicas, failures and crashes     *)
(* interleave between any two of them.                                     *)
(*                                                                         *)
(* Time is counted in renewalCheckIntervals.                               *)
(***************************************************************************)
EXTENDS Naturals, FiniteSets, KubeAPI

CONSTANTS
    Replicas,     \* the pods of the operator's Deployment
    Servers,      \* the servers with a bootstrapped certificate
    Validity,     \* certValidity
    RenewBefore,  \* renewBefore
    LeaderElect,  \* the --leader-elect flag
    MaxClock,     \* bound on time
    MaxCAs,       \* bound on the number of CAs ever generated
    MaxFaults     \* bound on failed calls and crashes

ASSUME CertsAssumption ==
    /\ Servers \subseteq {"webhook", "metrics"}
    /\ Validity \in Nat /\ RenewBefore \in Nat
    /\ 0 < RenewBefore /\ RenewBefore <= Validity
    /\ LeaderElect \in BOOLEAN
    /\ MaxClock \in Nat /\ MaxFaults \in Nat
    /\ MaxCAs \in Nat /\ 0 < MaxCAs

Times == 0..(MaxClock + Validity)

\* A CA with its key: which one, and its NotAfter.  NoCA: no Secret, or none
\* read yet.
CACert == [id: 0..MaxCAs, end: Times]
NoCA == [id |-> 0, end |-> 0]

\* A server certificate: the CA that signed it, and its NotAfter.
ServerCert == [ca: 0..MaxCAs, end: Times]
NoCert == [ca |-> 0, end |-> 0]

\* The directory of one server: tls.crt, and whether tls.key is its key.
CertDir == [crt: ServerCert, paired: BOOLEAN]
EmptyDir == [crt |-> NoCert, paired |-> FALSE]

\* The local variables of a running EnsureCerts: the CA in use, caRotated, the
\* server whose certificate is being written (none before that), the files
\* still to be written, and the caBundle that patchCABundle read.
Files == {"crt", "key"}
Local == [ca: CACert, rotated: BOOLEAN, srv: {"webhook", "metrics", "none"},
          files: SUBSET Files, seen: 0..MaxCAs]
NoLocal == [ca |-> NoCA, rotated |-> FALSE, srv |-> "none", files |-> {},
            seen |-> 0]

VARIABLES
    clock,      \* the time
    secret,     \* the CA in the shared Secret
    config,     \* the ValidatingWebhookConfiguration
    disk,       \* per replica and server, the certificate files
    served,     \* per replica and server, the certificate the listener uses
    mode,       \* per replica: not running, starting, or running, and how
    renewing,   \* per replica, is the renewal loop running?
    tick,       \* per replica, is a tick waiting in the loop's channel?
    pc,         \* per replica, where EnsureCerts is
    local,      \* per replica, EnsureCerts' local variables
    issued,     \* number of CAs generated so far
    faults,     \* number of faults so far
    stored,     \* history: the CAs that have ever been in the Secret
    missed      \* history: per replica, failed checks and intervals spent waiting
                \* since the last check that was on time and completed

cluster == <<secret, config, stored>>
process == <<mode, renewing, tick>>
vars == <<clock, secret, config, disk, served, mode, renewing, tick, pc, local,
          issued, faults, stored, missed>>

\* "plain" is a process that runs without managed certificates.
Modes == {"down", "boot", "managed", "plain"}

CallStates == {"get", "rotate", "create", "reread", "write", "find", "publish"}

\* The type of every variable.
TypeOK ==
    /\ clock \in 0..MaxClock
    /\ secret \in CACert
    /\ config \in [present: BOOLEAN, bundle: 0..MaxCAs]
    /\ disk \in [Replicas -> [Servers -> CertDir]]
    /\ served \in [Replicas -> [Servers -> ServerCert]]
    /\ mode \in [Replicas -> Modes]
    /\ renewing \in [Replicas -> BOOLEAN]
    /\ tick \in [Replicas -> BOOLEAN]
    /\ pc \in [Replicas -> CallStates \union {"idle", "done"}]
    /\ local \in [Replicas -> Local]
    /\ issued \in 0..MaxCAs
    /\ faults \in 0..MaxFaults
    /\ stored \in SUBSET (1..MaxCAs)
    /\ missed \in [Replicas -> Nat]

NotServing == [s \in Servers |-> NoCert]
EmptyDirs == [s \in Servers |-> EmptyDir]

\* No replica has started.  The Secret may be left over from an earlier
\* installation, with any of its lifetime left; the webhook configuration may
\* be applied before or after the Deployment.
Init ==
    /\ clock = 0
    /\ secret \in {NoCA} \union {[id |-> 1, end |-> e] : e \in 0..Validity}
    /\ config \in [present: BOOLEAN, bundle: {0}]
    /\ disk = [r \in Replicas |-> EmptyDirs]
    /\ served = [r \in Replicas |-> NotServing]
    /\ mode = [r \in Replicas |-> "down"]
    /\ renewing = [r \in Replicas |-> FALSE]
    /\ tick = [r \in Replicas |-> FALSE]
    /\ pc = [r \in Replicas |-> "idle"]
    /\ local = [r \in Replicas |-> NoLocal]
    /\ issued = secret.id
    /\ faults = 0
    /\ stored = IF secret = NoCA THEN {} ELSE {secret.id}
    /\ missed = [r \in Replicas |-> 0]

(***************************************************************************)
(* Decisions of EnsureCerts.                                               *)
(***************************************************************************)

\* Wrong: certificates are replaced only when they have expired.
BadExpiring(end) == end < clock

\* caIsExpiring and serverCertNeedsRenewal: a missing or unreadable certificate
\* is one that ends at 0.
Expiring(end) == end < clock + RenewBefore

\* Wrong: a new CA does not make the server certificates due.
BadDue(r, s, rotated) == Expiring(disk[r][s].crt.end)

\* The condition under which EnsureCerts generates a server certificate.
Due(r, s, rotated) == rotated \/ Expiring(disk[r][s].crt.end)

\* The server EnsureCerts turns to next: the webhook comes first, then metrics.
NextServer(r, rotated, previous) ==
    IF previous = "none" /\ "webhook" \in Servers /\ Due(r, "webhook", rotated)
    THEN "webhook"
    ELSE IF previous # "metrics" /\ "metrics" \in Servers /\ Due(r, "metrics", rotated)
    THEN "metrics"
    ELSE "none"

\* EnsureCerts of replica r has its CA, and is done with the server previous:
\* it goes on to the next due server, or returns without an error.  A check is on
\* time when no tick came while it ran.
Proceed(r, ca, rotated, previous) ==
    LET s == NextServer(r, rotated, previous)
    IN  /\ pc' = [pc EXCEPT ![r] = IF s # "none" THEN "write"
                                   ELSE IF mode[r] = "boot" THEN "done" ELSE "idle"]
        /\ local' = [local EXCEPT ![r] =
               IF s = "none" THEN NoLocal
               ELSE [ca |-> ca, rotated |-> rotated, srv |-> s, files |-> Files,
                     seen |-> 0]]
        /\ missed' = [missed EXCEPT ![r] = IF s = "none" /\ ~tick[r] THEN 0 ELSE @]

(***************************************************************************)
(* ensureCA.                                                               *)
(***************************************************************************)

\* A bound: no check begins for which there might be no CA left.
CALeft == issued + Cardinality({q \in Replicas : pc[q] # "idle"}) < MaxCAs

\* A new CA is generated and is about to be stored by the step label.
Generate(r, label) ==
    /\ issued < MaxCAs
    /\ issued' = issued + 1
    /\ local' = [local EXCEPT ![r].ca = [id |-> issued + 1, end |-> clock + Validity]]
    /\ pc' = [pc EXCEPT ![r] = label]
    /\ UNCHANGED missed

\* The Get of the Secret and the switch on its result.
GetSecret(r) ==
    /\ pc[r] = "get"
    /\ \/ secret = NoCA /\ Generate(r, "create")
       \/ secret # NoCA /\ Expiring(secret.end) /\ Generate(r, "rotate")
       \/ /\ secret # NoCA /\ ~Expiring(secret.end)
          /\ Proceed(r, secret, FALSE, "none")
          /\ UNCHANGED issued
    /\ UNCHANGED <<clock, cluster, disk, served, process, faults>>

\* The CA of r is in the Secret.
Store(r) ==
    /\ secret' = local[r].ca
    /\ stored' = stored \union {local[r].ca.id}
    /\ Proceed(r, local[r].ca, TRUE, "none")

\* Rotation patches the Secret; a merge patch has no precondition.
RotateSecret(r) ==
    /\ pc[r] = "rotate"
    /\ Store(r)
    /\ UNCHANGED <<clock, config, disk, served, process, issued, faults>>

\* Create succeeds for the first replica only.
CreateSecret(r) ==
    /\ pc[r] = "create"
    /\ \/ secret = NoCA /\ Store(r)
       \/ /\ secret # NoCA
          /\ pc' = [pc EXCEPT ![r] = "reread"]
          /\ UNCHANGED <<secret, stored, local, missed>>
    /\ UNCHANGED <<clock, config, disk, served, process, issued, faults>>

\* Wrong: the loser of the create race goes on with the CA it generated.
BadRereadSecret(r) ==
    /\ pc[r] = "reread"
    /\ Proceed(r, local[r].ca, TRUE, "none")
    /\ UNCHANGED <<clock, cluster, disk, served, process, issued, faults>>

\* The loser of the create race reads the winner's CA.
RereadSecret(r) ==
    /\ pc[r] = "reread"
    /\ Proceed(r, secret, TRUE, "none")
    /\ UNCHANGED <<clock, cluster, disk, served, process, issued, faults>>

(***************************************************************************)
(* Server certificates and the caBundle.                                   *)
(***************************************************************************)

\* Wrong: the lifetime is counted from the next check.
BadNewCert(r) == [ca |-> local[r].ca.id, end |-> clock + 1 + Validity]

\* generateServerCert with the CA in use.
NewCert(r) == [ca |-> local[r].ca.id, end |-> clock + Validity]

\* writeCertsToDisk: each file is replaced by a rename, in the order of a Go
\* map, that is in any order.  The pair matches again when both are written.
WriteFile(r, f) ==
    /\ pc[r] = "write" /\ f \in local[r].files
    /\ LET s == local[r].srv
           last == local[r].files = {f}
       IN  /\ disk' = [disk EXCEPT ![r][s] =
                  [crt |-> IF f = "crt" THEN NewCert(r) ELSE @.crt, paired |-> last]]
           /\ IF ~last
              THEN /\ local' = [local EXCEPT ![r].files = @ \ {f}]
                   /\ UNCHANGED <<pc, missed>>
              ELSE IF s = "webhook"
              THEN /\ local' = [local EXCEPT ![r].files = {}]
                   /\ pc' = [pc EXCEPT ![r] = "find"]
                   /\ UNCHANGED missed
              ELSE Proceed(r, local[r].ca, local[r].rotated, s)
    /\ UNCHANGED <<clock, cluster, served, process, issued, faults>>

\* patchCABundle waits for the webhook configuration ...
FindConfig(r) ==
    /\ pc[r] = "find" /\ config.present
    /\ local' = [local EXCEPT ![r].seen = config.bundle]
    /\ pc' = [pc EXCEPT ![r] = "publish"]
    /\ UNCHANGED <<clock, cluster, disk, served, process, issued, faults, missed>>

\* ... and replaces its caBundle by the one CA.
PublishBundle(r) ==
    /\ pc[r] = "publish"
    /\ config' = [config EXCEPT !.bundle = MergeField(@, local[r].seen, local[r].ca.id)]
    /\ Proceed(r, local[r].ca, local[r].rotated, "webhook")
    /\ UNCHANGED <<clock, secret, stored, disk, served, process, issued, faults>>

(***************************************************************************)
(* The process: main, the manager and the renewal loop.                    *)
(***************************************************************************)

\* EnsureCerts returns an error.  At startup the process goes on without
\* managed certificates, webhook and renewal loop; later the error is logged
\* and the next tick tries again.
ErrorReturn(r) ==
    /\ pc' = [pc EXCEPT ![r] = "idle"]
    /\ local' = [local EXCEPT ![r] = NoLocal]
    /\ mode' = [mode EXCEPT ![r] = IF @ = "boot" THEN "plain" ELSE @]
    /\ UNCHANGED <<clock, cluster, disk, served, renewing, tick, issued>>

\* Any call of EnsureCerts fails.
CallFails(r) ==
    /\ pc[r] \in CallStates
    /\ faults < MaxFaults /\ faults' = faults + 1
    /\ missed' = [missed EXCEPT ![r] = @ + 1]
    /\ ErrorReturn(r)

\* Wrong: the startup context has no deadline.
BadBootDeadline(r) == FALSE /\ UNCHANGED vars

\* The two minutes of the startup context are over before there is a webhook
\* configuration.
BootDeadline(r) ==
    /\ pc[r] = "find" /\ mode[r] = "boot" /\ ~config.present
    /\ ErrorReturn(r)
    /\ UNCHANGED <<faults, missed>>

\* A container of the pod starts: main calls EnsureCerts.
Start(r) ==
    /\ mode[r] = "down" /\ CALeft
    /\ mode' = [mode EXCEPT ![r] = "boot"]
    /\ pc' = [pc EXCEPT ![r] = "get"]
    /\ UNCHANGED <<clock, cluster, disk, served, renewing, tick, local, issued, faults, missed>>

Exit(r) ==
    /\ mode' = [mode EXCEPT ![r] = "down"]
    /\ renewing' = [renewing EXCEPT ![r] = FALSE]
    /\ tick' = [tick EXCEPT ![r] = FALSE]
    /\ served' = [served EXCEPT ![r] = NotServing]
    /\ pc' = [pc EXCEPT ![r] = "idle"]
    /\ local' = [local EXCEPT ![r] = NoLocal]

\* After a successful bootstrap the manager starts the servers on the files; a
\* key that does not belong to the certificate ends the process.
StartManager(r) ==
    /\ pc[r] = "done"
    /\ IF \A s \in Servers : disk[r][s].paired
       THEN /\ mode' = [mode EXCEPT ![r] = "managed"]
            /\ served' = [served EXCEPT ![r] = [s \in Servers |-> disk[r][s].crt]]
            /\ pc' = [pc EXCEPT ![r] = "idle"]
            /\ UNCHANGED <<renewing, tick, local>>
       ELSE Exit(r)
    /\ UNCHANGED <<clock, cluster, disk, issued, faults, missed>>

\* May the manager start the renewal loop of r?  The bootstrapper is added as a
\* runnable like any other, and those wait for the election.
MayRenew(r) ==
    /\ mode[r] = "managed" /\ ~renewing[r]
    /\ LeaderElect => \A q \in Replicas : ~renewing[q]

StartRenewer(r) ==
    /\ MayRenew(r)
    /\ renewing' = [renewing EXCEPT ![r] = TRUE]
    /\ UNCHANGED <<clock, cluster, disk, served, mode, tick, pc, local, issued, faults, missed>>

\* The loop of Start receives a tick and calls EnsureCerts.
Renew(r) ==
    /\ tick[r] /\ pc[r] = "idle" /\ CALeft
    /\ tick' = [tick EXCEPT ![r] = FALSE]
    /\ pc' = [pc EXCEPT ![r] = "get"]
    /\ UNCHANGED <<clock, cluster, disk, served, mode, renewing, local, issued, faults,
                   missed>>

\* The certificate watcher of a server loads the files when they have changed
\* and match.
MayReload(r, s) ==
    /\ mode[r] = "managed"
    /\ disk[r][s].paired /\ served[r][s] # disk[r][s].crt

Reload(r, s) ==
    /\ MayReload(r, s)
    /\ served' = [served EXCEPT ![r][s] = disk[r][s].crt]
    /\ UNCHANGED <<clock, cluster, disk, process, pc, local, issued, faults, missed>>

\* A process dies.  Its files are in an emptyDir volume: they survive the
\* container, and are lost when the pod is replaced.
Crash(r) ==
    /\ mode[r] # "down"
    /\ faults < MaxFaults /\ faults' = faults + 1
    /\ Exit(r)
    /\ \/ UNCHANGED disk
       \/ disk' = [disk EXCEPT ![r] = EmptyDirs]
    /\ UNCHANGED <<clock, cluster, issued, missed>>

\* The webhook configuration is applied, with an empty caBundle.
InstallConfig ==
    /\ ~config.present
    /\ config' = [present |-> TRUE, bundle |-> 0]
    /\ UNCHANGED <<clock, secret, stored, disk, served, process, pc, local, issued, faults,
                   missed>>

\* Nothing is under way at r.
Quiet(r) ==
    /\ mode[r] # "boot" /\ pc[r] = "idle" /\ ~tick[r] /\ ~MayRenew(r)
    /\ \A s \in Servers : ~MayReload(r, s)

\* The renewal loop of r hangs in patchCABundle: there is no webhook configuration,
\* and the context of the loop has no deadline.
Waiting(r) == mode[r] = "managed" /\ pc[r] = "find" /\ ~config.present

\* A renewalCheckInterval passes; the tickers of the running loops fire, and drop
\* the tick when one is waiting already.  A start-up (it has two minutes), an
\* election, a reload and every call of a check take far less than an interval;
\* the wait for the webhook configuration takes as long as it takes.
Tick ==
    /\ clock < MaxClock
    /\ \A r \in Replicas :
          Quiet(r) \/ (Waiting(r) /\ \A s \in Servers : ~MayReload(r, s))
    /\ clock' = clock + 1
    /\ tick' = renewing
    /\ missed' = [r \in Replicas |-> IF Waiting(r) THEN missed[r] + 1 ELSE missed[r]]
    /\ UNCHANGED <<cluster, disk, served, mode, renewing, pc, local, issued, faults>>

\* The steps of EnsureCerts.
EnsureCerts(r) ==
    \/ GetSecret(r) \/ RotateSecret(r) \/ CreateSecret(r) \/ RereadSecret(r)
    \/ \E f \in Files : WriteFile(r, f)
    \/ FindConfig(r) \/ PublishBundle(r)

Next ==
    \/ \E r \in Replicas :
          \/ EnsureCerts(r) \/ BootDeadline(r) \/ CallFails(r)
          \/ Start(r) \/ StartManager(r) \/ StartRenewer(r) \/ Renew(r) \/ Crash(r)
          \/ \E s \in Servers : Reload(r, s)
    \/ InstallConfig \/ Tick

Spec == Init /\ [][Next]_vars

\* A process that runs makes progress.  Nobody owes a webhook configuration.
Fairness ==
    \A r \in Replicas : /\ WF_vars(EnsureCerts(r)) /\ WF_vars(BootDeadline(r))
                        /\ WF_vars(StartManager(r))

FairSpec == Spec /\ Fairness

(***************************************************************************)
(* Properties.                                                             *)
(***************************************************************************)

\* The CAs that something in the cluster depends on.
CAsInUse ==
    {disk[r][s].crt.ca : r \in Replicas, s \in Servers}
        \union {served[r][s].ca : r \in Replicas, s \in Servers}
        \union {config.bundle}

\* No certificate is signed by, and no caBundle names, a CA that was never in
\* the shared Secret, whatever the order in which replicas race to create or
\* rotate it, fail and restart.  Until the first rotation that makes all
\* replicas agree on one CA.
NoForeignCA == CAsInUse \ {0} \subseteq stored

\* The clients of r accept its certificates: the API server verifies the
\* webhook against the caBundle, Prometheus verifies the metrics endpoint
\* against ca.crt in the Secret.
Trusted(r) ==
    \A s \in Servers :
        served[r][s].ca = IF s = "webhook" THEN config.bundle ELSE secret.id

\* As long as one replica runs alone and nothing has failed, its certificates
\* are trusted whenever it is at rest: a new CA is followed by new server
\* certificates and a new caBundle, also when the server certificates
\* themselves were not due yet.
SoloTrusted ==
    \A r \in Replicas :
        faults = 0 /\ mode[r] = "managed" /\ Quiet(r)
          /\ (\A q \in Replicas \ {r} : mode[q] = "down")
            => Trusted(r)

\* A replica whose renewal loop runs serves no expired certificate and does not
\* live with an expired CA, unless renewBefore is used up: by checks that failed
\* and intervals spent waiting for the webhook configuration, in a row since the
\* last check that was on time and completed.  Before that, one check that gets
\* through puts everything right.  A write that failed between tls.crt and tls.key
\* is the exception: the next check finds the new tls.crt in order and leaves the
\* pair torn, so nothing can be loaded until the pair is written anew.
NeverExpired ==
    \A r \in Replicas : renewing[r] /\ missed[r] < RenewBefore =>
        /\ clock <= secret.end
        /\ \A s \in Servers :
              disk[r][s].paired /\ ~MayReload(r, s) => clock <= served[r][s].end

\* Startup ends, with or without certificates: the wait for the webhook
\* configuration in patchCABundle does not keep the operator from working.
BootEnds == \A r \in Replicas : mode[r] = "boot" ~> mode[r] # "boot"
=============================================================================
