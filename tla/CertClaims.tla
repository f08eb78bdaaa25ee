---------------------------- MODULE CertClaims -----------------------------
(***************************************************************************)
(* What comments and manifests say about the certificates and the code     *)
(* does not do.  Every property quotes the sentence it states, names the   *)
(* code that disagrees, and is violated under the configuration that       *)
(* checks it.                                                              *)
(***************************************************************************)
EXTENDS MCCerts

AllQuiet == \A r \in Replicas : Quiet(r)

\* certbootstrap.go:50: "The ValidatingWebhookConfiguration caBundle holds the
\* single shared CA cert, so the API server trusts every pod's server cert."
\* Rotation replaces the caBundle by the new CA alone, and only the replica that
\* rotated knows (caRotated) that its server certificate has to follow.
EveryPodTrusted ==
    AllQuiet => \A r \in Replicas :
        mode[r] = "managed" => served[r]["webhook"].ca = config.bundle

\* certbootstrap.go:46: the CA is "stored in a shared Secret so every pod signs
\* its server certificate with the same CA".  Create is exclusive, the patch of
\* a rotation is not: two replicas that rotate at once each go on with their
\* own CA, and the caBundle may end up with the one the Secret does not have.
BundleIsSharedCA ==
    AllQuiet /\ config.bundle # 0 => config.bundle = secret.id

\* certbootstrap.go:94: "EnsureCerts is idempotent and safe to call on every pod
\* startup."  A crash between the two renames leaves a key that does not match
\* a certificate that is not due: every start ends in the manager's error.
StartupSafe ==
    [][\A r \in Replicas :
          pc[r] = "done" /\ faults' = faults => mode'[r] # "down"]_vars

\* config/webhook/manifests.yaml:9: "caBundle is intentionally empty - the
\* operator patches it on startup."  It is patched only together with a new
\* certificate: a start that timed out waiting for the configuration leaves the
\* files behind, and the next start finds nothing to do.
BundlePatchedOnStartup ==
    \A r \in Replicas : mode[r] = "managed" => config.bundle # 0

\* certbootstrap.go:74: the loop runs "so certs rotate before expiry without
\* requiring a pod restart".  With leader election only the leader's runs
\* (CertFollower.cfg); and a loop that finds no webhook configuration hangs in
\* patchCABundle, before the metrics certificate (CertHang.cfg).
CertsRotateInPlace ==
    \A r \in Replicas : mode[r] = "managed" =>
        \A s \in Servers : clock <= served[r][s].end
=============================================================================
