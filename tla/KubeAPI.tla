------------------------------ MODULE KubeAPI ------------------------------
(***************************************************************************)
(* What the orchestrator relies on in the Kubernetes API machinery and in  *)
(* controller-runtime.  Every write of the code under src/ goes through    *)
(* client.Patch(ctx, obj, client.MergeFrom(original)) or its Status()      *)
(* variant: a JSON merge patch with no resource-version precondition.  The *)
(* patch holds the fields in which the modified local object differs from  *)
(* its original, so a field the pass did not change keeps whatever value   *)
(* the server has by now, and a field it did change overwrites that value  *)
(* whoever wrote it.  A list is one field: it is replaced as a whole.      *)
(***************************************************************************)

\* The server's value of one field after a merge patch computed between the
\* local values original and modified.
MergeField(server, original, modified) ==
    IF modified = original THEN server ELSE modified

=============================================================================
