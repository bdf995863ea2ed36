----------------------------- MODULE ClaimPipeline -----------------------------
(***************************************************************************)
(* The pipeline of pipeline.go and the plan of reconcileDelete as data:    *)
(* what each step applies or waits for, when it is skipped, and the order  *)
(* of the steps.  ClaimReconciler executes them.                           *)
(***************************************************************************)
EXTENDS ClaimTypes

(***************************************************************************)
(* A step ensures a resource (render, server-side apply, finalizer),       *)
(* reapplies it (no finalizer), awaits a level of it, waits behind the KMS *)
(* barrier, or applies the remote ConfigMaps.  cond is the condition the   *)
(* step sets ("" for none) and when says which specs run the step.         *)
(***************************************************************************)
Ops == {"ensure", "reapply", "await", "kms", "remote"}

Step == [op: Ops, res: Managed \union {RemoteConfig}, level: 0..2,
         cond: Conditions \union {""}, when: {"always", "client", "ref"}]

Ensure(r, c, w) == [op |-> "ensure", res |-> r, level |-> 0, cond |-> c, when |-> w]

Await(r, l, c, w) == [op |-> "await", res |-> r, level |-> l, cond |-> c, when |-> w]

stepApplication == Ensure("Application", "ApplicationCreated", "always")

stepEnsureS3BucketClaim == Ensure("S3BucketClaim", "S3BucketClaimCreated", "ref")

stepCertificateSetInfra == Ensure("CertSetInfra", "", "always")

stepWaitCertSetReady == Await("CertSetInfra", 1, "InfraCertificateReady", "always")

stepClusterInfra == Ensure("ClusterInfra", "", "always")

stepWaitInfraProvisioned == Await("ClusterInfra", 1, "InfraProvisioned", "always")

stepCertificateSetClient == Ensure("CertSetClient", "", "client")

\* Fault: waits for the infrastructure only.
stepWaitInfraCPReadyEarly == Await("ClusterInfra", 1, "InfraCPReady", "always")

stepWaitInfraCPReady == Await("ClusterInfra", 2, "InfraCPReady", "always")

stepEnsureVaultClaim == Ensure("VaultClaim", "VaultClaimCreated", "ref")

stepEnsureVaultSecretClaim == Ensure("VaultSecretClaim", "VaultSecretClaimCreated", "ref")

stepCcmCsrc == Ensure("CcmCsrc", "CcmCsrcCreated", "always")

stepRemoteConfigMaps ==
    [op |-> "remote", res |-> RemoteConfig, level |-> 0, cond |-> "RemoteConfigApplied", when |-> "ref"]

stepWaitVaultKmsReady ==
    [op |-> "kms", res |-> "VaultClaim", level |-> 1, cond |-> "VaultKmsReady", when |-> "ref"]

stepClusterClient == Ensure("ClusterClient", "", "client")

\* Fault: the client cluster only has to exist.
stepWaitClientCPReadyEarly == Await("ClusterClient", 0, "ClientCPReady", "client")

stepWaitClientCPReady == Await("ClusterClient", 1, "ClientCPReady", "client")

stepCcmCsrcUpdate ==
    [op |-> "reapply", res |-> "CcmCsrc", level |-> 0, cond |-> "", when |-> "client"]

stepWaitVaultClaim == Await("VaultClaim", 2, "VaultClaimReady", "ref")

stepWaitVaultSecretClaim == Await("VaultSecretClaim", 1, "VaultSecretClaimReady", "ref")

stepWaitS3BucketClaim == Await("S3BucketClaim", 1, "S3BucketClaimReady", "ref")

\* Fault: the KMS barrier comes after the client cluster.
pipelineStepsKmsLate ==
    << stepApplication, stepEnsureS3BucketClaim, stepCertificateSetInfra, stepWaitCertSetReady,
       stepClusterInfra, stepWaitInfraProvisioned, stepCertificateSetClient, stepWaitInfraCPReady,
       stepEnsureVaultClaim, stepEnsureVaultSecretClaim, stepCcmCsrc, stepRemoteConfigMaps,
       stepClusterClient, stepWaitVaultKmsReady, stepWaitClientCPReady, stepCcmCsrcUpdate,
       stepWaitVaultClaim, stepWaitVaultSecretClaim, stepWaitS3BucketClaim >>

pipelineSteps ==
    << stepApplication, stepEnsureS3BucketClaim, stepCertificateSetInfra, stepWaitCertSetReady,
       stepClusterInfra, stepWaitInfraProvisioned, stepCertificateSetClient, stepWaitInfraCPReady,
       stepEnsureVaultClaim, stepEnsureVaultSecretClaim, stepCcmCsrc, stepRemoteConfigMaps,
       stepWaitVaultKmsReady, stepClusterClient, stepWaitClientCPReady, stepCcmCsrcUpdate,
       stepWaitVaultClaim, stepWaitVaultSecretClaim, stepWaitS3BucketClaim >>

LastStep == 19

\* A skipped step returns Proceed before it does anything.
Skipped(s, refs) ==
    \/ s.when = "client" /\ ~ClientEnabled
    \/ s.when = "ref" /\ s.res \notin refs

\* Step j is the next one after i that does something; LastStep + 1 ends the loop.
NextStep(i, j, refs) ==
    /\ j > i
    /\ j <= LastStep => ~Skipped(pipelineSteps[j], refs)
    /\ \A k \in (i + 1)..(j - 1) : Skipped(pipelineSteps[k], refs)

\* The remote ConfigMaps are applied one after the other in this order.
MapRank(m) == CASE m = "infra" -> 1 [] m = "system" -> 2 [] m = "client" -> 3

\* The ConfigMaps still to apply after m, and the first of a set of them.
MapsAfter(m) == {n \in ConfigMaps : MapRank(n) > MapRank(m)}

FirstMap(m, maps) == m \in maps /\ \A n \in maps : MapRank(m) <= MapRank(n)

(***************************************************************************)
(* Deletion: every resource in the order reconcileDelete visits it, and    *)
(* the ones it waits for (deleteAndWait) before it goes on.                *)
(***************************************************************************)
Rank(r) ==
    CASE r = "VaultClaim" -> 1
      [] r = "VaultSecretClaim" -> 2
      [] r = "S3BucketClaim" -> 3
      [] r = RemoteConfig -> 4
      [] r = "CcmCsrc" -> 5
      [] r = "ClusterClient" -> 6
      [] r = "ClusterInfra" -> 7
      [] r = "CertSetClient" -> 8
      [] r = "CertSetInfra" -> 9
      [] r = "Application" -> 10

Awaited == Optional \union {"ClusterClient", "ClusterInfra"}

\* deleteRemoteConfigMaps returns at once where the spec has no configMapTemplateRef.
deletePlan(refs) == Required(refs) \union (refs \intersect {RemoteConfig})

================================================================================
