------------------------------ MODULE ClaimTypes ------------------------------
(***************************************************************************)
(* The data of the ClusterClaim operator: the resources one claim manages, *)
(* the objects the API server stores for them, the claim itself and its    *)
(* status, with the pure functions of status.go and the API-server         *)
(* operations (server-side apply, finalizers, deletion) on one object.     *)
(***************************************************************************)
EXTENDS Integers, FiniteSets

CONSTANTS
    ClientEnabled,  \* spec.client.enabled, immutable after admission
    ConfigMaps,     \* remote ConfigMaps the spec asks for where it has a configMapTemplateRef
    KeyedGens,      \* the generations of the claim whose VaultClaim carries spec.transit.keys
    Foreign         \* managed resources that another controller also holds a finalizer on

(***************************************************************************)
(* Managed resources.  A managed resource is named by its role in the      *)
(* pipeline: kind and object name are functions of the role (gvk.go,       *)
(* naming.go).                                                             *)
(***************************************************************************)
Optional == {"VaultClaim", "VaultSecretClaim", "S3BucketClaim"}

ClientOnly == {"CertSetClient", "ClusterClient"}

Managed == {"Application", "CertSetInfra", "ClusterInfra", "CcmCsrc"} \union ClientOnly \union Optional

\* The informer that delivers a resource: one watch per GroupVersionKind.
GVK == [r \in Managed |->
          CASE r \in {"CertSetInfra", "CertSetClient"} -> "CertificateSet"
            [] r \in {"ClusterInfra", "ClusterClient"} -> "Cluster"
            [] OTHER -> r]

RemoteConfig == "RemoteConfig"

\* The optional template references of a spec, named by what they render.
References == Optional \union {RemoteConfig}

MapNames == {"infra", "system", "client"}

ASSUME ConfigAssumption ==
    /\ ClientEnabled \in BOOLEAN
    /\ KeyedGens \subseteq Nat
    /\ ConfigMaps \subseteq MapNames /\ "infra" \in ConfigMaps
    /\ "client" \in ConfigMaps => ClientEnabled
    /\ Foreign \subseteq Managed

\* What the pipeline renders for a spec whose optional template references are refs.
Required(refs) ==
    {"Application", "CertSetInfra", "ClusterInfra", "CcmCsrc"}
      \union (IF ClientEnabled THEN ClientOnly ELSE {})
      \union (refs \intersect Optional)

(***************************************************************************)
(* How far its own controller has brought a resource, as far as a wait     *)
(* step can tell: CertificateSet 1 = condition Ready; Cluster[infra] 1 =   *)
(* infrastructureProvisioned, 2 = controlPlaneInitialized too;             *)
(* Cluster[client] 1 = controlPlaneInitialized; VaultClaim 1 =             *)
(* TransitKeysReady and RolesApplied, 2 = phase Ready; the other two       *)
(* Vault-family claims 1 = phase Ready.                                    *)
(***************************************************************************)
MaxLevel == [r \in Managed |->
               CASE r \in {"ClusterInfra", "VaultClaim"} -> 2
                 [] r \in {"CertSetInfra", "ClusterClient", "VaultSecretClaim", "S3BucketClaim"} -> 1
                 [] OTHER -> 0]

\* The lowest level a resource can fall back to once it has reached it: CAPI
\* initialization flags are one-way and a transit key, once made, stays.
Floor(r, lvl) ==
    CASE r \in {"ClusterInfra", "ClusterClient"} -> lvl
      [] r = "VaultClaim" /\ lvl > 0 -> 1
      [] OTHER -> 0

(***************************************************************************)
(* A managed object on the API server.  guard follows the operator's       *)
(* finalizer: "never" added, "held", or "released" by the operator.  gen   *)
(* is the claim generation the object was last rendered from, cli whether  *)
(* it was rendered with ClientControlPlaneInitialized (CcmCsrc only).      *)
(***************************************************************************)
Guards == {"never", "held", "released"}

Object == [there: BOOLEAN, guard: Guards, del: BOOLEAN, level: 0..2, gen: Nat, cli: BOOLEAN]

Absent == [there |-> FALSE, guard |-> "never", del |-> FALSE, level |-> 0, gen |-> 0, cli |-> FALSE]

\* Server-side apply with ForceOwnership: creates or overwrites, needs no resourceVersion,
\* and leaves finalizers, deletionTimestamp and status alone.
ApplyTo(o, g, c) ==
    IF o.there
    THEN [o EXCEPT !.gen = g, !.cli = c]
    ELSE [Absent EXCEPT !.there = TRUE, !.gen = g, !.cli = c]

\* Delete: an object with a finalizer only gets its deletionTimestamp.
DeleteOf(r, o) ==
    CASE ~o.there -> o
      [] o.there /\ (o.guard = "held" \/ r \in Foreign) -> [o EXCEPT !.del = TRUE]
      [] OTHER -> Absent

\* The Update that drops the operator's finalizer: a terminating object nobody else holds goes away.
ReleaseOf(r, o) ==
    IF o.del /\ r \notin Foreign THEN Absent ELSE [o EXCEPT !.guard = "released"]

\* What the operator can read of an object: its informer's copy.
\* keys says whether a VaultClaim's spec carries transit keys.
View == [there: BOOLEAN, fin: BOOLEAN, del: BOOLEAN, level: 0..2, keys: BOOLEAN]

ViewOf(r, o) == [there |-> o.there, fin |-> o.guard = "held", del |-> o.del, level |-> o.level,
                 keys |-> r = "VaultClaim" /\ o.there /\ o.gen \in KeyedGens]

(***************************************************************************)
(* The claim's status.  A condition is in yes, in no, or absent; reasons,  *)
(* messages and transition times are left out.  mirror is status.clusters, *)
(* status.vault, status.vaultSecret and status.s3Bucket as the level of    *)
(* the mirrored object, -1 for an absent section.                          *)
(***************************************************************************)
Phases == {"", "Provisioning", "WaitingDependency", "Ready", "Failed", "Degraded", "Paused", "Deleting"}

Conditions ==
    {"Ready", "Paused", "ApplicationCreated", "InfraCertificateReady", "InfraProvisioned",
     "InfraCPReady", "CcmCsrcCreated", "RemoteConfigApplied", "ClientCPReady",
     "VaultClaimCreated", "VaultClaimReady", "VaultKmsReady", "VaultSecretClaimCreated",
     "VaultSecretClaimReady", "S3BucketClaimCreated", "S3BucketClaimReady"}

Mirrored == {"ClusterInfra", "ClusterClient"} \union Optional

Status == [phase: Phases, gen: Nat, yes: SUBSET Conditions, no: SUBSET Conditions,
           mirror: [Mirrored -> -1..2]]

NoStatus == [phase |-> "", gen |-> 0, yes |-> {}, no |-> {}, mirror |-> [m \in Mirrored |-> -1]]

\* Fault: a phase the API type does not declare.
setPhaseUndeclared(st, phase, g) ==
    [st EXCEPT !.phase = IF phase = "WaitingDependency" THEN "Waiting" ELSE phase, !.gen = g]

setPhase(st, phase, g) == [st EXCEPT !.phase = phase, !.gen = g]

setTrue(st, c) == [st EXCEPT !.yes = @ \union {c}, !.no = @ \ {c}]

setFalse(st, c) == [st EXCEPT !.yes = @ \ {c}, !.no = @ \union {c}]

clearPausedCondition(st) == [st EXCEPT !.yes = @ \ {"Paused"}, !.no = @ \ {"Paused"}]

setReady(st, g) == setTrue(setPhase(st, "Ready", g), "Ready")

setFailed(st, g) == setFalse(setPhase(st, "Failed", g), "Ready")

setWaiting(st, c, g) == setFalse(setPhase(st, "WaitingDependency", g), c)

(***************************************************************************)
(* status.clusters keeps the last summary of a cluster the prefetch did    *)
(* not find; a Vault-family section disappears with its reference and is   *)
(* name-only (level 0) while its object is not found.                      *)
(***************************************************************************)
mirrorStatuses(st, refs, cobj) ==
    [st EXCEPT !.mirror =
       [m \in Mirrored |->
          IF m \in Optional
          THEN IF m \in refs THEN cobj[m].level ELSE -1
          ELSE IF cobj[m].there THEN cobj[m].level ELSE st.mirror[m]]]

(***************************************************************************)
(* The claim on the API server, in the informer, and in a worker's hands.  *)
(* fg is the foregroundDeletion finalizer of a foreground delete.          *)
(***************************************************************************)
Lives == {"live", "deleting", "gone"}

Claim == [life: Lives, gen: Nat, paused: BOOLEAN, fin: BOOLEAN, fg: BOOLEAN,
          refs: SUBSET References, status: Status]

NoClaim == [life |-> "gone", gen |-> 0, paused |-> FALSE, fin |-> FALSE, fg |-> FALSE,
            refs |-> {}, status |-> NoStatus]

===============================================================================
