---------------------------- MODULE ClusterMirror ----------------------------
(***************************************************************************)
(* What a pass takes out of a CAPI Cluster: the summary it mirrors into    *)
(* status.clusters (status.go) and the fields it hands to the templates    *)
(* (renderer/context.go).  The replica counts stand for all the numbers,   *)
(* and only one of them is kept: the code treats them alike.               *)
(***************************************************************************)
EXTENDS Integers

CONSTANTS
    Width,       \* bits of an int32; the arithmetic is the same for every width
    Versions,    \* versions a control plane object may report
    NoVersion,   \* no version, or no control plane object
    NoCluster    \* the prefetch did not find the cluster

\* The powers of two are spelled out for the provers, which do not evaluate them.
ASSUME MirrorAssumption ==
    /\ Width \in Nat \ {0} /\ NoVersion \notin Versions
    /\ 2 ^ (Width - 1) \in Nat \ {0} /\ 2 ^ Width = 2 * 2 ^ (Width - 1)

Roles == {"infra", "client"}

\* A decoded JSON value: a whole number, a number with a fraction part, or neither.
Value == [type: {"int64", "float64", "other"}, n: Int]

Missing == [type |-> "other", n |-> 0]

\* controlPlaneGVKByKind
controlPlaneKinds == {"KubeadmControlPlane", "AddonClaim"}

\* The status of a Cluster: initialized, a replica count, and what its control plane is.
Blank == [up |-> FALSE, replicas |-> Missing, ref |-> "KubeadmControlPlane"]

Fits(n) == n >= -(2 ^ (Width - 1)) /\ n < 2 ^ (Width - 1)

\* The conversion int32(n) of a wider integer.
int32(n) == ((n + 2 ^ (Width - 1)) % (2 ^ Width)) - 2 ^ (Width - 1)

\* Fault: floats are not numbers.
toInt32NoFloat(v) == IF v.type = "int64" THEN int32(v.n) ELSE 0

\* A float that does not fit has no defined conversion; Kubernetes encodes counts as integers.
toInt32(v) == IF v.type \in {"int64", "float64"} THEN int32(v.n) ELSE 0

\* unstructured.NestedInt64, its error ignored.
NestedInt64(v) == IF v.type = "int64" THEN v.n ELSE 0

fetchControlPlaneVersion(cluster, version) ==
    IF cluster.ref \in controlPlaneKinds THEN version ELSE NoVersion

NoSummary == [count |-> 0, version |-> NoVersion, there |-> FALSE]

extractClusterStatusSummary(cluster, version) ==
    [count |-> toInt32(cluster.replicas),
     version |-> fetchControlPlaneVersion(cluster, version),
     there |-> TRUE]

\* The summary of a cluster that was not found stays as it was.
syncClusterStatuses(old, clusters, versions) ==
    [r \in Roles |-> IF clusters[r] = NoCluster
                     THEN old[r]
                     ELSE extractClusterStatusSummary(clusters[r], versions[r])]

NoFields == [up |-> FALSE, count |-> 0]

populateClusterFields(cluster) == [up |-> cluster.up, count |-> int32(NestedInt64(cluster.replicas))]

BuildContext(clusters) ==
    [r \in Roles |-> IF clusters[r] = NoCluster THEN NoFields ELSE populateClusterFields(clusters[r])]

===============================================================================
