------------------------------ MODULE ClaimNames ------------------------------
(***************************************************************************)
(* naming.go, labels.go and the Secret watch of mapfuncs.go: which objects *)
(* belong to which claim.  A name is the sequence of its dash-separated    *)
(* segments, so "a-infra" is <<"a", "infra">>; a claim is its namespace    *)
(* and name.                                                               *)
(***************************************************************************)
EXTENDS Integers, Sequences

ApplicationName(n) == n

CertificateSetName(n, role) == n \o <<role>>

\* Fault: a name that ends in the role already is left as it is.
ClusterNameOnce(n, role) == IF n[Len(n)] = role THEN n ELSE n \o <<role>>

ClusterName(n, role) == n \o <<role>>

CcmCsrcName(n) == n

VaultClaimName(n) == n

VaultSecretClaimName(n) == n

S3BucketClaimName(n) == n

ConfigMapName(configType) == <<"parameters", configType>>

\* The labels of every managed object, and what a template renders for the same keys.
StandardLabels(c) == [claimName |-> c.name, claimNamespace |-> <<c.ns>>]

MergeLabels(rendered, standard) ==
    [l \in DOMAIN rendered \union DOMAIN standard |->
       IF l \in DOMAIN standard THEN standard[l] ELSE rendered[l]]

kubeconfigSuffix == <<"infra", "kubeconfig">>

KubeconfigSecretName(n) == n \o kubeconfigSuffix

HasSuffix(n, suffix) ==
    Len(n) > Len(suffix) /\ SubSeq(n, Len(n) - Len(suffix) + 1, Len(n)) = suffix

TrimSuffix(n, suffix) == SubSeq(n, 1, Len(n) - Len(suffix))

\* The kubeconfig Secret of a claim: the operator looks in the claim's own namespace.
SecretOf(c) == [ns |-> c.ns, name |-> KubeconfigSecretName(c.name)]

\* Fault: only the last segment is cut off, which leaves the name of the infra cluster.
findClaimForSecretShort(s) ==
    IF HasSuffix(s.name, kubeconfigSuffix)
    THEN {[ns |-> s.ns, name |-> TrimSuffix(s.name, <<"kubeconfig">>)]}
    ELSE {}

\* The claims a Secret's event queues; kubeconfigSecretPredicate lets only these Secrets through.
findClaimForSecret(s) ==
    IF HasSuffix(s.name, kubeconfigSuffix)
    THEN {[ns |-> s.ns, name |-> TrimSuffix(s.name, kubeconfigSuffix)]}
    ELSE {}

===============================================================================
