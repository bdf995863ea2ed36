-------------------------------- MODULE MCFleet --------------------------------
(***************************************************************************)
(* ClaimFleet with two claims in one namespace, one of them named like the *)
(* other's infra cluster, that share their templates.                      *)
(***************************************************************************)
EXTENDS ClaimFleet

A == [ns |-> "n", name |-> <<"a">>]

B == [ns |-> "n", name |-> <<"a", "infra">>]

MCClaims == {A, B}

MCSystems == {}

MCClients == {A}

MCKinds == [app |-> "Application", cert |-> "CertificateSet", cluster |-> "Cluster",
            ccm |-> "CcmCsrc", vault |-> "VaultClaim"]

MCTemplates == DOMAIN MCKinds

Always == [observe |-> "app", certSetInfra |-> "cert", clusterInfra |-> "cluster", ccmCsr |-> "ccm"]

WithVault == Put(Always, "vaultClaim", "vault")

MCRefs == [c \in MCClaims |->
             IF c \in MCClients
             THEN Put(Put(WithVault, "certSetClient", "cert"), "clusterClient", "cluster")
             ELSE WithVault]

\* B comes to use the cluster template where an Application is expected.
MCEdits == {<<B, "observe", "cluster">>}

MCReports == {[type |-> "int64", n |-> 3], [type |-> "float64", n |-> 3], [type |-> "int64", n |-> 17]}

MCLabels == [claimName |-> <<"other">>, app |-> <<"x">>]

MCProvisioned == {A}

MCBudget(t, e, c, f) == [template |-> t, edit |-> e, cluster |-> c, fault |-> f]

MCBudgets == {MCBudget(2, 0, 0, 0), MCBudget(1, 1, 0, 0), MCBudget(0, 0, 1, 0), MCBudget(0, 0, 0, 1)}

================================================================================
