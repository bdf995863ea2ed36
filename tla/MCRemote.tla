------------------------------- MODULE MCRemote -------------------------------
(***************************************************************************)
(* Instances of RemoteAccess for TLC: claims of the same name in two       *)
(* namespaces, the first one's kubeconfig rotating.                        *)
(***************************************************************************)
EXTENDS RemoteAccess

CONSTANTS k1, k2, k3, bad

First == [ns |-> "n1", name |-> <<"a">>]

Second == [ns |-> "n2", name |-> <<"a">>]

MCClaims == {First, Second}

MCKeys == {SecretOf(c) : c \in MCClaims}

MCKubeconfig == {k1, k2, k3, bad}

MCHash == [k \in MCKubeconfig |-> k]

MCContents == [c \in MCClaims |-> IF c = First THEN {k1, k2} ELSE {bad, k3, Empty}]

MCInitial == [c \in MCClaims |-> IF c = First THEN k1 ELSE bad]

MCDeletable == {First}

MCHoldable == {Second}

FairSpec == Spec /\ Fairness

===============================================================================
