------------------------------ MODULE ClaimProofs ------------------------------
(***************************************************************************)
(* Type correctness of ClaimSystem, for every claim configuration and every*)
(* bound on the environment.                                               *)
(***************************************************************************)
EXTENDS ClaimSystem, TLAPS

\* Time limits for the provers, in seconds.
USE SMTT(60), ZenonT(60)

-------------------------------------------------------------------------------
(***************************************************************************)
(* Types of the operators the model is built from.                         *)
(***************************************************************************)
\* The status setters of status.go return statuses.
LEMMA StatusTypes ==
    ASSUME NEW st \in Status, NEW g \in Nat
    PROVE  /\ \A p \in Phases : setPhase(st, p, g) \in Status
           /\ \A c \in Conditions : /\ setTrue(st, c) \in Status
                                    /\ setFalse(st, c) \in Status
                                    /\ setWaiting(st, c, g) \in Status
           /\ clearPausedCondition(st) \in Status
           /\ setReady(st, g) \in Status
           /\ setFailed(st, g) \in Status
  <1>1. ASSUME NEW s \in Status, NEW p \in Phases PROVE setPhase(s, p, g) \in Status
    BY Zenon, <1>1 DEF setPhase, Status
  <1>2. ASSUME NEW s \in Status, NEW c \in Conditions
        PROVE  setTrue(s, c) \in Status /\ setFalse(s, c) \in Status
    BY Zenon, <1>2 DEF setTrue, setFalse, Status
  <1>3. clearPausedCondition(st) \in Status
    BY Zenon DEF clearPausedCondition, Status
  <1>4. {"Ready", "Failed", "WaitingDependency"} \subseteq Phases /\ "Ready" \in Conditions
    BY DEF Phases, Conditions
  <1> QED
    BY ZenonT(60), <1>1, <1>2, <1>3, <1>4 DEF setReady, setFailed, setWaiting

\* The mirrors of status.go return a status.
LEMMA MirrorType ==
    ASSUME NEW st \in Status, NEW refs, NEW co \in [Managed -> View]
    PROVE  mirrorStatuses(st, refs, co) \in Status
  <1>1. Mirrored \subseteq Managed
    BY DEF Mirrored, Managed, Optional, ClientOnly
  <1>2. \A m \in Mirrored : co[m].level \in 0..2 /\ st.mirror[m] \in -1..2
    BY <1>1 DEF View, Status
  <1>3. [m \in Mirrored |->
           IF m \in Optional
           THEN IF m \in refs THEN co[m].level ELSE -1
           ELSE IF co[m].there THEN co[m].level ELSE st.mirror[m]] \in [Mirrored -> -1..2]
    BY <1>2
  <1> QED
    BY <1>3 DEF mirrorStatuses, Status

\* The API server's operations on one object return objects.
LEMMA ObjectTypes ==
    ASSUME NEW o \in Object, NEW r \in Managed
    PROVE  /\ Absent \in Object
           /\ \A g \in Nat, c \in BOOLEAN : ApplyTo(o, g, c) \in Object
           /\ DeleteOf(r, o) \in Object
           /\ ReleaseOf(r, o) \in Object
           /\ [o EXCEPT !.guard = "held"] \in Object
           /\ ViewOf(r, o) \in View
  <1>1. Absent \in Object
    BY DEF Object, Absent, Guards
  <1>2. ASSUME NEW g \in Nat, NEW c \in BOOLEAN PROVE ApplyTo(o, g, c) \in Object
    <2>1. [o EXCEPT !.gen = g, !.cli = c] \in Object
      BY Zenon DEF Object
    <2>2. [Absent EXCEPT !.there = TRUE, !.gen = g, !.cli = c] \in Object
      BY Zenon, <1>1 DEF Object
    <2> QED
      BY <2>1, <2>2 DEF ApplyTo
  <1>3. /\ [o EXCEPT !.del = TRUE] \in Object
        /\ [o EXCEPT !.guard = "held"] \in Object
        /\ [o EXCEPT !.guard = "released"] \in Object
    BY Zenon DEF Object, Guards
  <1>4. DeleteOf(r, o) \in Object /\ ReleaseOf(r, o) \in Object
    BY <1>1, <1>3 DEF DeleteOf, ReleaseOf
  <1>5. ViewOf(r, o) \in View
    BY DEF Object, ViewOf, View
  <1> QED
    BY <1>1, <1>2, <1>3, <1>4, <1>5

\* Every step of the pipeline is a step, and what it ensures is required by the spec that runs it.
LEMMA StepTypes ==
    ASSUME NEW i \in 1..LastStep
    PROVE  /\ pipelineSteps[i].op \in Ops
           /\ pipelineSteps[i].cond \in Conditions \union {""}
           /\ pipelineSteps[i].op # "remote" => pipelineSteps[i].res \in Managed
           /\ pipelineSteps[i].op \in {"await", "kms", "remote"} => pipelineSteps[i].cond \in Conditions
           /\ \A refs \in SUBSET References :
                pipelineSteps[i].op = "ensure" /\ ~Skipped(pipelineSteps[i], refs)
                  => pipelineSteps[i].res \in Required(refs)
  <1> DEFINE Good(s) ==
         /\ s.op \in Ops
         /\ s.cond \in Conditions \union {""}
         /\ s.op # "remote" => s.res \in Managed
         /\ s.op \in {"await", "kms", "remote"} => s.cond \in Conditions
         /\ \A refs \in SUBSET References :
              s.op = "ensure" /\ ~Skipped(s, refs) => s.res \in Required(refs)
  <1>1. Good(stepApplication)
    BY DEF stepApplication, Ensure, Await, Skipped, Ops, Conditions, Managed, Optional, ClientOnly, Required
  <1>2. Good(stepEnsureS3BucketClaim)
    BY DEF stepEnsureS3BucketClaim, Ensure, Await, Skipped, Ops, Conditions, Managed, Optional, ClientOnly, Required
  <1>3. Good(stepCertificateSetInfra)
    BY DEF stepCertificateSetInfra, Ensure, Await, Skipped, Ops, Conditions, Managed, Optional, ClientOnly, Required
  <1>4. Good(stepWaitCertSetReady)
    BY DEF stepWaitCertSetReady, Ensure, Await, Skipped, Ops, Conditions, Managed, Optional, ClientOnly, Required
  <1>5. Good(stepClusterInfra)
    BY DEF stepClusterInfra, Ensure, Await, Skipped, Ops, Conditions, Managed, Optional, ClientOnly, Required
  <1>6. Good(stepWaitInfraProvisioned)
    BY DEF stepWaitInfraProvisioned, Ensure, Await, Skipped, Ops, Conditions, Managed, Optional, ClientOnly, Required
  <1>7. Good(stepCertificateSetClient)
    BY DEF stepCertificateSetClient, Ensure, Await, Skipped, Ops, Conditions, Managed, Optional, ClientOnly, Required
  <1>8. Good(stepWaitInfraCPReady)
    BY DEF stepWaitInfraCPReady, Ensure, Await, Skipped, Ops, Conditions, Managed, Optional, ClientOnly, Required
  <1>9. Good(stepEnsureVaultClaim)
    BY DEF stepEnsureVaultClaim, Ensure, Await, Skipped, Ops, Conditions, Managed, Optional, ClientOnly, Required
  <1>10. Good(stepEnsureVaultSecretClaim)
    BY DEF stepEnsureVaultSecretClaim, Ensure, Await, Skipped, Ops, Conditions, Managed, Optional, ClientOnly, Required
  <1>11. Good(stepCcmCsrc)
    BY DEF stepCcmCsrc, Ensure, Await, Skipped, Ops, Conditions, Managed, Optional, ClientOnly, Required
  <1>12. Good(stepRemoteConfigMaps)
    BY DEF stepRemoteConfigMaps, Ensure, Await, Skipped, Ops, Conditions, Managed, Optional, ClientOnly, Required
  <1>13. Good(stepWaitVaultKmsReady)
    BY DEF stepWaitVaultKmsReady, Ensure, Await, Skipped, Ops, Conditions, Managed, Optional, ClientOnly, Required
  <1>14. Good(stepClusterClient)
    BY DEF stepClusterClient, Ensure, Await, Skipped, Ops, Conditions, Managed, Optional, ClientOnly, Required
  <1>15. Good(stepWaitClientCPReady)
    BY DEF stepWaitClientCPReady, Ensure, Await, Skipped, Ops, Conditions, Managed, Optional, ClientOnly, Required
  <1>16. Good(stepCcmCsrcUpdate)
    BY DEF stepCcmCsrcUpdate, Ensure, Await, Skipped, Ops, Conditions, Managed, Optional, ClientOnly, Required
  <1>17. Good(stepWaitVaultClaim)
    BY DEF stepWaitVaultClaim, Ensure, Await, Skipped, Ops, Conditions, Managed, Optional, ClientOnly, Required
  <1>18. Good(stepWaitVaultSecretClaim)
    BY DEF stepWaitVaultSecretClaim, Ensure, Await, Skipped, Ops, Conditions, Managed, Optional, ClientOnly, Required
  <1>19. Good(stepWaitS3BucketClaim)
    BY DEF stepWaitS3BucketClaim, Ensure, Await, Skipped, Ops, Conditions, Managed, Optional, ClientOnly, Required
  <1>20. /\ pipelineSteps[1] = stepApplication
         /\ pipelineSteps[2] = stepEnsureS3BucketClaim
         /\ pipelineSteps[3] = stepCertificateSetInfra
         /\ pipelineSteps[4] = stepWaitCertSetReady
         /\ pipelineSteps[5] = stepClusterInfra
         /\ pipelineSteps[6] = stepWaitInfraProvisioned
         /\ pipelineSteps[7] = stepCertificateSetClient
         /\ pipelineSteps[8] = stepWaitInfraCPReady
         /\ pipelineSteps[9] = stepEnsureVaultClaim
         /\ pipelineSteps[10] = stepEnsureVaultSecretClaim
         /\ pipelineSteps[11] = stepCcmCsrc
         /\ pipelineSteps[12] = stepRemoteConfigMaps
         /\ pipelineSteps[13] = stepWaitVaultKmsReady
         /\ pipelineSteps[14] = stepClusterClient
         /\ pipelineSteps[15] = stepWaitClientCPReady
         /\ pipelineSteps[16] = stepCcmCsrcUpdate
         /\ pipelineSteps[17] = stepWaitVaultClaim
         /\ pipelineSteps[18] = stepWaitVaultSecretClaim
         /\ pipelineSteps[19] = stepWaitS3BucketClaim
    BY DEF pipelineSteps
  <1>21. i \in 1..19
    BY DEF LastStep
  <1>22. Good(pipelineSteps[i])
    <2> HIDE DEF Good
    <2> QED
      BY <1>21, <1>20, <1>1, <1>2, <1>3, <1>4, <1>5, <1>6, <1>7, <1>8, <1>9, <1>10, <1>11, <1>12, <1>13, <1>14, <1>15, <1>16, <1>17, <1>18, <1>19
  <1> QED
    BY Zenon, <1>22

-------------------------------------------------------------------------------
(***************************************************************************)
(* Type correctness.  TypeOK is taken apart into the groups of variables   *)
(* the actions leave alone together.                                       *)
(***************************************************************************)
ServerOK == claim \in Claim /\ claimDirty \in BOOLEAN

ObjectsOK == obj \in [Managed -> Object] /\ dirty \in [Managed -> BOOLEAN]

CachesOK == cclaim \in Claim /\ cobj \in [Managed -> View]

ExternalOK ==
    /\ claimEvent \in BOOLEAN /\ secret \in BOOLEAN
    /\ obstacle \in [Managed \union {RemoteConfig} -> {"none", "template", "rejected"}]
    /\ pauseGen \in Nat /\ budget \in [Kinds -> Nat]

WorkerOK ==
    /\ my \in Claim /\ mine \in Status /\ fresh \in BOOLEAN /\ cli \in BOOLEAN
    /\ mode \in {"idle", "pipeline", "delete"}
    /\ step \in 0..(LastStep + 1)
    /\ sub \in {"", "apply", "finalize", "finalizer", "delete"} \union MapNames
    /\ todo \subseteq Managed \union {RemoteConfig}

\* The step indexes executePipeline uses.
LEMMA StepIndex == LastStep \in Nat /\ 0 \in 0..(LastStep + 1) /\ 1..(LastStep + 1) \subseteq 0..(LastStep + 1)
  BY DEF LastStep

\* The constants of the model have their types.
LEMMA ConstantTypes ==
    /\ NoStatus \in Status
    /\ NoClaim \in Claim
    /\ {"Provisioning", "Paused", "Deleting"} \subseteq Phases
    /\ {"Ready", "Paused"} \subseteq Conditions
  <1>1. NoStatus \in Status
    BY DEF NoStatus, Status, Phases
  <1>2. NoClaim \in Claim
    BY <1>1 DEF NoClaim, Claim, Lives
  <1> QED
    BY <1>1, <1>2 DEF Phases, Conditions

\* A pass that ends leaves a well-typed idle worker.
LEMMA GoIdleType == GoIdle => WorkerOK'
  <1> SUFFICES ASSUME GoIdle PROVE WorkerOK'
    OBVIOUS
  <1>1. my' \in Claim /\ mine' \in Status
    BY Zenon, ConstantTypes DEF GoIdle
  <1>2. fresh' \in BOOLEAN /\ cli' \in BOOLEAN
    BY Zenon DEF GoIdle
  <1>3. /\ mode' \in {"idle", "pipeline", "delete"}
        /\ sub' \in {"", "apply", "finalize", "finalizer", "delete"} \union MapNames
        /\ todo' \subseteq Managed \union {RemoteConfig}
    BY Zenon DEF GoIdle
  <1>4. step' \in 0..(LastStep + 1)
    <2>1. step' = 0
      BY Zenon DEF GoIdle
    <2> QED
      BY <2>1, StepIndex
  <1> QED
    BY Zenon, <1>1, <1>2, <1>3, <1>4 DEF WorkerOK

\* A status write keeps the claim well typed.
LEMMA UpdateStatusType ==
    ASSUME TypeOK, NEW was, NEW st \in Status, NEW current \in BOOLEAN, NEW f \in Nat, NEW ok \in BOOLEAN,
           updateStatusIfChanged(was, st, current, f, ok)
    PROVE  claim' \in Claim /\ claimDirty' \in BOOLEAN /\ faults' \in Nat
  <1>1. claim \in Claim /\ claimDirty \in BOOLEAN
    BY Zenon DEF TypeOK
  <1>2. [claim EXCEPT !.status = st] \in Claim
    BY <1>1 DEF Claim
  <1>3. claim' = claim \/ claim' = [claim EXCEPT !.status = st]
    BY DEF updateStatusIfChanged, StoreClaim, server
  <1>4. claimDirty' = claimDirty \/ claimDirty' = TRUE
    BY DEF updateStatusIfChanged, StoreClaim, server
  <1>5. faults' = f \/ (f > 0 /\ faults' = f - 1)
    BY DEF updateStatusIfChanged
  <1>6. faults' \in Nat
    BY <1>5
  <1> QED
    BY Zenon, <1>1, <1>2, <1>3, <1>4, <1>6

\* A write to one object keeps the objects well typed.
LEMMA StoreType ==
    ASSUME TypeOK, NEW r \in Managed, NEW o \in Object, Store(r, o)
    PROVE  obj' \in [Managed -> Object] /\ dirty' \in [Managed -> BOOLEAN]
  <1>1. obj \in [Managed -> Object] /\ dirty \in [Managed -> BOOLEAN]
    BY Zenon DEF TypeOK
  <1>2. obj' \in [Managed -> Object]
    BY <1>1 DEF Store
  <1>3. PICK b \in BOOLEAN : dirty' = [dirty EXCEPT ![r] = b]
    BY Zenon DEF Store
  <1>4. dirty' \in [Managed -> BOOLEAN]
    BY <1>1, <1>3
  <1> QED
    BY <1>2, <1>4

\* Every exit of executePipeline keeps claim, worker, timer and faults well typed.
LEMMA EndPassType ==
    ASSUME TypeOK, NEW st \in Status, NEW f \in Nat, NEW requeue \in BOOLEAN, EndPass(st, f, requeue)
    PROVE  /\ claim' \in Claim /\ claimDirty' \in BOOLEAN /\ faults' \in Nat
           /\ WorkerOK' /\ timer' \in BOOLEAN /\ lost' \in BOOLEAN
  <1>1. PICK ok \in BOOLEAN : updateStatusIfChanged(my.status, st, fresh, f, ok)
    BY Zenon DEF EndPass
  <1>2. fresh \in BOOLEAN
    BY Zenon DEF TypeOK
  <1>3. claim' \in Claim /\ claimDirty' \in BOOLEAN /\ faults' \in Nat
    BY <1>1, <1>2, UpdateStatusType
  <1>4. timer' \in BOOLEAN /\ lost' \in BOOLEAN
    BY Zenon DEF EndPass, TypeOK
  <1> QED
    BY <1>3, <1>4, GoIdleType DEF EndPass

\* A step that proceeds keeps the worker well typed.
LEMMA ProceedType ==
    ASSUME TypeOK, NEW c \in Conditions \union {""}, Proceed(c), cli' \in BOOLEAN
    PROVE  WorkerOK' /\ timer' \in BOOLEAN /\ lost' \in BOOLEAN
  <1>1. mine' \in Status
    <2>1. mine \in Status /\ (c # "" => c \in Conditions)
      BY Zenon DEF TypeOK
    <2>2. c # "" => setTrue(mine, c) \in Status
      BY Zenon, <2>1, StatusTypes, 0 \in Nat
    <2> QED
      BY Zenon, <2>1, <2>2 DEF Proceed
  <1>2. step' \in 0..(LastStep + 1)
    <2>1. PICK j \in 1..(LastStep + 1) : step' = j
      BY Zenon DEF Proceed
    <2> QED
      BY <2>1, StepIndex, Zenon
  <1>3. /\ my' = my /\ fresh' = fresh /\ mode' = mode /\ todo' = todo
        /\ lost' = lost /\ timer' = timer /\ sub' = "apply"
    BY Zenon DEF Proceed
  <1>4. /\ my \in Claim /\ fresh \in BOOLEAN /\ mode \in {"idle", "pipeline", "delete"}
        /\ todo \subseteq Managed \union {RemoteConfig} /\ lost \in BOOLEAN /\ timer \in BOOLEAN
    BY Zenon DEF TypeOK
  <1> QED
    BY Zenon, <1>1, <1>2, <1>3, <1>4 DEF WorkerOK

\* TypeOK is the conjunction of its groups, before and after a step.
LEMMA Groups ==
    /\ TypeOK <=> /\ ServerOK /\ ObjectsOK /\ CachesOK /\ WorkerOK /\ ExternalOK
                  /\ queued \in BOOLEAN /\ timer \in BOOLEAN /\ lost \in BOOLEAN
                  /\ remote \in [MapNames -> Nat] /\ faults \in Nat
    /\ TypeOK' <=> /\ ServerOK' /\ ObjectsOK' /\ CachesOK' /\ WorkerOK' /\ ExternalOK'
                   /\ queued' \in BOOLEAN /\ timer' \in BOOLEAN /\ lost' \in BOOLEAN
                   /\ remote' \in [MapNames -> Nat] /\ faults' \in Nat
  BY Zenon DEF TypeOK, ServerOK, ObjectsOK, CachesOK, WorkerOK, ExternalOK

\* A group that a step leaves alone keeps its types.
LEMMA Frames ==
    ASSUME TypeOK
    PROVE  /\ UNCHANGED server => ServerOK'
           /\ UNCHANGED objects => ObjectsOK'
           /\ UNCHANGED caches => CachesOK'
           /\ UNCHANGED worker => WorkerOK'
           /\ UNCHANGED external => ExternalOK'
  <1>1. UNCHANGED server => ServerOK'
    BY Groups DEF ServerOK, server
  <1>2. UNCHANGED objects => ObjectsOK'
    BY Groups DEF ObjectsOK, objects
  <1>3. UNCHANGED caches => CachesOK'
    BY Groups DEF CachesOK, caches
  <1>4. UNCHANGED worker => WorkerOK'
    BY Zenon, Groups DEF WorkerOK, worker
  <1>5. UNCHANGED external => ExternalOK'
    BY Groups DEF ExternalOK, external
  <1> QED
    BY <1>1, <1>2, <1>3, <1>4, <1>5

\* Entering executePipeline gives a well-typed worker.
LEMMA BeginPipelineType ==
    ASSUME TypeOK, NEW c \in Claim, fresh' \in BOOLEAN, BeginPipeline(c)
    PROVE  WorkerOK' /\ lost' \in BOOLEAN
  <1> DEFINE started == clearPausedCondition(setPhase(c.status, "Provisioning", c.gen))
  <1>1. started \in Status
    <2>1. c.status \in Status /\ c.gen \in Nat
      BY DEF Claim
    <2>2. setPhase(c.status, "Provisioning", c.gen) \in Status
      BY Zenon, <2>1, StatusTypes, ConstantTypes
    <2> QED
      BY <2>2, StatusTypes, 0 \in Nat
  <1>2. mine' \in Status
    <2>1. cobj \in [Managed -> View]
      BY Zenon DEF TypeOK
    <2>2. mine' = mirrorStatuses(started, c.refs, cobj)
      BY DEF BeginPipeline
    <2> HIDE DEF started
    <2> QED
      BY <1>1, <2>1, <2>2, MirrorType
  <1>3. step' \in 0..(LastStep + 1)
    <2>1. PICK j \in 1..(LastStep + 1) : step' = j
      BY DEF BeginPipeline
    <2> QED
      BY <2>1, StepIndex, Zenon
  <1>4. mode' = "pipeline" /\ my' = c /\ sub' = "apply" /\ todo' = {}
    BY DEF BeginPipeline
  <1>5. cli' \in BOOLEAN /\ lost' \in BOOLEAN
    BY Zenon, ConfigAssumption DEF BeginPipeline
  <1> QED
    BY <1>2, <1>3, <1>4, <1>5 DEF WorkerOK

\* Reconcile's dispatch keeps the types.
LEMMA ReconcileType ==
    ASSUME TypeOK, ReconcileNotFound \/ reconcilePaused \/ ReconcileStart \/ ensureFinalizerFails \/ reconcileDelete
    PROVE  TypeOK'
  <1>0. /\ cclaim \in Claim /\ cclaim.status \in Status /\ cclaim.gen \in Nat /\ cclaim.refs \subseteq References
        /\ claim \in Claim /\ claimDirty \in BOOLEAN /\ faults \in Nat
    BY Zenon DEF TypeOK, Claim
  <1>1. CASE ReconcileNotFound
    BY Zenon, <1>1, Groups, Frames DEF ReconcileNotFound, Take
  <1>2. CASE reconcilePaused
    <2> DEFINE st == setTrue(setPhase(cclaim.status, "Paused", cclaim.gen), "Paused")
    <2>1. st \in Status
      <3>1. setPhase(cclaim.status, "Paused", cclaim.gen) \in Status
        BY Zenon, <1>0, StatusTypes, ConstantTypes
      <3> QED
        BY <3>1, StatusTypes, ConstantTypes, 0 \in Nat
    <2>2. PICK ok \in BOOLEAN : /\ updateStatusIfChanged(cclaim.status, st, ~claimDirty, faults, ok)
                               /\ timer' = (timer \/ ~ok)
      BY <1>2 DEF reconcilePaused
    <2> HIDE DEF st
    <2>3. ServerOK' /\ faults' \in Nat
      BY Zenon, <1>0, <2>1, <2>2, UpdateStatusType DEF ServerOK
    <2>4. timer' \in BOOLEAN
      BY <2>2
    <2> QED
      BY Zenon, <1>2, <2>3, <2>4, Groups, Frames DEF reconcilePaused, Take
  <1>3. CASE ReconcileStart
    <2>1. [cclaim EXCEPT !.fin = TRUE] \in Claim /\ [claim EXCEPT !.fin = TRUE] \in Claim
      BY Zenon, <1>0 DEF Claim
    <2>2. fresh' \in BOOLEAN /\ ServerOK'
      BY Zenon, <1>0, <1>3, <2>1 DEF ReconcileStart, ensureFinalizer, StoreClaim, ServerOK, server
    <2>3. WorkerOK' /\ lost' \in BOOLEAN
      BY <1>3, <2>1, <2>2, BeginPipelineType DEF ReconcileStart
    <2> QED
      BY Zenon, <1>3, <2>2, <2>3, Groups, Frames DEF ReconcileStart, Take
  <1>4. CASE ensureFinalizerFails
    <2>1. WorkerOK' /\ timer' \in BOOLEAN /\ lost' = lost
      BY <1>4, GoIdleType DEF ensureFinalizerFails, ReturnError
    <2>2. faults' \in Nat
      BY <1>0, <1>4 DEF ensureFinalizerFails, Fault
    <2> QED
      BY Zenon, <1>4, <2>1, <2>2, Groups, Frames DEF ensureFinalizerFails, Take
  <1>5. CASE reconcileDelete
    <2> DEFINE st == setPhase(cclaim.status, "Deleting", cclaim.gen)
    <2>1. st \in Status
      BY <1>0, StatusTypes, ConstantTypes
    <2>2. [cclaim EXCEPT !.status = st] \in Claim
      BY <1>0, <2>1 DEF Claim
    <2>3. PICK ok \in BOOLEAN : updateStatusIfChanged(cclaim.status, st, ~claimDirty, faults, ok)
      BY Zenon, <1>5 DEF reconcileDelete
    <2>4. ServerOK' /\ faults' \in Nat
      BY Zenon, <1>0, <2>1, <2>3, UpdateStatusType DEF ServerOK
    <2>5. WorkerOK' /\ lost' \in BOOLEAN /\ timer' \in BOOLEAN
      <3>1. CASE ReturnError
        BY <3>1, GoIdleType, Groups DEF ReturnError
      <3>2. CASE /\ mode' = "delete" /\ my' = [cclaim EXCEPT !.status = st]
                 /\ fresh' = ~claimDirty
                 /\ todo' = deletePlan(cclaim.refs) /\ sub' = "finalizer"
                 /\ lost' = FALSE
                 /\ UNCHANGED <<mine, step, cli, timer>>
        <4>1. todo' \subseteq Managed \union {RemoteConfig}
          BY <1>0, <3>2 DEF deletePlan, Required, Managed, Optional, ClientOnly
        <4>2. my' \in Claim /\ mode' = "delete" /\ sub' = "finalizer" /\ mine' = mine /\ step' = step
          BY <2>2, <3>2
        <4>3. fresh' \in BOOLEAN /\ cli' = cli /\ lost' \in BOOLEAN /\ timer' = timer
          BY Zenon, <3>2
        <4> QED
          BY Zenon, <4>1, <4>2, <4>3, Groups DEF WorkerOK
      <3> QED
        BY Zenon, <1>5, <3>1, <3>2 DEF reconcileDelete
    <2> QED
      BY Zenon, <1>5, <2>4, <2>5, Groups, Frames DEF reconcileDelete, Take
  <1> QED
    BY <1>1, <1>2, <1>3, <1>4, <1>5

(***************************************************************************)
(* While a pass runs the pipeline, its index is on a step that is not      *)
(* skipped for the worker's copy of the spec, or past the last one.        *)
(***************************************************************************)
StepOK ==
    mode = "pipeline" =>
      step >= 1 /\ (step <= LastStep => ~Skipped(pipelineSteps[step], my.refs))

\* What the current step of a pass is.
LEMMA CurrentTypes ==
    ASSUME TypeOK, StepOK, mode = "pipeline", step <= LastStep
    PROVE  /\ Current.op \in Ops
           /\ Current.cond \in Conditions \union {""}
           /\ Current.op # "remote" => Current.res \in Managed
           /\ Current.op \in {"await", "kms", "remote"} => Current.cond \in Conditions
           /\ Current.op = "ensure" => Current.res \in Required(my.refs)
  <1>1. step \in 1..LastStep
    <2>1. step \in 0..(LastStep + 1)
      BY Zenon DEF TypeOK
    <2>2. step >= 1
      BY DEF StepOK
    <2> QED
      BY <2>1, <2>2, StepIndex
  <1>2. my.refs \in SUBSET References
    BY Zenon DEF TypeOK, Claim
  <1>3. ~Skipped(Current, my.refs)
    BY DEF StepOK, Current
  <1> QED
    BY Zenon, <1>1, <1>2, <1>3, StepTypes DEF Current

\* Proceed moves the index to such a step.
LEMMA ProceedStep == ASSUME NEW c, TypeOK, StepOK, Proceed(c) PROVE StepOK'
  <1>1. PICK j \in 1..(LastStep + 1) : NextStep(step, j, my.refs) /\ step' = j
    BY Zenon DEF Proceed
  <1>2. my' = my
    BY Zenon DEF Proceed
  <1>3. j >= 1
    BY StepIndex
  <1>4. j <= LastStep => ~Skipped(pipelineSteps[j], my.refs)
    BY <1>1 DEF NextStep
  <1> QED
    BY <1>1, <1>2, <1>3, <1>4 DEF StepOK

\* executePipeline starts on such a step.
LEMMA BeginStep == ASSUME NEW c, BeginPipeline(c) PROVE StepOK'
  <1>1. PICK j \in 1..(LastStep + 1) : NextStep(0, j, c.refs) /\ step' = j
    BY DEF BeginPipeline
  <1>2. my' = c
    BY DEF BeginPipeline
  <1>3. j >= 1
    BY StepIndex
  <1>4. j <= LastStep => ~Skipped(pipelineSteps[j], c.refs)
    BY <1>1 DEF NextStep
  <1> QED
    BY <1>1, <1>2, <1>3, <1>4 DEF StepOK

\* A pass that has ended is on no step.
LEMMA IdleStep == GoIdle => StepOK'
  BY Zenon DEF GoIdle, StepOK

\* What the worker holds while it runs a pass.
LEMMA WorkerFacts ==
    ASSUME TypeOK
    PROVE  /\ mine \in Status /\ faults \in Nat /\ (faults > 0 => faults - 1 \in Nat)
           /\ my.gen \in Nat /\ obj \in [Managed -> Object]
  <1>1. mine \in Status /\ faults \in Nat /\ obj \in [Managed -> Object] /\ my \in Claim
    BY Zenon DEF TypeOK
  <1>2. faults > 0 => faults - 1 \in Nat
    BY <1>1
  <1>3. my.gen \in Nat
    BY <1>1 DEF Claim
  <1> QED
    BY <1>1, <1>2, <1>3

\* The three error and wait exits of a pass keep the types.
LEMMA ExitType ==
    ASSUME TypeOK, NEW st \in Status, NEW f \in Nat,
           \/ TerminalError(st, f) \/ TransientError(st, f)
           \/ \E c \in Conditions : Wait(c)
    PROVE  ServerOK' /\ faults' \in Nat /\ WorkerOK' /\ timer' \in BOOLEAN /\ lost' \in BOOLEAN
  <1>0. mine \in Status /\ my.gen \in Nat /\ faults \in Nat
    BY Zenon DEF TypeOK, Claim
  <1>1. CASE TerminalError(st, f)
    <2>1. setFailed(st, my.gen) \in Status
      BY Zenon, <1>0, StatusTypes
    <2> QED
      BY Zenon, <1>1, <2>1, EndPassType DEF TerminalError, ServerOK
  <1>2. CASE TransientError(st, f)
    <2>1. setFalse(st, "Ready") \in Status
      BY Zenon, StatusTypes, ConstantTypes, 0 \in Nat
    <2> QED
      BY Zenon, <1>2, <2>1, EndPassType DEF TransientError, ServerOK
  <1>3. ASSUME NEW c \in Conditions, Wait(c)
        PROVE  ServerOK' /\ faults' \in Nat /\ WorkerOK' /\ timer' \in BOOLEAN /\ lost' \in BOOLEAN
    <2>1. setWaiting(mine, c, my.gen) \in Status
      BY Zenon, <1>0, StatusTypes
    <2> QED
      BY Zenon, <1>0, <1>3, <2>1, EndPassType DEF Wait, ServerOK
  <1> QED
    BY <1>1, <1>2, <1>3

\* The steps that write managed resources keep the types.
LEMMA EnsureType ==
    ASSUME TypeOK, StepOK,
           \/ ensureResource \/ ensureResourceFails
           \/ ensureResourceFinalizer \/ ensureResourceFinalizerFails
    PROVE  TypeOK'
  <1>0. /\ mine \in Status /\ faults \in Nat /\ (faults > 0 => faults - 1 \in Nat)
        /\ my.gen \in Nat /\ obj \in [Managed -> Object]
    BY WorkerFacts
  <1>1. /\ cli \in BOOLEAN
        /\ Current.res \in Managed /\ Current.cond \in Conditions \union {""}
    <2>1. mode = "pipeline" /\ step <= LastStep /\ (Current.op = "ensure" \/ Current.op = "reapply")
      BY DEF ensureResource, ensureResourceFails, ensureResourceFinalizer, ensureResourceFinalizerFails, InStep
    <2>2. cli \in BOOLEAN
      BY ZenonT(60) DEF TypeOK
    <2> QED
      BY Zenon, <2>1, <2>2, CurrentTypes
  <1>2. CASE ensureResource
    <2> DEFINE r == Current.res
    <2> DEFINE o == ApplyTo(obj[r], my.gen, r = "CcmCsrc" /\ cli)
    <2>1. o \in Object
      <3>1. (r = "CcmCsrc" /\ cli) \in BOOLEAN
        OBVIOUS
      <3>2. obj[r] \in Object
        BY Zenon, <1>0, <1>1
      <3> QED
        BY Zenon, <1>0, <1>1, <3>1, <3>2, ObjectTypes
    <2>2. Store(r, o)
      BY <1>2 DEF ensureResource
    <2>3. ObjectsOK'
      BY Zenon, <1>1, <2>1, <2>2, StoreType DEF ObjectsOK
    <2>4. cli' \in BOOLEAN
      BY Zenon, <1>1, <1>2 DEF ensureResource
    <2>5. WorkerOK' /\ timer' \in BOOLEAN /\ lost' \in BOOLEAN
      <3>1. CASE Proceed(Current.cond)
        BY Zenon, <1>1, <2>4, <3>1, ProceedType
      <3>2. CASE sub' = "finalize" /\ UNCHANGED <<mode, my, mine, fresh, step, todo, lost, timer>>
        <4>1. sub' \in {"", "apply", "finalize", "finalizer", "delete"} \union MapNames
          BY <3>2
        <4>2. /\ mode' = mode /\ my' = my /\ mine' = mine /\ fresh' = fresh /\ step' = step
              /\ todo' = todo /\ lost' = lost /\ timer' = timer
          BY ZenonT(60), <3>2
        <4> QED
          BY Zenon, <2>4, <4>1, <4>2, Groups DEF WorkerOK
      <3> QED
        BY <1>2, <3>1, <3>2 DEF ensureResource
    <2> QED
      BY <1>2, <2>3, <2>5, Groups, Frames DEF ensureResource
  <1>3. CASE ensureResourceFails
    <2>1. TerminalError(mine, faults) \/ (faults > 0 /\ TransientError(mine, faults - 1))
      BY <1>3 DEF ensureResourceFails
    <2>2. ServerOK' /\ faults' \in Nat /\ WorkerOK' /\ timer' \in BOOLEAN /\ lost' \in BOOLEAN
      BY <1>0, <2>1, ExitType
    <2> QED
      BY ZenonT(60), <1>3, <2>2, Groups, Frames DEF ensureResourceFails
  <1>4. CASE ensureResourceFinalizer
    <2>1. ObjectsOK'
      <3>1. CASE UNCHANGED objects
        BY <3>1, Frames
      <3>2. CASE Store(Current.res, [obj[Current.res] EXCEPT !.guard = "held"])
        <4>1. obj[Current.res] \in Object
          BY Zenon, <1>0, <1>1
        <4>2. [obj[Current.res] EXCEPT !.guard = "held"] \in Object
          BY Zenon, <1>1, <4>1, ObjectTypes
        <4> QED
          BY Zenon, <1>1, <3>2, <4>2, StoreType DEF ObjectsOK
      <3> QED
        BY <1>4, <3>1, <3>2 DEF ensureResourceFinalizer
    <2>2. cli' \in BOOLEAN /\ Proceed(Current.cond)
      BY Zenon, <1>1, <1>4 DEF ensureResourceFinalizer
    <2>3. WorkerOK' /\ timer' \in BOOLEAN /\ lost' \in BOOLEAN
      BY ZenonT(60), <1>1, <2>2, ProceedType
    <2> QED
      BY <1>4, <2>1, <2>3, Groups, Frames DEF ensureResourceFinalizer
  <1>5. CASE ensureResourceFinalizerFails
    <2>1. TransientError(mine, faults) \/ (faults > 0 /\ TransientError(mine, faults - 1))
      BY ZenonT(60), <1>5 DEF ensureResourceFinalizerFails
    <2>2. ServerOK' /\ faults' \in Nat /\ WorkerOK' /\ timer' \in BOOLEAN /\ lost' \in BOOLEAN
      BY <1>0, <2>1, ExitType
    <2> QED
      BY ZenonT(60), <1>5, <2>2, Groups, Frames DEF ensureResourceFinalizerFails
  <1> QED
    BY <1>2, <1>3, <1>4, <1>5

\* The wait steps, the KMS barrier and the last step keep the types.
LEMMA WaitType ==
    ASSUME TypeOK, StepOK, AwaitStep \/ KmsStep \/ Ready
    PROVE  TypeOK'
  <1>0. mine \in Status /\ faults \in Nat /\ my.gen \in Nat
    BY WorkerFacts
  <1>1. cli \in BOOLEAN
    BY ZenonT(60) DEF TypeOK
  <1>2. CASE AwaitStep
    <2>1. Current.cond \in Conditions
      BY ZenonT(60), <1>2, CurrentTypes DEF AwaitStep, InStep
    <2>2. CASE /\ Proceed(Current.cond)
               /\ cli' = (cli \/ Current.res = "ClusterClient")
               /\ UNCHANGED <<server, faults>>
      <3>1. cli' \in BOOLEAN
        BY <2>2
      <3>2. WorkerOK' /\ timer' \in BOOLEAN /\ lost' \in BOOLEAN
        BY ZenonT(60), <2>1, <2>2, <3>1, ProceedType
      <3> QED
        BY ZenonT(60), <1>2, <2>2, <3>2, Groups, Frames DEF AwaitStep
    <2>3. CASE Wait(Current.cond) \/ TransientError(mine, faults)
      <3>1. ServerOK' /\ faults' \in Nat /\ WorkerOK' /\ timer' \in BOOLEAN /\ lost' \in BOOLEAN
        BY <1>0, <2>1, <2>3, ExitType
      <3> QED
        BY ZenonT(60), <1>2, <3>1, Groups, Frames DEF AwaitStep
    <2> QED
      BY ZenonT(60), <1>2, <2>2, <2>3 DEF AwaitStep
  <1>3. CASE KmsStep
    <2>1. Current.cond \in Conditions
      BY ZenonT(60), <1>3, CurrentTypes DEF KmsStep, InStep
    <2>2. CASE \E c \in {Current.cond, ""} : Proceed(c) /\ UNCHANGED <<server, faults, cli>>
      <3>1. PICK c \in Conditions \union {""} : Proceed(c) /\ UNCHANGED <<server, faults, cli>>
        BY Zenon, <2>1, <2>2
      <3>2. cli' \in BOOLEAN
        BY Zenon, <1>1, <3>1
      <3>3. WorkerOK' /\ timer' \in BOOLEAN /\ lost' \in BOOLEAN
        BY ZenonT(60), <3>1, <3>2, ProceedType
      <3> QED
        BY Zenon, <1>3, <3>1, <3>3, Groups, Frames DEF KmsStep
    <2>3. CASE Wait(Current.cond)
      <3>1. ServerOK' /\ faults' \in Nat /\ WorkerOK' /\ timer' \in BOOLEAN /\ lost' \in BOOLEAN
        BY <1>0, <2>1, <2>3, ExitType
      <3> QED
        BY Zenon, <1>3, <3>1, Groups, Frames DEF KmsStep
    <2> QED
      BY Zenon, <1>3, <2>2, <2>3 DEF KmsStep
  <1>4. CASE Ready
    <2>1. setReady(mine, my.gen) \in Status
      BY <1>0, StatusTypes
    <2>2. ServerOK' /\ faults' \in Nat /\ WorkerOK' /\ timer' \in BOOLEAN /\ lost' \in BOOLEAN
      BY Zenon, <1>0, <1>4, <2>1, EndPassType DEF Ready, ServerOK
    <2> QED
      BY <1>4, <2>2, Groups, Frames DEF Ready
  <1> QED
    BY <1>2, <1>3, <1>4

\* The remote ConfigMaps keep the types.
LEMMA RemoteType ==
    ASSUME TypeOK, StepOK, RemoteConnect \/ applyRemoteConfigMap \/ applyRemoteConfigMapFails
    PROVE  TypeOK'
  <1>0. mine \in Status /\ faults \in Nat /\ my.gen \in Nat /\ (faults > 0 => faults - 1 \in Nat)
    BY WorkerFacts
  <1>1. cli \in BOOLEAN /\ remote \in [MapNames -> Nat]
    BY Zenon DEF TypeOK
  <1>2. Current.cond \in Conditions
    <2>1. InStep("remote")
      BY DEF RemoteConnect, applyRemoteConfigMap, applyRemoteConfigMapFails
    <2> QED
      BY Zenon, <2>1, CurrentTypes DEF InStep
  <1>3. setFalse(mine, Current.cond) \in Status
    BY <1>0, <1>2, StatusTypes
  <1>4. ASSUME NEW m \in MapNames, sub' = m,
               UNCHANGED <<mode, my, mine, fresh, step, todo, lost, timer>>, cli' = cli
        PROVE  WorkerOK' /\ timer' \in BOOLEAN /\ lost' \in BOOLEAN
    <2>1. sub' \in {"", "apply", "finalize", "finalizer", "delete"} \union MapNames
      BY Zenon, <1>4
    <2>2. /\ mode' = mode /\ my' = my /\ mine' = mine /\ fresh' = fresh /\ step' = step
          /\ todo' = todo /\ lost' = lost /\ timer' = timer /\ cli' = cli
      BY <1>4
    <2> QED
      BY Zenon, <2>1, <2>2, Groups DEF WorkerOK
  <1>5. CASE RemoteConnect
    <2>1. CASE /\ sub' = "infra"
               /\ UNCHANGED <<server, mode, my, mine, fresh, step, todo, cli, lost, timer, faults>>
      <3>1. "infra" \in MapNames
        BY DEF MapNames
      <3>2. WorkerOK' /\ timer' \in BOOLEAN /\ lost' \in BOOLEAN
        BY ZenonT(60), <1>4, <2>1, <3>1
      <3> QED
        BY <1>5, <2>1, <3>2, Groups, Frames DEF RemoteConnect
    <2>2. CASE Wait(Current.cond) \/ (faults > 0 /\ TransientError(setFalse(mine, Current.cond), faults - 1))
      <3>1. ServerOK' /\ faults' \in Nat /\ WorkerOK' /\ timer' \in BOOLEAN /\ lost' \in BOOLEAN
        BY ZenonT(60), <1>0, <1>2, <1>3, <2>2, ExitType
      <3> QED
        BY <1>5, <3>1, Groups, Frames DEF RemoteConnect
    <2> QED
      BY ZenonT(60), <1>5, <2>1, <2>2 DEF RemoteConnect
  <1>6. CASE applyRemoteConfigMap
    <2>1. remote' \in [MapNames -> Nat]
      BY Zenon, <1>0, <1>1, <1>6 DEF applyRemoteConfigMap
    <2>2. cli' = cli
      BY <1>6 DEF applyRemoteConfigMap
    <2>3. WorkerOK' /\ timer' \in BOOLEAN /\ lost' \in BOOLEAN
      <3>1. CASE Proceed(Current.cond)
        BY Zenon, <1>1, <1>2, <2>2, <3>1, ProceedType
      <3>2. CASE /\ \E m \in MapsAfter(sub) : sub' = m
                 /\ UNCHANGED <<mode, my, mine, fresh, step, todo, lost, timer>>
        <4>1. MapsAfter(sub) \subseteq MapNames
          BY ZenonT(60), ConfigAssumption DEF MapsAfter
        <4> QED
          BY <1>4, <2>2, <3>2, <4>1
      <3> QED
        BY <1>6, <3>1, <3>2 DEF applyRemoteConfigMap
    <2> QED
      BY <1>6, <2>1, <2>3, Groups, Frames DEF applyRemoteConfigMap
  <1>7. CASE applyRemoteConfigMapFails
    <2>1. \/ TerminalError(setFalse(mine, Current.cond), faults)
          \/ faults > 0 /\ TransientError(setFalse(mine, Current.cond), faults - 1)
      BY <1>7 DEF applyRemoteConfigMapFails
    <2>2. ServerOK' /\ faults' \in Nat /\ WorkerOK' /\ timer' \in BOOLEAN /\ lost' \in BOOLEAN
      BY <1>0, <1>3, <2>1, ExitType
    <2> QED
      BY <1>7, <2>2, Groups, Frames DEF applyRemoteConfigMapFails
  <1> QED
    BY <1>5, <1>6, <1>7

\* A delete pass that goes on keeps the worker well typed.
LEMMA PassOnType ==
    ASSUME TypeOK, NEW r, PassOn(r)
    PROVE  WorkerOK' /\ timer' \in BOOLEAN /\ lost' \in BOOLEAN
  <1>1. todo' \subseteq Managed \union {RemoteConfig}
    BY Zenon DEF PassOn, TypeOK
  <1>2. /\ sub' = "finalizer" /\ mode' = mode /\ my' = my /\ mine' = mine /\ fresh' = fresh
        /\ step' = step /\ cli' = cli /\ lost' = lost /\ timer' = timer
    BY DEF PassOn
  <1> QED
    BY Zenon, <1>1, <1>2, Groups DEF WorkerOK

\* The steps of reconcileDelete on one resource keep the types.
LEMMA TeardownType ==
    ASSUME TypeOK, NEW r \in Managed,
           \/ removeResourceFinalizer(r) \/ removeResourceFinalizerFails(r)
           \/ deleteAndWait(r) \/ deleteResource(r)
    PROVE  TypeOK'
  <1>0. obj[r] \in Object /\ faults \in Nat
    BY Zenon DEF TypeOK
  <1>1. DeleteOf(r, obj[r]) \in Object /\ ReleaseOf(r, obj[r]) \in Object
    BY Zenon, <1>0, ObjectTypes
  <1>2. Fault => faults' \in Nat
    BY <1>0 DEF Fault
  <1>3. ReturnError => WorkerOK' /\ timer' \in BOOLEAN /\ lost' = lost
    BY ZenonT(60), GoIdleType DEF ReturnError
  <1>4. CASE removeResourceFinalizer(r)
    <2>1. ObjectsOK'
      <3>1. UNCHANGED objects \/ Store(r, ReleaseOf(r, obj[r]))
        BY Zenon, <1>4 DEF removeResourceFinalizer
      <3> QED
        BY <1>1, <3>1, Frames, StoreType DEF ObjectsOK
    <2>2. WorkerOK'
      <3>1. /\ sub' = "delete" /\ mode' = mode /\ my' = my /\ mine' = mine /\ fresh' = fresh
            /\ step' = step /\ cli' = cli /\ todo' = todo
        BY ZenonT(60), <1>4 DEF removeResourceFinalizer
      <3> QED
        BY ZenonT(60), <3>1, Groups DEF WorkerOK
    <2> QED
      BY ZenonT(60), <1>4, <2>1, <2>2, Groups, Frames DEF removeResourceFinalizer
  <1>5. CASE removeResourceFinalizerFails(r)
    <2>1. UNCHANGED faults \/ Fault
      BY Zenon, <1>5 DEF removeResourceFinalizerFails
    <2>2. faults' \in Nat
      BY Zenon, <1>0, <1>2, <2>1
    <2>3. /\ UNCHANGED <<server, objects, caches, external, remote, queued>>
          /\ WorkerOK' /\ timer' \in BOOLEAN /\ lost' = lost
      BY Zenon, <1>3, <1>5 DEF removeResourceFinalizerFails
    <2> QED
      BY <2>2, <2>3, Groups, Frames
  <1>6. CASE deleteAndWait(r)
    <2>1. UNCHANGED objects \/ Store(r, DeleteOf(r, obj[r]))
      BY ZenonT(60), <1>6 DEF deleteAndWait
    <2>2. ObjectsOK'
      BY <1>1, <2>1, Frames, StoreType DEF ObjectsOK
    <2>3. faults' \in Nat
      BY Zenon, <1>0, <1>2, <1>6 DEF deleteAndWait
    <2>4. WorkerOK' /\ timer' \in BOOLEAN /\ lost' \in BOOLEAN
      <3>1. PassOn(r) \/ ReturnError
        BY ZenonT(60), <1>6 DEF deleteAndWait
      <3> QED
        BY ZenonT(60), <1>3, <3>1, PassOnType, Groups
    <2> QED
      BY ZenonT(60), <1>6, <2>2, <2>3, <2>4, Groups, Frames DEF deleteAndWait
  <1>7. CASE deleteResource(r)
    <2>1. UNCHANGED objects \/ Store(r, DeleteOf(r, obj[r]))
      BY <1>7 DEF deleteResource
    <2>2. ObjectsOK'
      BY <1>1, <2>1, Frames, StoreType DEF ObjectsOK
    <2>3. faults' \in Nat
      BY <1>0, <1>2, <1>7 DEF deleteResource
    <2>4. WorkerOK' /\ timer' \in BOOLEAN /\ lost' \in BOOLEAN
      <3>1. PassOn(r) \/ ReturnError
        BY <1>7 DEF deleteResource
      <3> QED
        BY <1>3, <3>1, PassOnType, Groups
    <2> QED
      BY <1>7, <2>2, <2>3, <2>4, Groups, Frames DEF deleteResource
  <1> QED
    BY <1>4, <1>5, <1>6, <1>7

\* The remote cleanup and the end of the deletion keep the types.
LEMMA FinishType ==
    ASSUME TypeOK, deleteRemoteConfigMaps \/ removeFinalizer
    PROVE  TypeOK'
  <1>0. faults \in Nat /\ remote \in [MapNames -> Nat] /\ claim \in Claim
    BY Zenon DEF TypeOK
  <1>1. Fault => faults' \in Nat
    BY <1>0 DEF Fault
  <1>2. CASE deleteRemoteConfigMaps
    <2>1. remote' \in [MapNames -> Nat]
      BY <1>0, <1>2 DEF deleteRemoteConfigMaps
    <2>2. faults' \in Nat
      BY <1>0, <1>1, <1>2 DEF deleteRemoteConfigMaps
    <2>3. WorkerOK' /\ timer' \in BOOLEAN /\ lost' \in BOOLEAN
      BY <1>2, PassOnType DEF deleteRemoteConfigMaps
    <2> QED
      BY <1>2, <2>1, <2>2, <2>3, Groups, Frames DEF deleteRemoteConfigMaps
  <1>3. CASE removeFinalizer
    <2>1. ServerOK'
      <3>1. [claim EXCEPT !.fin = FALSE, !.life = IF claim.fg THEN @ ELSE "gone"] \in Claim
        BY Zenon, <1>0 DEF Claim, Lives
      <3> QED
        BY Zenon, <1>3, <3>1, Frames DEF removeFinalizer, StoreClaim, ServerOK
    <2>2. faults' \in Nat
      BY <1>0, <1>1, <1>3 DEF removeFinalizer
    <2>3. GoIdle /\ (timer' = timer \/ timer' = TRUE) /\ lost' = lost
      BY <1>3 DEF removeFinalizer, ReturnError
    <2>4. ExternalOK'
      <3>1. claimEvent' \in BOOLEAN
        BY Zenon, <1>3, Groups DEF removeFinalizer, ExternalOK
      <3>2. secret' = secret /\ obstacle' = obstacle /\ pauseGen' = pauseGen /\ budget' = budget
        BY <1>3 DEF removeFinalizer
      <3> QED
        BY <3>1, <3>2, Groups DEF ExternalOK
    <2> QED
      BY Zenon, <1>3, <2>1, <2>2, <2>3, <2>4, GoIdleType, Groups, Frames DEF removeFinalizer
  <1> QED
    BY <1>2, <1>3

\* Every API call of a pass keeps the types.
LEMMA PassType == ASSUME TypeOK, StepOK, Pass PROVE TypeOK'
  BY ReconcileType, EnsureType, WaitType, RemoteType, TeardownType, FinishType DEF Pass

\* The environment's bounds stay numbers.
LEMMA SpendType ==
    ASSUME TypeOK, NEW k \in Kinds, Spend(k)
    PROVE  budget' \in [Kinds -> Nat]
  <1>1. budget \in [Kinds -> Nat] /\ budget[k] > 0 /\ budget' = [budget EXCEPT ![k] = budget[k] - 1]
    BY Zenon DEF TypeOK, Spend
  <1>2. budget[k] \in Nat
    BY <1>1
  <1>3. budget[k] - 1 \in Nat
    BY <1>1, <1>2
  <1> QED
    BY <1>1, <1>3

\* A change of the claim by someone else keeps the types.
LEMMA ChangeType ==
    ASSUME TypeOK, NEW c \in Claim, NEW event \in BOOLEAN, Change(c, event),
           pauseGen' \in Nat, budget' \in [Kinds -> Nat]
    PROVE  TypeOK'
  <1>1. ServerOK'
    BY DEF Change, StoreClaim, ServerOK
  <1>2. ObjectsOK' /\ CachesOK'
    BY Frames DEF Change, caches
  <1>3. WorkerOK'
    <2>1. /\ mode' = mode /\ my' = my /\ mine' = mine /\ step' = step /\ sub' = sub
          /\ todo' = todo /\ cli' = cli /\ fresh' = FALSE
      BY DEF Change
    <2> QED
      BY Zenon, <2>1, Groups DEF WorkerOK
  <1>4. ExternalOK'
    <2>1. claimEvent' \in BOOLEAN
      BY DEF Change
    <2>2. secret' = secret /\ obstacle' = obstacle
      BY DEF Change
    <2> QED
      BY <2>1, <2>2, Groups DEF ExternalOK
  <1>5. queued' = queued /\ timer' = timer /\ lost' = lost /\ remote' = remote /\ faults' = faults
    BY DEF Change
  <1> QED
    BY <1>1, <1>2, <1>3, <1>4, <1>5, Groups

\* The user and the end of a foreground deletion keep the types.
LEMMA UserType == ASSUME TypeOK, User \/ EndForeground PROVE TypeOK'
  <1>0. claim \in Claim /\ claim.gen \in Nat /\ claim.gen + 1 \in Nat /\ pauseGen \in Nat
    <2>1. claim \in Claim /\ pauseGen \in Nat
      BY Zenon DEF TypeOK
    <2>2. claim.gen \in Nat
      BY <2>1 DEF Claim
    <2> QED
      BY <2>1, <2>2
  <1>b. budget \in [Kinds -> Nat]
    BY Zenon DEF TypeOK
  <1>1. CASE EditSpec
    <2>1. PICK refs \in {claim.refs} \union (IF MayDropRefs THEN {claim.refs \ {r} : r \in References} ELSE {}) :
            Change([claim EXCEPT !.gen = @ + 1, !.refs = refs], TRUE)
      BY Zenon, <1>1 DEF EditSpec
    <2>2. refs \subseteq References
      BY <1>0, <2>1 DEF Claim
    <2>3. [claim EXCEPT !.gen = @ + 1, !.refs = refs] \in Claim
      BY Zenon, <1>0, <2>2 DEF Claim
    <2>4. pauseGen' \in Nat /\ budget' \in [Kinds -> Nat]
      BY <1>0, <1>b, <1>1 DEF EditSpec
    <2> QED
      BY Zenon, <2>1, <2>3, <2>4, ChangeType
  <1>2. CASE Pause
    <2>1. [claim EXCEPT !.paused = TRUE] \in Claim
      BY Zenon, <1>0 DEF Claim
    <2>2. budget' \in [Kinds -> Nat]
      BY <1>2, SpendType DEF Pause, Kinds
    <2>3. pauseGen' \in Nat
      BY <1>0, <1>2 DEF Pause
    <2> QED
      BY Zenon, <1>2, <2>1, <2>2, <2>3, ChangeType DEF Pause
  <1>3. CASE Unpause
    <2>1. [claim EXCEPT !.paused = FALSE] \in Claim
      BY Zenon, <1>0 DEF Claim
    <2> QED
      BY Zenon, <1>0, <1>b, <1>3, <2>1, ChangeType DEF Unpause
  <1>4. CASE TouchLabels
    <2>1. budget' \in [Kinds -> Nat]
      BY <1>4, SpendType DEF TouchLabels, Kinds
    <2> QED
      BY Zenon, <1>0, <1>4, <2>1, ChangeType DEF TouchLabels
  <1>5. CASE DeleteClaim
    <2>1. PICK fg \in BOOLEAN :
            Change([claim EXCEPT !.life = IF claim.fin \/ fg THEN "deleting" ELSE "gone",
                                 !.gen = @ + 1, !.fg = fg], TRUE)
      BY Zenon, <1>5, SystemAssumption DEF DeleteClaim
    <2>2. [claim EXCEPT !.life = IF claim.fin \/ fg THEN "deleting" ELSE "gone",
                        !.gen = @ + 1, !.fg = fg] \in Claim
      BY Zenon, <1>0 DEF Claim, Lives
    <2>3. pauseGen' \in Nat /\ budget' \in [Kinds -> Nat]
      BY <1>0, <1>b, <1>5 DEF DeleteClaim
    <2> QED
      BY Zenon, <2>1, <2>2, <2>3, ChangeType
  <1>6. CASE EndForeground
    <2>1. [claim EXCEPT !.fg = FALSE, !.life = IF claim.fin THEN @ ELSE "gone"] \in Claim
      BY Zenon, <1>0 DEF Claim, Lives
    <2>2. pauseGen' \in Nat /\ budget' \in [Kinds -> Nat]
      BY <1>0, <1>b, <1>6 DEF EndForeground
    <2>3. (~claim.fin) \in BOOLEAN
      OBVIOUS
    <2> QED
      BY Zenon, <1>6, <2>1, <2>2, <2>3, ChangeType DEF EndForeground
  <1> QED
    BY <1>1, <1>2, <1>3, <1>4, <1>5, <1>6 DEF User

\* A write to a managed resource by someone else keeps the types.
LEMMA OnObjectType ==
    ASSUME TypeOK, NEW r \in Managed, NEW o \in Object, OnObject(r, o), budget' \in [Kinds -> Nat]
    PROVE  TypeOK'
  <1>1. ObjectsOK'
    BY StoreType DEF OnObject, ObjectsOK
  <1>2. /\ claimEvent' = claimEvent /\ secret' = secret /\ obstacle' = obstacle /\ pauseGen' = pauseGen
        /\ remote' = remote /\ queued' = queued /\ timer' = timer /\ lost' = lost /\ faults' = faults
    BY DEF OnObject
  <1>3. ExternalOK'
    BY <1>2, Groups DEF ExternalOK
  <1> QED
    BY <1>1, <1>2, <1>3, Groups, Frames DEF OnObject

\* The controllers of the managed resources, CAPI's Secret and the templates keep the types.
LEMMA WorldType == ASSUME TypeOK, World PROVE TypeOK'
  <1>0. /\ obj \in [Managed -> Object] /\ budget \in [Kinds -> Nat]
        /\ obstacle \in [Managed \union {RemoteConfig} -> {"none", "template", "rejected"}]
    BY Zenon DEF TypeOK
  <1>1. CASE EndForeground
    BY <1>1, UserType
  <1>2. CASE KubeconfigSecret
    <2>1. secret' \in BOOLEAN /\ queued' \in BOOLEAN
      BY <1>2 DEF KubeconfigSecret
    <2>2. /\ claimEvent' = claimEvent /\ obstacle' = obstacle /\ pauseGen' = pauseGen /\ budget' = budget
          /\ remote' = remote /\ timer' = timer /\ lost' = lost /\ faults' = faults
      BY Zenon, <1>2 DEF KubeconfigSecret
    <2>3. ExternalOK'
      BY <2>1, <2>2, Groups DEF ExternalOK
    <2> QED
      BY ZenonT(60), <1>2, <2>1, <2>2, <2>3, Groups, Frames DEF KubeconfigSecret
  <1>3. ASSUME NEW r \in Managed, CollectDependent(r) \/ Advance(r) \/ Regress(r) \/ ForeignCleanup(r)
        PROVE  TypeOK'
    <2>1. /\ obj[r] \in Object /\ obj[r].level \in 0..2 /\ MaxLevel[r] \in 0..2
      BY <1>0 DEF Object, MaxLevel
    <2>2. CASE CollectDependent(r)
      <3>1. OnObject(r, DeleteOf(r, obj[r])) /\ budget' = budget
        BY <2>2 DEF CollectDependent
      <3> QED
        BY Zenon, <1>0, <2>1, <3>1, ObjectTypes, OnObjectType
    <2>3. CASE Advance(r)
      <3>1. obj[r].level < MaxLevel[r] /\ OnObject(r, [obj[r] EXCEPT !.level = @ + 1]) /\ budget' = budget
        BY <2>3 DEF Advance
      <3>2. obj[r].level + 1 \in 0..2
        BY <2>1, <3>1
      <3>3. [obj[r] EXCEPT !.level = @ + 1] \in Object
        BY <2>1, <3>2 DEF Object
      <3> QED
        BY <1>0, <3>1, <3>3, OnObjectType
    <2>4. CASE Regress(r)
      <3>1. obj[r].level > Floor(r, obj[r].level) /\ OnObject(r, [obj[r] EXCEPT !.level = @ - 1]) /\ Spend("drift")
        BY <2>4 DEF Regress
      <3>2. obj[r].level - 1 \in 0..2
        BY <2>1, <3>1 DEF Floor
      <3>3. [obj[r] EXCEPT !.level = @ - 1] \in Object
        BY <2>1, <3>2 DEF Object
      <3>4. budget' \in [Kinds -> Nat]
        BY <3>1, SpendType DEF Kinds
      <3> QED
        BY <3>1, <3>3, <3>4, OnObjectType
    <2>5. CASE ForeignCleanup(r)
      <3>1. OnObject(r, Absent) /\ budget' = budget
        BY <2>5 DEF ForeignCleanup
      <3> QED
        BY Zenon, <1>0, <2>1, <3>1, ObjectTypes, OnObjectType
    <2> QED
      BY <1>3, <2>2, <2>3, <2>4, <2>5
  <1>4. ASSUME NEW t \in Blockable, Block(t) \/ Unblock(t) PROVE TypeOK'
    <2>1. t \in Managed \union {RemoteConfig}
      BY SystemAssumption
    <2>2. budget' \in [Kinds -> Nat]
      <3>1. Spend("block") \/ budget' = budget
        BY <1>4 DEF Block, Unblock
      <3> QED
        BY <1>0, <3>1, SpendType DEF Kinds
    <2>3. PICK o \in {"none", "template", "rejected"}, event \in BOOLEAN : SetObstacle(t, o, event)
      <3>1. CASE Block(t)
        <4>1. PICK o \in Obstacles : SetObstacle(t, o, o = "template")
          BY <3>1 DEF Block
        <4>2. o \in {"none", "template", "rejected"} /\ (o = "template") \in BOOLEAN
          BY SystemAssumption
        <4> QED
          BY Zenon, <4>1, <4>2
      <3>2. CASE Unblock(t)
        <4>1. SetObstacle(t, "none", obstacle[t] = "template") /\ (obstacle[t] = "template") \in BOOLEAN
          BY <3>2 DEF Unblock
        <4> QED
          BY Zenon, <4>1
      <3> QED
        BY <1>4, <3>1, <3>2
    <2>4. obstacle' \in [Managed \union {RemoteConfig} -> {"none", "template", "rejected"}]
      <3>1. obstacle' = [obstacle EXCEPT ![t] = o]
        BY <2>3 DEF SetObstacle
      <3> QED
        BY <1>0, <2>1, <3>1
    <2>5. queued' \in BOOLEAN
      BY <2>3 DEF SetObstacle
    <2>6. /\ claimEvent' = claimEvent /\ secret' = secret /\ pauseGen' = pauseGen
          /\ remote' = remote /\ timer' = timer /\ lost' = lost /\ faults' = faults
      BY <2>3 DEF SetObstacle
    <2>7. ExternalOK'
      BY <2>2, <2>4, <2>6, Groups DEF ExternalOK
    <2> QED
      BY <2>3, <2>5, <2>6, <2>7, Groups, Frames DEF SetObstacle
  <1> QED
    BY <1>1, <1>2, <1>3, <1>4 DEF World

\* Watch deliveries, the requeue timer and a restart keep the types.
LEMMA DeliverType == ASSUME TypeOK, Deliver \/ Crash PROVE TypeOK'
  <1>0. claim \in Claim /\ obj \in [Managed -> Object] /\ cobj \in [Managed -> View]
    BY Zenon DEF TypeOK
  <1>v. ASSUME NEW r \in Managed PROVE ViewOf(r, obj[r]) \in View
    BY ZenonT(60), <1>0, ObjectTypes
  <1>1. CASE SyncClaim
    <2>1. /\ claim' = claim /\ cclaim' = claim /\ cobj' = cobj /\ secret' = secret /\ obstacle' = obstacle
          /\ pauseGen' = pauseGen /\ budget' = budget /\ remote' = remote /\ timer' = timer
          /\ lost' = lost /\ faults' = faults
      BY <1>1 DEF SyncClaim
    <2>2. claimDirty' \in BOOLEAN /\ claimEvent' \in BOOLEAN
      BY Zenon, <1>1 DEF SyncClaim
    <2>3. queued' \in BOOLEAN
      BY ZenonT(60), <1>1 DEF SyncClaim
    <2>4. ServerOK' /\ CachesOK' /\ ExternalOK'
      BY <1>0, <2>1, <2>2, Groups DEF ServerOK, CachesOK, ExternalOK
    <2> QED
      BY <1>1, <2>1, <2>3, <2>4, Groups, Frames DEF SyncClaim
  <1>2. CASE TimerFires
    <2>1. timer' \in BOOLEAN /\ queued' \in BOOLEAN
      BY ZenonT(60), <1>2 DEF TimerFires
    <2> QED
      BY <1>2, <2>1, Groups, Frames DEF TimerFires
  <1>3. ASSUME NEW k, SyncKind(k) PROVE TypeOK'
    <2>1. cobj' \in [Managed -> View]
      BY ZenonT(60), <1>0, <1>3, <1>v DEF SyncKind
    <2>2. dirty' \in [Managed -> BOOLEAN]
      BY ZenonT(60), <1>3 DEF SyncKind
    <2>3. obj' = obj /\ cclaim' = cclaim /\ queued' = TRUE
      BY ZenonT(60), <1>3 DEF SyncKind
    <2>4. ObjectsOK' /\ CachesOK'
      BY <2>1, <2>2, <2>3, Groups DEF ObjectsOK, CachesOK
    <2>5. queued' \in BOOLEAN
      BY <2>3
    <2> QED
      BY Zenon, <1>3, <2>4, <2>5, Groups, Frames DEF SyncKind
  <1>4. CASE Crash
    <2>1. /\ claim' = claim /\ cclaim' = claim /\ obj' = obj /\ secret' = secret /\ obstacle' = obstacle
          /\ pauseGen' = pauseGen /\ remote' = remote /\ faults' = faults
      BY <1>4 DEF Crash
    <2>2. budget' \in [Kinds -> Nat]
      BY <1>4, SpendType DEF Crash, Kinds
    <2>3. cobj' \in [Managed -> View]
      BY <1>4, <1>v DEF Crash
    <2>4. dirty' \in [Managed -> BOOLEAN]
      BY <1>4 DEF Crash
    <2>5. /\ claimDirty' \in BOOLEAN /\ claimEvent' \in BOOLEAN /\ queued' \in BOOLEAN
          /\ timer' \in BOOLEAN /\ lost' \in BOOLEAN
      BY ZenonT(60), <1>4 DEF Crash
    <2>6. ServerOK' /\ ObjectsOK' /\ CachesOK' /\ ExternalOK'
      BY ZenonT(60), <1>0, <2>1, <2>2, <2>3, <2>4, <2>5, Groups DEF ServerOK, ObjectsOK, CachesOK, ExternalOK
    <2>7. WorkerOK'
      BY <1>4, GoIdleType DEF Crash
    <2> QED
      BY ZenonT(60), <2>1, <2>5, <2>6, <2>7, Groups
  <1> QED
    BY <1>1, <1>2, <1>3, <1>4 DEF Deliver

\* Every step of the system keeps a running pass on a step that is not skipped.
LEMMA StepKept == ASSUME TypeOK, StepOK, [Next]_vars PROVE StepOK'
  <1>1. CASE UNCHANGED <<mode, my, step>>
    BY <1>1 DEF StepOK
  <1>2. CASE GoIdle
    BY <1>2, IdleStep
  <1>3. ASSUME NEW c, Proceed(c) PROVE StepOK'
    BY <1>3, ProceedStep
  <1>4. ASSUME NEW st, NEW f,
               \/ TerminalError(st, f) \/ TransientError(st, f)
               \/ \E requeue \in BOOLEAN : EndPass(st, f, requeue)
        PROVE  StepOK'
    BY <1>2, <1>4 DEF TerminalError, TransientError, EndPass
  <1>5. ASSUME NEW c, Wait(c) PROVE StepOK'
    BY ZenonT(60), <1>2, <1>5 DEF Wait, EndPass
  <1>6. CASE mode' = "delete"
    BY <1>6 DEF StepOK
  <1>7. CASE Pass
    <2>1. CASE ReconcileNotFound \/ reconcilePaused
      BY <1>1, <2>1 DEF ReconcileNotFound, reconcilePaused, worker
    <2>2. CASE ReconcileStart
      BY <2>2, BeginStep DEF ReconcileStart
    <2>3. CASE ensureFinalizerFails \/ reconcileDelete
      BY Zenon, <1>2, <1>6, <2>3 DEF ensureFinalizerFails, reconcileDelete, ReturnError
    <2>4. CASE ensureResource
      BY <1>1, <1>3, <2>4 DEF ensureResource
    <2>5. CASE ensureResourceFails \/ ensureResourceFinalizerFails \/ applyRemoteConfigMapFails
      BY Zenon, <1>4, <2>5 DEF ensureResourceFails, ensureResourceFinalizerFails, applyRemoteConfigMapFails
    <2>6. CASE ensureResourceFinalizer
      BY <1>3, <2>6 DEF ensureResourceFinalizer
    <2>7. CASE AwaitStep \/ KmsStep
      BY ZenonT(60), <1>3, <1>4, <1>5, <2>7 DEF AwaitStep, KmsStep
    <2>8. CASE RemoteConnect
      BY ZenonT(60), <1>1, <1>4, <1>5, <2>8 DEF RemoteConnect
    <2>9. CASE applyRemoteConfigMap
      BY <1>1, <1>3, <2>9 DEF applyRemoteConfigMap
    <2>10. CASE Ready
      BY ZenonT(60), <1>4, <2>10 DEF Ready
    <2>11. CASE deleteRemoteConfigMaps \/ removeFinalizer
      BY <1>1, <1>2, <2>11 DEF deleteRemoteConfigMaps, removeFinalizer, PassOn, ReturnError
    <2>12. ASSUME NEW r \in Managed,
                  \/ removeResourceFinalizer(r) \/ removeResourceFinalizerFails(r)
                  \/ deleteAndWait(r) \/ deleteResource(r)
           PROVE  StepOK'
      BY Zenon, <1>1, <1>2, <2>12 DEF removeResourceFinalizer, removeResourceFinalizerFails, deleteAndWait,
                               deleteResource, PassOn, ReturnError
    <2> QED
      BY ZenonT(60), <1>7, <2>1, <2>2, <2>3, <2>4, <2>5, <2>6, <2>7, <2>8, <2>9, <2>10, <2>11, <2>12 DEF Pass
  <1>8. CASE User \/ EndForeground
    BY ZenonT(60), <1>1, <1>8 DEF User, EndForeground, EditSpec, Pause, Unpause, TouchLabels, DeleteClaim, Change
  <1>9. CASE World
    BY ZenonT(60), <1>1, <1>8, <1>9 DEF World, KubeconfigSecret, CollectDependent, Advance, Regress, ForeignCleanup,
                            OnObject, Block, Unblock, SetObstacle, worker
  <1>10. CASE Deliver
    BY ZenonT(60), <1>1, <1>10 DEF Deliver, SyncClaim, SyncKind, TimerFires, worker
  <1>11. CASE Crash
    BY <1>2, <1>11 DEF Crash
  <1>12. CASE UNCHANGED vars
    BY <1>1, <1>12 DEF vars
  <1> QED
    BY <1>7, <1>8, <1>9, <1>10, <1>11, <1>12 DEF Next

\* The claim just created is well typed and no pass is running.
LEMMA InitType == Init => TypeOK /\ StepOK
  <1> SUFFICES ASSUME Init PROVE TypeOK /\ StepOK
    OBVIOUS
  <1>1. ServerOK
    <2>1. [NoClaim EXCEPT !.life = "live", !.gen = 1, !.refs = InitialRefs] \in Claim
      BY Zenon, ConstantTypes, SystemAssumption DEF Claim, Lives
    <2> QED
      BY Zenon, <2>1 DEF Init, ServerOK
  <1>2. Absent \in Object /\ \A r \in Managed : ViewOf(r, Absent) \in View
    <2>1. Absent \in Object
      BY DEF Absent, Object, Guards
    <2> QED
      BY Zenon, <2>1, ObjectTypes
  <1>3. ObjectsOK
    BY Zenon, <1>2 DEF Init, ObjectsOK
  <1>4. CachesOK
    BY Zenon, <1>2, ConstantTypes DEF Init, CachesOK
  <1>5. ExternalOK
    BY Zenon, SystemAssumption DEF Init, ExternalOK
  <1>6. WorkerOK
    <2>1. step \in 0..(LastStep + 1)
      <3>1. step = 0
        BY Zenon DEF Init
      <3> QED
        BY <3>1, StepIndex
    <2>2. my \in Claim /\ mine \in Status
      BY Zenon, ConstantTypes DEF Init
    <2>3. fresh \in BOOLEAN /\ cli \in BOOLEAN /\ mode = "idle" /\ sub = "" /\ todo = {}
      BY Zenon DEF Init
    <2> QED
      BY Zenon, <2>1, <2>2, <2>3 DEF WorkerOK
  <1>7. queued \in BOOLEAN /\ timer \in BOOLEAN /\ lost \in BOOLEAN
    BY Zenon DEF Init
  <1>8. remote \in [MapNames -> Nat] /\ faults \in Nat
    BY Zenon, SystemAssumption DEF Init
  <1>9. StepOK
    BY Zenon DEF Init, StepOK
  <1> QED
    BY <1>1, <1>3, <1>4, <1>5, <1>6, <1>7, <1>8, <1>9, Groups

(***************************************************************************)
(* In every reachable state statuses and phases are ones the API type      *)
(* declares, the pipeline index and the delete plan are in range, and a    *)
(* running pass of executePipeline is on a step that the spec it read does *)
(* not skip.                                                               *)
(***************************************************************************)
THEOREM TypeCorrect == Spec => [](TypeOK /\ StepOK)
  <1>1. Init => TypeOK /\ StepOK
    BY InitType
  <1>2. TypeOK /\ StepOK /\ [Next]_vars => (TypeOK /\ StepOK)'
    <2> SUFFICES ASSUME TypeOK, StepOK, [Next]_vars PROVE TypeOK' /\ StepOK'
      OBVIOUS
    <2>1. CASE UNCHANGED vars
      <3>1. /\ UNCHANGED server /\ UNCHANGED objects /\ UNCHANGED caches /\ UNCHANGED worker /\ UNCHANGED external
            /\ UNCHANGED <<queued, timer, lost, remote, faults>>
        BY <2>1 DEF vars, server, objects, caches, worker, external
      <3> QED
        BY ZenonT(60), <3>1, Groups, Frames, StepKept
    <2>2. CASE Next
      BY <2>2, PassType, UserType, WorldType, DeliverType, StepKept DEF Next
    <2> QED
      BY <2>1, <2>2
  <1> QED
    BY <1>1, <1>2, PTL DEF Spec

================================================================================
