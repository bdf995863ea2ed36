------------------------------ MODULE FleetProofs ------------------------------
(***************************************************************************)
(* Proof that the passes of any number of claims, however they are named,  *)
(* keep to their own objects, and what FleetRollout builds on: the types,  *)
(* the ways a step can move a pass, and what may happen around a claim     *)
(* without queueing it.                                                    *)
(***************************************************************************)
EXTENDS ClaimFleet, SequenceTheorems, WellFoundedInduction, TLAPS

\* Time limits for the provers, in seconds.
USE SMTT(60), ZenonT(60)

\* A claim's namespace and name; no name is empty.
ClaimKeys == {c \in [ns: STRING, name: Seq(STRING)] : c.name # <<>>}

\* Two claims with the same namespace and name are one.
LEMMA SameClaim == ASSUME NEW c \in ClaimKeys, NEW d \in ClaimKeys, c.ns = d.ns, c.name = d.name PROVE c = d
  BY DEF ClaimKeys

Kinds == {"Application", "S3BucketClaim", "CertificateSet", "Cluster", "VaultClaim", "VaultSecretClaim",
          "CcmCsrc", "ConfigMap"}

\* Every step is about one of the kinds that have a name.
LEMMA StepKinds == \A i \in 1..Last : renderSteps[i].kind \in Kinds
  <1>1. Last = 13
    BY DEF Last, renderSteps
  <1>2. /\ renderSteps[1].kind = "Application" /\ renderSteps[2].kind = "S3BucketClaim"
        /\ renderSteps[3].kind = "CertificateSet" /\ renderSteps[4].kind = "Cluster"
        /\ renderSteps[5].kind = "CertificateSet" /\ renderSteps[6].kind = "VaultClaim"
        /\ renderSteps[7].kind = "VaultSecretClaim" /\ renderSteps[8].kind = "CcmCsrc"
        /\ renderSteps[9].kind = "ConfigMap" /\ renderSteps[10].kind = "ConfigMap"
        /\ renderSteps[11].kind = "ConfigMap" /\ renderSteps[12].kind = "Cluster"
        /\ renderSteps[13].kind = "CcmCsrc"
    BY Zenon DEF renderSteps, Render
  <1>3. \A i \in 1..13 : i \in {1, 2, 3, 4, 5, 6, 7, 8, 9, 10, 11, 12, 13}
    OBVIOUS
  <1> QED
    BY <1>1, <1>2, <1>3 DEF Kinds

\* A common prefix can be told from a name with one more segment.
LEMMA OneMore ==
    ASSUME NEW s \in Seq(STRING), NEW t \in Seq(STRING), NEW p, NEW q, s \o <<p>> = t \o <<q>> PROVE s = t
  <1> DEFINE S == STRING \union {p, q}
  <1>1. s \in Seq(S) /\ t \in Seq(S) /\ p \in S /\ q \in S
    OBVIOUS
  <1> HIDE DEF S
  <1>2. Append(s, p) = Append(t, q)
    BY <1>1, AppendIsConcat
  <1> QED
    BY <1>1, <1>2, AppendInjective

\* Of two claims whose steps of one kind make an object of the same name, namespaces differ.
LEMMA NamesAreOwn ==
    ASSUME NEW c \in Claims, NEW d \in Claims, NEW s, NEW t, s.kind \in Kinds \ {"ConfigMap"}, t.kind = s.kind,
           resourceName(c, s) = resourceName(d, t), place(c, s) = place(d, t)
    PROVE  c = d
  <1>1. c \in ClaimKeys /\ d \in ClaimKeys /\ c.name \in Seq(STRING) /\ d.name \in Seq(STRING)
    BY FleetAssumption DEF ClaimKeys
  <1>2. c.ns = d.ns
    BY DEF place
  <1>3. CASE s.kind \in {"CertificateSet", "Cluster"}
    <2>1. c.name \o <<s.part>> = d.name \o <<t.part>>
      BY Zenon, <1>3 DEF resourceName, CertificateSetName, ClusterName
    <2> QED
      BY Zenon, <1>1, <1>2, <2>1, OneMore, SameClaim
  <1>4. CASE s.kind \notin {"CertificateSet", "Cluster"}
    <2>1. c.name = d.name
      BY <1>4 DEF Kinds, resourceName, ApplicationName, S3BucketClaimName, VaultClaimName,
                  VaultSecretClaimName, CcmCsrcName
    <2> QED
      BY <1>1, <1>2, <2>1, SameClaim
  <1> QED
    BY <1>3, <1>4

-------------------------------------------------------------------------------
\* An object was applied by a step of some claim, which owns it unless it is in another cluster.
Applied(k, o) ==
    /\ o = [owner |-> o.owner, labels |-> o.labels, ver |-> o.ver, ctx |-> o.ctx, step |-> o.step,
            status |-> o.status]
    /\ o.step.kind \in Kinds
    /\ \E c \in Claims : /\ o.owner = IF o.step.kind = "ConfigMap" THEN Nobody ELSE c
                        /\ k = Key(c, o.step, k.kind)

AllApplied == \A k \in DOMAIN objects : Applied(k, objects[k])

\* What a step builds is applied under the key it is built for.
LEMMA BuiltIsApplied ==
    ASSUME NEW c \in Claims, NEW i \in 1..Last, NEW t, NEW ctx, NEW old, NEW kind
    PROVE  LET s == renderSteps[i] IN Applied(Key(c, s, kind), buildDesiredResource(c, s, t, ctx, old))
  <1> DEFINE s == renderSteps[i]
             o == buildDesiredResource(c, s, t, ctx, old)
             k == Key(c, s, kind)
  <1>1. s.kind \in Kinds
    BY StepKinds
  <1> HIDE DEF s
  <1>2. k = Key(c, s, k.kind)
    BY DEF Key
  <1>3. /\ o.step = s /\ o.owner = (IF s.kind = "ConfigMap" THEN Nobody ELSE c)
        /\ o = [owner |-> o.owner, labels |-> o.labels, ver |-> o.ver, ctx |-> o.ctx, step |-> o.step,
                status |-> o.status]
    BY DEF buildDesiredResource
  <1> HIDE DEF o, k
  <1>4. Applied(k, o)
    BY <1>1, <1>2, <1>3 DEF Applied
  <1> QED
    BY <1>4 DEF s, o, k

\* A new status leaves an applied object applied.
LEMMA StatusIsNot ==
    ASSUME NEW k, NEW o, Applied(k, o), NEW x
    PROVE  LET p == [o EXCEPT !.status = x] IN Applied(k, p) /\ p.owner = o.owner /\ p.step = o.step
  <1> DEFINE p == [o EXCEPT !.status = x]
  <1>1. p = [owner |-> o.owner, labels |-> o.labels, ver |-> o.ver, ctx |-> o.ctx, step |-> o.step, status |-> x]
    BY DEF Applied
  <1> HIDE DEF p
  <1>2. p.owner = o.owner /\ p.step = o.step
        /\ p = [owner |-> p.owner, labels |-> p.labels, ver |-> p.ver, ctx |-> p.ctx, step |-> p.step,
                status |-> p.status]
    BY <1>1
  <1>3. Applied(k, p)
    BY <1>2 DEF Applied
  <1> QED
    BY <1>2, <1>3 DEF p

\* Storing an applied object, or removing one.
LEMMA StoreKeeps ==
    ASSUME AllApplied, NEW k, NEW o, Store(k, o), o = NoObject \/ Applied(k, o)
    PROVE  AllApplied'
  <1>1. CASE o = NoObject
    BY <1>1 DEF Store, AllApplied
  <1>2. CASE o # NoObject
    BY <1>2 DEF Store, Put, AllApplied
  <1> QED
    BY <1>1, <1>2

\* Two objects of the expected kind under one key have one owner.
LEMMA OwnerIsFixed ==
    ASSUME NEW k, NEW o, NEW p, Applied(k, o), Applied(k, p), ~Misfit(k, o), ~Misfit(k, p)
    PROVE  o.owner = p.owner
  <1>1. k.kind = o.step.kind /\ k.kind = p.step.kind
    BY DEF Misfit
  <1>2. PICK c \in Claims : (o.owner = IF o.step.kind = "ConfigMap" THEN Nobody ELSE c) /\ k = Key(c, o.step, k.kind)
    BY DEF Applied
  <1>3. PICK d \in Claims : (p.owner = IF p.step.kind = "ConfigMap" THEN Nobody ELSE d) /\ k = Key(d, p.step, k.kind)
    BY DEF Applied
  <1>4. CASE k.kind = "ConfigMap"
    BY Zenon, <1>1, <1>2, <1>3, <1>4
  <1>5. CASE k.kind # "ConfigMap"
    <2>1. resourceName(c, o.step) = resourceName(d, p.step) /\ place(c, o.step) = place(d, p.step)
      <3>1. k.name = resourceName(c, o.step) /\ k.place = place(c, o.step)
        BY <1>2 DEF Key
      <3>2. k.name = resourceName(d, p.step) /\ k.place = place(d, p.step)
        BY <1>3 DEF Key
      <3> QED
        BY <3>1, <3>2
    <2>2. o.step.kind \in Kinds \ {"ConfigMap"} /\ p.step.kind = o.step.kind
      BY <1>1, <1>5 DEF Applied
    <2>3. c = d
      BY <2>1, <2>2, NamesAreOwn
    <2> QED
      BY Zenon, <1>1, <1>2, <1>3, <1>5, <2>3
  <1> QED
    BY <1>4, <1>5

\* Every step leaves the objects alone or stores, or removes, one of them.
LEMMA Steps ==
    ASSUME AllApplied, [Next]_vars
    PROVE  objects' = objects \/ \E k, o : Store(k, o) /\ (o = NoObject \/ Applied(k, o))
  <1>1. ASSUME NEW c \in Claims, ensureResource(c)
        PROVE  objects' = objects \/ \E k, o : Store(k, o) /\ (o = NoObject \/ Applied(k, o))
    <2> DEFINE t == Template(c)
               s == Current(c)
               k == Key(c, s, t.kind)
               o == buildDesiredResource(c, s, t, pass[c].ctx, Object(k))
    <2>1. pass[c].at \in 1..Last /\ s = renderSteps[pass[c].at]
      BY <1>1 DEF ensureResource, At, Current
    <2>2. Applied(k, o)
      BY <2>1, BuiltIsApplied
    <2>3. CASE t = NoTemplate \/ ~t.ok
      BY <1>1, <2>3 DEF ensureResource
    <2>4. CASE ~(t = NoTemplate \/ ~t.ok)
      <3>1. Store(k, o)
        BY <1>1, <2>4, Zenon DEF ensureResource
      <3> QED
        BY <2>2, <3>1, Zenon
    <2> QED
      BY <2>3, <2>4
  <1>2. ASSUME NEW k \in ClusterKeys, ClusterUp(k)
        PROVE  \E o : Store(k, o) /\ Applied(k, o)
    <2> DEFINE o == [objects[k] EXCEPT !.status = [objects[k].status EXCEPT !.up = TRUE]]
    <2>1. k \in DOMAIN objects /\ Store(k, o)
      BY <1>2 DEF ClusterUp, OnCluster
    <2>2. Applied(k, o)
      BY <2>1, StatusIsNot DEF AllApplied
    <2> QED
      BY <2>1, <2>2, Zenon
  <1>3. ASSUME NEW k \in ClusterKeys, ClusterReports(k)
        PROVE  \E o : Store(k, o) /\ Applied(k, o)
    <2>1. PICK v \in Reports : OnCluster(k, [objects[k] EXCEPT !.status.replicas = v])
      BY <1>3 DEF ClusterReports
    <2> DEFINE o == [objects[k] EXCEPT !.status = [objects[k].status EXCEPT !.replicas = v]]
    <2>2. k \in DOMAIN objects /\ Store(k, o)
      BY <2>1 DEF OnCluster
    <2>3. Applied(k, o)
      BY <2>2, StatusIsNot DEF AllApplied
    <2> QED
      BY <2>2, <2>3, Zenon
  <1>4. ASSUME NEW k \in ClusterKeys, ClusterGone(k) PROVE Store(k, NoObject)
    BY <1>4, Zenon DEF ClusterGone, OnCluster
  <1>5. ASSUME NEW c \in Claims, Begin(c) \/ CheckTemplateKind(c) \/ AwaitCluster(c) \/ Ready(c) \/ StepFails(c) \/ ApplyRejected(c)
                                 \/ SyncClaim(c) \/ TimerFires(c)
        PROVE  objects' = objects
    BY <1>5, Zenon DEF Begin, CheckTemplateKind, AwaitCluster, Ready, StepFails, ApplyRejected, SyncClaim, TimerFires
  <1>6. ASSUME NEW t \in Mutable, UpdateTemplate(t) \/ DeleteTemplate(t) \/ CreateTemplate(t) \/ SyncTemplate(t)
        PROVE  objects' = objects
    BY <1>6, Zenon DEF UpdateTemplate, DeleteTemplate, CreateTemplate, SyncTemplate, WriteTemplate
  <1>7. ASSUME NEW e \in Edits, EditClaim(e) PROVE objects' = objects
    BY <1>7, Zenon DEF EditClaim
  <1>8. ASSUME NEW k \in ClusterKeys, ControlPlaneReports(k) PROVE objects' = objects
    BY <1>8, Zenon DEF ControlPlaneReports
  <1>9. CASE UNCHANGED vars
    BY <1>9 DEF vars
  <1> QED
    BY <1>1, <1>2, <1>3, <1>4, <1>5, <1>6, <1>7, <1>8, <1>9, Zenon DEF Next, Step

\* What the operator finds when it starts was applied by complete passes.
LEMMA Starts == Init => AllApplied
  <1> SUFFICES ASSUME Init, NEW k \in DOMAIN InitialObjects PROVE Applied(k, InitialObjects[k])
    BY Zenon DEF Init, AllApplied
  <1> DEFINE Made == {e \in Provisioned \X {renderSteps[i] : i \in 1..Last} :
                        ~Skipped(e[1], InitialRefs[e[1]], e[2]) /\ e[2].part # "update"}
             By == CHOOSE e \in Made : Key(e[1], e[2], e[2].kind) = k
             t == InitialTemplate(InitialRefs[By[1]][By[2].field])
             x == BuildContext(InitialClusters(By[1]))
             o == buildDesiredResource(By[1], By[2], t, x, NoObject)
  <1>1. k \in {Key(e[1], e[2], e[2].kind) : e \in Made}
        /\ InitialObjects[k] = [o EXCEPT !.status = InitialStatus(By[1])]
    BY Zenon DEF InitialObjects
  <1>2. By \in Made /\ Key(By[1], By[2], By[2].kind) = k
    BY <1>1, Zenon
  <1> HIDE DEF By, t, x
  <1>3. By[1] \in Claims /\ \E i \in 1..Last : By[2] = renderSteps[i]
    BY <1>2, FleetAssumption
  <1>4. Applied(k, o)
    BY <1>2, <1>3, BuiltIsApplied
  <1> HIDE DEF o
  <1> QED
    BY <1>1, <1>4, StatusIsNot

(***************************************************************************)
(* A pass never takes over an object of another claim, except where a      *)
(* template renders a kind its step did not expect: for any number of      *)
(* claims, whatever their names and namespaces, and with the names that    *)
(* naming.go gives to what they manage.                                    *)
(***************************************************************************)
THEOREM ClaimsKeepApart == Spec => OwnObjectsOnly
  <1> DEFINE Apart == \A k \in DOMAIN objects \intersect DOMAIN objects' :
                        objects[k].owner # objects'[k].owner
                          => Misfit(k, objects[k]) \/ Misfit(k, objects'[k])
  <1>1. AllApplied /\ [Next]_vars => AllApplied' /\ Apart
    <2> SUFFICES ASSUME AllApplied, [Next]_vars PROVE AllApplied' /\ Apart
      OBVIOUS
    <2>1. CASE objects' = objects
      BY <2>1 DEF AllApplied
    <2>2. ASSUME NEW k, NEW o, Store(k, o), o = NoObject \/ Applied(k, o) PROVE AllApplied' /\ Apart
      <3>1. AllApplied'
        BY <2>2, StoreKeeps
      <3>2. \A j \in DOMAIN objects \intersect DOMAIN objects' : Applied(j, objects[j]) /\ Applied(j, objects'[j])
        BY <3>1 DEF AllApplied
      <3> QED
        BY <3>1, <3>2, OwnerIsFixed
    <2> QED
      BY <2>1, <2>2, Steps
  <1>2. AllApplied /\ [Next]_vars => [Apart]_vars
    BY <1>1
  <1> QED
    BY <1>1, <1>2, Starts, PTL DEF Spec, OwnObjectsOnly

-------------------------------------------------------------------------------
\* The number of steps.
LEMMA LastIs == Last = 13
  BY DEF Last, renderSteps

ClusterFields == {"clusterInfra", "clusterClient"}

\* Steps of the kinds that matter, by number.
LEMMA StepFacts ==
    ASSUME NEW i \in 1..Last
    PROVE  LET s == renderSteps[i] IN
           /\ s.kind = "Cluster" => i \in {4, 12} /\ s.field \in ClusterFields /\ s.part \in Roles
           /\ s.kind = "ConfigMap" => i \in {9, 10, 11}
           /\ s.field \in ClusterFields => s.kind = "Cluster"
           /\ s.part = "update" => i = 13 /\ s.kind = "CcmCsrc"
  <1>1. i \in {1, 2, 3, 4, 5, 6, 7, 8, 9, 10, 11, 12, 13}
    BY LastIs
  <1>2. /\ renderSteps[1].kind = "Application" /\ renderSteps[2].kind = "S3BucketClaim" /\ renderSteps[3].kind = "CertificateSet"
        /\ renderSteps[4].kind = "Cluster" /\ renderSteps[5].kind = "CertificateSet" /\ renderSteps[6].kind = "VaultClaim"
        /\ renderSteps[7].kind = "VaultSecretClaim" /\ renderSteps[8].kind = "CcmCsrc" /\ renderSteps[9].kind = "ConfigMap"
        /\ renderSteps[10].kind = "ConfigMap" /\ renderSteps[11].kind = "ConfigMap" /\ renderSteps[12].kind = "Cluster"
        /\ renderSteps[13].kind = "CcmCsrc"
    BY Zenon DEF renderSteps, Render
  <1>3. /\ renderSteps[1].field = "observe" /\ renderSteps[2].field = "s3BucketClaim" /\ renderSteps[3].field = "certSetInfra"
        /\ renderSteps[4].field = "clusterInfra" /\ renderSteps[5].field = "certSetClient" /\ renderSteps[6].field = "vaultClaim"
        /\ renderSteps[7].field = "vaultSecretClaim" /\ renderSteps[8].field = "ccmCsr" /\ renderSteps[9].field = "configMapInfra"
        /\ renderSteps[10].field = "configMapInfra" /\ renderSteps[11].field = "configMapClient" /\ renderSteps[12].field = "clusterClient"
        /\ renderSteps[13].field = "ccmCsr"
    BY Zenon DEF renderSteps, Render
  <1>4. /\ renderSteps[1].part = "" /\ renderSteps[2].part = "" /\ renderSteps[3].part = "infra"
        /\ renderSteps[4].part = "infra" /\ renderSteps[5].part = "client" /\ renderSteps[6].part = ""
        /\ renderSteps[7].part = "" /\ renderSteps[8].part = "" /\ renderSteps[9].part = "infra"
        /\ renderSteps[10].part = "system" /\ renderSteps[11].part = "client" /\ renderSteps[12].part = "client"
        /\ renderSteps[13].part = "update"
    BY Zenon DEF renderSteps, Render
  <1>5. renderSteps[i].kind = "Cluster" => i \in {4, 12}
    BY <1>1, <1>2
  <1>6. renderSteps[i].kind = "ConfigMap" => i \in {9, 10, 11}
    BY <1>1, <1>2
  <1>7. renderSteps[i].field \in ClusterFields => i \in {4, 12}
    BY <1>1, <1>3 DEF ClusterFields
  <1>8. renderSteps[i].part = "update" => i = 13
    BY <1>1, <1>4, Zenon
  <1>9. renderSteps[4].field \in ClusterFields /\ renderSteps[12].field \in ClusterFields
    BY <1>3 DEF ClusterFields
  <1>10. renderSteps[4].part \in Roles /\ renderSteps[12].part \in Roles
    BY Zenon, <1>4 DEF Roles
  <1> QED
    BY <1>2, <1>5, <1>6, <1>7, <1>8, <1>9, <1>10

\* The three ConfigMaps of a claim have three names.
LEMMA ConfigMapParts ==
    renderSteps[9].part = "infra" /\ renderSteps[10].part = "system" /\ renderSteps[11].part = "client"
  BY DEF renderSteps, Render

\* The last step updates what the eighth made.
LEMMA UpdateOf == renderSteps[8].kind = "CcmCsrc" /\ renderSteps[8].field = "ccmCsr" /\ renderSteps[8].part # "update"
  BY Zenon DEF renderSteps, Render

\* NextRender finds the first step after i that is not skipped, or the end.
LEMMA NextRenderIs ==
    ASSUME NEW c, NEW refs, NEW i \in 0..Last
    PROVE  LET j == NextRender(c, refs, i) IN
           /\ j \in (i + 1)..(Last + 1)
           /\ j <= Last => ~Skipped(c, refs, renderSteps[j])
           /\ \A k \in (i + 1)..(j - 1) : Skipped(c, refs, renderSteps[k])
  <1> DEFINE T == {j \in (i + 1)..(Last + 1) : j <= Last => ~Skipped(c, refs, renderSteps[j])}
             R == OpToRel(<, Nat)
             Good(j) == /\ j <= Last => ~Skipped(c, refs, renderSteps[j])
                        /\ \A k \in (i + 1)..(j - 1) : Skipped(c, refs, renderSteps[k])
  <1>1. Last = 13
    BY LastIs
  <1>2. Last + 1 \in T /\ T \subseteq Nat
    BY <1>1
  <1>3. \E x \in T : \A y \in T : ~(<<y, x>> \in R)
    BY <1>2, NatLessThanWellFounded, WFMin, ZenonT(60)
  <1>4. PICK x \in T : \A y \in T : ~(<<y, x>> \in R)
    BY Zenon, <1>3
  <1>5. \A y \in T : ~(y < x)
    BY Zenon, <1>2, <1>4 DEF OpToRel
  <1>6. x \in (i + 1)..(Last + 1) /\ Good(x)
    BY <1>1, <1>5
  <1>7. NextRender(c, refs, i) = CHOOSE j \in (i + 1)..(Last + 1) : Good(j)
    BY DEF NextRender
  <1> HIDE DEF Good
  <1>8. NextRender(c, refs, i) \in (i + 1)..(Last + 1) /\ Good(NextRender(c, refs, i))
    BY <1>6, <1>7, Zenon
  <1> QED
    BY <1>8 DEF Good

\* A step that is not skipped is the next one after the step before it.
LEMMA NextIsCurrent ==
    ASSUME NEW c, NEW refs, NEW i \in 1..Last, ~Skipped(c, refs, renderSteps[i])
    PROVE  NextRender(c, refs, i - 1) = i
  <1> DEFINE j == NextRender(c, refs, i - 1)
  <1>0. Last = 13
    BY LastIs
  <1>1. Last = 13 /\ i - 1 \in 0..Last
    BY <1>0
  <1>2. j \in (i - 1 + 1)..(Last + 1) /\ \A k \in (i - 1 + 1)..(j - 1) : Skipped(c, refs, renderSteps[k])
    BY <1>1, NextRenderIs
  <1> HIDE DEF j
  <1>3. j >= i /\ (j > i => i \in (i - 1 + 1)..(j - 1))
    BY <1>1, <1>2
  <1>4. ~(j > i)
    BY <1>2, <1>3
  <1> QED
    BY <1>1, <1>2, <1>3, <1>4 DEF j

-------------------------------------------------------------------------------
Shapes == [kind: Recreated \union {InitialKinds[t] : t \in Templates}, ver: Nat, ok: BOOLEAN]

Refs == RefsIn(Fields)

Phases == {"", "Provisioning", "WaitingDependency", "Ready", "Failed"}

Outcomes == [through: 0..Last, rejected: BOOLEAN, lost: BOOLEAN]

TypeOK ==
    /\ tmpl \in [Templates -> Shapes \union {NoTemplate}] /\ ctmpl \in [Templates -> Shapes \union {NoTemplate}]
    /\ spec \in [Claims -> [gen: Nat, refs: Refs]] /\ cspec \in [Claims -> [gen: Nat, refs: Refs]]
    /\ \A k \in DOMAIN objects : objects[k] \in ObjectRecords
    /\ version \in [ClusterKeys -> Versions \union {NoVersion}]
    /\ pass \in [Claims -> PassesWith(Refs) \union {NoPass}]
    /\ status \in [Claims -> [phase: Phases, mirror: Mirrors]]
    /\ outcome \in [Claims -> Outcomes]
    /\ budget \in [{"template", "edit", "cluster", "fault"} -> Nat]

\* A running pass is at a step it does not skip, at the call that step has, or through.
Placed(c) ==
    /\ pass[c].at \in 1..(Last + 1)
    /\ pass[c].at <= Last => ~Skipped(c, pass[c].spec.refs, Current(c))
    /\ pass[c].sub = "check" => pass[c].at <= Last /\ Current(c).field \in VaultFamily
    /\ pass[c].sub = "await" => pass[c].at <= Last /\ Current(c).kind = "Cluster"

AllPlaced == \A c \in Claims : pass[c] # NoPass => Placed(c)

\* What a set of references is.
LEMMA RefsFacts ==
    ASSUME NEW refs \in Refs
    PROVE  DOMAIN refs \subseteq Fields /\ \A f \in DOMAIN refs : refs[f] \in Templates
  BY DEF Refs, RefsIn

\* Setting one reference.
LEMMA RefsPut ==
    ASSUME NEW refs \in Refs, NEW f \in Fields, NEW t \in Templates PROVE Put(refs, f, t) \in Refs
  <1> DEFINE g == Put(refs, f, t)
             set == DOMAIN refs \union {f}
  <1>1. set \in SUBSET Fields
    BY RefsFacts
  <1>2. g \in [set -> Templates]
    BY RefsFacts DEF Put
  <1> QED
    BY <1>1, <1>2 DEF Refs, RefsIn

\* The conversion to int32 leaves a number alone that fits.
LEMMA Int32Facts == ASSUME NEW n \in Int PROVE int32(n) \in Int /\ (Fits(n) => int32(n) = n)
  <1> DEFINE h == 2 ^ (Width - 1)
             m == 2 ^ Width
  <1>1. h \in Nat /\ h > 0 /\ m = 2 * h
    BY MirrorAssumption
  <1>2. int32(n) = ((n + h) % m) - h /\ (Fits(n) <=> n >= -h /\ n < h)
    BY DEF int32, Fits
  <1> HIDE DEF h, m
  <1>3. m \in Nat /\ m > 0 /\ n + h \in Int
    BY <1>1
  <1>4. (n + h) % m \in 0..(m - 1)
    BY <1>3
  <1>5. \A x \in Int : 0 <= x /\ x < m => x % m = x
    BY <1>3
  <1>6. Fits(n) => 0 <= n + h /\ n + h < m
    BY <1>1, <1>2
  <1>7. Fits(n) => (n + h) % m = n + h
    BY <1>3, <1>5, <1>6
  <1> QED
    BY <1>1, <1>2, <1>3, <1>4, <1>7

\* Objects under their keys: there is none, or it has the shape of one.
LEMMA ObjectType ==
    ASSUME TypeOK, NEW k
    PROVE  /\ Object(k) = NoObject <=> k \notin DOMAIN objects
           /\ Object(k) # NoObject => Object(k) \in ObjectRecords /\ objects[k] = Object(k)
  BY MarkersAssumption DEF TypeOK, Object

\* What the prefetch shows of a cluster.
LEMMA ClustersAre ==
    ASSUME TypeOK, NEW c, NEW r \in Roles
    PROVE  /\ Clusters(c)[r] = IF Object(ClusterKey(c, r)) = NoObject \/ (r = "client" /\ c \notin Clients)
                               THEN NoCluster ELSE Object(ClusterKey(c, r)).status
           /\ Clusters(c)[r] \in ClusterStatuses \union {NoCluster}
  <1>1. Clusters(c)[r] = IF Object(ClusterKey(c, r)) = NoObject \/ (r = "client" /\ c \notin Clients)
                         THEN NoCluster ELSE Object(ClusterKey(c, r)).status
    BY ObjectType DEF Clusters
  <1>2. Object(ClusterKey(c, r)) # NoObject => Object(ClusterKey(c, r)).status \in ClusterStatuses
    BY ObjectType DEF ObjectRecords
  <1> QED
    BY <1>1, <1>2

\* The template context and the mirror have the shapes they should.
LEMMA ContextType ==
    ASSUME NEW clusters, \A r \in Roles : clusters[r] \in ClusterStatuses \union {NoCluster}
    PROVE  BuildContext(clusters) \in Contexts
           /\ \A r \in Roles : clusters[r] # NoCluster => populateClusterFields(clusters[r]) \in [up: BOOLEAN, count: Int]
  <1>1. ASSUME NEW x \in ClusterStatuses PROVE populateClusterFields(x) \in [up: BOOLEAN, count: Int]
    <2>1. x.up \in BOOLEAN /\ x.replicas \in Value
      BY DEF ClusterStatuses
    <2>2. NestedInt64(x.replicas) \in Int
      BY <2>1 DEF NestedInt64, Value
    <2>3. int32(NestedInt64(x.replicas)) \in Int
      BY <2>2, Int32Facts
    <2> QED
      BY <2>1, <2>3 DEF populateClusterFields
  <1>2. NoFields \in [up: BOOLEAN, count: Int]
    BY DEF NoFields
  <1>3. \A r \in Roles : clusters[r] # NoCluster => populateClusterFields(clusters[r]) \in [up: BOOLEAN, count: Int]
    BY <1>1
  <1>4. BuildContext(clusters) \in [Roles -> [up: BOOLEAN, count: Int]]
    BY <1>2, <1>3 DEF BuildContext
  <1> QED
    BY <1>3, <1>4 DEF Contexts

\* The number and the version of a summary.
LEMMA SummaryType ==
    ASSUME NEW x \in ClusterStatuses, NEW v \in Versions \union {NoVersion}
    PROVE  extractClusterStatusSummary(x, v) \in [count: Int, version: Versions \union {NoVersion}, there: BOOLEAN]
  <1>1. x.replicas \in Value
    BY DEF ClusterStatuses
  <1>2. toInt32(x.replicas) \in Int
    BY <1>1, Int32Facts DEF toInt32, Value
  <1>3. fetchControlPlaneVersion(x, v) \in Versions \union {NoVersion}
    BY DEF fetchControlPlaneVersion
  <1> QED
    BY <1>2, <1>3 DEF extractClusterStatusSummary

\* The mirror that a pass writes.
LEMMA MirrorType ==
    ASSUME NEW old \in Mirrors, NEW clusters, NEW versions,
           \A r \in Roles : clusters[r] \in ClusterStatuses \union {NoCluster},
           \A r \in Roles : versions[r] \in Versions \union {NoVersion}
    PROVE  syncClusterStatuses(old, clusters, versions) \in Mirrors
  <1>1. \A r \in Roles : clusters[r] # NoCluster =>
          extractClusterStatusSummary(clusters[r], versions[r]) \in [count: Int, version: Versions \union {NoVersion}, there: BOOLEAN]
    BY SummaryType
  <1>2. \A r \in Roles : old[r] \in [count: Int, version: Versions \union {NoVersion}, there: BOOLEAN]
    BY DEF Mirrors
  <1> DEFINE S == [count: Int, version: Versions \union {NoVersion}, there: BOOLEAN]
  <1> HIDE DEF S
  <1>3. syncClusterStatuses(old, clusters, versions) \in [Roles -> S]
    BY <1>1, <1>2 DEF syncClusterStatuses, S
  <1> QED
    BY <1>3 DEF Mirrors, S

Typed == TypeOK /\ AllPlaced

\* A pass is put somewhere else, or a new one starts.
LEMMA PassPut ==
    ASSUME Typed, NEW c \in Claims, NEW p \in PassesWith(Refs), pass' = [pass EXCEPT ![c] = p], Placed(c)'
    PROVE  pass' \in [Claims -> PassesWith(Refs) \union {NoPass}] /\ AllPlaced' /\ pass'[c] = p /\ p # NoPass
  <1>1. p # NoPass
    BY MarkersAssumption DEF Refs
  <1>2. pass' \in [Claims -> PassesWith(Refs) \union {NoPass}] /\ pass'[c] = p
        /\ \A d \in Claims \ {c} : pass'[d] = pass[d]
    BY ZenonT(60) DEF Typed, TypeOK
  <1>3. ASSUME NEW d \in Claims, d # c, pass'[d] # NoPass PROVE Placed(d)'
    <2>1. Placed(d) /\ pass'[d] = pass[d]
      BY <1>2, <1>3 DEF Typed, AllPlaced
    <2> QED
      BY <2>1 DEF Placed, Current
  <1> QED
    BY <1>1, <1>2, <1>3 DEF AllPlaced

\* A pass ends.
LEMMA EndTypes ==
    ASSUME Typed, NEW c \in Claims, pass[c] # NoPass, NEW phase \in Phases, NEW requeue, NEW rejected \in BOOLEAN,
           End(c, phase, requeue, rejected)
    PROVE  /\ pass' \in [Claims -> PassesWith(Refs) \union {NoPass}] /\ AllPlaced'
           /\ status' \in [Claims -> [phase: Phases, mirror: Mirrors]] /\ outcome' \in [Claims -> Outcomes]
  <1>1. pass[c] \in PassesWith(Refs) /\ Placed(c)
    BY DEF Typed, TypeOK, AllPlaced
  <1>2. pass[c].mirror \in Mirrors
    BY <1>1 DEF PassesWith
  <1>3. pass[c].at - 1 \in 0..Last
    BY <1>1, LastIs DEF Placed
  <1> DEFINE new == [phase |-> phase, mirror |-> pass[c].mirror]
             o == [through |-> pass[c].at - 1, rejected |-> rejected, lost |-> status'[c] # new]
  <1>4. pass' = [pass EXCEPT ![c] = NoPass] /\ outcome' = [outcome EXCEPT ![c] = o]
    BY Zenon DEF End
  <1>5. status' = status \/ status' = [status EXCEPT ![c] = [phase |-> phase, mirror |-> pass[c].mirror]]
    BY Zenon DEF End, updateStatusIfChanged
  <1>6. pass' \in [Claims -> PassesWith(Refs) \union {NoPass}] /\ pass'[c] = NoPass
        /\ \A d \in Claims \ {c} : pass'[d] = pass[d]
    BY ZenonT(60), <1>4 DEF Typed, TypeOK
  <1>7. ASSUME NEW d \in Claims, pass'[d] # NoPass PROVE Placed(d)'
    <2>1. Placed(d) /\ pass'[d] = pass[d]
      BY <1>6, <1>7 DEF Typed, AllPlaced
    <2> QED
      BY <2>1 DEF Placed, Current
  <1>8. outcome' \in [Claims -> Outcomes]
    <2>1. (status'[c] # new) \in BOOLEAN
      OBVIOUS
    <2>2. o \in Outcomes
      BY ZenonT(60), <1>3, <2>1 DEF Outcomes
    <2> HIDE DEF o
    <2> QED
      BY ZenonT(60), <1>4, <2>2 DEF Typed, TypeOK
  <1>9. status' \in [Claims -> [phase: Phases, mirror: Mirrors]]
    <2> DEFINE S == [phase: Phases, mirror: Mirrors]
    <2>1. [phase |-> phase, mirror |-> pass[c].mirror] \in S
      BY <1>2
    <2>2. status \in [Claims -> S]
      BY DEF Typed, TypeOK
    <2> HIDE DEF S
    <2>3. status' \in [Claims -> S]
      BY <1>5, <2>1, <2>2
    <2> QED
      BY <2>3 DEF S
  <1> QED
    BY <1>6, <1>7, <1>8, <1>9 DEF AllPlaced

\* A pass stays at its step, or comes to the next.
LEMMA GotoTypes ==
    ASSUME Typed, NEW c \in Claims, pass[c] # NoPass, NEW i, NEW sub, NEW ctx \in Contexts, Goto(c, i, sub, ctx),
           \/ i = pass[c].at /\ i \in 1..Last /\ sub = "apply"
           \/ i = pass[c].at /\ i \in 1..Last /\ sub = "await" /\ Current(c).kind = "Cluster"
           \/ pass[c].at \in 1..Last /\ i = NextRender(c, pass[c].spec.refs, pass[c].at) /\ sub = FirstCall(i)
    PROVE  /\ pass' \in [Claims -> PassesWith(Refs) \union {NoPass}] /\ AllPlaced'
           /\ pass'[c] = [pass[c] EXCEPT !.at = i, !.sub = sub, !.ctx = ctx] /\ pass'[c] # NoPass
           /\ pass'[c].at = i /\ pass'[c].sub = sub /\ pass'[c].ctx = ctx /\ pass'[c].spec = pass[c].spec
           /\ pass'[c].mirror = pass[c].mirror
  <1> DEFINE p == [pass[c] EXCEPT !.at = i, !.sub = sub, !.ctx = ctx]
  <1>1. pass[c] \in PassesWith(Refs) /\ Placed(c)
    BY DEF Typed, TypeOK, AllPlaced
  <1>2. i \in 1..(Last + 1) /\ (i <= Last => ~Skipped(c, pass[c].spec.refs, renderSteps[i]))
    <2>1. CASE i = pass[c].at
      BY <1>1, <2>1 DEF Placed, Current
    <2>2. CASE pass[c].at \in 1..Last /\ i = NextRender(c, pass[c].spec.refs, pass[c].at)
      <3>1. pass[c].at \in 0..Last
        BY <2>2
      <3>2. PICK a, refs : a = pass[c].at /\ refs = pass[c].spec.refs
        BY Zenon
      <3>3. a \in 0..Last /\ i = NextRender(c, refs, a)
        BY ZenonT(60), <2>2, <3>1, <3>2
      <3>4. i \in 1..(Last + 1) /\ (i <= Last => ~Skipped(c, refs, renderSteps[i]))
        BY <3>3, NextRenderIs, LastIs
      <3> QED
        BY Zenon, <3>2, <3>4
    <2> QED
      BY ZenonT(60), <2>1, <2>2
  <1>3. sub \in {"check", "apply", "await"} /\ i \in Nat
    BY <1>2, LastIs DEF FirstCall
  <1>4. /\ sub = "check" => i <= Last /\ renderSteps[i].field \in VaultFamily
        /\ sub = "await" => i <= Last /\ renderSteps[i].kind = "Cluster"
    BY LastIs DEF FirstCall, Current
  <1>5. pass' = [pass EXCEPT ![c] = p]
    BY DEF Goto
  <1>6. /\ p \in PassesWith(Refs) /\ p.at = i /\ p.sub = sub /\ p.ctx = ctx /\ p.spec = pass[c].spec
        /\ p.mirror = pass[c].mirror
    BY Zenon, <1>1, <1>3 DEF PassesWith
  <1> HIDE DEF p
  <1>7. pass'[c] = p
    BY ZenonT(60), <1>5 DEF Typed, TypeOK
  <1>8. Placed(c)'
    BY ZenonT(60), <1>2, <1>4, <1>6, <1>7 DEF Placed, Current
  <1> QED
    BY Zenon, <1>5, <1>6, <1>7, <1>8, PassPut DEF p

\* A pass begins.
LEMMA BeginTypes ==
    ASSUME Typed, NEW c \in Claims, Begin(c)
    PROVE  /\ pass' \in [Claims -> PassesWith(Refs) \union {NoPass}] /\ AllPlaced' /\ pass'[c] # NoPass
           /\ pass'[c].at = NextRender(c, cspec[c].refs, 0) /\ pass'[c].sub # "await" /\ pass'[c].spec = cspec[c]
           /\ pass'[c].ctx = BuildContext(Clusters(c))
           /\ pass'[c].mirror = syncClusterStatuses(status[c].mirror, Clusters(c),
                                                    [r \in Roles |-> version[ClusterKey(c, r)]])
  <1> DEFINE j == NextRender(c, cspec[c].refs, 0)
             x == BuildContext(Clusters(c))
             m == syncClusterStatuses(status[c].mirror, Clusters(c), [r \in Roles |-> version[ClusterKey(c, r)]])
             p == [at |-> j, sub |-> FirstCall(j), spec |-> cspec[c], ctx |-> x, mirror |-> m]
  <1>1. j \in 1..(Last + 1) /\ (j <= Last => ~Skipped(c, cspec[c].refs, renderSteps[j]))
    BY NextRenderIs, LastIs
  <1>2. FirstCall(j) \in {"check", "apply"} /\ (FirstCall(j) = "check" => j <= Last /\ renderSteps[j].field \in VaultFamily)
    BY DEF FirstCall
  <1>3. x \in Contexts
    BY ClustersAre, ContextType DEF Typed
  <1>4. m \in Mirrors
    <2> DEFINE v == [r \in Roles |-> version[ClusterKey(c, r)]]
    <2>1. \A r \in Roles : v[r] \in Versions \union {NoVersion}
      BY DEF Typed, TypeOK, ClusterKeys
    <2>2. status[c].mirror \in Mirrors
      BY DEF Typed, TypeOK
    <2>3. \A r \in Roles : Clusters(c)[r] \in ClusterStatuses \union {NoCluster}
      BY ClustersAre DEF Typed
    <2> HIDE DEF v
    <2>4. syncClusterStatuses(status[c].mirror, Clusters(c), v) \in Mirrors
      BY ZenonT(60), <2>1, <2>2, <2>3, MirrorType
    <2> QED
      BY <2>4 DEF v
  <1>5. cspec[c] \in [gen: Nat, refs: Refs]
    BY ZenonT(60) DEF Typed, TypeOK
  <1>6. pass' = [pass EXCEPT ![c] = p]
    BY ZenonT(60) DEF Begin
  <1> HIDE DEF j, x, m
  <1>7. p \in PassesWith(Refs)
    BY <1>1, <1>2, <1>3, <1>4, <1>5, LastIs DEF PassesWith
  <1>8. p.at = j /\ p.sub = FirstCall(j) /\ p.spec = cspec[c] /\ p.ctx = x /\ p.mirror = m
    OBVIOUS
  <1> HIDE DEF p
  <1>9. pass'[c] = p
    BY ZenonT(60), <1>6 DEF Typed, TypeOK
  <1>10. Placed(c)'
    BY <1>1, <1>2, <1>8, <1>9 DEF Placed, Current
  <1>11. pass' \in [Claims -> PassesWith(Refs) \union {NoPass}] /\ AllPlaced' /\ p # NoPass
    BY Zenon, <1>6, <1>7, <1>10, PassPut
  <1> QED
    BY ZenonT(60), <1>2, <1>8, <1>9, <1>11 DEF j, x, m

-------------------------------------------------------------------------------
\* Storing or removing an object changes that one and queues its owners if it is a change.
LEMMA StoreEffect ==
    ASSUME TypeOK, NEW k, NEW o, Store(k, o), o = NoObject \/ o \in ObjectRecords
    PROVE  /\ \A j \in DOMAIN objects' : objects'[j] \in ObjectRecords
           /\ Object(k)' = o /\ \A j : j # k => Object(j)' = Object(j)
           /\ queued \subseteq queued' /\ (o # Object(k) => OwnerOf(o) \union OwnerOf(Object(k)) \subseteq queued')
  <1>1. CASE o = NoObject
    BY <1>1 DEF Store, Object, TypeOK
  <1>2. CASE o # NoObject
    BY ZenonT(60), <1>2 DEF Store, Object, TypeOK, Put
  <1> QED
    BY ZenonT(60), <1>1, <1>2

\* What a step builds has the shape of an object and carries what it was built from.
LEMMA BuiltType ==
    ASSUME NEW c \in Claims, NEW i \in 1..Last, NEW t, t.ver \in Nat, NEW ctx \in Contexts,
           NEW old, old = NoObject \/ old \in ObjectRecords
    PROVE  LET s == renderSteps[i]
               o == buildDesiredResource(c, s, t, ctx, old) IN
           /\ o \in ObjectRecords /\ o # NoObject
           /\ o.owner = (IF s.kind = "ConfigMap" THEN Nobody ELSE c) /\ o.step = s
           /\ o.labels = MergeLabels(TemplateLabels, StandardLabels(c)) /\ o.ver = t.ver /\ o.ctx = ctx
  <1> DEFINE s == renderSteps[i]
             o == buildDesiredResource(c, s, t, ctx, old)
             x == IF old = NoObject THEN Blank ELSE old.status
             w == IF s.kind = "ConfigMap" THEN Nobody ELSE c
             l == MergeLabels(TemplateLabels, StandardLabels(c))
  <1>1. o = [owner |-> w, labels |-> l, ver |-> t.ver, ctx |-> ctx, step |-> s, status |-> x]
    BY Zenon DEF buildDesiredResource
  <1>2. Blank \in ClusterStatuses
    BY DEF Blank, ClusterStatuses, Missing, Value
  <1>3. x \in ClusterStatuses
    BY <1>2 DEF ObjectRecords
  <1>4. w \in Claims \union {Nobody} /\ s \in {renderSteps[j] : j \in 1..Last} 
        /\ l \in {MergeLabels(TemplateLabels, StandardLabels(d)) : d \in Claims}
    BY ZenonT(60)
  <1> HIDE DEF o, x, w, l, s
  <1>5. o \in ObjectRecords
    BY ZenonT(60), <1>1, <1>3, <1>4 DEF ObjectRecords
  <1>6. o.owner = w /\ o.step = s /\ o.labels = l /\ o.ver = t.ver /\ o.ctx = ctx
    BY <1>1
  <1>7. o # NoObject
    BY ZenonT(60), <1>5, MarkersAssumption
  <1> QED
    BY <1>5, <1>6, <1>7 DEF s, o, w, l

\* What ensureResource does once it has a template that renders.
Applies(c, t, k, o) ==
    /\ At(c, "apply") /\ pass[c].at \in 1..Last /\ t = Template(c) /\ t \in Shapes /\ t # NoTemplate /\ t.ok
    /\ k = Key(c, Current(c), t.kind) /\ o = buildDesiredResource(c, Current(c), t, pass[c].ctx, Object(k))
    /\ o \in ObjectRecords /\ o # NoObject /\ Store(k, o)

\* A template that a pass finds.
LEMMA TemplateType == ASSUME Typed, NEW c \in Claims, pass[c] # NoPass PROVE Template(c) \in Shapes \union {NoTemplate}
  <1>1. pass[c].spec.refs \in Refs
    BY DEF Typed, TypeOK, PassesWith
  <1>2. \A f \in DOMAIN pass[c].spec.refs : pass[c].spec.refs[f] \in Templates
    BY <1>1, RefsFacts
  <1> QED
    BY <1>2 DEF Template, Typed, TypeOK

\* ensureResource fails for good, or applies an object and fails for now, waits or goes on.
LEMMA EnsureCases ==
    ASSUME Typed, NEW c \in Claims, ensureResource(c)
    PROVE  \/ At(c, "apply") /\ (Template(c) = NoTemplate \/ ~Template(c).ok) /\ TerminalError(c, FALSE)
              /\ UNCHANGED <<objects, queued>>
           \/ \E t, k, o : /\ Applies(c, t, k, o)
                           /\ \/ ~ensureResourceFinalizer(c, k) /\ TransientError(c)
                              \/ ensureResourceFinalizer(c, k) /\ Current(c).kind = "Cluster"
                                 /\ Goto(c, pass[c].at, "await", pass[c].ctx)
                              \/ ensureResourceFinalizer(c, k) /\ Current(c).kind # "Cluster" /\ Proceed(c, pass[c].ctx)
  <1> DEFINE t == Template(c)
             k == Key(c, Current(c), t.kind)
             o == buildDesiredResource(c, Current(c), t, pass[c].ctx, Object(k))
  <1>1. At(c, "apply") /\ pass[c] # NoPass /\ pass[c].at \in 1..Last
    BY DEF ensureResource, At
  <1>2. CASE t = NoTemplate \/ ~t.ok
    BY <1>1, <1>2, Zenon DEF ensureResource
  <1>3. CASE ~(t = NoTemplate \/ ~t.ok)
    <2>1. /\ Store(k, o)
          /\ \/ ~ensureResourceFinalizer(c, k) /\ TransientError(c)
             \/ ensureResourceFinalizer(c, k) /\ Current(c).kind = "Cluster"
                /\ Goto(c, pass[c].at, "await", pass[c].ctx)
             \/ ensureResourceFinalizer(c, k) /\ Current(c).kind # "Cluster" /\ Proceed(c, pass[c].ctx)
      BY <1>3, Zenon DEF ensureResource
    <2>2. t \in Shapes /\ t.ver \in Nat
      BY <1>1, <1>3, TemplateType DEF Shapes
    <2>3. pass[c].ctx \in Contexts
      BY <1>1 DEF Typed, TypeOK, PassesWith
    <2>4. o \in ObjectRecords /\ o # NoObject
      <3>1. Object(k) = NoObject \/ Object(k) \in ObjectRecords
        BY ObjectType DEF Typed
      <3>2. t.ver \in Nat /\ Current(c) = renderSteps[pass[c].at]
        BY ZenonT(60), <2>2 DEF Current
      <3> DEFINE i == pass[c].at
                 x == pass[c].ctx
                 old == Object(k)
      <3>3. i \in 1..Last /\ x \in Contexts /\ (old = NoObject \/ old \in ObjectRecords)
        BY ZenonT(60), <1>1, <2>3, <3>1
      <3> HIDE DEF t, i, x, old
      <3>4. t.ver \in Nat
        BY <3>2
      <3>5. buildDesiredResource(c, renderSteps[i], t, x, old) \in ObjectRecords
        BY <3>3, <3>4, BuiltType, Zenon
      <3> QED
        BY <3>2, <3>5, MarkersAssumption, Zenon DEF i, x, old
    <2>5. Applies(c, t, k, o)
      BY <1>1, <1>3, <2>1, <2>2, <2>4, Zenon DEF Applies
    <2> QED
      BY <2>1, <2>5, Zenon
  <1> QED
    BY ZenonT(60), <1>2, <1>3

\* The new status of a cluster leaves the rest of its object alone.
LEMMA StatusType ==
    ASSUME NEW o \in ObjectRecords, NEW x \in ClusterStatuses
    PROVE  LET p == [o EXCEPT !.status = x] IN p \in ObjectRecords /\ p # NoObject /\ p.owner = o.owner /\ p.step = o.step
  BY MarkersAssumption DEF ObjectRecords

\* What happens to a cluster: it gets another status or goes.
LEMMA ClusterCases ==
    ASSUME TypeOK, NEW k \in ClusterKeys, ClusterUp(k) \/ ClusterReports(k) \/ ClusterGone(k)
    PROVE  \E o : /\ Object(k) # NoObject /\ Store(k, o)
                  /\ \/ o = NoObject
                     \/ o \in ObjectRecords /\ o.owner = Object(k).owner /\ o.step = Object(k).step
                  /\ UNCHANGED <<tmpl, ctmpl, spec, cspec, version, timer, pass, status, outcome>>
  <1>1. k \in DOMAIN objects
    BY DEF ClusterUp, ClusterReports, ClusterGone, OnCluster
  <1>2. Object(k) = objects[k] /\ objects[k] \in ObjectRecords /\ Object(k) # NoObject
    BY ZenonT(60), <1>1, ObjectType
  <1>3. objects[k].status \in ClusterStatuses
    BY <1>2 DEF ObjectRecords
  <1>4. CASE ClusterUp(k)
    <2> DEFINE x == [objects[k].status EXCEPT !.up = TRUE]
               o == [objects[k] EXCEPT !.status = x]
    <2>1. OnCluster(k, o)
      BY <1>4 DEF ClusterUp
    <2>2. x \in ClusterStatuses
      BY Zenon, <1>3 DEF ClusterStatuses
    <2> HIDE DEF x
    <2>3. o \in ObjectRecords /\ o.owner = objects[k].owner /\ o.step = objects[k].step
      BY <1>2, <2>2, StatusType
    <2> QED
      BY <1>2, <2>1, <2>3, Zenon DEF OnCluster
  <1>5. CASE ClusterReports(k)
    <2>1. PICK v \in Reports : OnCluster(k, [objects[k] EXCEPT !.status.replicas = v])
      BY <1>5 DEF ClusterReports
    <2> DEFINE x == [objects[k].status EXCEPT !.replicas = v]
               o == [objects[k] EXCEPT !.status = x]
    <2>2. OnCluster(k, o)
      BY <2>1
    <2>3. x \in ClusterStatuses
      BY <1>3, FleetAssumption DEF ClusterStatuses
    <2> HIDE DEF x
    <2>4. o \in ObjectRecords /\ o.owner = objects[k].owner /\ o.step = objects[k].step
      BY <1>2, <2>3, StatusType
    <2> QED
      BY <1>2, <2>2, <2>4, Zenon DEF OnCluster
  <1>6. CASE ClusterGone(k)
    BY <1>2, <1>6, Zenon DEF ClusterGone, OnCluster
  <1> QED
    BY <1>4, <1>5, <1>6

\* What the pass of a claim leaves alone.
Around == <<tmpl, ctmpl, spec, cspec, version>>

\* The terminal error of the step a pass is at has a cause in the template.
Cause(c, t) == t = NoTemplate \/ ~t.ok \/ (Current(c).field \in VaultFamily /\ t.kind # Current(c).kind)

\* The ways a pass ends without applying anything.
EndsIdle(c) ==
    /\ UNCHANGED <<objects, queued>>
    /\ \/ End(c, "Failed", FALSE, FALSE) /\ pass[c].at \in 1..Last /\ Cause(c, Template(c))
       \/ End(c, "Failed", FALSE, TRUE)
       \/ End(c, "Provisioning", TRUE, FALSE) \/ End(c, "WaitingDependency", TRUE, FALSE)
       \/ End(c, "Ready", TRUE, FALSE) /\ pass[c].at > Last

\* The ways it goes on without applying anything.
Checked(c) == UNCHANGED <<objects, queued>> /\ At(c, "check") /\ Goto(c, pass[c].at, "apply", pass[c].ctx)

Awaited(c, r) ==
    /\ UNCHANGED <<objects, queued>>
    /\ At(c, "await") /\ r = Current(c).part /\ r \in Roles /\ Clusters(c)[r] # NoCluster
    /\ Proceed(c, [pass[c].ctx EXCEPT ![r] = populateClusterFields(Clusters(c)[r])])

\* It applies an object.
AppliesOne(c, t, k, o) ==
    /\ Applies(c, t, k, o)
    /\ \/ ~ensureResourceFinalizer(c, k) /\ End(c, "Provisioning", TRUE, FALSE)
       \/ ensureResourceFinalizer(c, k) /\ Current(c).kind = "Cluster" /\ Goto(c, pass[c].at, "await", pass[c].ctx)
       \/ ensureResourceFinalizer(c, k) /\ Current(c).kind # "Cluster" /\ Proceed(c, pass[c].ctx)

PassMove(c) ==
    /\ pass[c] # NoPass /\ UNCHANGED Around
    /\ EndsIdle(c) \/ Checked(c) \/ (\E r : Awaited(c, r)) \/ \E t, k, o : AppliesOne(c, t, k, o)

\* Every step of a pass after its first is one of these.
LEMMA PassMoves ==
    ASSUME Typed, NEW c \in Claims,
           CheckTemplateKind(c) \/ ensureResource(c) \/ AwaitCluster(c) \/ Ready(c) \/ StepFails(c) \/ ApplyRejected(c)
    PROVE  PassMove(c)
  <1>1. CASE CheckTemplateKind(c)
    <2>1. pass[c] # NoPass /\ pass[c].at \in 1..Last /\ At(c, "check") /\ UNCHANGED Around /\ UNCHANGED <<objects, queued>>
      BY ZenonT(60), <1>1 DEF CheckTemplateKind, At, Around
    <2>2. Current(c).field \in VaultFamily
      BY <2>1 DEF Typed, AllPlaced, Placed, At
    <2>3. \/ (Template(c) = NoTemplate \/ Template(c).kind # Current(c).kind) /\ TerminalError(c, FALSE)
          \/ Goto(c, pass[c].at, "apply", pass[c].ctx)
      BY <1>1, Zenon DEF CheckTemplateKind
    <2> QED
      BY <2>1, <2>2, <2>3, Zenon DEF PassMove, EndsIdle, Cause, Checked, TerminalError
  <1>2. CASE ensureResource(c)
    <2>1. pass[c] # NoPass /\ UNCHANGED Around
      BY Zenon, <1>2 DEF ensureResource, At, Around
    <2>2. CASE At(c, "apply") /\ (Template(c) = NoTemplate \/ ~Template(c).ok) /\ TerminalError(c, FALSE)
              /\ UNCHANGED <<objects, queued>>
      BY <2>1, <2>2, Zenon DEF PassMove, EndsIdle, Cause, TerminalError, At
    <2>3. CASE \E t, k, o : /\ Applies(c, t, k, o)
                           /\ \/ ~ensureResourceFinalizer(c, k) /\ TransientError(c)
                              \/ ensureResourceFinalizer(c, k) /\ Current(c).kind = "Cluster"
                                 /\ Goto(c, pass[c].at, "await", pass[c].ctx)
                              \/ ensureResourceFinalizer(c, k) /\ Current(c).kind # "Cluster" /\ Proceed(c, pass[c].ctx)
      BY <2>1, <2>3, Zenon DEF PassMove, AppliesOne, TransientError
    <2> QED
      BY <1>2, <2>2, <2>3, EnsureCases
  <1>3. CASE AwaitCluster(c)
    <2> DEFINE r == Current(c).part
    <2>1. pass[c] # NoPass /\ pass[c].at \in 1..Last /\ At(c, "await") /\ UNCHANGED Around /\ UNCHANGED <<objects, queued>>
      BY Zenon, <1>3 DEF AwaitCluster, At, Around
    <2>2. r \in Roles
      BY Zenon, <2>1, StepFacts DEF Typed, AllPlaced, Placed, At, Current
    <2>3. \/ TransientError(c) \/ End(c, "WaitingDependency", TRUE, FALSE)
          \/ /\ Clusters(c)[r] # NoCluster
             /\ Proceed(c, [pass[c].ctx EXCEPT ![r] = populateClusterFields(Clusters(c)[r])])
      BY <1>3, Zenon DEF AwaitCluster
    <2> QED
      BY <2>1, <2>2, <2>3, Zenon DEF PassMove, EndsIdle, Awaited, TransientError
  <1>4. CASE Ready(c)
    BY <1>4, Zenon DEF Ready, PassMove, EndsIdle, Around
  <1>5. CASE StepFails(c)
    BY <1>5, Zenon DEF StepFails, PassMove, EndsIdle, Around, TransientError, At
  <1>6. CASE ApplyRejected(c)
    BY <1>6, Zenon DEF ApplyRejected, PassMove, EndsIdle, Around, TerminalError, At
  <1> QED
    BY <1>1, <1>2, <1>3, <1>4, <1>5, <1>6

\* A pass that goes on after an await has a context of the right shape.
LEMMA AwaitedContext ==
    ASSUME Typed, NEW c \in Claims, pass[c] # NoPass, NEW r \in Roles, Clusters(c)[r] # NoCluster
    PROVE  [pass[c].ctx EXCEPT ![r] = populateClusterFields(Clusters(c)[r])] \in Contexts
  <1>1. pass[c].ctx \in [Roles -> [up: BOOLEAN, count: Int]]
    BY DEF Typed, TypeOK, PassesWith, Contexts
  <1>2. populateClusterFields(Clusters(c)[r]) \in [up: BOOLEAN, count: Int]
    <2>1. \A q \in Roles : Clusters(c)[q] \in ClusterStatuses \union {NoCluster}
      BY ClustersAre DEF Typed
    <2> QED
      BY Zenon, <2>1, ContextType
  <1> DEFINE S == [up: BOOLEAN, count: Int]
             x == populateClusterFields(Clusters(c)[r])
  <1> HIDE DEF S, x
  <1>3. [pass[c].ctx EXCEPT ![r] = x] \in [Roles -> S]
    BY ZenonT(60), <1>1, <1>2 DEF S, x
  <1> QED
    BY <1>3 DEF Contexts, S, x

\* The steps of passes keep the types.
LEMMA PassTypes ==
    ASSUME Typed, NEW c \in Claims, PassMove(c)
    PROVE  /\ pass' \in [Claims -> PassesWith(Refs) \union {NoPass}] /\ AllPlaced'
           /\ status' \in [Claims -> [phase: Phases, mirror: Mirrors]] /\ outcome' \in [Claims -> Outcomes]
           /\ \A k \in DOMAIN objects' : objects'[k] \in ObjectRecords
  <1> DEFINE Good == /\ pass' \in [Claims -> PassesWith(Refs) \union {NoPass}] /\ AllPlaced'
                     /\ status' \in [Claims -> [phase: Phases, mirror: Mirrors]] /\ outcome' \in [Claims -> Outcomes]
  <1>1. pass[c] # NoPass /\ pass[c].ctx \in Contexts
    BY DEF PassMove, Typed, TypeOK, PassesWith
  <1>2. /\ End(c, "Failed", FALSE, FALSE) => Good
        /\ End(c, "Failed", FALSE, TRUE) => Good
        /\ End(c, "Provisioning", TRUE, FALSE) => Good
        /\ End(c, "WaitingDependency", TRUE, FALSE) => Good
        /\ End(c, "Ready", TRUE, FALSE) => Good
    <2>1. ASSUME NEW phase \in Phases, NEW requeue, NEW rejected \in BOOLEAN, End(c, phase, requeue, rejected) PROVE Good
      BY <1>1, <2>1, EndTypes
    <2> HIDE DEF Good
    <2>2. TRUE \in BOOLEAN /\ FALSE \in BOOLEAN
      OBVIOUS
    <2>3. "Failed" \in Phases /\ "Provisioning" \in Phases /\ "WaitingDependency" \in Phases /\ "Ready" \in Phases
      BY DEF Phases
    <2> QED
      BY <2>1, <2>2, <2>3, Zenon
  <1>3. ASSUME NEW i, NEW sub, NEW ctx \in Contexts, Goto(c, i, sub, ctx),
               \/ i = pass[c].at /\ i \in 1..Last /\ sub = "apply"
               \/ i = pass[c].at /\ i \in 1..Last /\ sub = "await" /\ Current(c).kind = "Cluster"
               \/ pass[c].at \in 1..Last /\ i = NextRender(c, pass[c].spec.refs, pass[c].at) /\ sub = FirstCall(i)
        PROVE  Good
    <2>1. status' = status /\ outcome' = outcome
      BY ZenonT(60), <1>3 DEF Goto
    <2> QED
      BY Zenon, <1>1, <1>3, <2>1, GotoTypes DEF Typed, TypeOK
  <1> HIDE DEF Good
  <1>4. ASSUME NEW ctx \in Contexts, pass[c].at \in 1..Last, Proceed(c, ctx) PROVE Good
    BY ZenonT(60), <1>3, <1>4 DEF Proceed
  <1>5. CASE EndsIdle(c)
    <2>1. Good
      BY <1>2, <1>5, Zenon DEF EndsIdle
    <2> QED
      BY <1>5, <2>1 DEF EndsIdle, Typed, TypeOK, Good
  <1>6. CASE Checked(c)
    <2>1. Good
      BY ZenonT(60), <1>1, <1>3, <1>6 DEF Checked, At
    <2> QED
      BY ZenonT(60), <1>6, <2>1 DEF Checked, Typed, TypeOK, Good
  <1>7. ASSUME NEW r, Awaited(c, r) PROVE Good /\ UNCHANGED objects
    BY ZenonT(60), <1>1, <1>4, <1>7, AwaitedContext DEF Awaited, At
  <1>8. ASSUME NEW t, NEW k, NEW o, AppliesOne(c, t, k, o)
        PROVE  Good /\ \A j \in DOMAIN objects' : objects'[j] \in ObjectRecords
    <2>1. pass[c].at \in 1..Last /\ o \in ObjectRecords /\ Store(k, o)
      BY Zenon, <1>8 DEF AppliesOne, Applies
    <2>2. Good
      <3>1. CASE End(c, "Provisioning", TRUE, FALSE)
        BY ZenonT(60), <1>2, <3>1
      <3>2. CASE Current(c).kind = "Cluster" /\ Goto(c, pass[c].at, "await", pass[c].ctx)
        BY ZenonT(60), <1>1, <1>3, <2>1, <3>2
      <3>3. CASE Proceed(c, pass[c].ctx)
        BY ZenonT(60), <1>1, <1>4, <2>1, <3>3
      <3> QED
        BY Zenon, <1>8, <3>1, <3>2, <3>3 DEF AppliesOne
    <2>3. \A j \in DOMAIN objects' : objects'[j] \in ObjectRecords
      BY <2>1, StoreEffect DEF Typed
    <2> QED
      BY <2>2, <2>3
  <1> QED
    <2>1. CASE \E r : Awaited(c, r)
      BY <1>7, <2>1 DEF Typed, TypeOK, Good
    <2>2. CASE \E t, k, o : AppliesOne(c, t, k, o)
      BY <1>8, <2>2 DEF Good
    <2> QED
      BY ZenonT(60), <1>5, <1>6, <2>1, <2>2 DEF PassMove

\* What the operator finds when it starts has the shapes it should.
LEMMA InitialTypes == ASSUME NEW k \in DOMAIN InitialObjects PROVE InitialObjects[k] \in ObjectRecords
  <1> DEFINE Made == {e \in Provisioned \X {renderSteps[i] : i \in 1..Last} :
                        ~Skipped(e[1], InitialRefs[e[1]], e[2]) /\ e[2].part # "update"}
             By == CHOOSE e \in Made : Key(e[1], e[2], e[2].kind) = k
             t == InitialTemplate(InitialRefs[By[1]][By[2].field])
             x == BuildContext(InitialClusters(By[1]))
             o == buildDesiredResource(By[1], By[2], t, x, NoObject)
  <1>1. k \in {Key(e[1], e[2], e[2].kind) : e \in Made}
        /\ InitialObjects[k] = [o EXCEPT !.status = InitialStatus(By[1])]
    BY Zenon DEF InitialObjects
  <1>2. By \in Made
    BY <1>1, Zenon
  <1>3. t.ver \in Nat
    BY DEF InitialTemplate
  <1> HIDE DEF By, t
  <1>4. By[1] \in Claims /\ By[1] \in Provisioned /\ \E i \in 1..Last : By[2] = renderSteps[i]
    BY <1>2, FleetAssumption
  <1>5. InitialStatus(By[1]) \in ClusterStatuses
    <2>1. InitialStatus(By[1]) = [up |-> TRUE, replicas |-> Missing, ref |-> "KubeadmControlPlane"]
      BY Zenon, <1>4 DEF InitialStatus, Blank
    <2>2. Missing \in Value
      BY DEF Missing, Value
    <2> QED
      BY <2>1, <2>2 DEF ClusterStatuses
  <1>6. \A r \in Roles : InitialClusters(By[1])[r] \in ClusterStatuses \union {NoCluster}
    BY <1>5 DEF InitialClusters
  <1>7. x \in Contexts
    BY <1>6, ContextType
  <1> HIDE DEF x
  <1>8. o \in ObjectRecords
    BY ZenonT(60), <1>3, <1>4, <1>7, BuiltType
  <1> HIDE DEF o
  <1> QED
    BY <1>1, <1>5, <1>8, StatusType

\* The references a claim is created with.
LEMMA InitialRefsType == ASSUME NEW c \in Claims PROVE InitialRefs[c] \in Refs
  <1>1. DOMAIN InitialRefs[c] \in SUBSET Fields /\ InitialRefs[c] \in [DOMAIN InitialRefs[c] -> Templates]
    BY FleetAssumption
  <1> QED
    BY <1>1 DEF Refs, RefsIn

\* The types hold when the operator starts.
LEMMA TypesStart == Init => Typed
  <1> SUFFICES ASSUME Init PROVE Typed
    OBVIOUS
  <1>1. \A t \in Templates : InitialTemplate(t) \in Shapes
    BY DEF InitialTemplate, Shapes
  <1>2. tmpl \in [Templates -> Shapes \union {NoTemplate}] /\ ctmpl = tmpl
    BY Zenon, <1>1 DEF Init
  <1>3. spec \in [Claims -> [gen: Nat, refs: Refs]] /\ cspec = spec
    BY Zenon, InitialRefsType DEF Init
  <1>4. \A k \in DOMAIN objects : objects[k] \in ObjectRecords
    BY Zenon, InitialTypes DEF Init
  <1>5. version \in [ClusterKeys -> Versions \union {NoVersion}] /\ budget \in [{"template", "edit", "cluster", "fault"} -> Nat]
        /\ outcome \in [Claims -> Outcomes]
    <2>1. outcome \in [Claims -> Outcomes]
      <3>1. 0 \in 0..Last /\ Last \in 0..Last
        BY LastIs
      <3>2. outcome = [c \in Claims |-> [through |-> IF c \in Provisioned THEN Last ELSE 0,
                                         rejected |-> FALSE, lost |-> FALSE]]
        BY Zenon DEF Init
      <3> QED
        BY ZenonT(60), <3>1, <3>2 DEF Outcomes
    <2> QED
      BY Zenon, <2>1, FleetAssumption DEF Init
  <1>6. pass = [c \in Claims |-> NoPass]
    BY Zenon DEF Init
  <1>7. ASSUME NEW c \in Claims
        PROVE  syncClusterStatuses([r \in Roles |-> NoSummary], InitialClusters(c), [r \in Roles |-> NoVersion]) \in Mirrors
    <2>1. [r \in Roles |-> NoSummary] \in Mirrors
      BY DEF Mirrors, NoSummary
    <2>2. \A r \in Roles : InitialClusters(c)[r] \in ClusterStatuses \union {NoCluster}
      <3>1. c \in Provisioned => InitialStatus(c) = [up |-> TRUE, replicas |-> Missing, ref |-> "KubeadmControlPlane"]
        BY Zenon DEF InitialStatus, Blank
      <3>2. Missing \in Value
        BY DEF Missing, Value
      <3>3. [up |-> TRUE, replicas |-> Missing, ref |-> "KubeadmControlPlane"] \in ClusterStatuses
        BY <3>2 DEF ClusterStatuses
      <3>4. InitialStatus(c) \in ClusterStatuses \union {NoCluster}
        BY <3>1, <3>3 DEF InitialStatus
      <3> QED
        BY <3>4 DEF InitialClusters
    <2> DEFINE v == [r \in Roles |-> NoVersion]
               m == [r \in Roles |-> NoSummary]
    <2>3. \A r \in Roles : v[r] \in Versions \union {NoVersion}
      BY ZenonT(60)
    <2> HIDE DEF v, m
    <2>4. syncClusterStatuses(m, InitialClusters(c), v) \in Mirrors
      BY ZenonT(60), <2>1, <2>2, <2>3, MirrorType DEF m
    <2> QED
      BY <2>4 DEF v, m
  <1>8. status \in [Claims -> [phase: Phases, mirror: Mirrors]]
    <2> DEFINE m(c) == syncClusterStatuses([r \in Roles |-> NoSummary], InitialClusters(c), [r \in Roles |-> NoVersion])
               f(c) == IF c \in Provisioned THEN "Ready" ELSE ""
    <2>1. status = [c \in Claims |-> [phase |-> f(c), mirror |-> m(c)]]
      BY Zenon DEF Init
    <2>2. \A c \in Claims : f(c) \in Phases /\ m(c) \in Mirrors
      BY ZenonT(60), <1>7 DEF Phases
    <2> HIDE DEF m, f
    <2> QED
      BY <2>1, <2>2
  <1>9. TypeOK
    BY ZenonT(60), <1>2, <1>3, <1>4, <1>5, <1>6, <1>8 DEF TypeOK
  <1> QED
    BY <1>6, <1>9 DEF Typed, AllPlaced

\* What the environment may still do is counted down.
LEMMA SpendType ==
    ASSUME budget \in [{"template", "edit", "cluster", "fault"} -> Nat],
           NEW kind \in {"template", "edit", "cluster", "fault"}, Spend(kind)
    PROVE  budget' \in [{"template", "edit", "cluster", "fault"} -> Nat]
  BY DEF Spend

\* Every step keeps the types.
LEMMA TypesKept == ASSUME Typed, [Next]_vars PROVE Typed'
  <1> DEFINE Objects == \A k \in DOMAIN objects' : objects'[k] \in ObjectRecords
             Passes == /\ pass' \in [Claims -> PassesWith(Refs) \union {NoPass}] /\ AllPlaced'
                       /\ status' \in [Claims -> [phase: Phases, mirror: Mirrors]] /\ outcome' \in [Claims -> Outcomes]
             Rest == /\ tmpl' \in [Templates -> Shapes \union {NoTemplate}]
                     /\ ctmpl' \in [Templates -> Shapes \union {NoTemplate}]
                     /\ spec' \in [Claims -> [gen: Nat, refs: Refs]] /\ cspec' \in [Claims -> [gen: Nat, refs: Refs]]
                     /\ version' \in [ClusterKeys -> Versions \union {NoVersion}]
                     /\ budget' \in [{"template", "edit", "cluster", "fault"} -> Nat]
  <1> SUFFICES Objects /\ Passes /\ Rest
    BY DEF Typed, TypeOK
  <1>b. budget \in [{"template", "edit", "cluster", "fault"} -> Nat]
    BY Zenon DEF Typed, TypeOK
  <1>0. /\ \A k \in DOMAIN objects : objects[k] \in ObjectRecords
        /\ UNCHANGED objects => Objects
    BY Zenon DEF Typed, TypeOK
  <1>1. UNCHANGED <<pass, status, outcome>> => Passes
    <2>1. UNCHANGED pass => AllPlaced'
      BY DEF Typed, AllPlaced, Placed, Current
    <2> QED
      BY ZenonT(60), <2>1 DEF Typed, TypeOK
  <1>2. UNCHANGED Around /\ (UNCHANGED budget \/ \E kind \in {"template", "edit", "cluster", "fault"} : Spend(kind)) => Rest
    <2>1. (UNCHANGED budget \/ \E kind \in {"template", "edit", "cluster", "fault"} : Spend(kind))
            => budget' \in [{"template", "edit", "cluster", "fault"} -> Nat]
      BY Zenon, <1>b, SpendType
    <2>2. UNCHANGED Around => UNCHANGED <<tmpl, ctmpl, spec, cspec, version>>
      BY DEF Around
    <2> QED
      BY <2>1, <2>2, Zenon DEF Typed, TypeOK
  <1> HIDE DEF Objects, Passes, Rest
  <1>3. ASSUME NEW c \in Claims, Begin(c) PROVE Objects /\ Passes /\ Rest
    <2>1. UNCHANGED <<objects, status, outcome, budget>> /\ UNCHANGED Around
      BY Zenon, <1>3 DEF Begin, Around
    <2> QED
      BY Zenon, <1>0, <1>2, <1>3, <2>1, BeginTypes DEF Passes, Typed, TypeOK
  <1>4. ASSUME NEW c \in Claims,
               CheckTemplateKind(c) \/ ensureResource(c) \/ AwaitCluster(c) \/ Ready(c) \/ StepFails(c) \/ ApplyRejected(c)
        PROVE  Objects /\ Passes /\ Rest
    <2>1. PassMove(c)
      BY <1>4, PassMoves
    <2>2. UNCHANGED Around
      BY <2>1 DEF PassMove
    <2>3. UNCHANGED budget \/ Spend("fault")
      BY <1>4, Zenon DEF CheckTemplateKind, ensureResource, AwaitCluster, Ready, StepFails, ApplyRejected
    <2> QED
      BY ZenonT(60), <1>2, <2>1, <2>2, <2>3, PassTypes DEF Objects, Passes
  <1>5. ASSUME NEW c \in Claims, SyncClaim(c) \/ TimerFires(c) PROVE Objects /\ Passes /\ Rest
    <2>1. UNCHANGED <<objects, pass, status, outcome, tmpl, ctmpl, spec, version, budget>>
      BY <1>5, Zenon DEF SyncClaim, TimerFires
    <2>2. cspec' = cspec \/ cspec' = [cspec EXCEPT ![c] = spec[c]]
      BY <1>5, Zenon DEF SyncClaim, TimerFires
    <2> QED
      BY ZenonT(60), <1>0, <1>1, <2>1, <2>2 DEF Rest, Typed, TypeOK
  <1>6. ASSUME NEW t \in Mutable, UpdateTemplate(t) \/ DeleteTemplate(t) \/ CreateTemplate(t)
        PROVE  Objects /\ Passes /\ Rest
    <2>0. t \in Templates /\ budget["template"] \in Nat
      BY Zenon, <1>b, FleetAssumption
    <2>1. PICK new \in Shapes \union {NoTemplate} : WriteTemplate(t, new)
      <3>1. CASE UpdateTemplate(t)
        <4>1. PICK ok \in BOOLEAN : WriteTemplate(t, [tmpl[t] EXCEPT !.ver = budget["template"], !.ok = ok])
          BY Zenon, <3>1 DEF UpdateTemplate
        <4>2. tmpl[t] \in Shapes
          BY <2>0, <3>1 DEF UpdateTemplate, Typed, TypeOK
        <4>3. [tmpl[t] EXCEPT !.ver = budget["template"], !.ok = ok] \in Shapes
          BY Zenon, <2>0, <4>2 DEF Shapes
        <4> QED
          BY <4>1, <4>3
      <3>2. CASE DeleteTemplate(t)
        BY <3>2 DEF DeleteTemplate
      <3>3. CASE CreateTemplate(t)
        <4>1. PICK k \in Recreated \union {InitialKinds[t]} :
                WriteTemplate(t, [kind |-> k, ver |-> budget["template"], ok |-> TRUE])
          BY Zenon, <3>3 DEF CreateTemplate
        <4>2. [kind |-> k, ver |-> budget["template"], ok |-> TRUE] \in Shapes
          BY <2>0 DEF Shapes
        <4> QED
          BY <4>1, <4>2
      <3> QED
        BY ZenonT(60), <1>6, <3>1, <3>2, <3>3
    <2>2. /\ tmpl' = [tmpl EXCEPT ![t] = new] /\ Spend("template")
          /\ UNCHANGED <<objects, pass, status, outcome, ctmpl, spec, cspec, version>>
      BY <2>1, Zenon DEF WriteTemplate
    <2>3. budget' \in [{"template", "edit", "cluster", "fault"} -> Nat]
      BY Zenon, <1>b, <2>2, SpendType
    <2> QED
      BY Zenon, <1>0, <1>1, <2>2, <2>3 DEF Rest, Typed, TypeOK
  <1>7. ASSUME NEW t \in Mutable, SyncTemplate(t) PROVE Objects /\ Passes /\ Rest
    <2>1. /\ ctmpl' = [ctmpl EXCEPT ![t] = tmpl[t]]
          /\ UNCHANGED <<objects, pass, status, outcome, tmpl, spec, cspec, version, budget>>
      BY <1>7, Zenon DEF SyncTemplate
    <2> QED
      BY ZenonT(60), <1>0, <1>1, <2>1, FleetAssumption DEF Rest, Typed, TypeOK
  <1>8. ASSUME NEW e \in Edits, EditClaim(e) PROVE Objects /\ Passes /\ Rest
    <2>1. e[1] \in Claims /\ e[2] \in Fields /\ e[3] \in Templates
      BY ZenonT(60), FleetAssumption
    <2>2. /\ spec' = [spec EXCEPT ![e[1]] = [gen |-> spec[e[1]].gen + 1, refs |-> Put(spec[e[1]].refs, e[2], e[3])]]
          /\ Spend("edit") /\ UNCHANGED <<objects, pass, status, outcome, tmpl, ctmpl, cspec, version>>
      BY ZenonT(60), <1>8 DEF EditClaim
    <2>3. Put(spec[e[1]].refs, e[2], e[3]) \in Refs /\ spec[e[1]].gen + 1 \in Nat
      <3>1. spec[e[1]] \in [gen: Nat, refs: Refs]
        BY Zenon, <2>1 DEF Typed, TypeOK
      <3>2. spec[e[1]].gen \in Nat /\ spec[e[1]].refs \in Refs
        BY Zenon, <3>1
      <3> QED
        BY <2>1, <3>2, RefsPut
    <2>4. budget' \in [{"template", "edit", "cluster", "fault"} -> Nat]
      BY Zenon, <1>b, <2>2, SpendType
    <2> QED
      BY ZenonT(60), <1>0, <1>1, <2>1, <2>2, <2>3, <2>4 DEF Rest, Typed, TypeOK
  <1>9. ASSUME NEW k \in ClusterKeys, ClusterUp(k) \/ ClusterReports(k) \/ ClusterGone(k) PROVE Objects /\ Passes /\ Rest
    <2>1. PICK o : /\ Store(k, o) /\ (o = NoObject \/ o \in ObjectRecords)
                   /\ UNCHANGED <<tmpl, ctmpl, spec, cspec, version, timer, pass, status, outcome>>
      BY ZenonT(60), <1>9, ClusterCases DEF Typed
    <2>2. Objects
      BY <2>1, StoreEffect DEF Objects, Typed
    <2>3. UNCHANGED budget \/ Spend("cluster")
      BY <1>9, ZenonT(60) DEF ClusterUp, ClusterReports, ClusterGone
    <2> QED
      BY ZenonT(60), <1>1, <1>2, <2>1, <2>2, <2>3 DEF Around
  <1>10. ASSUME NEW k \in ClusterKeys, ControlPlaneReports(k) PROVE Objects /\ Passes /\ Rest
    <2>1. PICK v \in Versions : version' = [version EXCEPT ![k] = v]
      BY Zenon, <1>10 DEF ControlPlaneReports
    <2>2. Spend("cluster") /\ UNCHANGED <<tmpl, ctmpl, spec, cspec, objects, queued, timer, pass, status, outcome>>
      BY <1>10, Zenon DEF ControlPlaneReports
    <2>3. budget' \in [{"template", "edit", "cluster", "fault"} -> Nat]
      BY Zenon, <1>b, <2>2, SpendType
    <2> QED
      BY ZenonT(60), <1>0, <1>1, <2>1, <2>2, <2>3 DEF Rest, Typed, TypeOK
  <1>11. CASE UNCHANGED vars
    BY <1>0, <1>1, <1>2, <1>11 DEF vars, Around
  <1> QED
    BY <1>3, <1>4, <1>5, <1>6, <1>7, <1>8, <1>9, <1>10, <1>11, ZenonT(60) DEF Next, Step

\* The types hold in every state.
LEMMA Types == Spec => []Typed
  BY TypesStart, TypesKept, PTL DEF Spec

-------------------------------------------------------------------------------
\* What the step of another claim's pass or of a cluster stores or removes.
Elsewhere(c) ==
    \/ UNCHANGED objects
    \/ \E d \in Claims \ {c} : \E t, k, o : Applies(d, t, k, o)
    \/ \E k \in ClusterKeys : \E o : /\ Object(k) # NoObject /\ Store(k, o)
                                 /\ \/ o = NoObject
                                    \/ o \in ObjectRecords /\ o.owner = Object(k).owner /\ o.step = Object(k).step

\* What may happen around a claim without queueing it.
Unnoticed(c) ==
    /\ c \notin queued /\ pass'[c] = pass[c] /\ status'[c] = status[c] /\ outcome'[c] = outcome[c]
    /\ cspec'[c] = cspec[c] /\ (spec'[c] = spec[c] \/ spec'[c].gen = spec[c].gen + 1)
    /\ c \in timer => c \in timer'
    /\ \A f \in DOMAIN cspec[c].refs : ctmpl'[cspec[c].refs[f]] = ctmpl[cspec[c].refs[f]]
    /\ Elsewhere(c)

\* A step of one claim's pass leaves the other claims' passes and statuses alone, and nothing is taken off the queue.
LEMMA PassOthers ==
    ASSUME Typed, NEW d \in Claims, PassMove(d)
    PROVE  /\ \A c \in Claims \ {d} : /\ pass'[c] = pass[c] /\ status'[c] = status[c] /\ outcome'[c] = outcome[c]
                                      /\ (c \in timer => c \in timer') /\ Elsewhere(c)
           /\ queued \subseteq queued' /\ UNCHANGED Around
  <1> DEFINE Good == \A c \in Claims \ {d} : /\ pass'[c] = pass[c] /\ status'[c] = status[c] /\ outcome'[c] = outcome[c]
                                             /\ (c \in timer => c \in timer')
  <1>1. ASSUME NEW phase, NEW requeue, NEW rejected, End(d, phase, requeue, rejected) PROVE Good
    <2>1. status' = status \/ \E new : status' = [status EXCEPT ![d] = new]
      BY Zenon, <1>1 DEF End, updateStatusIfChanged
    <2>2. /\ pass' = [pass EXCEPT ![d] = NoPass] /\ (\E o : outcome' = [outcome EXCEPT ![d] = o])
          /\ timer \subseteq timer'
      BY Zenon, <1>1 DEF End
    <2> QED
      BY Zenon, <2>1, <2>2 DEF Typed, TypeOK
  <1>2. ASSUME NEW i, NEW sub, NEW ctx, Goto(d, i, sub, ctx) PROVE Good
    BY <1>2 DEF Goto, Typed, TypeOK
  <1> HIDE DEF Good
  <1>3. ASSUME NEW ctx, Proceed(d, ctx) PROVE Good
    BY <1>2, <1>3, Zenon DEF Proceed
  <1>4. CASE EndsIdle(d)
    <2>1. Good /\ UNCHANGED <<objects, queued>>
      BY <1>1, <1>4, Zenon DEF EndsIdle
    <2> QED
      BY Zenon, <2>1 DEF Good, Elsewhere, PassMove
  <1>5. CASE Checked(d)
    <2>1. Good /\ UNCHANGED <<objects, queued>>
      BY <1>2, <1>5, Zenon DEF Checked
    <2> QED
      BY Zenon, <2>1 DEF Good, Elsewhere, PassMove
  <1>6. CASE \E r : Awaited(d, r)
    <2>1. Good /\ UNCHANGED <<objects, queued>>
      BY <1>3, <1>6, Zenon DEF Awaited
    <2> QED
      BY Zenon, <2>1 DEF Good, Elsewhere, PassMove
  <1>7. CASE \E t, k, o : AppliesOne(d, t, k, o)
    <2>1. PICK t, k, o : AppliesOne(d, t, k, o)
      BY <1>7
    <2>2. Good
      BY <1>1, <1>2, <1>3, <2>1, Zenon DEF AppliesOne
    <2>3. Applies(d, t, k, o) /\ Store(k, o) /\ o \in ObjectRecords
      BY Zenon, <2>1 DEF AppliesOne, Applies
    <2>4. queued \subseteq queued'
      BY <2>3, StoreEffect DEF Typed
    <2>5. \A c \in Claims \ {d} : Elsewhere(c)
      BY <2>3, Zenon DEF Elsewhere
    <2> QED
      BY Zenon, <2>2, <2>4, <2>5 DEF Good, PassMove
  <1> QED
    BY Zenon, <1>4, <1>5, <1>6, <1>7 DEF PassMove

\* A claim that is not queued after a step had a pass started or moved on by it, or did not need to notice it.
LEMMA Noticed ==
    ASSUME Typed, [Next]_vars, NEW c \in Claims, c \notin queued'
    PROVE  Begin(c) \/ (PassMove(c) /\ c \notin queued) \/ Unnoticed(c)
  <1> DEFINE Same == /\ pass'[c] = pass[c] /\ status'[c] = status[c] /\ outcome'[c] = outcome[c]
                     /\ (c \in timer => c \in timer')
             Calm == /\ cspec'[c] = cspec[c] /\ (spec'[c] = spec[c] \/ spec'[c].gen = spec[c].gen + 1)
                     /\ \A f \in DOMAIN cspec[c].refs : ctmpl'[cspec[c].refs[f]] = ctmpl[cspec[c].refs[f]]
             Goal == Begin(c) \/ (PassMove(c) /\ c \notin queued) \/ Unnoticed(c)
  <1>0. Same /\ Calm /\ Elsewhere(c) /\ c \notin queued => Goal
    BY Zenon DEF Unnoticed
  <1>1. UNCHANGED <<pass, status, outcome, timer>> => Same
    OBVIOUS
  <1>2. UNCHANGED <<ctmpl, spec, cspec>> => Calm
    OBVIOUS
  <1>3. UNCHANGED objects => Elsewhere(c)
    BY DEF Elsewhere
  <1> SUFFICES Goal
    OBVIOUS
  <1> HIDE DEF Goal, Same, Calm
  <1>4. ASSUME NEW d \in Claims, Begin(d) PROVE Goal
    <2>1. CASE d = c
      BY ZenonT(60), <1>4, <2>1 DEF Goal
    <2>2. CASE d # c
      <3>1. pass'[c] = pass[c] /\ c \notin queued /\ UNCHANGED <<ctmpl, spec, cspec, objects, status, outcome, timer>>
        BY ZenonT(60), <1>4, <2>2 DEF Begin, Typed, TypeOK
      <3> QED
        BY ZenonT(60), <1>0, <1>2, <1>3, <3>1 DEF Same
    <2> QED
      BY <2>1, <2>2
  <1>5. ASSUME NEW d \in Claims, CheckTemplateKind(d) \/ ensureResource(d) \/ AwaitCluster(d) \/ Ready(d) \/ StepFails(d) \/ ApplyRejected(d)
        PROVE  Goal
    <2>1. PassMove(d)
      BY ZenonT(60), <1>5, PassMoves
    <2>2. c \notin queued
      BY <2>1, PassOthers
    <2>3. CASE d = c
      BY <2>1, <2>2, <2>3 DEF Goal
    <2>4. CASE d # c
      <3>1. UNCHANGED <<ctmpl, spec, cspec>>
        BY ZenonT(60), <2>1, PassOthers DEF Around
      <3>2. Same /\ Elsewhere(c)
        BY <2>1, <2>4, PassOthers DEF Same
      <3> QED
        BY ZenonT(60), <1>0, <1>2, <2>2, <3>1, <3>2
    <2> QED
      BY <2>3, <2>4
  <1>6. ASSUME NEW d \in Claims, SyncClaim(d) \/ TimerFires(d) PROVE Goal
    <2>1. d # c /\ c \notin queued
      BY <1>6, Zenon DEF SyncClaim, TimerFires
    <2>2. CASE SyncClaim(d)
      <3>1. cspec'[c] = cspec[c] /\ UNCHANGED <<ctmpl, spec, objects, pass, status, outcome, timer>>
        BY <2>1, <2>2 DEF SyncClaim, Typed, TypeOK
      <3> QED
        BY ZenonT(60), <1>0, <1>1, <1>3, <2>1, <3>1 DEF Calm
    <2>3. CASE TimerFires(d)
      <3>1. (c \in timer => c \in timer') /\ UNCHANGED <<ctmpl, spec, cspec, objects, pass, status, outcome>>
        BY <2>1, <2>3 DEF TimerFires
      <3> QED
        BY ZenonT(60), <1>0, <1>2, <1>3, <2>1, <3>1 DEF Same
    <2> QED
      BY ZenonT(60), <1>6, <2>2, <2>3
  <1>7. ASSUME NEW t \in Mutable, UpdateTemplate(t) \/ DeleteTemplate(t) \/ CreateTemplate(t) PROVE Goal
    <2>1. UNCHANGED <<ctmpl, spec, cspec, objects, queued, pass, status, outcome, timer>>
      BY <1>7, Zenon DEF UpdateTemplate, DeleteTemplate, CreateTemplate, WriteTemplate
    <2> QED
      BY ZenonT(60), <1>0, <1>1, <1>2, <1>3, <2>1
  <1>8. ASSUME NEW t \in Mutable, SyncTemplate(t) PROVE Goal
    <2>1. /\ ctmpl' = [ctmpl EXCEPT ![t] = tmpl[t]] /\ c \notin queued /\ c \notin findClaimsForTemplate(t)
          /\ UNCHANGED <<spec, cspec, objects, pass, status, outcome, timer>>
      BY ZenonT(60), <1>8 DEF SyncTemplate
    <2>2. cspec[c].refs \in Refs
      BY DEF Typed, TypeOK
    <2>3. ASSUME NEW f \in DOMAIN cspec[c].refs PROVE ctmpl'[cspec[c].refs[f]] = ctmpl[cspec[c].refs[f]]
      <3>1. f \in Fields /\ cspec[c].refs[f] \in Templates
        BY <2>2, RefsFacts
      <3>2. cspec[c].refs[f] # t
        BY Zenon, <2>1, <3>1 DEF findClaimsForTemplate, allIndexFields, IndexValues
      <3> QED
        BY ZenonT(60), <2>1, <3>1, <3>2 DEF Typed, TypeOK
    <2>4. Calm
      BY Zenon, <2>1, <2>3 DEF Calm
    <2>5. Same /\ Elsewhere(c) /\ c \notin queued
      BY ZenonT(60), <1>1, <1>3, <2>1
    <2> QED
      BY Zenon, <1>0, <2>4, <2>5
  <1>9. ASSUME NEW e \in Edits, EditClaim(e) PROVE Goal
    <2>1. /\ spec' = [spec EXCEPT ![e[1]] = [gen |-> spec[e[1]].gen + 1, refs |-> Put(spec[e[1]].refs, e[2], e[3])]]
          /\ UNCHANGED <<ctmpl, cspec, objects, queued, pass, status, outcome, timer>>
      BY <1>9 DEF EditClaim
    <2>2. spec'[c] = spec[c] \/ spec'[c].gen = spec[c].gen + 1
      BY Zenon, <2>1 DEF Typed, TypeOK
    <2>3. Calm
      BY Zenon, <2>1, <2>2 DEF Calm
    <2>4. Same /\ Elsewhere(c) /\ c \notin queued
      BY Zenon, <1>1, <1>3, <2>1
    <2> QED
      BY Zenon, <1>0, <2>3, <2>4
  <1>10. ASSUME NEW k \in ClusterKeys, ClusterUp(k) \/ ClusterReports(k) \/ ClusterGone(k) PROVE Goal
    <2>1. PICK o : /\ Object(k) # NoObject /\ Store(k, o)
                   /\ \/ o = NoObject
                      \/ o \in ObjectRecords /\ o.owner = Object(k).owner /\ o.step = Object(k).step
                   /\ UNCHANGED <<tmpl, ctmpl, spec, cspec, version, timer, pass, status, outcome>>
      BY <1>10, ClusterCases, Zenon DEF Typed
    <2>2. Elsewhere(c)
      BY <2>1, Zenon DEF Elsewhere
    <2>3. c \notin queued
      BY <2>1, StoreEffect DEF Typed
    <2> QED
      BY ZenonT(60), <1>0, <1>1, <1>2, <2>1, <2>2, <2>3
  <1>11. ASSUME NEW k \in ClusterKeys, ControlPlaneReports(k) PROVE Goal
    <2>1. UNCHANGED <<ctmpl, spec, cspec, objects, queued, pass, status, outcome, timer>>
      BY <1>11, Zenon DEF ControlPlaneReports
    <2> QED
      BY ZenonT(60), <1>0, <1>1, <1>2, <1>3, <2>1
  <1>12. CASE UNCHANGED vars
    <2>1. UNCHANGED <<ctmpl, spec, cspec, objects, queued, pass, status, outcome, timer>>
      BY <1>12 DEF vars
    <2> QED
      BY ZenonT(60), <1>0, <1>1, <1>2, <1>3, <2>1
  <1> QED
    BY <1>4, <1>5, <1>6, <1>7, <1>8, <1>9, <1>10, <1>11, <1>12, ZenonT(60) DEF Next, Step

===============================================================================
