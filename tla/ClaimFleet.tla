------------------------------ MODULE ClaimFleet ------------------------------
(***************************************************************************)
(* Several claims and the cluster-scoped templates they refer to: how a    *)
(* change of a template, of a claim's references or of a cluster's status  *)
(* reaches the objects and the status of every claim concerned.  Covers    *)
(* the field indexes (indexers.go), the template watch (mapfuncs.go), the  *)
(* rendering of objects (resource.go, labels.go, naming.go) and the status *)
(* mirror.  The waits other than those for the clusters, finalizers and    *)
(* deletion are ClaimSystem's; the caches of managed objects are prompt    *)
(* here, those of claims and templates are not.                            *)
(***************************************************************************)
EXTENDS ClaimNames, ClusterMirror, FiniteSets

CONSTANTS
    Claims,       \* namespace and name of each claim
    Clients,      \* the claims with client.enabled
    Systems,      \* the claims whose infra role contains "system"
    Templates,    \* names a reference may have
    InitialRefs,  \* the references of each claim as created
    InitialKinds, \* the kind each template renders as created
    Edits,        \* <<claim, field, template>>: changes a user may make to a claim
    Mutable,      \* the templates that may change
    Recreated,    \* kinds a template may render after it was deleted and created again
    Reports,      \* replica counts a cluster may come to report
    TemplateLabels, \* the labels every template renders
    NoTemplate, NoObject, NoPass, Nobody,
    MaxConcurrentReconciles, \* workers; 5 in SetupWithManager
    Provisioned,  \* the claims that are Ready when the operator starts
    Budgets,      \* bounds on template changes, edits, cluster changes and failing calls
    MaxLosses     \* bound on status writes that fail

(***************************************************************************)
(* The reference fields, which are also the names of the field indexes.    *)
(***************************************************************************)
Fields == {"observe", "certSetInfra", "certSetClient", "clusterInfra", "clusterClient", "ccmCsr",
           "configMapInfra", "configMapClient", "vaultClaim", "vaultSecretClaim", "s3BucketClaim"}

VaultFamily == {"vaultClaim", "vaultSecretClaim", "s3BucketClaim"}

ClientFields == {"certSetClient", "clusterClient", "configMapClient"}

ASSUME FleetAssumption ==
    /\ Claims \subseteq {c \in [ns: STRING, name: Seq(STRING)] : c.name # <<>>}
    /\ Clients \subseteq Claims /\ Systems \subseteq Claims /\ Mutable \subseteq Templates
    /\ \A c \in Claims :
         LET set == DOMAIN InitialRefs[c] IN
         /\ {"observe", "certSetInfra", "clusterInfra", "ccmCsr"} \subseteq set /\ set \subseteq Fields
         /\ "configMapClient" \in set => "configMapInfra" \in set
         /\ InitialRefs[c] \in [set -> Templates]
    /\ Edits \subseteq Claims \X Fields \X Templates /\ Reports \subseteq Value
    /\ MaxConcurrentReconciles \in Nat \ {0} /\ Provisioned \subseteq Claims
    /\ Budgets \subseteq [{"template", "edit", "cluster", "fault"} -> Nat] /\ MaxLosses \in Nat

(***************************************************************************)
(* What the pipeline renders, in its order.  part distinguishes objects of *)
(* one field; the second CcmCsrc step only updates.                        *)
(***************************************************************************)
Render(f, k, p) == [field |-> f, kind |-> k, part |-> p]

renderSteps ==
    << Render("observe", "Application", ""), Render("s3BucketClaim", "S3BucketClaim", ""),
       Render("certSetInfra", "CertificateSet", "infra"), Render("clusterInfra", "Cluster", "infra"),
       Render("certSetClient", "CertificateSet", "client"), Render("vaultClaim", "VaultClaim", ""),
       Render("vaultSecretClaim", "VaultSecretClaim", ""), Render("ccmCsr", "CcmCsrc", ""),
       Render("configMapInfra", "ConfigMap", "infra"), Render("configMapInfra", "ConfigMap", "system"),
       Render("configMapClient", "ConfigMap", "client"), Render("clusterClient", "Cluster", "client"),
       Render("ccmCsr", "CcmCsrc", "update") >>

Last == Len(renderSteps)

Skipped(c, refs, s) ==
    \/ s.field \in ClientFields /\ c \notin Clients
    \/ s.part = "update" /\ c \notin Clients
    \/ s.field \in VaultFamily /\ s.field \notin DOMAIN refs
    \/ s.kind = "ConfigMap" /\ s.field \notin DOMAIN refs
    \/ s.kind = "ConfigMap" /\ s.part = "system" /\ c \notin Systems

NextRender(c, refs, i) ==
    CHOOSE j \in (i + 1)..(Last + 1) :
      /\ j <= Last => ~Skipped(c, refs, renderSteps[j])
      /\ \A k \in (i + 1)..(j - 1) : Skipped(c, refs, renderSteps[k])

\* The Vault-family steps look at the template's kind before they apply anything.
FirstCall(i) == IF i <= Last /\ renderSteps[i].field \in VaultFamily THEN "check" ELSE "apply"

\* The name a step gives its object.
resourceName(c, s) ==
    CASE s.kind = "Application" -> ApplicationName(c.name)
      [] s.kind = "S3BucketClaim" -> S3BucketClaimName(c.name)
      [] s.kind = "CertificateSet" -> CertificateSetName(c.name, s.part)
      [] s.kind = "Cluster" -> ClusterName(c.name, s.part)
      [] s.kind = "VaultClaim" -> VaultClaimName(c.name)
      [] s.kind = "VaultSecretClaim" -> VaultSecretClaimName(c.name)
      [] s.kind = "CcmCsrc" -> CcmCsrcName(c.name)
      [] s.kind = "ConfigMap" -> ConfigMapName(s.part)

\* Where it is: the claim's namespace, or the claim's own infra cluster.
place(c, s) == IF s.kind = "ConfigMap" THEN <<c.ns>> \o c.name ELSE <<c.ns>>

\* An object is addressed by kind, place and name; a template decides the kind, except of a ConfigMap.
Key(c, s, kind) == [kind |-> IF s.kind = "ConfigMap" THEN "ConfigMap" ELSE kind,
                    place |-> place(c, s), name |-> resourceName(c, s)]

ClusterKey(c, r) == [kind |-> "Cluster", place |-> <<c.ns>>, name |-> ClusterName(c.name, r)]

ClusterKeys == {ClusterKey(c, r) : c \in Claims, r \in Roles}

ClusterStatuses == [up: BOOLEAN, replicas: Value, ref: {"KubeadmControlPlane"}]

Contexts == [Roles -> [up: BOOLEAN, count: Int]]

Mirrors == [Roles -> [count: Int, version: Versions \union {NoVersion}, there: BOOLEAN]]

\* What the operator keeps in references that are set, in a pass and in an object is none of the markers.
RefsIn(fields) == UNION {[set -> Templates] : set \in SUBSET fields}

PassesWith(refs) ==
    [at: Nat, sub: {"check", "apply", "await"}, spec: [gen: Nat, refs: refs], ctx: Contexts, mirror: Mirrors]

ObjectRecords ==
    [owner: Claims \union {Nobody}, labels: {MergeLabels(TemplateLabels, StandardLabels(c)) : c \in Claims},
     ver: Nat, ctx: Contexts, step: {renderSteps[i] : i \in 1..Last}, status: ClusterStatuses]

ASSUME MarkersAssumption ==
    NoPass \notin PassesWith(RefsIn(Fields)) /\ NoObject \notin ObjectRecords /\ Nobody \notin Claims

VARIABLES
    tmpl,      \* the templates on the API server: kind, version, whether they render
    ctmpl,     \* the informer's copies
    spec,      \* per claim: generation and references
    cspec,     \* the informer's copies, which the field indexes are built from
    objects,   \* everything the operator applied: a function on the keys of what there is
    version,   \* per Cluster: what its control plane object reports
    queued,    \* claims in the work queue
    timer,     \* claims with a pending requeue
    pass,      \* per claim: the pass that is running
    status,    \* per claim: phase and mirror
    outcome,   \* history, per claim: the last step its last pass got through, whether
               \* the API server rejected an object, whether the status was not stored
    budget,    \* how much the environment may still do
    losses     \* how many status writes may still fail

vars == <<tmpl, ctmpl, spec, cspec, objects, version, queued, timer, pass, status, outcome, budget, losses>>

-------------------------------------------------------------------------------
(***************************************************************************)
(* Watches.  An event of an owned object queues its old and its new owner. *)
(***************************************************************************)
\* Fault: one index is missing from the list.
allIndexFieldsShort == Fields \ {"vaultClaim"}

allIndexFields == Fields

\* The index functions of SetupIndexers.
IndexValues(refs, f) ==
    IF f \in DOMAIN refs THEN {refs[f]} ELSE {}

findClaimsForTemplate(t) ==
    {c \in Claims : \E f \in allIndexFields : t \in IndexValues(cspec[c].refs, f)}

OwnerOf(o) == IF o = NoObject THEN {} ELSE {o.owner} \ {Nobody}

Object(k) == IF k \in DOMAIN objects THEN objects[k] ELSE NoObject

Put(f, x, y) == [z \in DOMAIN f \union {x} |-> IF z = x THEN y ELSE f[z]]

Store(k, o) ==
    /\ objects' = IF o = NoObject THEN [j \in DOMAIN objects \ {k} |-> objects[j]] ELSE Put(objects, k, o)
    /\ queued' = IF o = Object(k) THEN queued ELSE queued \union OwnerOf(o) \union OwnerOf(Object(k))

-------------------------------------------------------------------------------
(***************************************************************************)
(* A pass: prefetch and mirror, then one rendered object after the other.  *)
(***************************************************************************)
Clusters(c) ==
    [r \in Roles |-> IF ClusterKey(c, r) \notin DOMAIN objects \/ (r = "client" /\ c \notin Clients)
                     THEN NoCluster ELSE objects[ClusterKey(c, r)].status]

Begin(c) ==
    /\ c \in queued /\ pass[c] = NoPass
    /\ Cardinality({d \in Claims : pass[d] # NoPass}) < MaxConcurrentReconciles
    /\ queued' = queued \ {c}
    /\ pass' = [pass EXCEPT ![c] =
                  [at |-> NextRender(c, cspec[c].refs, 0), sub |-> FirstCall(NextRender(c, cspec[c].refs, 0)),
                   spec |-> cspec[c],
                   ctx |-> BuildContext(Clusters(c)),
                   mirror |-> syncClusterStatuses(status[c].mirror, Clusters(c),
                                                  [r \in Roles |-> version[ClusterKey(c, r)]])]]
    /\ UNCHANGED <<tmpl, ctmpl, spec, cspec, objects, version, timer, status, outcome, budget, losses>>

(***************************************************************************)
(* A status computed from an outdated claim is refused.  Any other write   *)
(* may be lost: the labels of the claim have changed, the informer did not *)
(* show the status of the pass before, or the call fails.                  *)
(***************************************************************************)
updateStatusIfChanged(c, new) ==
    LET current == pass[c].spec = spec[c] IN
    \/ /\ status' = IF current THEN [status EXCEPT ![c] = new] ELSE status
       /\ UNCHANGED losses
    \/ /\ current /\ new # status[c] /\ losses > 0
       /\ losses' = losses - 1
       /\ UNCHANGED status

\* A pass that ends as Ready comes back as well when its write fails.
End(c, phase, requeue, rejected) ==
    LET new == [phase |-> phase, mirror |-> pass[c].mirror] IN
    /\ pass' = [pass EXCEPT ![c] = NoPass]
    /\ updateStatusIfChanged(c, new)
    /\ timer' = IF requeue THEN timer \union {c} ELSE timer
    /\ outcome' = [outcome EXCEPT ![c] =
                     [through |-> pass[c].at - 1, rejected |-> rejected, lost |-> status'[c] # new]]

TerminalError(c, rejected) == End(c, "Failed", FALSE, rejected)

TransientError(c) == End(c, "Provisioning", TRUE, FALSE)

At(c, sub) == pass[c] # NoPass /\ pass[c].at \in 1..Last /\ pass[c].sub = sub

Current(c) == renderSteps[pass[c].at]

\* The template the current step refers to, as the informer shows it.
Template(c) ==
    LET refs == pass[c].spec.refs IN
    IF Current(c).field \in DOMAIN refs THEN ctmpl[refs[Current(c).field]] ELSE NoTemplate

Goto(c, i, sub, ctx) ==
    /\ pass' = [pass EXCEPT ![c] = [@ EXCEPT !.at = i, !.sub = sub, !.ctx = ctx]]
    /\ UNCHANGED <<timer, status, outcome, losses>>

Proceed(c, ctx) ==
    LET i == NextRender(c, pass[c].spec.refs, pass[c].at) IN Goto(c, i, FirstCall(i), ctx)

\* A Vault-family template that is missing or renders another kind is a terminal error.
CheckTemplateKind(c) ==
    /\ At(c, "check")
    /\ LET t == Template(c) IN
       IF t = NoTemplate \/ t.kind # Current(c).kind
       THEN TerminalError(c, FALSE)
       ELSE Goto(c, pass[c].at, "apply", pass[c].ctx)
    /\ UNCHANGED <<tmpl, ctmpl, spec, cspec, objects, version, queued, budget>>

(***************************************************************************)
(* The object a step applies: the labels a template renders give way to    *)
(* the standard ones.  Server-side apply by the same field manager makes   *)
(* the claim the only owner; a ConfigMap in another cluster has none.      *)
(***************************************************************************)
buildDesiredResource(c, s, t, ctx, old) ==
    [owner |-> IF s.kind = "ConfigMap" THEN Nobody ELSE c,
     labels |-> MergeLabels(TemplateLabels, StandardLabels(c)),
     ver |-> t.ver, ctx |-> ctx, step |-> s,
     status |-> IF old = NoObject THEN Blank ELSE old.status]

\* Fault: ensureResourceFinalizer does not mind a missing object.
ensureResourceFinalizerLax(c, applied) == TRUE

\* ensureResourceFinalizer looks for an object of the kind the step expects.
ensureResourceFinalizer(c, applied) ==
    LET expected == Key(c, Current(c), Current(c).kind) IN
    \/ Current(c).kind = "ConfigMap" \/ Current(c).part = "update"
    \/ applied = expected \/ expected \in DOMAIN objects

\* ensureResource or applyRemoteConfigMap, then the finalizer.
ensureResource(c) ==
    /\ At(c, "apply")
    /\ LET t == Template(c)
           s == Current(c)
           k == Key(c, s, t.kind) IN
       IF t = NoTemplate \/ ~t.ok
       THEN TerminalError(c, FALSE) /\ UNCHANGED <<objects, queued>>
       ELSE /\ Store(k, buildDesiredResource(c, s, t, pass[c].ctx, Object(k)))
            /\ IF ~ensureResourceFinalizer(c, k)
               THEN TransientError(c)
               ELSE IF s.kind = "Cluster" THEN Goto(c, pass[c].at, "await", pass[c].ctx)
               ELSE Proceed(c, pass[c].ctx)
    /\ UNCHANGED <<tmpl, ctmpl, spec, cspec, version, budget>>

(***************************************************************************)
(* stepWaitInfraProvisioned, stepWaitInfraCPReady, stepWaitClientCPReady:  *)
(* refresh the template context.  One flag stands for infrastructure and   *)
(* control plane, so the two waits for the infra cluster fall together.    *)
(***************************************************************************)
AwaitCluster(c) ==
    /\ At(c, "await")
    /\ LET r == Current(c).part
           seen == Clusters(c)[r] IN
       IF seen = NoCluster THEN TransientError(c)
       ELSE IF ~seen.up THEN End(c, "WaitingDependency", TRUE, FALSE)
       ELSE Proceed(c, [pass[c].ctx EXCEPT ![r] = populateClusterFields(seen)])
    /\ UNCHANGED <<tmpl, ctmpl, spec, cspec, objects, version, queued, budget>>

Ready(c) ==
    /\ pass[c] # NoPass /\ pass[c].at > Last
    /\ End(c, "Ready", TRUE, FALSE)
    /\ UNCHANGED <<tmpl, ctmpl, spec, cspec, objects, version, queued, budget>>

Step(c) == Begin(c) \/ CheckTemplateKind(c) \/ ensureResource(c) \/ AwaitCluster(c) \/ Ready(c)

-------------------------------------------------------------------------------
(***************************************************************************)
(* The operator starts: every claim is queued, and what the Provisioned    *)
(* ones have is what complete passes left.                                 *)
(***************************************************************************)
InitialStatus(c) == IF c \in Provisioned THEN [Blank EXCEPT !.up = TRUE] ELSE NoCluster

InitialClusters(c) ==
    [r \in Roles |-> IF r = "client" /\ c \notin Clients THEN NoCluster ELSE InitialStatus(c)]

InitialTemplate(t) == [kind |-> InitialKinds[t], ver |-> 0, ok |-> TRUE]

InitialObjects ==
    LET Made == {e \in Provisioned \X {renderSteps[i] : i \in 1..Last} :
                   ~Skipped(e[1], InitialRefs[e[1]], e[2]) /\ e[2].part # "update"}
        By(k) == CHOOSE e \in Made : Key(e[1], e[2], e[2].kind) = k
        Of(c, s) == buildDesiredResource(c, s, InitialTemplate(InitialRefs[c][s.field]),
                                         BuildContext(InitialClusters(c)), NoObject) IN
    [k \in {Key(e[1], e[2], e[2].kind) : e \in Made} |->
       [Of(By(k)[1], By(k)[2]) EXCEPT !.status = InitialStatus(By(k)[1])]]

Init ==
    /\ tmpl = [t \in Templates |-> InitialTemplate(t)]
    /\ ctmpl = tmpl
    /\ spec = [c \in Claims |-> [gen |-> 1, refs |-> InitialRefs[c]]]
    /\ cspec = spec
    /\ objects = InitialObjects
    /\ version = [k \in ClusterKeys |-> NoVersion]
    /\ queued = Claims /\ timer = {}
    /\ pass = [c \in Claims |-> NoPass]
    /\ status = [c \in Claims |->
                   [phase |-> IF c \in Provisioned THEN "Ready" ELSE "",
                    mirror |-> syncClusterStatuses([r \in Roles |-> NoSummary], InitialClusters(c),
                                                   [r \in Roles |-> NoVersion])]]
    /\ outcome = [c \in Claims |->
                    [through |-> IF c \in Provisioned THEN Last ELSE 0, rejected |-> FALSE, lost |-> FALSE]]
    /\ budget \in Budgets /\ losses = MaxLosses

-------------------------------------------------------------------------------
(***************************************************************************)
(* Everything around the passes.                                           *)
(***************************************************************************)
Spend(kind) == budget[kind] > 0 /\ budget' = [budget EXCEPT ![kind] = @ - 1]

\* Every change makes a new version of the template.
WriteTemplate(t, new) ==
    /\ Spend("template")
    /\ tmpl' = [tmpl EXCEPT ![t] = new]
    /\ UNCHANGED <<ctmpl, spec, cspec, objects, version, queued, timer, pass, status, outcome, losses>>

\* apiVersion and kind of a template are immutable, its value is not.
UpdateTemplate(t) ==
    /\ tmpl[t] # NoTemplate
    /\ \E ok \in BOOLEAN : WriteTemplate(t, [tmpl[t] EXCEPT !.ver = budget["template"], !.ok = ok])

DeleteTemplate(t) == tmpl[t] # NoTemplate /\ WriteTemplate(t, NoTemplate)

CreateTemplate(t) ==
    /\ tmpl[t] = NoTemplate
    /\ \E k \in Recreated \union {InitialKinds[t]} : WriteTemplate(t, [kind |-> k, ver |-> budget["template"], ok |-> TRUE])

\* Fault: only templates the informer knew before have handlers called.
SyncTemplateKnown(t) ==
    /\ ctmpl[t] # tmpl[t]
    /\ ctmpl' = [ctmpl EXCEPT ![t] = tmpl[t]]
    /\ queued' = IF ctmpl[t] = NoTemplate THEN queued ELSE queued \union findClaimsForTemplate(t)
    /\ UNCHANGED <<tmpl, spec, cspec, objects, version, timer, pass, status, outcome, budget, losses>>

SyncTemplate(t) ==
    /\ ctmpl[t] # tmpl[t]
    /\ ctmpl' = [ctmpl EXCEPT ![t] = tmpl[t]]
    /\ queued' = queued \union findClaimsForTemplate(t)
    /\ UNCHANGED <<tmpl, spec, cspec, objects, version, timer, pass, status, outcome, budget, losses>>

EditClaim(e) ==
    /\ Spend("edit")
    /\ spec' = [spec EXCEPT ![e[1]] = [gen |-> @.gen + 1, refs |-> Put(@.refs, e[2], e[3])]]
    /\ UNCHANGED <<tmpl, ctmpl, cspec, objects, version, queued, timer, pass, status, outcome, losses>>

SyncClaim(c) ==
    /\ cspec[c] # spec[c]
    /\ cspec' = [cspec EXCEPT ![c] = spec[c]]
    /\ queued' = queued \union {c}
    /\ UNCHANGED <<tmpl, ctmpl, spec, objects, version, timer, pass, status, outcome, budget, losses>>

TimerFires(c) ==
    /\ c \in timer
    /\ timer' = timer \ {c} /\ queued' = queued \union {c}
    /\ UNCHANGED <<tmpl, ctmpl, spec, cspec, objects, version, pass, status, outcome, budget, losses>>

OnCluster(k, o) ==
    /\ k \in DOMAIN objects /\ Store(k, o)
    /\ UNCHANGED <<tmpl, ctmpl, spec, cspec, version, timer, pass, status, outcome, losses>>

ClusterUp(k) ==
    /\ k \in DOMAIN objects /\ ~objects[k].status.up
    /\ OnCluster(k, [objects[k] EXCEPT !.status.up = TRUE])
    /\ UNCHANGED budget

ClusterReports(k) ==
    /\ Spend("cluster") /\ k \in DOMAIN objects
    /\ \E v \in Reports : OnCluster(k, [objects[k] EXCEPT !.status.replicas = v])

\* Somebody removes a cluster by hand.
ClusterGone(k) == Spend("cluster") /\ OnCluster(k, NoObject)

\* The control plane objects are read but not watched.
ControlPlaneReports(k) ==
    /\ Spend("cluster")
    /\ k \in DOMAIN objects
    /\ \E v \in Versions \ {version[k]} : version' = [version EXCEPT ![k] = v]
    /\ UNCHANGED <<tmpl, ctmpl, spec, cspec, objects, queued, timer, pass, status, outcome, losses>>

\* A call of the pass fails for a transient reason.
StepFails(c) ==
    /\ At(c, "check") \/ At(c, "apply")
    /\ Spend("fault") /\ TransientError(c)
    /\ UNCHANGED <<tmpl, ctmpl, spec, cspec, objects, version, queued>>

(***************************************************************************)
(* The API server rejects the object a step applies: classifyAPIError      *)
(* makes a terminal error of it.  Errors of the infra cluster, where the   *)
(* ConfigMaps go, are not classified.                                      *)
(***************************************************************************)
ApplyRejected(c) ==
    /\ At(c, "apply") /\ Current(c).kind # "ConfigMap"
    /\ Template(c) # NoTemplate /\ Template(c).ok
    /\ Spend("fault") /\ TerminalError(c, TRUE)
    /\ UNCHANGED <<tmpl, ctmpl, spec, cspec, objects, version, queued>>

-------------------------------------------------------------------------------
Next ==
    \/ \E c \in Claims : Step(c) \/ StepFails(c) \/ ApplyRejected(c) \/ SyncClaim(c) \/ TimerFires(c)
    \/ \E t \in Mutable : UpdateTemplate(t) \/ DeleteTemplate(t) \/ CreateTemplate(t) \/ SyncTemplate(t)
    \/ \E e \in Edits : EditClaim(e)
    \/ \E k \in ClusterKeys : ClusterUp(k) \/ ClusterReports(k) \/ ClusterGone(k) \/ ControlPlaneReports(k)

Spec == Init /\ [][Next]_vars

-------------------------------------------------------------------------------
\* Nothing but a requeue is pending for the claim.
Settled(c) ==
    /\ c \notin queued /\ pass[c] = NoPass /\ cspec[c] = spec[c]
    /\ \A f \in DOMAIN spec[c].refs : ctmpl[spec[c].refs[f]] = tmpl[spec[c].refs[f]]

\* Step s of claim c left the object that the current template and cluster data ask for.
UpToDate(c, s) ==
    LET t == tmpl[spec[c].refs[s.field]]
        o == Object(Key(c, s, t.kind)) IN
    /\ t # NoTemplate /\ o # NoObject
    /\ o.owner = (IF s.kind = "ConfigMap" THEN Nobody ELSE c)
    /\ o.labels.claimName = c.name /\ o.labels.claimNamespace = <<c.ns>>
    /\ o.ver = t.ver /\ o.ctx = BuildContext(Clusters(c))

(***************************************************************************)
(* When no watch has anything more to tell about a claim, every object its *)
(* last pass got to is owned by and labelled for the claim and rendered    *)
(* from the current template, references and cluster data: rolling a       *)
(* change out to all claims never depends on the periodic requeue.         *)
(***************************************************************************)
RolledOut ==
    \A c \in Claims : Settled(c) =>
      \A i \in 1..outcome[c].through :
        Skipped(c, spec[c].refs, renderSteps[i]) \/ UpToDate(c, renderSteps[i])

\* The template that the first step the last pass did not get through refers to.
NextTemplate(c) ==
    LET f == renderSteps[NextRender(c, spec[c].refs, outcome[c].through)].field IN
    IF f \in DOMAIN spec[c].refs THEN tmpl[spec[c].refs[f]] ELSE NoTemplate

(***************************************************************************)
(* A claim that is left alone, or shown as Failed, has a cause that is     *)
(* still there.  A terminal error is not requeued, so every repair must    *)
(* come with a wake-up: when nothing is pending for a claim, not even a    *)
(* requeue, or when its last pass stored Failed, the first step that pass  *)
(* did not get through needs a template that is missing, does not render   *)
(* or renders the wrong kind.  The one exception is an object the API      *)
(* server rejected: what made it do so is not watched.                     *)
(***************************************************************************)
FailureHasACause ==
    \A c \in Claims :
      /\ Settled(c) /\ ~outcome[c].rejected
      /\ c \notin timer \/ (status[c].phase = "Failed" /\ ~outcome[c].lost)
      => LET s == renderSteps[NextRender(c, spec[c].refs, outcome[c].through)]
             t == NextTemplate(c) IN
         t = NoTemplate \/ ~t.ok \/ (s.field \in VaultFamily /\ t.kind # s.kind)

(***************************************************************************)
(* A settled claim whose last pass stored Ready has an object of the       *)
(* expected kind for every step.  A template that renders another kind     *)
(* does not make a claim Ready that never had the right object:            *)
(* ensureResourceFinalizer looks for it.  A Ready left over from an        *)
(* earlier pass, because the write of a later one was lost, says nothing.  *)
(***************************************************************************)
ReadyHasItsObjects ==
    \A c \in Claims : Settled(c) /\ status[c].phase = "Ready" /\ ~outcome[c].lost =>
      \A i \in 1..Last : LET s == renderSteps[i] IN
        Skipped(c, spec[c].refs, s) \/ Key(c, s, s.kind) \in DOMAIN objects

\* An object rendered from a template of a kind its step did not expect.
Misfit(k, o) == k.kind # o.step.kind

(***************************************************************************)
(* A pass never takes over another claim's object, however the claims are  *)
(* named: claim a-infra has the name of claim a's infra cluster.  The one  *)
(* exception is a template that renders an unexpected kind.                *)
(***************************************************************************)
OwnObjectsOnly ==
    [][\A k \in DOMAIN objects \intersect DOMAIN objects' :
         objects[k].owner # objects'[k].owner
           => Misfit(k, objects[k]) \/ Misfit(k, objects'[k])]_vars

(***************************************************************************)
(* When no watch has anything more to tell about a claim and the status of *)
(* its last pass was stored, it shows the replica count of each of its     *)
(* clusters if that fits an int32, and the templates saw the same number   *)
(* if it is an integer.  The version of the unwatched control plane object *)
(* is current too, unless a requeue is pending or the claim has failed,    *)
(* which ends the requeues.  The summary of a cluster that is gone         *)
(* outlives it only under the same condition.                              *)
(***************************************************************************)
MirrorFollows ==
    \A c \in Claims, r \in Roles :
      LET seen == Clusters(c)[r]
          summary == status[c].mirror[r]
          pending == c \in timer \/ status[c].phase = "Failed" IN
      Settled(c) /\ ~outcome[c].lost =>
        IF seen = NoCluster THEN summary.there => pending
        ELSE /\ summary.there
             /\ seen.replicas.type # "other" /\ Fits(seen.replicas.n) => summary.count = seen.replicas.n
             /\ seen.replicas.type = "int64" => BuildContext(Clusters(c))[r].count = summary.count
             /\ summary.version = version[ClusterKey(c, r)] \/ pending

===============================================================================
