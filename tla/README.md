# A TLA+ model of cluster-claim-operator

cluster-claim-operator turns one `ClusterClaim` into a set of Kubernetes objects (an Argo CD
Application, CertificateSets, Cluster API Clusters, a CcmCsrc, Vault and S3 claims) and a few
ConfigMaps in the infra cluster it has just provisioned. It does so in a pipeline of 19 steps that
starts over on every reconcile, and takes everything down again in a fixed order when the claim is
deleted. The code is short. What is hard about it is that every read comes from an informer cache
that may be stale, every write may conflict or fail, and users, other controllers, the garbage
collector and process restarts act between any two API calls. Around that core sit a cache of remote
clients shared by concurrent workers, watches that must wake exactly the claims a change concerns, and
admission rules that the operator's own updates have to pass. This directory models all of it, checks
it with TLC on small instances and proves the central properties with TLAPS for every instance.

Paths below are relative to `src/internal/controller/` unless they start with `src/`.

## 1. The system

### Parts

| Part | Code | State | Operations |
|---|---|---|---|
| Reconciler | `clusterclaim_controller.go`, `conditions.go` | none in memory between passes; finalizer, status and pause annotation of the claim | `Reconcile`, `reconcilePaused`, `ensureFinalizer`, `reconcileDelete`, `deleteAndWait`, `deleteResource`, `removeResourceFinalizer`, `deleteRemoteConfigMaps` |
| Pipeline | `pipeline.go`, `resource.go`, `errors.go` | a pass's copy of the claim, the step index, `tmplCtx`, the prefetched objects | `executePipeline`, 19 steps, `ensureResource`, `ensureResourceFinalizer` (`conditions.go`), `applyRemoteConfigMap` |
| Status | `status.go` | phase, observedGeneration, conditions, mirrored sections | `setPhase`, `setReady`, `setFailed`, `setWaiting`, `clearPausedCondition`, mirrors, `updateStatusIfChanged` |
| Watches and queue | `clusterclaim_controller.go` (`SetupWithManager`), `mapfuncs.go`, `indexers.go` | informers, one queue entry per claim, requeue timers | predicates, `Owns`, `findClaimsForTemplate`, `findClaimForSecret` |
| Remote client cache | `remote/cluster_manager.go` | map of cached clients behind a RWMutex | `GetClient`, `removeExpired` (TTL), `cleanup` |
| Renderer, labels, naming, kinds | `src/internal/renderer/`, `src/internal/labels/`, `src/internal/naming/`, `gvk.go` | none | pure functions |
| API types and admission | `src/api/v1alpha1/` | none | validating webhook, CEL rules |
| Process | `src/cmd/main.go` | none | wiring, cache options, leader election |
| Environment | outside the repository | API server, garbage collector, CAPI, vault-operator, user | modelled from how the code uses it, marked external in the map |

### How they interact, and what is hard

A user's edit bumps the claim's generation; the claim's informer delivers it some time later and
queues the claim's key. A worker takes the key, reads the claim from the cache, and either ignores
it (gone), reports the pause, tears down, or makes sure of the finalizer and runs the pipeline. The
pipeline applies objects with server-side apply (never conflicts), adds a finalizer to each with an
Update (may conflict), and waits for progress that other controllers write into the objects' status.
Each exit writes the claim's status with an Update that conflicts if anything changed the claim since
the pass read it. Deletion visits the resources in order: Vault and S3 claims, remote ConfigMaps, CcmCsrc,
client cluster, infra cluster, certificates, Application. For the Vault and S3 claims and the clusters it
waits until they are gone before it goes on.

The behaviours that tests hardly reach, each listed with its line under `hazards` in `PROJECT.json`:
a cache that does not show what the same pass has just written; a deletion, pause, edit or crash
between two calls of a pass; a status write that is lost; a wake-up that nobody will give; an edit
that makes the deletion forget a resource; a garbage collector that deletes in another order; a
ConfigMap that fails after its sibling was written; a kubeconfig that rotates, a client that is evicted
or a claim that is created again while a worker is inside `GetClient`; a template that changes, vanishes
or comes back as another kind between two reads; two claims whose object names nearly collide; a mode
that two edits in a row change although each of them alone may not.

## 2. Modules

    ClaimTypes        objects, status, the API server's operations on one object, pure status functions
      ClaimPipeline   the 19 steps and the delete plan as data
        ClaimReconciler   the controller: one action per API call of a pass
          ClaimSystem     composed with user, API server, GC, other controllers, informers, queue, crashes
            |             (INSTANCEs ClaimLifecycle, the abstract specification it implements)
            MCClaim       instances for TLC
            ClaimProofs   type correctness
              ClaimSafety     finalizer, orphan, teardown and wake-up theorems; ClaimSystem implements ClaimLifecycle
                ClaimGenerations    pause and remote ConfigMaps, what is known of a live claim
                  ClaimReady          Ready means applied, and no condition at False; the client cluster and its CcmCsrc

    ClaimNames        names of managed objects, labels, the Secret watch's inverse
    ClusterManager    the cache of remote clients under its RWMutex, for any callers
      RemoteAccess    composed with ClaimNames, workers, queue, claims and kubeconfig Secrets
        MCRemote, RemoteProofs (with the theorems about ClaimNames)
    ClusterMirror     what a pass takes out of a CAPI Cluster: status summary and template context
      ClaimFleet      several claims, templates, field indexes, rendering, with ClaimNames
        MCFleet
        FleetProofs     types, moves, claims keep apart
          FleetRollout    changes reach every claim
    Admission         webhook, CEL rules, user and operator as writers
      MCAdmission, AdmissionProofs

`ClaimSystem` looks at one claim in full depth: every call, every stale read. `ClaimFleet` looks at
several claims in breadth: what objects are rendered from, whom they belong to, which claims a change
wakes. `RemoteAccess` opens up the one call of a pass, `GetClient`, that shares memory with other
passes. `Admission` shows that the rules for a stored claim hold over sequences of edits, and that the
operator's own updates get past them without undoing an edit.

### ClaimSystem: state and code

| Variable | Meaning in the code |
|---|---|
| `claim`, `cclaim`, `claimDirty` | the ClusterClaim on the server, in the informer, and whether their resourceVersions differ |
| `obj`, `cobj`, `dirty` | the same for the managed objects; what `r.Get` returns is `cobj` |
| `claimEvent` | a change that the `For()` predicate (generation or annotation changed) lets through is on its way |
| `queued`, `timer` | the key is in the work queue; some requeue of it is pending |
| `mode`, `step`, `sub`, `todo` | where the running pass is: step index and call, or what a delete pass has left |
| `my`, `mine`, `fresh` | `claim` as read (`oldStatus`), the status under construction, whether an Update with its resourceVersion would succeed |
| `cli` | `tmplCtx.ClientControlPlaneInitialized` |
| `secret`, `remote` | the infra kubeconfig Secret; the ConfigMaps in the infra cluster |
| `obstacle` | why a template cannot be applied: broken (its watch reports the repair) or rejected by the API server (nothing does) |
| `lost` | the last pass ended in a terminal error that the stored status does not show: the write was lost, or left out because the outdated copy already said so |
| `faults`, `budget` | bounds: API calls that may still fail; pauses, crashes, drifts, breakages and label changes left |
| `pauseGen` | history: the generation at which the claim was last paused |

Actions carry the names of the functions they model; `map` in `PROJECT.json` gives the lines. One
action is one API call with the local work around it. `ReconcileStart` joins the claim read,
`ensureFinalizer`'s Update and the prefetch of the pipeline, because a delivery between two reads
from independent informers is the same as one before or after both. The status write belongs to the
action that ends the pass.

### ClaimLifecycle: what the controller promises

Three variables: whether the claim is live, deleting or gone, whether it is `enrolled` (carries the
operator's finalizer), and for each resource whether it is absent, loose (there without the operator's
finalizer), held or released. A resource appears only for an enrolled claim; it is released only for a
claim that is being deleted and after the awaited resources before it; it is never taken back once
released; and the claim is retired only when nothing awaited is left. `ClaimSystem` maps `claim.life`,
`claim.fin` and the presence and finalizer of each object to these variables (`Stage`).

### ClusterManager and RemoteAccess

| Variable | Meaning in the code |
|---|---|
| `clients` | `cm.clients`; a client is named by the kubeconfig it was built from, a time by its age in ticks |
| `readers`, `writer` | holders of `cm.mu` |
| `pc`, `arg`, `now`, `got` | where a worker is in `GetClient`, the Secret it passed, the `time.Now()` it is about to store, what it got |
| `janitor` | where `Start` is: waiting for ticker or context, `removeExpired`, `cleanup`, returned |
| `secret`, `csecret` | the kubeconfig Secrets on the server and in the informer |
| `life`, `queued`, `task` | the claims that exist, are queued or waiting out a requeue delay, and are being worked on |
| `used` | history: how long ago a pass asked for the client cached under a key |

`GetClient` is split where another goroutine can get in: `Lookup` (read lock, take the time), `Touch`
(store it, unlock, return), `Lock`, `Create` (second lookup, creation, unlock). The store of `lastUsed`
under the read lock would be a data race in Go if two workers had the same entry: the outcomes that
matter are the two orders of the stores, since the comparison uses only the monotonic word of a time,
and the split gives both. `ManagerSpec` leaves the callers completely free; `RemoteAccess` supplies those of the
code, `stepRemoteConfigMaps` and `deleteRemoteConfigMaps`, which ask for a client in the same way. A pass
need not get that far: a pause or a terminal error of an earlier step ends it without a requeue
(`EndEarly`, for the claims in `Holdable`), and after the remote calls a terminal error may do the same
(`Leave`). Such a claim is only brought back by an event, of its kubeconfig Secret (`SyncSecret`) or of
anything else (`Wake`).

### ClaimFleet and ClusterMirror

| Variable | Meaning in the code |
|---|---|
| `tmpl`, `ctmpl` | the templates on the server and in the informer: kind, version of the value, whether it renders |
| `spec`, `cspec` | generation and template references of each claim; the field indexes are computed from `cspec` |
| `objects` | everything applied: owner, labels, the template version and cluster data it was rendered from, status |
| `version` | what each cluster's control plane object reports; read, never watched |
| `queued`, `timer`, `pass` | work queue, requeues, and per claim the running pass with its copy, context and mirror |
| `status` | phase and mirrored summaries |
| `outcome` | history of the last pass: how far it got, whether the API server rejected an object of it, whether the status it computed is not the one stored |
| `budget`, `losses` | bounds: what the environment may still do; status writes that may still fail |

`renderSteps` lists what the pipeline renders in the order of `pipelineSteps`; the waits that matter here
are those for the clusters, which refresh the template context. The Vault-family steps are two actions,
because the code reads the template twice. A pass ends in `End`, with the status write in it
(`updateStatusIfChanged`): refused when the spec was edited, and lost, as far as `losses` goes, when the
labels changed, the informer was behind or the call failed. `ApplyRejected` is the terminal exit of an
apply that `classifyAPIError` takes for final. `ClusterMirror` holds the pure functions of `status.go` and
`context.go` that turn a decoded Cluster into numbers, with int32 arithmetic modulo `2^Width`.

### Admission

The stored spec is reduced to what the rules look at: `client.enabled` and the two ipamModes, each
possibly absent, the client's also by an absent network. `configured` is the flag `--enable-webhook`;
`serving` whether the webhook can be reached (`failurePolicy=fail`). The operator writes its whole cached
copy back when it adds or removes the finalizer, so these updates are judged like a user's.

### Abstractions

- What is rendered is reduced to the claim generation it was rendered from, plus the one flag
  (`ClientControlPlaneInitialized`) that changes between two renderings of one generation, plus
  whether a VaultClaim has transit keys (those rendered from a generation in `KeyedGens`, so an edit may
  add them and take them away).
- The progress of a resource is a level from 0 to 2, as far as a wait step can tell levels apart.
- Conditions are True, False or absent; reasons, messages and times are left out, so a status write
  that would only change a message is no write in the model. Such a write passes no predicate and only
  makes the claim's copy stale, as a label change does. Events and logs are left out.
- An informer jumps to the latest version. Intermediate versions it could also have shown are
  covered by the moments at which the delivery happens, except where two changes of one object
  arrive one by one.
- A restart lists the current state. Every informer is synced before workers run.
- `ClaimSystem` has one claim and one life of it. That other claims do not interfere is
  `OwnObjectsOnly`; a claim created again under the same name is modelled in `RemoteAccess`, where
  the cache outlives it, and in `Admission`.
- An edit may drop an optional template reference, `configMapTemplateRef` included (where `MayDropRefs`
  allows it), but not add one in `ClaimSystem`; in `ClaimFleet` it may set any reference but drop none.
  Which ConfigMaps a claim with the reference has (`ConfigMaps`) does not change during its life.
- `client.enabled` is immutable, by the CRD's transition rule (`TransitionRules` in `Admission`).
- `ClaimFleet` has no finalizers, deletion or pauses, and its caches of managed objects are prompt; the
  properties that depend on these are stated for `ClaimSystem`. One flag says that a cluster is up, one
  number stands for the replica counts (the code converts all of them alike).
- A name is the sequence of its dash-separated segments. Claims have non-empty names.
- `computeHash` keeps 8 bytes of a SHA-256; `HashAssumption` says that no two kubeconfigs in use
  collide. Kubeconfigs of different claims differ (`AccessAssumption`).
- `client.New` under the write lock is one step: how long it takes does not matter to any property
  except that it ends.
- The informers' periodic resync (hours apart) is left out on purpose: it would sooner or later hide
  any lost wake-up, and the properties about waking up are meant to hold without it.

Assumptions about the deployment, from the repository: one replica with leader election
(`src/config/manager/manager.yaml:24,64`), unstructured reads from the cache
(`src/cmd/main.go:187-190`), one worker per key (the work queue's guarantee).

## 3. Properties

| Property | Says |
|---|---|
| `TypeOK` | every variable has its type, phases and conditions are declared ones |
| `FinalizerBeforeResources` | a live claim with any managed resource carries the operator's finalizer |
| `NoAwaitedOrphan` | a claim that is gone leaves no awaited resource with the operator's finalizer |
| `TeardownOrder` | a resource is released only after all that must go first are gone |
| `ReadyMeansApplied` | Ready at the current generation: all required objects are rendered from it and carry the operator's finalizer, the clusters' control planes are initialized, CcmCsrc knows the client cluster, the ConfigMaps are written |
| `PauseHoldsEditsBack` | nothing edited into a paused claim is applied before the pause ends |
| `CcmKeepsClient` | CcmCsrc is never rendered without the client control plane once it was rendered with it |
| `ClientClusterStartsLast` | the client cluster is applied only behind the infra control plane and, from a spec with transit keys, only when the keys exist |
| `ReadyHasNoFalseCondition` | a condition that is False under phase Ready belongs to a step that is skipped now, or to the KMS barrier of a claim that some edit left without transit keys |
| `QuiescenceIsReported` | when nothing will wake the operator, the claim is gone or its status says why |
| `EventuallyReady` | a claim left alone, with templates in order, becomes Ready and stays so |
| `DeletionCompletes` | a deleted claim goes away |
| `RemoteMapsGoFirst` | without failing calls, a spec that names `configMapTemplateRef` is deleted in this order: every remote ConfigMap, then the infra cluster is released |
| `ImplementsLifecycle` | `ClaimSystem` implements `ClaimLifecycle` |
| `RightClient` | a pass uses a client built from exactly the kubeconfig it read for its own claim |
| `RecentlyUsedIsKept` | a client asked for within the TTL is not evicted, despite the racing stores of `lastUsed` |
| `EveryCallReturns` | `GetClient` returns |
| `RotationIsFollowed` | a usable kubeconfig that the informer does not show yet is used by a later pass of its claim, even if no requeue of the claim is pending, or it is replaced before |
| `GoneClientsAreDropped` | the client of a claim that is gone for good leaves the cache |
| `RolledOut` | when the watches have nothing more to tell about a claim, all it applied is rendered from the current templates, references and cluster data, and labelled and owned by it |
| `FailureHasACause` | a settled claim that no requeue will bring back, or whose last pass stored Failed, stopped at a template that is missing, broken or of the wrong kind right now, or at an object the API server rejected |
| `ReadyHasItsObjects` | a settled claim whose last pass stored Ready has an object of the expected kind for every step |
| `MirrorFollows` | the numbers and versions that the last pass stored are those of the clusters; for a version, or a cluster that is gone, a requeue may have to correct them |
| `OwnObjectsOnly` | no pass takes over another claim's object, unless a template renders an unexpected kind |
| `ModeOnceSetStays` | with the webhook, the first ipamMode of a cluster stays for the life of the claim |
| `OperatorKeepsEdits` | the updates that add and remove the claim's finalizer leave the stored spec as it is |
| `BackfillIsAdmitted` | an absent ipamMode can be set to any value |
| `DeletionIsAdmitted` | admission never blocks the update that ends a deletion for good |

Two more state what a comment or event of the repository says and the code does not do; they are
checked by runs that expect a violation (section 5): `NoOrphan` and `TerminalErrorIsReported`.

## 4. Passing runs

`Lagging` names the informers that may be stale in a run of `MCClaim`; the action constraint `Prompt`
makes all others deliver a change before anything else happens. Without it every informer lags
independently and the state space is the product of all lags; a run lets the informers lag that its
question is about. `CHECK_DEADLOCK FALSE` is set because the system does stop: once the claim is gone,
or Failed or Paused with all budgets spent, nothing is left to do. That it stops only there is
`QuiescenceIsReported`, and for several claims `RolledOut` and `FailureHasACause`.

| Run | Instance | Shows |
|---|---|---|
| `pause` | no client cluster, 2 generations, one pause, the claim's informer lags | an edit and a pause at any moment of a pass: `FinalizerBeforeResources`, `ReadyMeansApplied`, `PauseHoldsEditsBack` |
| `teardown` | client cluster held by another controller's finalizer, deletion at any moment, one crash, Cluster informer lags | `NoAwaitedOrphan`, `TeardownOrder`, `CcmKeepsClient` |
| `vault` | client cluster, a VaultClaim with transit keys that an edit removes and whose progress may regress once, its informer lags | `TypeOK`, `ReadyMeansApplied`, `ReadyHasNoFalseCondition`, `ClientClusterStartsLast` |
| `remote` | two ConfigMaps, infra cluster held by another controller's finalizer, background or foreground deletion at any moment, one failing call, one broken template or rejected apply, one label change, or an edit that may drop `configMapTemplateRef` | `QuiescenceIsReported`, `ReadyMeansApplied`, `ReadyHasNoFalseCondition`, `TeardownOrder` against a garbage collector working in its own order, `RemoteMapsGoFirst` |
| `liveness` | `FairSpec`; one failing call, a foreign finalizer on the infra cluster, deletion at any moment | `ImplementsLifecycle`, `EventuallyReady`, `DeletionCompletes` |
| `clients` | `FairSpec` of `MCRemote`; two workers, two claims of one name in two namespaces; one is deleted and created again with another kubeconfig, the other may be paused or stopped by an earlier step, and its Secret starts unusable, may become empty and good; TTL of 0 ticks | `RightClient`, `RecentlyUsedIsKept`, `EveryCallReturns`, `RotationIsFollowed`, `GoneClientsAreDropped` |
| `fleet` | `MCFleet`; claim `a` with a client cluster, provisioned, and claim `a-infra`, new, on the same templates; one status write may be lost in every scenario | `RolledOut`, `FailureHasACause`, `ReadyHasItsObjects`, `MirrorFollows`, `OwnObjectsOnly` |
| `admission` | `FairSpec` of `MCAdmission`; the two modes of the enum, every spec, webhook on or off | `ModeOnceSetStays`, `BackfillIsAdmitted`, `OperatorKeepsEdits`, `DeletionIsAdmitted` |

Bounds of `MCClaim`, and why they are enough. Two generations show every relation between an edit and a
pass (before, during, after); a third edit meets a pass the way the second does. One fault, crash, drift
or breakage at every possible point covers each recovery path, since a pass keeps nothing in memory
that outlives it. One resource under a foreign finalizer is enough to make an awaited deletion take
time. In `vault` and `remote` the action constraint `Apart` explores an edit, a regress, a label change and
a foreground deletion separately from each other and from faults and obstacles; an edit together with
the deletion that follows it is explored. What the runs leave out: the third ConfigMap
(`client`), a template that breaks and is repaired in the liveness run, two informers lagging at once,
and crashes outside the `teardown` instance. The proofs below remove the bounds for the properties they
cover.

Bounds of the others. `MaxWrites` bounds the writes of kubeconfig Secrets (their removal and the life of
a claim are not bounded); `TTL` 0 makes an entry expire after one tick, and ages are capped at TTL + 1
because the code asks nothing else of them. `Budgets` of `ClaimFleet` is a set of scenarios, one chosen
in the initial state: two changes of a template (break and repair, delete and create, also as another
kind); one change and one edit of a reference; one event of a cluster (a report as int64, as float64,
or beyond int32, a new control plane version, removal); one failing call or rejected object. `MaxLosses`
adds to each the loss of any one status write; `outcome` remembers only the last pass, so two losses in a
row leave a claim as one does. `Holdable` of `RemoteAccess` holds the claim of which `RotationIsFollowed`
does not speak: a claim that may be paused for good need not use anything. `Width` 4 makes "beyond int32"
a small number; the arithmetic is the same. The fleet runs with one worker: passes of different claims
meet only in the objects, and every event still falls between any two calls of a pass. `Admission` has
no bound.

Every property has a mutant in `PROJECT.json`: a plausible fault (the definitions commented "Fault:"
beside the code they replace) under which TLC finds the property violated.

### Fairness

`Fairness` in `ClaimSystem` is weak fairness of: a worker's next call (workers do not stop while the
process runs), the delivery of changes by the informers, the requeue timers, and the progress of
foreign controllers (`Advance`, `ForeignCleanup`, `KubeconfigSecret`). The last group is an
assumption about CAPI, cert-manager and the vault-operator; without it no operator could promise
`Ready`. Users, faults, crashes, drifts and the repair of a template owe nothing: `EventuallyReady`
has as its premise that the claim is left alone with its templates in order. In the liveness run all
informers are prompt; `Prompt` only delays a fair action until the pending deliveries, which are fair
themselves, are done.

`RemoteAccess` assumes weak fairness of the calls of a worker, the informer, the clock and the ticker,
and strong fairness where something else may get in between again and again: of taking `cm.mu`
(`sync.RWMutex` lets neither readers nor writers starve) and of a worker taking a queued claim (the work
queue serves every queued claim in turn). Users, CAPI and the shutdown owe nothing; the two properties about a
running process say so.

`Admission` assumes that the informer delivers, that the webhook comes back, and strong fairness of the
operator's update: it is retried with backoff, and edits and outages do not hit every retry.

## 5. Runs that end in a violation

Each shows code and documentation disagreeing; the quoted lines are under `findings`.

| Run | Property | What happens |
|---|---|---|
| `v_dropped_ref` | `NoAwaitedOrphan` | an optional template reference is removed, then the claim is deleted: the teardown follows the current spec and leaves the resource with its finalizer |
| `v_stale_finalizer` | `NoOrphan` | deletion right after a CertificateSet got its finalizer: the cache does not show it, nothing waits for certificates, the finalizer stays |
| `v_lost_failure` | `TerminalErrorIsReported` | the status write of a terminal error conflicts with a label change; its error is discarded and no requeue follows |
| `v_kms_barrier` | `ClientClusterStartsLast` | transit keys added by an edit: the barrier reads the previous VaultClaim from the cache and opens |

A relative of `v_stale_finalizer` is tolerated by the model's `TeardownOrder`: a cluster that was
applied but is not in the cache when deletion reaches it is passed over. It has no operator finalizer
yet in that case, so nothing is orphaned, but it is deleted by the garbage collector after the claim
instead of in order; this is why `TeardownOrder` and `NoAwaitedOrphan` speak of resources that ever
had the finalizer.

Smaller disagreements, visible in the models and kept as remarks:

- `setWaiting` leaves condition Ready True when a dependency regresses, while
  `docs/OPERATOR-SPEC-IMPL.md:541` gives False for an unfinished pipeline.
- A terminal error returns without `RequeueAfter`, while `docs/OPERATOR-SPEC.md:450` says that every
  reconcile ends with one. `FailureHasACause` shows that this does no harm for missing, broken or wrong
  templates, whose repair is watched; an apply that the API server rejected is only retried after some
  other event, and `FailureHasACause` says nothing about it.
- A status write that fails at the end of a pass is not repeated. `QuiescenceIsReported`, `ReadyHasItsObjects`
  and `MirrorFollows` therefore exempt a claim whose last pass could not store its status: it may show
  Ready without an object, or an old count, until the requeue, or after a terminal error until some event.
- The KMS barrier returns early for a VaultClaim without transit keys and leaves its condition as it is:
  an edit that removes the keys while the barrier waits for them makes the claim Ready with
  `VaultKmsReady` False. The same happens to the condition of a step whose reference is dropped while it
  waits. These are the exceptions in `ReadyHasNoFalseCondition`.
- A claim whose `configMapTemplateRef` was dropped is deleted without its ConfigMaps, which stay in the
  infra cluster: hence the premise in `RemoteMapsGoFirst`.
- `src/cmd/main.go:188` says that all unstructured types read from the cache are watched through
  `Owns()`. The control plane objects read by `fetchControlPlaneVersion` are not: hence the disjunct
  `pending` in `MirrorFollows`. A claim in phase Failed keeps showing the version of its last pass.
- `docs/OPERATOR-SPEC-IMPL.md:303` says that clients are cached by the UID of the Secret. The code uses
  namespace and name with a hash of the content, which `RightClient` shows to be enough.
- Without the webhook, the CEL rules alone let a mode be changed by two updates (remove it, then set
  another one): `ModeOnceSetStays` needs `configured`.

## 6. Proofs

TLAPS checks the following for all values of the constants that satisfy the named assumptions
(`ConfigAssumption`, `SystemAssumption`; `ManagerAssumption`, `HashAssumption`, `NoEntryAssumption`,
`AccessAssumption`; `FleetAssumption`, `MarkersAssumption`, `MirrorAssumption`; `ModesAssumption`): any claims and
configurations, any number of workers, any bound on generations, faults, crashes, pauses and drifts, and
with every informer lagging (the proofs do not use `Prompt` or `Apart`).

| Theorem | Statement |
|---|---|
| `TypeCorrect` (ClaimProofs) | `Spec => [](TypeOK /\ StepOK)` |
| `Safety` (ClaimSafety) | `Spec => []Safe` |
| `FinalizerComesFirst` (ClaimSafety) | `Spec => []FinalizerBeforeResources` |
| `NothingAwaitedIsOrphaned` (ClaimSafety) | `Spec => [](~MayDropRefs => NoAwaitedOrphan)` |
| `TeardownIsOrdered` (ClaimSafety) | `ASSUME ~MayDropRefs PROVE Spec => TeardownOrder` |
| `Refinement` (ClaimSafety) | `ASSUME ~MayDropRefs PROVE Spec => ImplementsLifecycle` |
| `LifecycleKeepsPromise` (ClaimSafety) | `ImplementsLifecycle => []Promise`: nothing awaited is engaged once the finalizer is off, and a live claim without it has no resources |
| `SilenceIsExplained` (ClaimSafety) | `Spec => []QuiescenceIsReported` |
| `PauseIsRespected` (ClaimGenerations) | `Spec => []PauseHoldsEditsBack` |
| `RemoteMapsAreRemoved` (ClaimGenerations) | `Spec => RemoteMapsGoFirst` |
| `ReadyIsTrue` (ClaimReady) | `Spec => []ReadyMeansApplied` |
| `ReadyIsUnqualified` (ClaimReady) | `Spec => []ReadyHasNoFalseCondition` |
| `ClientStaysConfigured` (ClaimReady) | `ASSUME TRUE \notin Foreground PROVE Spec => CcmKeepsClient` |
| `ClientWaitsForInfra` (ClaimReady) | `Spec => ClientAfterInfra` |
| `ClientStartsLast` (ClaimReady) | `ASSUME \A g \in KeyedGens : 1..g \subseteq KeyedGens PROVE Spec => ClientClusterStartsLast` |
| `SecretFindsItsClaim` (RemoteProofs) | `findClaimForSecret(SecretOf(c)) = {c}` for every claim |
| `ManagerCorrect` (RemoteProofs) | `ManagerSpec => []ManagerOK` |
| `Composition` (RemoteProofs) | `Spec => ManagerSpec` |
| `ClientsAreRight` (RemoteProofs) | `Spec => []RightClient` |
| `EvictionIsSafe` (RemoteProofs) | `Spec => RecentlyUsedIsKept` |
| `ClaimsKeepApart` (FleetProofs) | `Spec => OwnObjectsOnly` |
| `FailuresAreCaused` (FleetRollout) | `Spec => []FailureHasACause` |
| `ChangesAreRolledOut` (FleetRollout) | `ASSUME ClusterTemplatesReserved PROVE Spec => []RolledOut` |
| `ReadyIsComplete` (FleetRollout) | `ASSUME ClusterTemplatesReserved PROVE Spec => []ReadyHasItsObjects` |
| `MirrorIsCurrent` (FleetRollout) | `ASSUME ClusterTemplatesReserved PROVE Spec => []MirrorFollows` |
| `ModesStay` (AdmissionProofs) | `Spec => []ModeOnceSetStays` |
| `EditsAreKept` (AdmissionProofs) | `Spec => OperatorKeepsEdits` |
| `BackfillIsLetIn` (AdmissionProofs) | `Spec => []BackfillIsAdmitted` |

Four hypotheses appear, and all are needed:

- `~MayDropRefs`: without it `v_dropped_ref` is the counterexample for the teardown.
- `ClusterTemplatesReserved` says that only the references of the two clusters lead to templates that
  render a Cluster. Without it a claim `a-infra`, whose `observe` reference is edited to lead to a Cluster
  template, takes over claim `a`'s infra cluster. The takeover wakes claim `a`, but if its pass fails before
  it has taken the cluster back, claim `a` learns nothing of the cluster's events until its requeue, because
  the watch follows the new owner. A template of an unexpected kind is the exception in `OwnObjectsOnly` for
  the same reason. The `fleet` instance does not satisfy the condition: it contains this edit, for the sake
  of `OwnObjectsOnly`. `RolledOut` and `MirrorFollows` pass there because no scenario of `MCBudgets` combines
  the edit with a failing call and an event of a cluster: for one that does, (0, 1, 1, 1), TLC finds
  `RolledOut` violated in nine states and `MirrorFollows` in eight.
- `TRUE \notin Foreground`: nobody deletes the claim with foreground propagation. A foreground deletion
  lets the garbage collector remove a client cluster that is applied but not yet under the finalizer; a
  pass that started before applies it again, and the next pass, for which the informer still shows a live
  claim and now an uninitialized client cluster, renders the CcmCsrc without it. Led along this path TLC
  reaches it in 67 states.
- `\A g \in KeyedGens : 1..g \subseteq KeyedGens`: edits may take the VaultClaim's transit keys away but not
  add them, as in the `vault` instance. Keys that an edit adds are the counterexample `v_kms_barrier`.
  `ClientAfterInfra`, the half of `ClientClusterStartsLast` about the infra control plane, holds without it.

### The controller

`StepOK` says that a running pass is on a step its copy of the spec does not skip;
without it a step might ensure a resource that the spec does not require. `ClaimSafety` first proves
what any step of the system may do to the claim (`ClaimMove`), to one object (`ObjectMove`), to the
informers and to the worker (`WorkerMove`), action by action. The invariant `Safe` follows from the
moves alone:

- `Coherent`: an informer's copy that is not marked stale equals the server's. It turns "the Update
  did not conflict" into "the copy was right".
- `LifeKnown`: only a delete pass takes the claim's finalizer away, a delete pass runs only after the
  informer has shown the deletion, and the informer never goes back. So a cached live claim with
  finalizer means that the server's claim still has it, and a running pipeline is always covered.
- `Observed`: an object that ever got the operator's finalizer is shown by its informer until it is
  gone, because the finalizer is only added to an object that the cache shows. This is what makes
  `deleteAndWait`'s "not in the cache" safe.
- `Planned`: while no reference is dropped, everything with a finalizer is in every delete plan.
- `Swept`: a delete pass leaves no awaited resource that has or had the finalizer behind, and the
  claim loses its own finalizer only then.

None of the properties is inductive by itself: `NoAwaitedOrphan` needs `Swept`, which needs
`Observed` and `Planned`, which need `Coherent`; `FinalizerBeforeResources` needs `LifeKnown`.

`SilenceIsExplained` rests on `Woken`, an invariant about events rather than about objects: the event of
an edit is on its way for as long as the informer lags, a deletion is never merged into a change that
passes no predicate, a claim that is being deleted has a pass coming until its finalizer is gone, and a
live claim whose worker rests has a requeue, an event, a phase that says why, or `lost`. Each step
either leaves all this alone (`Steady`), gives up with an error (`Returns`), ends a pass (`Ends`) or
changes the claim (`Changed`).

`RemoteMapsAreRemoved` rests on `Traced`: ConfigMaps are only applied behind the step that puts the infra
cluster under the operator's finalizer, and for as long as the cluster is held the kubeconfig is there to
remove them. A delete pass of a spec with the reference that is past them therefore removed them, unless a
call failed; and the cluster comes after them in the delete plan. No other assumption on edits is needed:
the plan is that of the copy the pass works from, and nothing is applied any more once a delete pass runs.

`PauseIsRespected` rests on `Held`: everything written, and everything that a running pass or a pass
started from the informer's copy could still write, is no younger than the claim, and no younger than
the pause while the claim is paused.

`ReadyIsTrue` follows a pass through all 19 steps. `ReadyMeansApplied` speaks of the server's claim and
objects, and a pass sees neither, so five invariants bridge the gap:

- `Held`, as above, and `Ordered`: generations are written in the order in which the informer shows
  them, so a pass never overwrites a generation younger than its own.
- `Seen`: while the claim is `Alive`, what an informer shows of a resource (the finalizer, a cluster's
  level) holds of the resource, however old the copy is. Nothing that such a claim needs is deleted, and
  initialization flags are one-way. `Alive` means live, or deleted in the background with no delete pass
  begun.
- `Progress`: a running pass has done every step behind it that its spec does not skip, where
  `Done(s)` says what a step leaves behind on the server.
- `Dated`: the status a pass can still store carries the generation of its copy, and a copy whose
  resourceVersion is current (`fresh`) is the claim itself. This is what keeps a pass whose claim was
  edited under way from reporting the new generation Ready.

With these, a pass beyond the last step has applied everything (`AllDone`), and no later step takes any
of it back while the claim stays at that generation (`ReadyKept`).

`ReadyIsUnqualified` adds `Waits`: a condition at False in the hands of a running pass belongs to a step
that the pass has not left yet (`Pending`), or is `Excused`: its step is skipped by the pass's spec, or it is
the KMS barrier's and some generation up to the pass's own has no transit keys. A step is left by setting
its condition to True; only the barrier, before a VaultClaim without keys, leaves it alone, and
`Numbered` says that such a VaultClaim, when the cache shows one to a pass, was rendered from a generation
up to the pass's own.

`ClientStaysConfigured` is why `Seen` speaks of `Alive` and not of live claims only: a pipeline pass can
outlive the claim's deletion, and one can even start after it from a stale copy. As long as the deletion
is not a foreground one, all of them still find the client cluster that the CcmCsrc was rendered for.

`ClientStartsLast` and `ClientWaitsForInfra` rest on `Barred`, which says that a barrier stays passed. Before
the first delete pass a resource under the finalizer is at least as far as its informer has shown it, up to
the level its kind cannot fall back from (`Floor`); and a pass beyond a barrier has that level of the resource
on the server, not only in the cache. Neither follows from `Progress`, which is about live claims: a pass
can render the client cluster of a claim that is being deleted. By `Numbered`, where keys are never added
and the pass's spec has them, so does the VaultClaim that the barrier sees.

`Refinement` adds one invariant, `Retired`: once something was released, neither the claim nor its
cached copy is live and no pipeline runs, so nothing released is taken back. A step changes the
claim or one object, never both (`OneAtATime`), and each such move is mapped to the abstract action of
the same meaning or to a stutter. `LifecycleKeepsPromise` closes the argument: `Promise` is inductive for
`ClaimLifecycle` by itself, so the abstract specification is strong enough to be worth implementing.

### The client cache

`ManagerOK` joins the exclusion of the locks (`Locks`) with `Served`: an entry's hash is the hash of the
kubeconfig its client was built from, and the entry a reader found stays its entry until it gives the
lock back, because only a holder of the write lock changes the map. It is proved for callers that may do
anything. `Composition` then shows that the passes are such callers, step by step, and `ClientsAreRight`
adds what only they guarantee: the Secret read for a claim is that claim's (`Secrets`, `Passes`).

`EvictionIsSafe` does need the composition: with two callers on one key, a reader that took its time
first could store it last. `Passes` says that no two workers have the same claim, `SecretIsOwn` that two
claims never share a key, and so `Stamps` holds: the stamp of an entry is the age
of its last use, except while its only reader is about to store a newer one.

### Several claims

`AllApplied` says that every object lies under the key that its owner and step give it. Two claims with
objects of the expected kind under one key have the same namespace and, by cancelling equal suffixes,
the same name (`NamesAreOwn`, `OwnerIsFixed`). It is the kind that keeps `a-infra`'s Application
apart from `a`'s infra cluster; this is why a template of an unexpected kind is the exception.

`FleetRollout` shows that every change reaches every claim it concerns. What a step of the system does is
seen from one claim: it moves the claim's own pass (`PassMove`), or it happens elsewhere (`Elsewhere`) and
either queues the claim or leaves alone what the claim has. So it is enough to look at a claim that is not
queued:

- `Known`, `Failing`: its pass works on what the informer shows, and if its last pass stored Failed or left
  no requeue, and no object was rejected, the template that pass stopped at still cannot be used (`Stuck`).
  `FailuresAreCaused` needs nothing else.
- `Sound`: every step its pass (`Running`) or its last pass (`Resting`) got through is done: the object is
  there, and is rendered from the template in the informer and from the clusters as they are now; the
  mirror shows these clusters. At rest this is said of the stored status only if the last pass stored it:
  a requeue is pending unless it says Failed, and Ready means that the pass got through the last step.
- `OwnClusters`: what lies at the keys of the claim's clusters is the claim's own, so nothing changes there
  without queueing it. This is where the proof needs `ClusterTemplatesReserved`.

### Admission

`ModeOnceSetStays` is inductive together with the types: every accepted update satisfies the webhook's
rule for the stored spec, and the stored mode is the first one. `EditsAreKept` rests on the informer's copy
being the stored spec whenever its resourceVersion is current.

### Only model-checked

The liveness properties (`EventuallyReady`, `DeletionCompletes`, `EveryCallReturns`,
`RotationIsFollowed`, `GoneClientsAreDropped`, `DeletionIsAdmitted`): fairness is out of the prover's reach.
Every other property of a passing run is the statement of a theorem above.

## 7. Not modelled

- Executing Go templates and parsing the YAML (`src/internal/renderer/template.go`): library calls on
  text. The models keep what goes in (template version, context) and whether it succeeds.
- The data-only fields of the spec: they reach nothing but template text.
- Conditions' reasons, messages and times, events, logs and metrics.
- More than one active process: leader election excludes it, and nothing in the code would.
- An edit of `spec.remoteNamespace`: the models have one remote namespace per claim. The code leaves
  the ConfigMaps of the former namespace behind until the infra cluster is deleted.
- An edit that changes which ConfigMaps there are while `configMapTemplateRef` stays (the infra role
  gaining or losing "system", the client part of the reference): `ConfigMaps` is a constant. Deletion
  tries all three names, so nothing is left behind; a ConfigMap that is no longer asked for stays until then.
- An edit that adds a template reference, in `ClaimSystem`; `ClaimFleet` has it, without deletion.
- Flag parsing and wiring (`src/cmd/main.go`) apart from `--enable-webhook`, generated deepcopy code,
  scheme registration, the test utilities: no behaviour of their own.
