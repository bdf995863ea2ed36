---------------------------- MODULE ClaimReconciler ----------------------------
(***************************************************************************)
(* The ClusterClaim controller reconciling one claim: what the API server  *)
(* stores, what the informer caches show, the work queue, and the single   *)
(* worker that may hold the claim's key.  One action is one API call of a  *)
(* pass together with the local work around it, so that everything else in *)
(* the cluster can happen between two calls.                               *)
(***************************************************************************)
EXTENDS ClaimPipeline

VARIABLES
    claim,       \* the ClusterClaim on the API server
    cclaim,      \* the informer's copy of it
    claimDirty,  \* the server's copy has a newer resourceVersion than the informer's
    claimEvent,  \* a change the For() predicate lets through is not yet delivered
    obj,         \* the managed objects on the API server
    cobj,        \* the informers' copies of them
    dirty,       \* per object: the server's resourceVersion is newer than the informer's
    secret,      \* the <claim>-infra-kubeconfig Secret, as its informer shows it
    remote,      \* remote ConfigMaps: generation rendered from, 0 when absent
    obstacle,    \* why a template cannot be applied: "none", "template" or "rejected"
    queued,      \* the claim's key is in the work queue
    timer,       \* at least one delayed or rate-limited requeue of the key is pending
    mode,        \* what the worker is doing: "idle", "pipeline" or "delete"
    my,          \* the worker's copy of the claim, status as read (oldStatus)
    mine,        \* the status the worker has assembled in memory
    fresh,       \* my carries the resourceVersion the server has
    step,        \* pipeline: index of the step
    sub,         \* the call within the step
    todo,        \* delete: resources this pass has not dealt with
    cli,         \* tmplCtx.ClientControlPlaneInitialized
    lost,        \* history: the last pass ended in a terminal error that the stored status does not show
    faults,      \* API calls that may still fail transiently
    pauseGen,    \* history: the claim's generation when it was last paused
    budget       \* what the environment may still do

server == <<claim, claimDirty>>
objects == <<obj, dirty>>
caches == <<cclaim, cobj>>
worker == <<mode, my, mine, fresh, step, sub, todo, cli>>
external == <<claimEvent, secret, obstacle, pauseGen, budget>>

vars == <<claim, cclaim, claimDirty, claimEvent, obj, cobj, dirty, secret, remote,
          obstacle, queued, timer, mode, my, mine, fresh, step, sub, todo, cli,
          lost, faults, pauseGen, budget>>

(***************************************************************************)
(* API server writes.  An Update carries the resourceVersion the operator  *)
(* read and conflicts unless that is still current; a no-op changes no     *)
(* resourceVersion.                                                        *)
(***************************************************************************)
Store(r, o) ==
    /\ obj' = [obj EXCEPT ![r] = o]
    /\ dirty' = [dirty EXCEPT ![r] = @ \/ o # obj[r]]

StoreClaim(c) == claim' = c /\ claimDirty' = TRUE

\* updateStatusIfChanged, from the status was to st with f faults left; ok tells whether it returned nil.
updateStatusIfChanged(was, st, current, f, ok) ==
    \/ st = was /\ ok /\ faults' = f /\ UNCHANGED server
    \/ st # was /\ ok /\ current /\ faults' = f /\ StoreClaim([claim EXCEPT !.status = st])
    \/ /\ st # was /\ ~ok /\ UNCHANGED server
       /\ \/ ~current /\ faults' = f
          \/ f > 0 /\ faults' = f - 1

\* One API call fails for a transient reason.
Fault == faults > 0 /\ faults' = faults - 1

GoIdle ==
    /\ mode' = "idle" /\ my' = NoClaim /\ mine' = NoStatus /\ fresh' = FALSE
    /\ step' = 0 /\ sub' = "" /\ todo' = {} /\ cli' = FALSE

\* Reconcile returns an error: the key comes back with rate-limited backoff.
ReturnError == GoIdle /\ timer' = TRUE /\ UNCHANGED lost

-------------------------------------------------------------------------------
(***************************************************************************)
(* Reconcile: reads the claim from the cache and dispatches.               *)
(***************************************************************************)
Take == mode = "idle" /\ queued /\ queued' = FALSE

ReconcileNotFound ==
    /\ Take
    /\ \/ cclaim.life = "gone"
       \/ cclaim.life = "deleting" /\ ~cclaim.fin
    /\ lost' = FALSE
    /\ UNCHANGED <<server, objects, caches, worker, external, remote, timer, faults>>

reconcilePaused ==
    /\ Take
    /\ cclaim.life = "live" /\ cclaim.paused
    /\ \E ok \in BOOLEAN :
         /\ updateStatusIfChanged(cclaim.status,
                                  setTrue(setPhase(cclaim.status, "Paused", cclaim.gen), "Paused"),
                                  ~claimDirty, faults, ok)
         /\ timer' = (timer \/ ~ok)
    /\ lost' = FALSE
    /\ UNCHANGED <<objects, caches, worker, external, remote>>

\* Fault: the client cluster is not prefetched.
BeginPipelineBlind(c) ==
    LET started == clearPausedCondition(setPhase(c.status, "Provisioning", c.gen)) IN
    /\ mode' = "pipeline" /\ my' = c /\ mine' = mirrorStatuses(started, c.refs, cobj)
    /\ cli' = FALSE
    /\ \E j \in 1..(LastStep + 1) : NextStep(0, j, c.refs) /\ step' = j
    /\ sub' = "apply" /\ todo' = {} /\ lost' = FALSE

\* The worker enters executePipeline with its copy c of the claim.
BeginPipeline(c) ==
    LET started == clearPausedCondition(setPhase(c.status, "Provisioning", c.gen)) IN
    /\ mode' = "pipeline"
    /\ my' = c
    /\ mine' = mirrorStatuses(started, c.refs, cobj)
    /\ cli' = (ClientEnabled /\ cobj["ClusterClient"].level = 1)
    /\ \E j \in 1..(LastStep + 1) : NextStep(0, j, c.refs) /\ step' = j
    /\ sub' = "apply"
    /\ todo' = {}
    /\ lost' = FALSE

\* Fault: a conflict is ignored.
ensureFinalizerIgnored ==
    \/ (cclaim.fin \/ claimDirty) /\ fresh' = ~claimDirty /\ UNCHANGED server
    \/ ~cclaim.fin /\ ~claimDirty /\ fresh' = TRUE /\ StoreClaim([claim EXCEPT !.fin = TRUE])

\* ensureFinalizer: nothing to do, or an Update that must not conflict.
ensureFinalizer ==
    \/ cclaim.fin /\ fresh' = ~claimDirty /\ UNCHANGED server
    \/ /\ ~cclaim.fin /\ ~claimDirty /\ fresh' = TRUE
       /\ StoreClaim([claim EXCEPT !.fin = TRUE])

\* Fault: the pause annotation is not looked at.
ReconcileStartUnpaused ==
    /\ Take
    /\ cclaim.life = "live"
    /\ ensureFinalizer
    /\ BeginPipeline([cclaim EXCEPT !.fin = TRUE])
    /\ UNCHANGED <<objects, caches, external, remote, timer, faults>>

ReconcileStart ==
    /\ Take
    /\ cclaim.life = "live" /\ ~cclaim.paused
    /\ ensureFinalizer
    /\ BeginPipeline([cclaim EXCEPT !.fin = TRUE])
    /\ UNCHANGED <<objects, caches, external, remote, timer, faults>>

ensureFinalizerFails ==
    /\ Take
    /\ cclaim.life = "live" /\ ~cclaim.paused /\ ~cclaim.fin
    /\ \/ claimDirty /\ UNCHANGED faults
       \/ Fault
    /\ ReturnError
    /\ UNCHANGED <<server, objects, caches, external, remote>>

-------------------------------------------------------------------------------
(***************************************************************************)
(* executePipeline: the loop over the steps and its exits.                 *)
(***************************************************************************)
Current == pipelineSteps[step]

InStep(op) == mode = "pipeline" /\ step <= LastStep /\ Current.op = op

\* The step returns Proceed, having set its condition.
Proceed(c) ==
    /\ \E j \in 1..(LastStep + 1) : NextStep(step, j, my.refs) /\ step' = j
    /\ sub' = "apply"
    /\ mine' = IF c = "" THEN mine ELSE setTrue(mine, c)
    /\ UNCHANGED <<mode, my, fresh, todo, lost, timer>>

\* A pass ends by writing st; the write's own error only matters where requeue says so.
EndPass(st, f, requeue) ==
    /\ \E ok \in BOOLEAN : updateStatusIfChanged(my.status, st, fresh, f, ok)
    /\ lost' = (~requeue /\ claim'.status # st)
    /\ timer' = (timer \/ requeue)
    /\ GoIdle

TerminalError(st, f) == EndPass(setFailed(st, my.gen), f, FALSE)

\* Fault: no requeue after a transient error.
TransientErrorDropped(st, f) == EndPass(setFalse(st, "Ready"), f, FALSE)

TransientError(st, f) == EndPass(setFalse(st, "Ready"), f, TRUE)

\* Fault: a waiting pass relies on watches alone.
WaitOnWatch(c) ==
    /\ \E ok \in BOOLEAN : updateStatusIfChanged(my.status, setWaiting(mine, c, my.gen), fresh, faults, ok)
    /\ GoIdle /\ UNCHANGED <<timer, lost>>

Wait(c) == EndPass(setWaiting(mine, c, my.gen), faults, TRUE)

Ready ==
    /\ mode = "pipeline" /\ step > LastStep
    /\ EndPass(setReady(mine, my.gen), faults, TRUE)
    /\ UNCHANGED <<objects, caches, external, remote, queued>>

(***************************************************************************)
(* ensureResource: fetch the template, render, server-side apply.  A       *)
(* missing or unrenderable template, a template of the wrong kind, a       *)
(* missing client reference and a rejected apply are terminal.             *)
(***************************************************************************)
ensureResource ==
    LET r == Current.res IN
    /\ InStep("ensure") \/ InStep("reapply")
    /\ sub = "apply"
    /\ obstacle[r] = "none"
    /\ Store(r, ApplyTo(obj[r], my.gen, r = "CcmCsrc" /\ cli))
    /\ IF Current.op = "ensure"
       THEN sub' = "finalize" /\ UNCHANGED <<mode, my, mine, fresh, step, todo, lost, timer>>
       ELSE Proceed(Current.cond)
    /\ UNCHANGED <<server, caches, external, remote, queued, cli, faults>>

ensureResourceFails ==
    /\ InStep("ensure") \/ InStep("reapply")
    /\ sub = "apply"
    /\ \/ obstacle[Current.res] # "none" /\ TerminalError(mine, faults)
       \/ faults > 0 /\ TransientError(mine, faults - 1)
    /\ UNCHANGED <<objects, caches, external, remote, queued>>

(***************************************************************************)
(* ensureResourceFinalizer: reads the object just applied from the cache.  *)
(* An object the cache does not show yet is an error; a finalizer cannot   *)
(* be added to a terminating object.                                       *)
(***************************************************************************)
ensureResourceFinalizer ==
    LET r == Current.res IN
    /\ InStep("ensure") /\ sub = "finalize"
    /\ cobj[r].there
    /\ \/ cobj[r].fin /\ UNCHANGED objects
       \/ ~cobj[r].fin /\ ~dirty[r] /\ ~obj[r].del /\ Store(r, [obj[r] EXCEPT !.guard = "held"])
    /\ Proceed(Current.cond)
    /\ UNCHANGED <<server, caches, external, remote, queued, cli, faults>>

ensureResourceFinalizerFails ==
    LET r == Current.res IN
    /\ InStep("ensure") /\ sub = "finalize"
    /\ \/ ~cobj[r].there /\ TransientError(mine, faults)
       \/ ~cobj[r].fin /\ (dirty[r] \/ obj[r].del) /\ TransientError(mine, faults)
       \/ ~cobj[r].fin /\ faults > 0 /\ TransientError(mine, faults - 1)
    /\ UNCHANGED <<objects, caches, external, remote, queued>>

\* The wait steps: not in the cache is an error, not far enough is a wait.
AwaitStep ==
    LET r == Current.res IN
    /\ InStep("await")
    /\ \/ /\ cobj[r].there /\ cobj[r].level >= Current.level
          /\ Proceed(Current.cond)
          /\ cli' = (cli \/ r = "ClusterClient")
          /\ UNCHANGED <<server, faults>>
       \/ cobj[r].there /\ cobj[r].level < Current.level /\ Wait(Current.cond)
       \/ ~cobj[r].there /\ TransientError(mine, faults)
    /\ UNCHANGED <<objects, caches, external, remote, queued>>

\* Fault: an open barrier leaves its condition alone.
KmsStepSilent ==
    LET vc == cobj["VaultClaim"]
        closed == ~vc.there \/ (vc.keys /\ vc.level < 1) IN
    /\ InStep("kms")
    /\ \/ ~closed /\ Proceed("") /\ UNCHANGED <<server, faults, cli>>
       \/ closed /\ Wait(Current.cond)
    /\ UNCHANGED <<objects, caches, external, remote, queued>>

\* The KMS barrier: not in the cache is a wait, a VaultClaim without keys opens it.
KmsStep ==
    LET vc == cobj["VaultClaim"]
        closed == ~vc.there \/ (vc.keys /\ vc.level < 1) IN
    /\ InStep("kms")
    /\ \/ /\ ~closed
          /\ Proceed(IF vc.keys THEN Current.cond ELSE "")
          /\ UNCHANGED <<server, faults, cli>>
       \/ closed /\ Wait(Current.cond)
    /\ UNCHANGED <<objects, caches, external, remote, queued>>

(***************************************************************************)
(* stepRemoteConfigMaps: kubeconfig Secret, remote client, then one        *)
(* ConfigMap after the other in the infra cluster.  The remote cluster is  *)
(* read live and only this worker writes these ConfigMaps.                 *)
(***************************************************************************)
RemoteConnect ==
    /\ InStep("remote") /\ sub = "apply"
    /\ \/ /\ secret /\ sub' = "infra"
          /\ UNCHANGED <<server, mode, my, mine, fresh, step, todo, cli, lost, timer, faults>>
       \/ ~secret /\ Wait(Current.cond)
       \/ secret /\ faults > 0 /\ TransientError(setFalse(mine, Current.cond), faults - 1)
    /\ UNCHANGED <<objects, caches, external, remote, queued>>

\* Fault: the step proceeds after the first ConfigMap.
applyRemoteConfigMapOnce ==
    /\ InStep("remote") /\ sub \in ConfigMaps
    /\ obstacle[RemoteConfig] = "none"
    /\ remote' = [remote EXCEPT ![sub] = my.gen]
    /\ Proceed(Current.cond)
    /\ UNCHANGED <<server, objects, caches, external, queued, cli, faults>>

\* Fault: success does not reset the condition an earlier failure set.
applyRemoteConfigMapSilent ==
    /\ InStep("remote") /\ sub \in ConfigMaps
    /\ obstacle[RemoteConfig] = "none"
    /\ remote' = [remote EXCEPT ![sub] = my.gen]
    /\ \/ /\ \E m \in MapsAfter(sub) : FirstMap(m, MapsAfter(sub)) /\ sub' = m
          /\ UNCHANGED <<mode, my, mine, fresh, step, todo, lost, timer>>
       \/ MapsAfter(sub) = {} /\ Proceed("")
    /\ UNCHANGED <<server, objects, caches, external, queued, cli, faults>>

applyRemoteConfigMap ==
    /\ InStep("remote") /\ sub \in ConfigMaps
    /\ obstacle[RemoteConfig] = "none"
    /\ remote' = [remote EXCEPT ![sub] = my.gen]
    /\ \/ /\ \E m \in MapsAfter(sub) : FirstMap(m, MapsAfter(sub)) /\ sub' = m
          /\ UNCHANGED <<mode, my, mine, fresh, step, todo, lost, timer>>
       \/ MapsAfter(sub) = {} /\ Proceed(Current.cond)
    /\ UNCHANGED <<server, objects, caches, external, queued, cli, faults>>

applyRemoteConfigMapFails ==
    LET st == setFalse(mine, Current.cond) IN
    /\ InStep("remote") /\ sub \in ConfigMaps
    /\ \/ obstacle[RemoteConfig] # "none" /\ TerminalError(st, faults)
       \/ faults > 0 /\ TransientError(st, faults - 1)
    /\ UNCHANGED <<objects, caches, external, remote, queued>>

-------------------------------------------------------------------------------
(***************************************************************************)
(* reconcileDelete: phase Deleting, the managed resources in order, the    *)
(* claim's finalizer.  Every pass starts over from the first resource.     *)
(***************************************************************************)
reconcileDelete ==
    LET st == setPhase(cclaim.status, "Deleting", cclaim.gen) IN
    /\ Take
    /\ cclaim.life = "deleting" /\ cclaim.fin
    /\ \/ /\ updateStatusIfChanged(cclaim.status, st, ~claimDirty, faults, TRUE)
          /\ mode' = "delete" /\ my' = [cclaim EXCEPT !.status = st]
          /\ fresh' = ~claimDirty
          /\ todo' = deletePlan(cclaim.refs) /\ sub' = "finalizer"
          /\ lost' = FALSE
          /\ UNCHANGED <<mine, step, cli, timer>>
       \/ /\ updateStatusIfChanged(cclaim.status, st, ~claimDirty, faults, FALSE)
          /\ ReturnError
    /\ UNCHANGED <<objects, caches, external, remote>>

\* The resource this delete pass is dealing with.
Visiting(r) == mode = "delete" /\ r \in todo /\ \A q \in todo : Rank(r) <= Rank(q)

\* The pass is done with r and goes on to the next resource.
PassOn(r) == todo' = todo \ {r} /\ sub' = "finalizer" /\ UNCHANGED <<mode, my, mine, fresh, step, cli, lost, timer>>

\* A resource the cache does not show, or shows without the finalizer, is left alone.
removeResourceFinalizer(r) ==
    /\ Visiting(r) /\ sub = "finalizer"
    /\ \/ ~cobj[r].fin /\ UNCHANGED objects
       \/ cobj[r].fin /\ ~dirty[r] /\ Store(r, ReleaseOf(r, obj[r]))
    /\ sub' = "delete"
    /\ UNCHANGED <<server, caches, external, remote, queued, timer, lost, faults,
                   mode, my, mine, fresh, step, todo, cli>>

\* Fault: the error of the Update is not returned and the pass just ends.
removeResourceFinalizerDropped(r) ==
    /\ Visiting(r) /\ sub = "finalizer" /\ cobj[r].fin
    /\ \/ dirty[r] /\ UNCHANGED faults
       \/ Fault
    /\ GoIdle /\ UNCHANGED <<timer, lost>>
    /\ UNCHANGED <<server, objects, caches, external, remote, queued>>

removeResourceFinalizerFails(r) ==
    /\ Visiting(r) /\ sub = "finalizer" /\ cobj[r].fin
    /\ \/ dirty[r] /\ UNCHANGED faults
       \/ Fault
    /\ ReturnError
    /\ UNCHANGED <<server, objects, caches, external, remote, queued>>

\* Fault: deletes and goes on without waiting.
deleteAndGoOn(r) ==
    /\ Visiting(r) /\ r \in Awaited /\ sub = "delete"
    /\ Store(r, DeleteOf(r, obj[r])) /\ PassOn(r)
    /\ UNCHANGED <<server, caches, external, remote, queued, faults>>

\* Gone from the cache: go on.  Otherwise delete once and come back after 5 seconds.
deleteAndWait(r) ==
    /\ Visiting(r) /\ r \in Awaited /\ sub = "delete"
    /\ \/ ~cobj[r].there /\ PassOn(r) /\ UNCHANGED <<objects, faults>>
       \/ /\ cobj[r].there
          /\ \/ cobj[r].del /\ UNCHANGED <<objects, faults>>
             \/ ~cobj[r].del /\ Store(r, DeleteOf(r, obj[r])) /\ UNCHANGED faults
             \/ ~cobj[r].del /\ UNCHANGED objects /\ Fault
          /\ ReturnError
    /\ UNCHANGED <<server, caches, external, remote, queued>>

\* Deletes whether or not the cache shows the resource, and does not wait.
deleteResource(r) ==
    /\ Visiting(r) /\ r \notin Awaited /\ sub = "delete"
    /\ \/ Store(r, DeleteOf(r, obj[r])) /\ PassOn(r) /\ UNCHANGED faults
       \/ Fault /\ ReturnError /\ UNCHANGED objects
    /\ UNCHANGED <<server, caches, external, remote, queued>>

\* Fault: only the first ConfigMap is deleted.
deleteRemoteConfigMapsOne ==
    /\ Visiting(RemoteConfig)
    /\ remote' = IF secret THEN [remote EXCEPT !["infra"] = 0] ELSE remote
    /\ PassOn(RemoteConfig)
    /\ UNCHANGED <<server, objects, caches, external, queued, faults>>

\* Best effort: skipped without the kubeconfig Secret, and errors keep some of the ConfigMaps.
deleteRemoteConfigMaps ==
    /\ Visiting(RemoteConfig)
    /\ \/ ~secret /\ UNCHANGED <<remote, faults>>
       \/ secret /\ remote' = [m \in MapNames |-> 0] /\ UNCHANGED faults
       \/ /\ secret /\ Fault
          /\ \E kept \in SUBSET MapNames :
               remote' = [m \in MapNames |-> IF m \in kept THEN remote[m] ELSE 0]
    /\ PassOn(RemoteConfig)
    /\ UNCHANGED <<server, objects, caches, external, queued>>

\* Without its finalizer the claim goes, unless a foreground deletion still holds it.
removeFinalizer ==
    /\ mode = "delete" /\ todo = {}
    /\ \/ /\ fresh /\ UNCHANGED <<faults, timer, lost>>
          /\ StoreClaim([claim EXCEPT !.fin = FALSE, !.life = IF claim.fg THEN @ ELSE "gone"])
          /\ claimEvent' = (claimEvent \/ ~claim.fg)
          /\ GoIdle
       \/ ~fresh /\ ReturnError /\ UNCHANGED <<server, claimEvent, faults>>
       \/ Fault /\ ReturnError /\ UNCHANGED <<server, claimEvent>>
    /\ UNCHANGED <<objects, caches, secret, obstacle, remote, queued, pauseGen, budget>>

-------------------------------------------------------------------------------
Pass ==
    \/ ReconcileNotFound \/ reconcilePaused \/ ReconcileStart \/ ensureFinalizerFails
    \/ ensureResource \/ ensureResourceFails
    \/ ensureResourceFinalizer \/ ensureResourceFinalizerFails
    \/ AwaitStep \/ KmsStep \/ RemoteConnect \/ applyRemoteConfigMap \/ applyRemoteConfigMapFails
    \/ Ready
    \/ reconcileDelete \/ deleteRemoteConfigMaps \/ removeFinalizer
    \/ \E r \in Managed :
         removeResourceFinalizer(r) \/ removeResourceFinalizerFails(r) \/ deleteAndWait(r) \/ deleteResource(r)

================================================================================
