------------------------------ MODULE ClaimSystem ------------------------------
(***************************************************************************)
(* The controller of ClaimReconciler composed with everything it talks to: *)
(* the user who edits, pauses and deletes the claim, the controllers of    *)
(* the managed resources, the garbage collector, the informers and the     *)
(* work queue, and the process that may crash and restart.                 *)
(***************************************************************************)
EXTENDS ClaimReconciler

CONSTANTS
    InitialRefs,   \* optional template references of the claim as created
    MayDropRefs,   \* the user may remove optional references
    Foreground,    \* deletion propagation the user may ask for: subset of BOOLEAN
    Blockable,     \* templates that may break: subset of Managed and RemoteConfig
    Drifting,      \* resources that may fall back from a level: subset of Managed
    Obstacles,     \* how they may break: subset of {"template", "rejected"}
    MaxGen,        \* bound on the generation of the claim's spec
    MaxFaults,     \* bound on failing API calls
    Budget         \* bounds on pauses, crashes, drifts, blocks and label touches

Kinds == {"pause", "crash", "drift", "block", "touch"}

ASSUME SystemAssumption ==
    /\ InitialRefs \subseteq References
    /\ MayDropRefs \in BOOLEAN
    /\ Foreground \subseteq BOOLEAN
    /\ Blockable \subseteq Managed \union {RemoteConfig}
    /\ Drifting \subseteq Managed
    /\ Obstacles \subseteq {"template", "rejected"}
    /\ MaxGen \in Nat /\ MaxFaults \in Nat
    /\ Budget \in [Kinds -> Nat]

Init ==
    /\ claim = [NoClaim EXCEPT !.life = "live", !.gen = 1, !.refs = InitialRefs]
    /\ cclaim = NoClaim
    /\ claimDirty = TRUE /\ claimEvent = TRUE
    /\ obj = [r \in Managed |-> Absent]
    /\ cobj = [r \in Managed |-> ViewOf(r, Absent)]
    /\ dirty = [r \in Managed |-> FALSE]
    /\ secret = FALSE
    /\ remote = [m \in MapNames |-> 0]
    /\ obstacle = [t \in Managed \union {RemoteConfig} |-> "none"]
    /\ queued = FALSE /\ timer = FALSE
    /\ mode = "idle" /\ my = NoClaim /\ mine = NoStatus /\ fresh = FALSE
    /\ step = 0 /\ sub = "" /\ todo = {} /\ cli = FALSE
    /\ lost = FALSE
    /\ faults = MaxFaults
    /\ pauseGen = 0
    /\ budget = Budget

Spend(k) == budget[k] > 0 /\ budget' = [budget EXCEPT ![k] = @ - 1]

(***************************************************************************)
(* The user and the API server's treatment of the claim.  Generation and   *)
(* annotation changes and the removal pass the For() predicate; a label    *)
(* change does not.                                                        *)
(***************************************************************************)
Change(c, event) ==
    /\ StoreClaim(c)
    /\ claimEvent' = (claimEvent \/ event)
    /\ fresh' = FALSE
    /\ UNCHANGED <<cclaim, objects, cobj, secret, remote, obstacle, queued, timer,
                   mode, my, mine, step, sub, todo, cli, lost, faults>>

EditSpec ==
    /\ claim.life # "gone" /\ claim.gen < MaxGen
    /\ \E refs \in {claim.refs} \union (IF MayDropRefs THEN {claim.refs \ {r} : r \in References} ELSE {}) :
         Change([claim EXCEPT !.gen = @ + 1, !.refs = refs], TRUE)
    /\ UNCHANGED <<pauseGen, budget>>

Pause ==
    /\ claim.life # "gone" /\ ~claim.paused
    /\ Spend("pause")
    /\ Change([claim EXCEPT !.paused = TRUE], TRUE)
    /\ pauseGen' = claim.gen

Unpause ==
    /\ claim.life # "gone" /\ claim.paused
    /\ Change([claim EXCEPT !.paused = FALSE], TRUE)
    /\ UNCHANGED <<pauseGen, budget>>

TouchLabels ==
    /\ claim.life # "gone"
    /\ Spend("touch")
    /\ Change(claim, FALSE)
    /\ UNCHANGED pauseGen

\* A foreground deletion adds a finalizer of the garbage collector's.
DeleteClaim ==
    /\ claim.life = "live"
    /\ \E fg \in Foreground :
         Change([claim EXCEPT !.life = IF claim.fin \/ fg THEN "deleting" ELSE "gone",
                              !.gen = @ + 1, !.fg = fg], TRUE)
    /\ UNCHANGED <<pauseGen, budget>>

(***************************************************************************)
(* The garbage collector: dependents of a claim that is gone, or that is   *)
(* being deleted in the foreground, are deleted; the foreground finalizer  *)
(* goes when no dependent is left.                                         *)
(***************************************************************************)
OnObject(r, o) ==
    /\ Store(r, o)
    /\ UNCHANGED <<server, caches, worker, claimEvent, secret, obstacle, remote, queued, timer, lost,
                   faults, pauseGen>>

CollectDependent(r) ==
    /\ obj[r].there /\ ~obj[r].del
    /\ claim.life = "gone" \/ (claim.life = "deleting" /\ claim.fg)
    /\ OnObject(r, DeleteOf(r, obj[r]))
    /\ UNCHANGED budget

EndForeground ==
    /\ claim.life = "deleting" /\ claim.fg
    /\ \A r \in Managed : ~obj[r].there
    /\ Change([claim EXCEPT !.fg = FALSE, !.life = IF claim.fin THEN @ ELSE "gone"], ~claim.fin)
    /\ UNCHANGED <<pauseGen, budget>>

(***************************************************************************)
(* The controllers of the managed resources.                               *)
(***************************************************************************)
Advance(r) ==
    /\ obj[r].there /\ ~obj[r].del /\ obj[r].level < MaxLevel[r]
    /\ OnObject(r, [obj[r] EXCEPT !.level = @ + 1])
    /\ UNCHANGED budget

Regress(r) ==
    /\ r \in Drifting /\ obj[r].there /\ obj[r].level > Floor(r, obj[r].level)
    /\ Spend("drift")
    /\ OnObject(r, [obj[r] EXCEPT !.level = @ - 1])

ForeignCleanup(r) ==
    /\ r \in Foreign /\ obj[r].there /\ obj[r].del /\ obj[r].guard # "held"
    /\ OnObject(r, Absent)
    /\ UNCHANGED budget

\* CAPI writes the kubeconfig once the infrastructure is provisioned and removes it with the cluster.
KubeconfigSecret ==
    /\ \/ ~secret /\ obj["ClusterInfra"].level >= 1
       \/ secret /\ ~obj["ClusterInfra"].there
    /\ secret' = ~secret
    /\ queued' = TRUE
    /\ UNCHANGED <<server, objects, caches, worker, remote, claimEvent, obstacle, timer, lost, faults,
                   pauseGen, budget>>

(***************************************************************************)
(* A template breaks or is repaired, which its watch reports, or the API   *)
(* server starts or stops rejecting a resource, which nothing reports.     *)
(***************************************************************************)
SetObstacle(t, o, event) ==
    /\ obstacle' = [obstacle EXCEPT ![t] = o]
    /\ queued' = (queued \/ event)
    /\ UNCHANGED <<server, objects, caches, worker, remote, claimEvent, secret, timer, lost, faults, pauseGen>>

Block(t) ==
    /\ obstacle[t] = "none"
    /\ Spend("block")
    /\ \E o \in Obstacles : (t = RemoteConfig => o = "template") /\ SetObstacle(t, o, o = "template")

Unblock(t) ==
    /\ obstacle[t] # "none"
    /\ SetObstacle(t, "none", obstacle[t] = "template")
    /\ UNCHANGED budget

(***************************************************************************)
(* Informers and the work queue.  A watch delivers the latest version; an  *)
(* owned object's events are unfiltered.  A requeue timer is not cancelled *)
(* by other events.                                                        *)
(***************************************************************************)
SyncClaim ==
    /\ claimDirty
    /\ cclaim' = claim /\ claimDirty' = FALSE
    /\ queued' = (queued \/ claimEvent) /\ claimEvent' = FALSE
    /\ UNCHANGED <<claim, objects, cobj, worker, secret, remote, obstacle, timer, lost, faults, pauseGen, budget>>

SyncKind(k) ==
    LET of == {r \in Managed : GVK[r] = k} IN
    /\ \E r \in of : dirty[r]
    /\ cobj' = [r \in Managed |-> IF r \in of THEN ViewOf(r, obj[r]) ELSE cobj[r]]
    /\ dirty' = [r \in Managed |-> dirty[r] /\ r \notin of]
    /\ queued' = TRUE
    /\ UNCHANGED <<server, obj, cclaim, worker, external, remote, timer, lost, faults>>

TimerFires ==
    /\ timer
    /\ timer' = FALSE /\ queued' = TRUE
    /\ UNCHANGED <<server, objects, caches, worker, external, remote, lost, faults>>

\* The process dies and a new one lists everything and queues every claim it finds.
Crash ==
    /\ Spend("crash")
    /\ GoIdle
    /\ cclaim' = claim /\ claimDirty' = FALSE /\ claimEvent' = FALSE
    /\ cobj' = [r \in Managed |-> ViewOf(r, obj[r])]
    /\ dirty' = [r \in Managed |-> FALSE]
    /\ queued' = (claim.life # "gone") /\ timer' = FALSE /\ lost' = FALSE
    /\ UNCHANGED <<claim, obj, secret, remote, obstacle, faults, pauseGen>>

-------------------------------------------------------------------------------
User == EditSpec \/ Pause \/ Unpause \/ TouchLabels \/ DeleteClaim

World ==
    \/ EndForeground \/ KubeconfigSecret
    \/ \E r \in Managed : CollectDependent(r) \/ Advance(r) \/ Regress(r) \/ ForeignCleanup(r)
    \/ \E t \in Blockable : Block(t) \/ Unblock(t)

Deliver == SyncClaim \/ TimerFires \/ \E r \in Managed : SyncKind(GVK[r])

Next == Pass \/ User \/ World \/ Deliver \/ Crash

Spec == Init /\ [][Next]_vars

(***************************************************************************)
(* The worker, the informers and the queue keep running; the controllers   *)
(* of the managed resources make progress; users and faults owe nothing.   *)
(***************************************************************************)
Fairness ==
    /\ WF_vars(Pass) /\ WF_vars(SyncClaim) /\ WF_vars(TimerFires)
    /\ WF_vars(KubeconfigSecret)
    /\ \A r \in Managed :
         WF_vars(SyncKind(GVK[r])) /\ WF_vars(Advance(r)) /\ WF_vars(ForeignCleanup(r))

-------------------------------------------------------------------------------
(***************************************************************************)
(* Every variable has its type: statuses and phases are ones the API type  *)
(* declares, the pipeline index and the delete plan stay in range.         *)
(***************************************************************************)
TypeOK ==
    /\ claim \in Claim /\ cclaim \in Claim /\ my \in Claim /\ mine \in Status
    /\ obj \in [Managed -> Object] /\ cobj \in [Managed -> View] /\ dirty \in [Managed -> BOOLEAN]
    /\ claimDirty \in BOOLEAN /\ claimEvent \in BOOLEAN /\ secret \in BOOLEAN
    /\ queued \in BOOLEAN /\ timer \in BOOLEAN /\ fresh \in BOOLEAN /\ cli \in BOOLEAN /\ lost \in BOOLEAN
    /\ remote \in [MapNames -> Nat]
    /\ obstacle \in [Managed \union {RemoteConfig} -> {"none", "template", "rejected"}]
    /\ mode \in {"idle", "pipeline", "delete"}
    /\ step \in 0..(LastStep + 1)
    /\ sub \in {"", "apply", "finalize", "finalizer", "delete"} \union MapNames
    /\ todo \subseteq Managed \union {RemoteConfig}
    /\ faults \in Nat /\ pauseGen \in Nat /\ budget \in [Kinds -> Nat]

(***************************************************************************)
(* A live claim with any managed resource carries the operator's           *)
(* finalizer (ensureFinalizer runs before the pipeline and its conflict    *)
(* aborts the pass), so no deletion can bypass the ordered teardown.       *)
(***************************************************************************)
FinalizerBeforeResources ==
    claim.life = "live" /\ (\E r \in Managed : obj[r].there) => claim.fin

(***************************************************************************)
(* When the claim is gone none of the resources reconcileDelete waits for  *)
(* still carries the operator's finalizer: nobody would be left to remove  *)
(* it.  Holds while no optional reference is dropped from the spec.        *)
(***************************************************************************)
NoAwaitedOrphan ==
    claim.life = "gone" => \A r \in Awaited : obj[r].guard # "held"

(***************************************************************************)
(* The operator releases a resource only after every resource it must wait *)
(* for first is gone from the API server, or was never put under the       *)
(* operator's finalizer: Vault-family claims before the clusters, the      *)
(* client cluster before the infra cluster, both before certificates and   *)
(* Application.                                                            *)
(***************************************************************************)
TeardownOrder ==
    [][\A r \in Managed, d \in Awaited :
         /\ obj[r].guard = "held" /\ obj'[r].guard # "held"
         /\ Rank(d) < Rank(r)
         => ~obj[d].there \/ obj[d].guard = "never"]_vars

(***************************************************************************)
(* reconcileDelete takes its finalizer off the infra cluster only after    *)
(* every remote ConfigMap is gone from it, unless a call failed or the     *)
(* spec it deletes by has no configMapTemplateRef any more: deleting them  *)
(* is best effort, but a pass that is cut short, a waiting deletion, an    *)
(* edit or a garbage collector at work at the same time is no excuse.      *)
(***************************************************************************)
RemoteMapsGoFirst ==
    [][/\ obj["ClusterInfra"].guard = "held" /\ obj'["ClusterInfra"].guard # "held"
       /\ RemoteConfig \in my.refs /\ faults = MaxFaults
       => \A m \in MapNames : remote[m] = 0]_vars

\* The refinement mapping: what ClaimLifecycle sees of a managed object.
StageOf(o) == IF ~o.there THEN "absent" ELSE IF o.guard = "never" THEN "loose" ELSE o.guard

Stage == [r \in Managed |-> StageOf(obj[r])]

Lifecycle == INSTANCE ClaimLifecycle
               WITH Resources <- Managed, Before <- [r \in Managed |-> {d \in Awaited : Rank(d) < Rank(r)}],
                    life <- claim.life, enrolled <- claim.fin, state <- Stage

(***************************************************************************)
(* The controller, with all its caches, passes, failing calls and          *)
(* restarts, does nothing to the claim's finalizer and to its resources    *)
(* that ClaimLifecycle does not allow.                                     *)
(***************************************************************************)
ImplementsLifecycle == Lifecycle!Spec

(***************************************************************************)
(* Phase Ready at the current generation means that everything the current *)
(* spec requires was rendered from it, is protected by the operator's      *)
(* finalizer and, for clusters, has its control plane initialized; and     *)
(* that the remote ConfigMaps were written from it too.  Spec edits,       *)
(* stale caches and conflicting status writes must not produce it early.   *)
(***************************************************************************)
ReadyMeansApplied ==
    claim.status.phase = "Ready" /\ claim.status.gen = claim.gen =>
      /\ \A r \in Required(claim.refs) :
           /\ obj[r].guard = "held"
           /\ obj[r].gen >= claim.gen
           /\ r \in {"ClusterInfra", "ClusterClient"} => obj[r].level = MaxLevel[r]
      /\ ClientEnabled => obj["CcmCsrc"].cli
      /\ RemoteConfig \in claim.refs => \A m \in ConfigMaps : remote[m] >= claim.gen

(***************************************************************************)
(* Nothing edited into a paused claim reaches a managed resource or a      *)
(* remote ConfigMap before the pause ends, even from a pass that was       *)
(* running when the pause annotation was set.                              *)
(***************************************************************************)
PauseHoldsEditsBack ==
    claim.paused => /\ \A r \in Managed : obj[r].gen <= pauseGen
                    /\ \A m \in MapNames : remote[m] <= pauseGen

\* Nothing is pending that would start another pass.
Quiet == mode = "idle" /\ ~queued /\ ~timer /\ ~claimDirty /\ \A r \in Managed : ~dirty[r]

(***************************************************************************)
(* When nothing will wake the operator up again (no queue entry, timer,    *)
(* undelivered change or running pass), the claim is gone, or its status   *)
(* says Failed or Paused, or a foreground deletion is waiting for someone  *)
(* else.  The one exception is a terminal error that the stored status     *)
(* does not show: executePipeline discards the error of that write, and a  *)
(* pass from an outdated copy that says Failed already does not write.     *)
(* The informers' periodic resync is left out: it would hide every lost    *)
(* wake-up.                                                                *)
(***************************************************************************)
QuiescenceIsReported ==
    Quiet /\ ~lost =>
      \/ claim.life = "gone"
      \/ claim.life = "live" /\ claim.status.phase \in {"Failed", "Paused"}
      \/ claim.life = "deleting" /\ ~claim.fin

(***************************************************************************)
(* A terminal error always ends up in the claim's status as phase Failed   *)
(* before the operator stops retrying (errors.go: "The pipeline sets       *)
(* phase=Failed and does not requeue for terminal errors").                *)
(***************************************************************************)
TerminalErrorIsReported ==
    Quiet /\ claim.life = "live" /\ ~claim.paused => claim.status.phase = "Failed"

(***************************************************************************)
(* Once the cloud-controller configuration knows the client control plane, *)
(* no later pass renders it without: stepCcmCsrc runs before               *)
(* stepWaitClientCPReady and relies on the prefetched client cluster.      *)
(***************************************************************************)
CcmKeepsClient ==
    [][obj["CcmCsrc"].cli /\ obj'["CcmCsrc"].there => obj'["CcmCsrc"].cli]_vars

(***************************************************************************)
(* The client cluster is only created, and only ever rendered from a       *)
(* generation that configures encryption, after the infra control plane is *)
(* initialized and the VaultClaim's transit keys exist.                    *)
(***************************************************************************)
ClientClusterStartsLast ==
    [][obj["ClusterClient"].gen # obj'["ClusterClient"].gen /\ obj'["ClusterClient"].there =>
         /\ obj["ClusterInfra"].level = 2
         /\ "VaultClaim" \in my.refs /\ my.gen \in KeyedGens => obj["VaultClaim"].level >= 1]_vars

(***************************************************************************)
(* A claim reported Ready has no condition left at False by an earlier     *)
(* pass, with two exceptions: the step that set it to False is skipped now *)
(* that its reference is gone from the spec, or it is the KMS barrier,     *)
(* which leaves its condition as it is when the VaultClaim it looks at has *)
(* no transit keys, and an edit left them out at some time.                *)
(***************************************************************************)
ReadyHasNoFalseCondition ==
    claim.status.phase = "Ready" /\ claim.status.gen = claim.gen =>
      \A c \in claim.status.no : \E i \in 1..LastStep :
        /\ pipelineSteps[i].cond = c
        /\ \/ Skipped(pipelineSteps[i], claim.refs)
           \/ pipelineSteps[i].op = "kms" /\ \E g \in 1..claim.gen : g \notin KeyedGens

(***************************************************************************)
(* When the claim is gone no managed resource carries the operator's       *)
(* finalizer (the DeletionComplete event: "All managed resources           *)
(* deleted").                                                              *)
(***************************************************************************)
NoOrphan == claim.life = "gone" => \A r \in Managed : obj[r].guard # "held"

(***************************************************************************)
(* A claim whose templates are in order, and that is neither paused nor    *)
(* deleted, ends up Ready at its current generation and stays there,       *)
(* whichever call failed on the way: no wait and no transient error of     *)
(* executePipeline forgets to come back.                                   *)
(***************************************************************************)
EventuallyReady ==
    <>[](claim.life = "live" /\ ~claim.paused /\ \A t \in DOMAIN obstacle : obstacle[t] = "none")
      => <>[](claim.status.phase = "Ready" /\ claim.status.gen = claim.gen)

(***************************************************************************)
(* A deleted claim goes: no conflict, failed call or wait for another      *)
(* controller's finalizer leaves reconcileDelete waiting for a wake-up     *)
(* that never comes.                                                       *)
(***************************************************************************)
DeletionCompletes == claim.life = "deleting" ~> claim.life = "gone"

================================================================================
