------------------------------ MODULE Admission ------------------------------
(***************************************************************************)
(* What stands between a writer and a stored ClusterClaim: the transition  *)
(* rules of the CRD (clusterclaim_types.go), evaluated by the API server,  *)
(* and the validating webhook (clusterclaim_webhook.go), which the         *)
(* operator only serves when started with --enable-webhook and which       *)
(* refuses every update while it cannot be reached.  The writers are the   *)
(* user, with any spec the schema allows, and the operator itself, whose   *)
(* finalizer updates carry its whole cached copy of the claim.             *)
(***************************************************************************)
EXTENDS Integers

CONSTANTS
    Modes,       \* the values of ipamMode the enum allows
    Unset,       \* an absent ipamMode
    NoNetwork    \* an absent spec.client.network

ASSUME ModesAssumption == Unset \notin Modes /\ NoNetwork \notin Modes \union {Unset}

\* The part of the spec that admission looks at: infra and client are the ipamModes.
Specs == [enabled: BOOLEAN, infra: Modes \union {Unset}, client: Modes \union {Unset, NoNetwork}]

VARIABLES
    configured,  \* the operator runs with --enable-webhook
    serving,     \* the webhook can be reached
    life,        \* "live", "deleting" or "gone"
    spec,        \* the stored spec
    fin,         \* the stored claim carries the operator's finalizer
    copy,        \* the spec in the operator's cached copy
    fresh,       \* that copy is the stored claim
    first        \* history: the first mode each cluster of this claim was given

vars == <<configured, serving, life, spec, fin, copy, fresh, first>>

clientIpamMode(s) == IF s.client = NoNetwork THEN Unset ELSE s.client

(***************************************************************************)
(* The webhook: client.enabled never changes, and a mode never changes     *)
(* once it is set.                                                         *)
(***************************************************************************)
\* Fault: an update that leaves the mode out is not looked at.
validateIpamModeIfGiven(old, new) == old = Unset \/ new = Unset \/ old = new

\* Fault: no transition from an unset mode.
validateIpamModeStrict(old, new) == old = new

validateIpamModeImmutable(old, new) == old = Unset \/ old = new

ValidateUpdate(old, new) ==
    /\ old.enabled = new.enabled
    /\ validateIpamModeImmutable(old.infra, new.infra)
    /\ validateIpamModeImmutable(clientIpamMode(old), clientIpamMode(new))

(***************************************************************************)
(* self == oldSelf in the CRD: evaluated only when the old and the new     *)
(* object both have the value.                                             *)
(***************************************************************************)
SelfIsOldSelf(old, new) == old \in Modes /\ new \in Modes => old = new

TransitionRules(old, new) ==
    /\ old.enabled = new.enabled
    /\ SelfIsOldSelf(old.infra, new.infra)
    /\ SelfIsOldSelf(old.client, new.client)

Admits(old, new) == TransitionRules(old, new) /\ (configured => serving /\ ValidateUpdate(old, new))

-------------------------------------------------------------------------------
FirstModes(s) == [infra |-> s.infra, client |-> clientIpamMode(s)]

\* What the history remembers after an update to s.
Remember(s) ==
    [infra |-> IF first.infra = Unset THEN s.infra ELSE first.infra,
     client |-> IF first.client = Unset THEN clientIpamMode(s) ELSE first.client]

\* A new claim: ValidateCreate accepts every spec and there is no old self.
Created(s) ==
    /\ life' = "live" /\ spec' = s /\ fin' = FALSE
    /\ first' = FirstModes(s)

Init ==
    /\ configured \in BOOLEAN /\ serving = configured
    /\ life = "live" /\ spec \in Specs /\ fin = FALSE
    /\ first = FirstModes(spec)
    /\ copy = spec /\ fresh = FALSE

UserUpdate(new) ==
    /\ life # "gone" /\ new # spec
    /\ Admits(spec, new)
    /\ spec' = new /\ first' = Remember(new) /\ fresh' = FALSE
    /\ UNCHANGED <<configured, serving, life, fin, copy>>

\* The webhook is registered for create and update only.
DeleteClaim ==
    /\ life = "live"
    /\ life' = IF fin THEN "deleting" ELSE "gone"
    /\ fresh' = FALSE
    /\ UNCHANGED <<configured, serving, spec, fin, copy, first>>

\* A claim of the same name; creation goes through the webhook too.
CreateClaim(s) ==
    /\ life = "gone" /\ (configured => serving)
    /\ Created(s) /\ fresh' = FALSE
    /\ UNCHANGED <<configured, serving, copy>>

SyncClaim ==
    /\ ~fresh
    /\ copy' = spec /\ fresh' = TRUE
    /\ UNCHANGED <<configured, serving, life, spec, fin, first>>

\* Fault: the network of a disabled client cluster is left out.
WrittenTrimmed == IF copy.enabled THEN copy ELSE [copy EXCEPT !.client = NoNetwork]

\* Update sends the spec as it was read.
Written == copy

\* What an Update of the whole copy does once the API server takes it.
UpdateTaken ==
    /\ Admits(spec, Written)
    /\ spec' = Written /\ first' = Remember(Written) /\ fresh' = FALSE
    /\ \/ life = "live" /\ ~fin /\ fin' = TRUE /\ UNCHANGED life
       \/ life = "deleting" /\ fin' = FALSE /\ life' = "gone"
    /\ UNCHANGED <<configured, serving, copy>>

\* Fault: the Update goes out without the resourceVersion it was read with.
OperatorUpdateBlind == UpdateTaken

\* ensureFinalizer and the last step of reconcileDelete; from an outdated copy they conflict.
OperatorUpdate == fresh /\ UpdateTaken

WebhookFails == configured /\ serving /\ serving' = FALSE /\ UNCHANGED <<configured, life, spec, fin, copy, fresh, first>>

WebhookRecovers ==
    configured /\ ~serving /\ serving' = TRUE /\ UNCHANGED <<configured, life, spec, fin, copy, fresh, first>>

Next ==
    \/ \E s \in Specs : UserUpdate(s) \/ CreateClaim(s)
    \/ DeleteClaim \/ SyncClaim \/ OperatorUpdate \/ WebhookFails \/ WebhookRecovers

Spec == Init /\ [][Next]_vars

\* The operator keeps retrying, and finds the webhook reachable often enough.
Fairness == WF_vars(SyncClaim) /\ SF_vars(OperatorUpdate) /\ WF_vars(WebhookRecovers)

-------------------------------------------------------------------------------
(***************************************************************************)
(* With the webhook configured, the first mode a cluster is given is its   *)
(* mode for as long as the claim exists, also over edits that leave it     *)
(* out, that drop and re-add the client network, and over webhook outages. *)
(***************************************************************************)
ModeOnceSetStays ==
    configured => /\ first.infra # Unset => spec.infra = first.infra
                  /\ first.client # Unset => clientIpamMode(spec) = first.client

(***************************************************************************)
(* The operator never undoes an edit: the steps that add or remove its     *)
(* finalizer send the whole spec they once read, and leave the stored spec *)
(* as the user last wrote it, whatever was edited in between.              *)
(***************************************************************************)
OperatorKeepsEdits == [][life # "gone" /\ fin' # fin => spec' = spec]_vars

(***************************************************************************)
(* A claim created before the field existed can be given any mode, with    *)
(* or without the webhook.                                                 *)
(***************************************************************************)
BackfillIsAdmitted ==
    \A m \in Modes :
      /\ spec.infra = Unset /\ (configured => serving) => Admits(spec, [spec EXCEPT !.infra = m])
      /\ clientIpamMode(spec) = Unset /\ (configured => serving) => Admits(spec, [spec EXCEPT !.client = m])

(***************************************************************************)
(* Admission never holds a deletion up for good: whatever spec was let in, *)
(* the update that removes the finalizer from it is let in too.            *)
(***************************************************************************)
DeletionIsAdmitted == life = "deleting" ~> life = "gone"

===============================================================================
