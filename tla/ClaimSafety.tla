------------------------------ MODULE ClaimSafety ------------------------------
(***************************************************************************)
(* Proofs of the safety properties of ClaimSystem, for every claim         *)
(* configuration and every bound on the environment.  The moves below say  *)
(* what a step of the system may do to the claim, to a managed object, to  *)
(* the informers' copies and to the worker; each is proved once, action by *)
(* action.  The inductive invariants are then proved from the moves, and   *)
(* so is the refinement of ClaimLifecycle.  The last section is about the  *)
(* events that keep the worker going.                                      *)
(***************************************************************************)
EXTENDS ClaimProofs

\* Time limits for the provers, in seconds.
USE SMTT(60), ZenonT(60)

\* The informers' copies are current unless a newer version is on its way to them.
Coherent ==
    /\ ~claimDirty => cclaim = claim
    /\ \A r \in Managed : ~dirty[r] => cobj[r] = ViewOf(r, obj[r])

-------------------------------------------------------------------------------
(***************************************************************************)
(* Moves.                                                                  *)
(***************************************************************************)
\* The claim keeps life and finalizer, gets the finalizer from a current copy, is deleted, or is
\* released by a delete pass that has dealt with everything; only a deletion asks for foreground
\* propagation; the informer lags behind it.
ClaimMove ==
    /\ MayDropRefs \/ claim'.refs = claim.refs
    /\ claim'.fg \in {claim.fg, FALSE} \union Foreground
    /\ \/ claim'.life = claim.life /\ claim'.fin = claim.fin
       \/ cclaim.life = "live" /\ ~claimDirty /\ claim'.life = claim.life /\ claim'.fin
       \/ /\ claim.life # "gone" /\ claim'.life \in {"deleting", "gone"} /\ claim'.fin = claim.fin
          /\ claim'.life = "gone" => ~claim.fin
       \/ mode = "delete" /\ todo = {} /\ claim'.life \in {claim.life, "gone"} /\ ~claim'.fin
    /\ \/ UNCHANGED <<claim, claimDirty, cclaim>>
       \/ claimDirty' /\ cclaim' = cclaim
       \/ cclaim' = claim /\ claim' = claim

\* A managed object is applied or put under the finalizer by the pipeline, released by a delete
\* pass that has reached it, kept, or dropped once nobody holds it.
ObjectMove(r, o) ==
    \/ /\ mode = "pipeline" /\ o.there /\ o.gen = my.gen
       /\ IF obj[r].there THEN o.guard = obj[r].guard ELSE o.guard = "never"
    \/ /\ mode = "pipeline" /\ r \in Required(my.refs) /\ cobj[r].there /\ ~dirty[r]
       /\ o = [obj[r] EXCEPT !.guard = "held"]
    \/ Visiting(r) /\ cobj[r].fin /\ ~dirty[r] /\ o = ReleaseOf(r, obj[r])
    \/ o.there = obj[r].there /\ o.guard = obj[r].guard /\ o.gen = obj[r].gen /\ o.cli = obj[r].cli
    \/ o = Absent /\ obj[r].guard # "held"

\* One object is written, or watches deliver what the server has.
ObjectsMove ==
    \/ UNCHANGED <<obj, dirty, cobj>>
    \/ \E r \in Managed, o \in Object : Store(r, o) /\ ObjectMove(r, o) /\ cobj' = cobj
    \/ /\ obj' = obj
       /\ \A r \in Managed : \/ cobj'[r] = ViewOf(r, obj[r])
                             \/ cobj'[r] = cobj[r] /\ dirty'[r] = dirty[r]

\* A pass goes on, ends, enters the pipeline behind the finalizer, starts the teardown, or goes on
\* from a resource that it has stopped waiting for.
WorkerMove ==
    \/ UNCHANGED <<mode, my, todo>>
    \/ mode' = "idle"
    \/ /\ mode' = "pipeline" /\ cclaim.life = "live" /\ ~cclaim.paused
       /\ my' = [cclaim EXCEPT !.fin = TRUE]
       /\ claim'.fin \/ (cclaim.fin /\ claim' = claim)
    \/ mode' = "delete" /\ cclaim.life = "deleting" /\ todo' = deletePlan(cclaim.refs)
    \/ /\ mode = "delete" /\ mode' = "delete" /\ my' = my
       /\ \E r \in todo : todo' = todo \ {r} /\ (r \in Awaited => ~cobj[r].there)

-------------------------------------------------------------------------------
(***************************************************************************)
(* The inductive invariants.                                               *)
(***************************************************************************)
\* What the informer and a running pass know about the claim's life: only a delete pass takes the
\* finalizer away, and the informer never shows a claim younger than one a delete pass has seen.
LifeKnown ==
    /\ cclaim.life = "live" /\ cclaim.fin => claim.fin
    /\ cclaim.life = "deleting" => claim.life # "live"
    /\ claim.life = "gone" => ~claim.fin
    /\ mode = "pipeline" => claim.fin
    /\ mode = "delete" => claim.life # "live" /\ cclaim.life # "live"

\* An object that ever got the operator's finalizer exists and its informer shows it.
Observed ==
    \A r \in Managed : obj[r].guard # "never" => obj[r].there /\ cobj[r].there

\* While no reference is dropped, whatever got the finalizer is in the plan of every delete pass.
Planned ==
    ~MayDropRefs =>
      /\ claim.refs = InitialRefs
      /\ cclaim.life # "gone" => cclaim.refs = InitialRefs
      /\ mode = "pipeline" => my.refs = InitialRefs
      /\ \A r \in Managed : obj[r].guard # "never" => r \in Required(InitialRefs)

\* A delete pass leaves no awaited resource behind that still has, or had, the finalizer.
Swept ==
    ~MayDropRefs =>
      /\ ~claim.fin => \A d \in Awaited : obj[d].guard = "never"
      /\ mode = "delete" => \A d \in Awaited \ todo : obj[d].guard = "never"

Safe == Coherent /\ LifeKnown /\ FinalizerBeforeResources /\ Observed /\ Planned /\ Swept

-------------------------------------------------------------------------------
\* updateStatusIfChanged writes nothing but the status.
LEMMA StatusWrite ==
    ASSUME NEW was, NEW st, NEW current, NEW f, NEW ok, TypeOK,
           updateStatusIfChanged(was, st, current, f, ok), cclaim' = cclaim
    PROVE  ClaimMove
  <1>1. \/ claim' = claim /\ claimDirty' = claimDirty
        \/ claim' = [claim EXCEPT !.status = st] /\ claimDirty' = TRUE
    BY DEF updateStatusIfChanged, StoreClaim, server
  <1>2. claim \in Claim
    BY Zenon DEF TypeOK
  <1>3. [claim EXCEPT !.status = st].life = claim.life /\ [claim EXCEPT !.status = st].fin = claim.fin
        /\ [claim EXCEPT !.status = st].refs = claim.refs /\ [claim EXCEPT !.status = st].fg = claim.fg
    BY <1>2 DEF Claim
  <1> QED
    BY Zenon, <1>1, <1>3 DEF ClaimMove

\* Every step moves the claim as ClaimMove says.
LEMMA ClaimMoves == ASSUME TypeOK, [Next]_vars PROVE ClaimMove
  <1>0. claim \in Claim /\ claim.life \in Lives
    BY Zenon DEF TypeOK, Claim
  <1>1. CASE UNCHANGED <<claim, claimDirty, cclaim>>
    BY <1>1 DEF ClaimMove
  <1>2. ASSUME NEW st, NEW f, NEW requeue, EndPass(st, f, requeue), cclaim' = cclaim PROVE ClaimMove
    BY <1>2, StatusWrite DEF EndPass
  <1>3. ASSUME NEW st, NEW f, TerminalError(st, f) \/ TransientError(st, f), cclaim' = cclaim PROVE ClaimMove
    BY Zenon, <1>2, <1>3 DEF TerminalError, TransientError
  <1>4. ASSUME NEW c, Wait(c), cclaim' = cclaim PROVE ClaimMove
    BY ZenonT(60), <1>2, <1>4 DEF Wait
  <1>5. CASE Pass
    <2>1. CASE ReconcileNotFound
      BY <1>1, <2>1 DEF ReconcileNotFound, server, caches
    <2>2. CASE reconcilePaused \/ reconcileDelete
      BY Zenon, <2>2, StatusWrite DEF reconcilePaused, reconcileDelete, caches
    <2>3. CASE ReconcileStart
      <3>1. \/ UNCHANGED <<claim, claimDirty, cclaim>>
            \/ /\ cclaim.life = "live" /\ ~claimDirty /\ cclaim' = cclaim
               /\ claim' = [claim EXCEPT !.fin = TRUE] /\ claimDirty' = TRUE
        BY <2>3 DEF ReconcileStart, ensureFinalizer, StoreClaim, server, caches
      <3>2. LET c == [claim EXCEPT !.fin = TRUE] IN
              c.life = claim.life /\ c.fin /\ c.refs = claim.refs /\ c.fg = claim.fg
        BY <1>0 DEF Claim
      <3> QED
        BY Zenon, <1>1, <3>1, <3>2 DEF ClaimMove
    <2>4. CASE ensureFinalizerFails
      BY <1>1, <2>4 DEF ensureFinalizerFails, server, caches
    <2>5. CASE ensureResource \/ ensureResourceFinalizer
      BY <1>1, <2>5 DEF ensureResource, ensureResourceFinalizer, server, caches
    <2>6. CASE ensureResourceFails \/ ensureResourceFinalizerFails
      BY <1>3, <2>6 DEF ensureResourceFails, ensureResourceFinalizerFails, caches
    <2>7. CASE AwaitStep \/ KmsStep
      BY Zenon, <1>1, <1>3, <1>4, <2>7 DEF AwaitStep, KmsStep, server, caches
    <2>8. CASE RemoteConnect
      BY <1>1, <1>3, <1>4, <2>8 DEF RemoteConnect, server, caches
    <2>9. CASE applyRemoteConfigMap \/ applyRemoteConfigMapFails
      BY <1>1, <1>3, <2>9 DEF applyRemoteConfigMap, applyRemoteConfigMapFails, server, caches
    <2>10. CASE Ready
      BY Zenon, <1>2, <2>10 DEF Ready, caches
    <2>11. CASE deleteRemoteConfigMaps
      BY <1>1, <2>11 DEF deleteRemoteConfigMaps, server, caches
    <2>12. CASE removeFinalizer
      <3> DEFINE c == [claim EXCEPT !.fin = FALSE, !.life = IF claim.fg THEN @ ELSE "gone"]
      <3>1. \/ UNCHANGED <<claim, claimDirty, cclaim>>
            \/ mode = "delete" /\ todo = {} /\ claim' = c /\ claimDirty' = TRUE /\ cclaim' = cclaim
        BY <2>12 DEF removeFinalizer, StoreClaim, server, caches
      <3>2. c.life \in {claim.life, "gone"} /\ ~c.fin /\ c.refs = claim.refs /\ c.fg = claim.fg
        BY <1>0 DEF Claim
      <3> QED
        BY Zenon, <1>1, <3>1, <3>2 DEF ClaimMove
    <2>13. ASSUME NEW r \in Managed,
                  \/ removeResourceFinalizer(r) \/ removeResourceFinalizerFails(r)
                  \/ deleteAndWait(r) \/ deleteResource(r)
           PROVE  ClaimMove
      BY <1>1, <2>13 DEF removeResourceFinalizer, removeResourceFinalizerFails, deleteAndWait, deleteResource,
                         server, caches
    <2> QED
      BY <1>5, <2>1, <2>2, <2>3, <2>4, <2>5, <2>6, <2>7, <2>8, <2>9, <2>10, <2>11, <2>12, <2>13 DEF Pass
  <1>6. CASE User \/ EndForeground
    <2>1. ASSUME NEW c, NEW event, Change(c, event), MayDropRefs \/ c.refs = claim.refs,
                 c.fg \in {claim.fg, FALSE} \union Foreground,
                 \/ c.life = claim.life /\ c.fin = claim.fin
                 \/ /\ claim.life # "gone" /\ c.life \in {"deleting", "gone"} /\ c.fin = claim.fin
                    /\ c.life = "gone" => ~claim.fin
          PROVE  ClaimMove
      BY ZenonT(60), <2>1 DEF Change, StoreClaim, ClaimMove
    <2>2. CASE EditSpec
      <3>1. PICK refs \in {claim.refs} \union (IF MayDropRefs THEN {claim.refs \ {r} : r \in References} ELSE {}) :
              Change([claim EXCEPT !.gen = @ + 1, !.refs = refs], TRUE)
        BY Zenon, <2>2 DEF EditSpec
      <3>2. MayDropRefs \/ refs = claim.refs
        OBVIOUS
      <3>3. LET c == [claim EXCEPT !.gen = @ + 1, !.refs = refs] IN
              c.life = claim.life /\ c.fin = claim.fin /\ c.refs = refs /\ c.fg = claim.fg
        BY <1>0 DEF Claim
      <3> QED
        BY Zenon, <2>1, <3>1, <3>2, <3>3
    <2>3. CASE Pause \/ Unpause \/ TouchLabels
      <3>1. PICK c, event : Change(c, event) /\ c \in {claim, [claim EXCEPT !.paused = TRUE], [claim EXCEPT !.paused = FALSE]}
        BY Zenon, <2>3 DEF Pause, Unpause, TouchLabels
      <3>2. c.life = claim.life /\ c.fin = claim.fin /\ c.refs = claim.refs /\ c.fg = claim.fg
        BY <1>0, <3>1 DEF Claim
      <3> QED
        BY ZenonT(60), <2>1, <3>1, <3>2
    <2>4. CASE DeleteClaim
      <3>1. PICK fg \in Foreground :
              Change([claim EXCEPT !.life = IF claim.fin \/ fg THEN "deleting" ELSE "gone",
                                   !.gen = @ + 1, !.fg = fg], TRUE)
        BY Zenon, <2>4 DEF DeleteClaim
      <3>2. LET c == [claim EXCEPT !.life = IF claim.fin \/ fg THEN "deleting" ELSE "gone",
                                   !.gen = @ + 1, !.fg = fg] IN
              /\ c.life \in {"deleting", "gone"} /\ c.fin = claim.fin /\ c.refs = claim.refs
              /\ c.life = "gone" => ~claim.fin
              /\ c.fg = fg
        BY <1>0 DEF Claim
      <3>3. claim.life # "gone"
        BY <2>4 DEF DeleteClaim
      <3> QED
        BY Zenon, <2>1, <3>1, <3>2, <3>3
    <2>5. CASE EndForeground
      <3>1. Change([claim EXCEPT !.fg = FALSE, !.life = IF claim.fin THEN @ ELSE "gone"], ~claim.fin)
        BY <2>5 DEF EndForeground
      <3>2. LET c == [claim EXCEPT !.fg = FALSE, !.life = IF claim.fin THEN @ ELSE "gone"] IN
              /\ c.life = (IF claim.fin THEN claim.life ELSE "gone")
              /\ c.fin = claim.fin /\ c.refs = claim.refs /\ c.fg = FALSE
        BY <1>0 DEF Claim
      <3>3. claim.life = "deleting"
        BY <2>5 DEF EndForeground
      <3> QED
        BY Zenon, <2>1, <3>1, <3>2, <3>3
    <2> QED
      BY <1>6, <2>2, <2>3, <2>4, <2>5 DEF User
  <1>7. CASE World
    BY ZenonT(60), <1>1, <1>6, <1>7 DEF World, KubeconfigSecret, CollectDependent, Advance, Regress, ForeignCleanup,
                            OnObject, Block, Unblock, SetObstacle, server, caches
  <1>8. CASE Deliver
    <2>1. UNCHANGED <<claim, claimDirty, cclaim>> \/ (cclaim' = claim /\ claim' = claim)
      BY <1>8 DEF Deliver, SyncClaim, SyncKind, TimerFires, server, caches
    <2> QED
      BY ZenonT(60), <1>1, <2>1 DEF ClaimMove
  <1>9. CASE Crash
    <2>1. cclaim' = claim /\ claim' = claim
      BY <1>9 DEF Crash
    <2> QED
      BY <2>1 DEF ClaimMove
  <1>10. CASE UNCHANGED vars
    BY <1>1, <1>10 DEF vars
  <1> QED
    BY <1>5, <1>6, <1>7, <1>8, <1>9, <1>10 DEF Next

\* What the API server's operations do to existence, finalizer and content of one object.
LEMMA ObjectEffects ==
    ASSUME NEW o \in Object, NEW r \in Managed
    PROVE  /\ \A g \in Nat, c \in BOOLEAN :
                /\ ApplyTo(o, g, c).there /\ ApplyTo(o, g, c).gen = g
                /\ ApplyTo(o, g, c).guard = IF o.there THEN o.guard ELSE "never"
           /\ \/ /\ DeleteOf(r, o).there = o.there /\ DeleteOf(r, o).guard = o.guard
                 /\ DeleteOf(r, o).gen = o.gen /\ DeleteOf(r, o).cli = o.cli
              \/ DeleteOf(r, o) = Absent /\ o.guard # "held"
  <1>1. ASSUME NEW g \in Nat, NEW c \in BOOLEAN
        PROVE  /\ ApplyTo(o, g, c).there /\ ApplyTo(o, g, c).gen = g
               /\ ApplyTo(o, g, c).guard = IF o.there THEN o.guard ELSE "never"
    BY DEF ApplyTo, Object, Absent
  <1>2. \/ /\ DeleteOf(r, o).there = o.there /\ DeleteOf(r, o).guard = o.guard
           /\ DeleteOf(r, o).gen = o.gen /\ DeleteOf(r, o).cli = o.cli
        \/ DeleteOf(r, o) = Absent /\ o.guard # "held"
    <2>1. CASE ~o.there
      BY <2>1 DEF DeleteOf
    <2>2. CASE o.there /\ (o.guard = "held" \/ r \in Foreign)
      <3>1. DeleteOf(r, o) = [o EXCEPT !.del = TRUE]
        BY <2>2 DEF DeleteOf
      <3> QED
        BY <3>1 DEF Object
    <2>3. CASE o.there /\ ~(o.guard = "held" \/ r \in Foreign)
      BY Zenon, <2>3 DEF DeleteOf
    <2> QED
      BY <2>1, <2>2, <2>3
  <1> QED
    BY <1>1, <1>2

\* Every step moves the managed objects as ObjectsMove says.
LEMMA ObjectMoves == ASSUME TypeOK, StepOK, [Next]_vars PROVE ObjectsMove
  <1>0. obj \in [Managed -> Object] /\ my.gen \in Nat /\ cli \in BOOLEAN
    BY Zenon DEF TypeOK, Claim
  <1>1. CASE UNCHANGED <<obj, dirty, cobj>>
    BY <1>1 DEF ObjectsMove
  <1>2. ASSUME NEW r \in Managed, NEW o \in Object, Store(r, o), ObjectMove(r, o), cobj' = cobj PROVE ObjectsMove
    BY <1>2 DEF ObjectsMove
  <1>3. ASSUME NEW r \in Managed, Store(r, DeleteOf(r, obj[r])), cobj' = cobj PROVE ObjectsMove
    <2>1. obj[r] \in Object
      BY <1>0
    <2>2. DeleteOf(r, obj[r]) \in Object
      BY Zenon, <2>1, ObjectTypes
    <2>3. ObjectMove(r, DeleteOf(r, obj[r]))
      BY <2>1, ObjectEffects DEF ObjectMove
    <2> QED
      BY <1>2, <1>3, <2>2, <2>3
  <1>4. CASE Pass
    <2>1. CASE ReconcileNotFound \/ reconcilePaused \/ ReconcileStart \/ ensureFinalizerFails \/ reconcileDelete
      BY Zenon, <1>1, <2>1 DEF ReconcileNotFound, reconcilePaused, ReconcileStart, ensureFinalizerFails,
                        reconcileDelete, objects, caches
    <2>2. CASE ensureResourceFails \/ ensureResourceFinalizerFails \/ AwaitStep \/ KmsStep
      BY Zenon, <1>1, <2>2 DEF ensureResourceFails, ensureResourceFinalizerFails, AwaitStep, KmsStep, objects, caches
    <2>3. CASE RemoteConnect \/ applyRemoteConfigMap \/ applyRemoteConfigMapFails \/ Ready
      BY Zenon, <1>1, <2>3 DEF RemoteConnect, applyRemoteConfigMap, applyRemoteConfigMapFails, Ready, objects, caches
    <2>4. CASE deleteRemoteConfigMaps \/ removeFinalizer
      BY <1>1, <2>4 DEF deleteRemoteConfigMaps, removeFinalizer, objects, caches
    <2>5. CASE ensureResource
      <3> DEFINE r == Current.res
                 o == ApplyTo(obj[r], my.gen, r = "CcmCsrc" /\ cli)
      <3>1. mode = "pipeline" /\ Store(r, o) /\ cobj' = cobj
        BY <2>5 DEF ensureResource, InStep, caches
      <3>2. r \in Managed
        BY Zenon, <2>5, CurrentTypes DEF ensureResource, InStep
      <3>3. obj[r] \in Object /\ (r = "CcmCsrc" /\ cli) \in BOOLEAN
        BY <1>0, <3>2
      <3>4. /\ o \in Object /\ o.there /\ o.gen = my.gen
            /\ o.guard = IF obj[r].there THEN obj[r].guard ELSE "never"
        <4>1. o \in Object
          BY Zenon, <1>0, <3>2, <3>3, ObjectTypes
        <4>2. \A c \in BOOLEAN :
                /\ ApplyTo(obj[r], my.gen, c).there /\ ApplyTo(obj[r], my.gen, c).gen = my.gen
                /\ ApplyTo(obj[r], my.gen, c).guard = IF obj[r].there THEN obj[r].guard ELSE "never"
          BY <1>0, <3>2, <3>3, ObjectEffects
        <4> QED
          BY <3>3, <4>1, <4>2, Zenon
      <3>5. ObjectMove(r, o)
        <4> HIDE DEF o, r
        <4> QED
          BY Zenon, <3>1, <3>4 DEF ObjectMove
      <3> QED
        BY <1>2, <3>1, <3>2, <3>4, <3>5
    <2>6. CASE ensureResourceFinalizer
      <3> DEFINE r == Current.res
                 o == [obj[r] EXCEPT !.guard = "held"]
      <3>1. r \in Managed /\ r \in Required(my.refs) /\ mode = "pipeline"
        BY Zenon, <2>6, CurrentTypes DEF ensureResourceFinalizer, InStep
      <3>2. cobj' = cobj /\ cobj[r].there
        BY <2>6 DEF ensureResourceFinalizer, caches
      <3>3. CASE UNCHANGED objects
        BY <1>1, <3>2, <3>3 DEF objects
      <3>4. CASE ~dirty[r] /\ Store(r, o)
        <4>1. o \in Object
          BY <1>0, <3>1, ObjectTypes
        <4>2. ObjectMove(r, o)
          BY <3>1, <3>2, <3>4 DEF ObjectMove
        <4> QED
          BY <1>2, <3>1, <3>2, <3>4, <4>1, <4>2
      <3> QED
        BY <2>6, <3>3, <3>4 DEF ensureResourceFinalizer
    <2>7. ASSUME NEW r \in Managed, removeResourceFinalizer(r) PROVE ObjectsMove
      <3>1. CASE UNCHANGED objects
        BY <1>1, <2>7, <3>1 DEF removeResourceFinalizer, objects, caches
      <3>2. CASE cobj[r].fin /\ ~dirty[r] /\ Store(r, ReleaseOf(r, obj[r]))
        <4>1. ReleaseOf(r, obj[r]) \in Object
          BY Zenon, <1>0, ObjectTypes
        <4>2. ObjectMove(r, ReleaseOf(r, obj[r]))
          BY <2>7, <3>2 DEF removeResourceFinalizer, ObjectMove
        <4>3. cobj' = cobj
          BY ZenonT(60), <2>7 DEF removeResourceFinalizer, caches
        <4> QED
          BY <1>2, <3>2, <4>1, <4>2, <4>3
      <3> QED
        BY <2>7, <3>1, <3>2 DEF removeResourceFinalizer
    <2>8. ASSUME NEW r \in Managed,
                 removeResourceFinalizerFails(r) \/ deleteAndWait(r) \/ deleteResource(r)
          PROVE  ObjectsMove
      BY <1>1, <1>3, <2>8 DEF removeResourceFinalizerFails, deleteAndWait, deleteResource, objects, caches
    <2> QED
      BY <1>4, <2>1, <2>2, <2>3, <2>4, <2>5, <2>6, <2>7, <2>8 DEF Pass
  <1>5. CASE User \/ EndForeground \/ KubeconfigSecret
    BY Zenon, <1>1, <1>5 DEF User, EditSpec, Pause, Unpause, TouchLabels, DeleteClaim, EndForeground, Change,
                      KubeconfigSecret, objects, caches
  <1>6. ASSUME NEW r \in Managed, CollectDependent(r) \/ Advance(r) \/ Regress(r) \/ ForeignCleanup(r)
        PROVE  ObjectsMove
    <2>1. CASE CollectDependent(r)
      BY <1>3, <2>1 DEF CollectDependent, OnObject, caches
    <2>2. CASE ForeignCleanup(r)
      <3>1. Absent \in Object
        BY Zenon, <1>0, ObjectTypes
      <3>2. ObjectMove(r, Absent)
        BY Zenon, <2>2 DEF ForeignCleanup, ObjectMove
      <3> QED
        BY <1>2, <2>2, <3>1, <3>2 DEF ForeignCleanup, OnObject, caches
    <2>3. CASE Advance(r) \/ Regress(r)
      <3>0. obj[r] \in Object /\ obj[r].level \in 0..2 /\ MaxLevel[r] \in 0..2
        BY <1>0 DEF Object, MaxLevel
      <3>1. PICK l \in 0..2 : OnObject(r, [obj[r] EXCEPT !.level = l])
        <4>1. CASE Advance(r)
          <5>1. obj[r].level < MaxLevel[r] /\ OnObject(r, [obj[r] EXCEPT !.level = @ + 1])
            BY <4>1 DEF Advance
          <5>2. obj[r].level + 1 \in 0..2
            BY <3>0, <5>1
          <5> QED
            BY <5>1, <5>2
        <4>2. CASE Regress(r)
          <5>1. obj[r].level > Floor(r, obj[r].level) /\ OnObject(r, [obj[r] EXCEPT !.level = @ - 1])
            BY <4>2 DEF Regress
          <5>2. obj[r].level - 1 \in 0..2
            BY <3>0, <5>1 DEF Floor
          <5> QED
            BY <5>1, <5>2
        <4> QED
          BY <2>3, <4>1, <4>2
      <3> DEFINE o == [obj[r] EXCEPT !.level = l]
      <3>2. /\ o \in Object /\ o.there = obj[r].there /\ o.guard = obj[r].guard
            /\ o.gen = obj[r].gen /\ o.cli = obj[r].cli
        BY <3>0 DEF Object
      <3>3. ObjectMove(r, o)
        BY <3>2 DEF ObjectMove
      <3>4. Store(r, o) /\ cobj' = cobj
        BY <3>1 DEF OnObject, caches
      <3> HIDE DEF o
      <3> QED
        BY <1>2, <3>2, <3>3, <3>4
    <2> QED
      BY <1>6, <2>1, <2>2, <2>3
  <1>7. ASSUME NEW t, Block(t) \/ Unblock(t) PROVE ObjectsMove
    BY <1>1, <1>7 DEF Block, Unblock, SetObstacle, objects, caches
  <1>8. CASE SyncClaim \/ TimerFires
    BY <1>1, <1>8 DEF SyncClaim, TimerFires, objects, caches
  <1>9. ASSUME NEW k, SyncKind(k) PROVE ObjectsMove
    <2>1. obj' = obj
      BY <1>9 DEF SyncKind
    <2>2. ASSUME NEW r \in Managed
          PROVE  cobj'[r] = ViewOf(r, obj[r]) \/ (cobj'[r] = cobj[r] /\ dirty'[r] = dirty[r])
      <3>1. dirty[r] \in BOOLEAN
        BY Zenon DEF TypeOK
      <3>2. CASE GVK[r] = k
        BY <1>9, <3>2 DEF SyncKind
      <3>3. CASE GVK[r] # k
        BY <1>9, <3>1, <3>3 DEF SyncKind
      <3> QED
        BY <3>2, <3>3
    <2> QED
      BY <2>1, <2>2 DEF ObjectsMove
  <1>10. CASE Crash
    BY <1>10 DEF Crash, ObjectsMove
  <1>11. CASE UNCHANGED vars
    BY <1>1, <1>11 DEF vars
  <1> QED
    BY <1>4, <1>5, <1>6, <1>7, <1>8, <1>9, <1>10, <1>11 DEF Next, World, Deliver

\* Every step moves the worker as WorkerMove says.
LEMMA WorkerMoves == ASSUME TypeOK, [Next]_vars PROVE WorkerMove
  <1>1. CASE UNCHANGED <<mode, my, todo>>
    BY <1>1 DEF WorkerMove
  <1>2. CASE GoIdle
    BY Zenon, <1>2 DEF GoIdle, WorkerMove
  <1>3. ASSUME NEW c, Proceed(c) \/ Wait(c) PROVE WorkerMove
    BY Zenon, <1>1, <1>2, <1>3 DEF Proceed, Wait, EndPass
  <1>4. ASSUME NEW st, NEW f, TerminalError(st, f) \/ TransientError(st, f) PROVE WorkerMove
    BY <1>2, <1>4 DEF TerminalError, TransientError, EndPass
  <1>5. ASSUME NEW r, PassOn(r), Visiting(r), r \in Awaited => ~cobj[r].there PROVE WorkerMove
    BY <1>5 DEF PassOn, Visiting, WorkerMove
  <1>6. CASE Pass
    <2>1. CASE ReconcileNotFound \/ reconcilePaused
      BY <1>1, <2>1 DEF ReconcileNotFound, reconcilePaused, worker
    <2>2. CASE ReconcileStart
      <3>1. claim \in Claim
        BY Zenon DEF TypeOK
      <3>2. claim'.fin \/ (cclaim.fin /\ claim' = claim)
        <4>1. \/ cclaim.fin /\ claim' = claim
              \/ claim' = [claim EXCEPT !.fin = TRUE]
          BY <2>2 DEF ReconcileStart, ensureFinalizer, StoreClaim, server
        <4>2. [claim EXCEPT !.fin = TRUE].fin
          BY <3>1 DEF Claim
        <4> QED
          BY Zenon, <4>1, <4>2
      <3>3. /\ mode' = "pipeline" /\ cclaim.life = "live" /\ ~cclaim.paused
            /\ my' = [cclaim EXCEPT !.fin = TRUE]
        BY <2>2 DEF ReconcileStart, BeginPipeline
      <3> QED
        BY <3>2, <3>3 DEF WorkerMove
    <2>3. CASE reconcileDelete
      <3>1. \/ GoIdle
            \/ mode' = "delete" /\ cclaim.life = "deleting" /\ todo' = deletePlan(cclaim.refs)
        BY ZenonT(60), <2>3 DEF reconcileDelete, ReturnError
      <3> QED
        BY <1>2, <3>1 DEF WorkerMove
    <2>4. CASE ensureFinalizerFails
      BY <1>2, <2>4 DEF ensureFinalizerFails, ReturnError
    <2>5. CASE ensureResource \/ ensureResourceFinalizer
      BY <1>1, <1>3, <2>5 DEF ensureResource, ensureResourceFinalizer
    <2>6. CASE ensureResourceFails \/ ensureResourceFinalizerFails \/ applyRemoteConfigMapFails
      BY <1>4, <2>6 DEF ensureResourceFails, ensureResourceFinalizerFails, applyRemoteConfigMapFails
    <2>7. CASE AwaitStep \/ KmsStep
      BY Zenon, <1>3, <1>4, <2>7 DEF AwaitStep, KmsStep
    <2>8. CASE RemoteConnect \/ applyRemoteConfigMap
      BY <1>1, <1>3, <1>4, <2>8 DEF RemoteConnect, applyRemoteConfigMap
    <2>9. CASE Ready
      BY <1>2, <2>9 DEF Ready, EndPass
    <2>10. CASE deleteRemoteConfigMaps
      <3>1. RemoteConfig \notin Awaited
        BY DEF RemoteConfig, Awaited, Optional
      <3> QED
        BY <1>5, <2>10, <3>1 DEF deleteRemoteConfigMaps
    <2>11. CASE removeFinalizer
      BY <1>2, <2>11 DEF removeFinalizer, ReturnError
    <2>12. ASSUME NEW r \in Managed, removeResourceFinalizer(r) \/ removeResourceFinalizerFails(r)
           PROVE  WorkerMove
      BY ZenonT(60), <1>1, <1>2, <2>12 DEF removeResourceFinalizer, removeResourceFinalizerFails, ReturnError
    <2>13. ASSUME NEW r \in Managed, deleteAndWait(r) \/ deleteResource(r) PROVE WorkerMove
      BY <1>2, <1>5, <2>13 DEF deleteAndWait, deleteResource, ReturnError
    <2> QED
      BY ZenonT(60), <1>6, <2>1, <2>2, <2>3, <2>4, <2>5, <2>6, <2>7, <2>8, <2>9, <2>10, <2>11, <2>12, <2>13 DEF Pass
  <1>7. CASE User \/ EndForeground
    BY ZenonT(60), <1>1, <1>7 DEF User, EndForeground, EditSpec, Pause, Unpause, TouchLabels, DeleteClaim, Change
  <1>8. CASE World
    BY ZenonT(60), <1>1, <1>7, <1>8 DEF World, KubeconfigSecret, CollectDependent, Advance, Regress, ForeignCleanup,
                            OnObject, Block, Unblock, SetObstacle, worker
  <1>9. CASE Deliver
    BY <1>1, <1>9 DEF Deliver, SyncClaim, SyncKind, TimerFires, worker
  <1>10. CASE Crash
    BY <1>2, <1>10 DEF Crash
  <1>11. CASE UNCHANGED vars
    BY ZenonT(60), <1>1, <1>11 DEF vars
  <1> QED
    BY <1>6, <1>7, <1>8, <1>9, <1>10, <1>11 DEF Next

-------------------------------------------------------------------------------
\* A step leaves no informer copy current that differs from the server's object.
LEMMA CoherentKept == ASSUME TypeOK, Coherent, ClaimMove, ObjectsMove PROVE Coherent'
  <1>1. ~claimDirty' => cclaim' = claim'
    BY DEF Coherent, ClaimMove
  <1>2. ASSUME NEW r \in Managed, ~dirty'[r] PROVE cobj'[r] = ViewOf(r, obj'[r])
    <2>1. CASE UNCHANGED <<obj, dirty, cobj>>
      BY <1>2, <2>1 DEF Coherent
    <2>2. ASSUME NEW q \in Managed, NEW o \in Object, Store(q, o), cobj' = cobj
          PROVE  cobj'[r] = ViewOf(r, obj'[r])
      <3>1. obj \in [Managed -> Object] /\ dirty \in [Managed -> BOOLEAN]
        BY Zenon DEF TypeOK
      <3>2. CASE q # r
        BY <1>2, <2>2, <3>1, <3>2 DEF Store, Coherent
      <3>3. CASE q = r
        <4>1. dirty'[r] = (dirty[r] \/ o # obj[r])
          BY <2>2, <3>1, <3>3 DEF Store
        <4>2. ~dirty[r] /\ o = obj[r]
          BY Zenon, <1>2, <4>1
        <4>3. obj'[r] = obj[r]
          BY <2>2, <3>1, <3>3, <4>2 DEF Store
        <4> QED
          BY <2>2, <4>2, <4>3 DEF Coherent
      <3> QED
        BY <3>2, <3>3
    <2>3. CASE /\ obj' = obj
               /\ \A q \in Managed : \/ cobj'[q] = ViewOf(q, obj[q])
                                     \/ cobj'[q] = cobj[q] /\ dirty'[q] = dirty[q]
      BY <1>2, <2>3 DEF Coherent
    <2> QED
      BY <2>1, <2>2, <2>3 DEF ObjectsMove
  <1> QED
    BY <1>1, <1>2 DEF Coherent

\* A current copy that shows the object or its finalizer is right about it.
LEMMA CurrentCopy ==
    ASSUME TypeOK, Coherent, NEW r \in Managed, ~dirty[r]
    PROVE  cobj[r].there = obj[r].there /\ (cobj[r].fin => obj[r].guard = "held")
  <1>1. cobj[r] = ViewOf(r, obj[r])
    BY DEF Coherent
  <1>2. ViewOf(r, obj[r]).there = obj[r].there
    BY DEF ViewOf
  <1>3. ViewOf(r, obj[r]).fin = (obj[r].guard = "held")
    BY DEF ViewOf
  <1> QED
    BY Zenon, <1>1, <1>2, <1>3

\* What a step does to every single object.
LEMMA OneObject ==
    ASSUME TypeOK, ObjectsMove, NEW r \in Managed
    PROVE  \/ obj'[r] = obj[r]
           \/ ObjectMove(r, obj'[r]) /\ cobj' = cobj
  <1>1. obj \in [Managed -> Object]
    BY Zenon DEF TypeOK
  <1>2. ASSUME NEW q \in Managed, NEW o \in Object, Store(q, o), ObjectMove(q, o), cobj' = cobj
        PROVE  \/ obj'[r] = obj[r]
               \/ ObjectMove(r, obj'[r]) /\ cobj' = cobj
    BY <1>1, <1>2 DEF Store
  <1> QED
    BY <1>2 DEF ObjectsMove

\* What the informer and the worker know of the claim's life stays true.
LEMMA LifeKept ==
    ASSUME TypeOK, Coherent, LifeKnown, ClaimMove, WorkerMove
    PROVE  LifeKnown'
  <1>0. /\ claim.life \in {"live", "deleting", "gone"} /\ cclaim.life \in {"live", "deleting", "gone"}
        /\ mode \in {"idle", "pipeline", "delete"}
    BY Zenon DEF TypeOK, Claim, Lives
  <1>1. cclaim' = cclaim \/ (cclaim' = claim /\ claim' = claim)
    BY DEF ClaimMove
  <1>2. (cclaim'.life = "live" /\ cclaim'.fin => claim'.fin) /\ (cclaim'.life = "deleting" => claim'.life # "live")
    BY ZenonT(60), <1>0, <1>1 DEF ClaimMove, LifeKnown
  <1>3. claim'.life = "gone" => ~claim'.fin
    BY <1>0 DEF ClaimMove, LifeKnown, Coherent
  <1>4. mode' = "pipeline" => claim'.fin
    BY <1>0 DEF ClaimMove, WorkerMove, LifeKnown
  <1>5. mode' = "delete" => claim'.life # "live" /\ cclaim'.life # "live"
    BY <1>0, <1>1 DEF ClaimMove, WorkerMove, LifeKnown
  <1> QED
    BY <1>2, <1>3, <1>4, <1>5 DEF LifeKnown

\* No resource appears under a live claim without finalizer.
LEMMA FinalizerKept ==
    ASSUME TypeOK, LifeKnown, FinalizerBeforeResources, ClaimMove, ObjectsMove
    PROVE  FinalizerBeforeResources'
  <1> SUFFICES ASSUME claim'.life = "live", NEW r \in Managed, obj'[r].there PROVE claim'.fin
    BY DEF FinalizerBeforeResources
  <1>1. claim.life = "live" /\ mode # "delete"
    BY DEF ClaimMove, LifeKnown
  <1>2. claim.fin
    <2>1. ~Absent.there
      BY DEF Absent
    <2>2. ~Visiting(r)
      BY <1>1 DEF Visiting
    <2>3. obj[r].there \/ mode = "pipeline"
      BY Zenon, <2>1, <2>2, OneObject DEF ObjectMove
    <2> QED
      BY <1>1, <2>3 DEF FinalizerBeforeResources, LifeKnown
  <1> QED
    BY Zenon, <1>1, <1>2 DEF ClaimMove

\* What got the finalizer stays visible until it is gone.
LEMMA ObservedKept ==
    ASSUME TypeOK, Coherent, Observed, ObjectsMove
    PROVE  Observed'
  <1> SUFFICES ASSUME NEW r \in Managed, obj'[r].guard # "never" PROVE obj'[r].there /\ cobj'[r].there
    BY DEF Observed
  <1>0. obj[r] \in Object
    BY Zenon DEF TypeOK
  <1>1. CASE obj'[r] = obj[r]
    <2>1. obj[r].there /\ cobj[r].there
      BY <1>1 DEF Observed
    <2>2. cobj'[r] = cobj[r] \/ cobj'[r] = ViewOf(r, obj[r])
      BY DEF ObjectsMove
    <2>3. ViewOf(r, obj[r]).there = obj[r].there
      BY DEF ViewOf
    <2> QED
      BY Zenon, <1>1, <2>1, <2>2, <2>3
  <1>2. CASE ObjectMove(r, obj'[r]) /\ cobj' = cobj
    <2>1. Absent.guard = "never"
      BY DEF Absent
    <2>2. CASE obj'[r].there /\ IF obj[r].there THEN obj'[r].guard = obj[r].guard ELSE obj'[r].guard = "never"
      BY <1>2, <2>2 DEF Observed
    <2>3. CASE cobj[r].there /\ ~dirty[r] /\ obj'[r] = [obj[r] EXCEPT !.guard = "held"]
      <3>1. obj'[r].there = obj[r].there
        BY <1>0, <2>3 DEF Object
      <3> QED
        BY <1>2, <2>3, <3>1, CurrentCopy
    <2>4. CASE cobj[r].fin /\ ~dirty[r] /\ obj'[r] = ReleaseOf(r, obj[r])
      <3>1. obj[r].guard = "held"
        BY <2>4, CurrentCopy
      <3>2. obj[r].there /\ cobj[r].there
        BY <3>1 DEF Observed
      <3>3. obj'[r] = Absent \/ obj'[r].there = obj[r].there
        BY <1>0, <2>4 DEF ReleaseOf, Object
      <3> QED
        BY Zenon, <1>2, <2>1, <3>2, <3>3
    <2>5. CASE obj'[r].there = obj[r].there /\ obj'[r].guard = obj[r].guard
      BY <1>2, <2>5 DEF Observed
    <2>6. CASE obj'[r] = Absent
      BY <2>1, <2>6
    <2> QED
      BY <1>2, <2>2, <2>3, <2>4, <2>5, <2>6 DEF ObjectMove
  <1> QED
    BY <1>1, <1>2, OneObject

\* While no pass runs the pipeline no object gets the finalizer.
LEMMA NeverStays ==
    ASSUME TypeOK, Coherent, ObjectsMove, mode # "pipeline",
           NEW r \in Managed, obj[r].guard = "never"
    PROVE  obj'[r].guard = "never"
  <1>1. Absent.guard = "never"
    BY DEF Absent
  <1>2. ~(cobj[r].fin /\ ~dirty[r])
    BY CurrentCopy
  <1> QED
    BY Zenon, <1>1, <1>2, OneObject DEF ObjectMove

\* While no reference is dropped, the plan of a delete pass covers what got the finalizer.
LEMMA PlannedKept ==
    ASSUME TypeOK, Coherent, Planned, ClaimMove, ObjectsMove, WorkerMove
    PROVE  Planned'
  <1> SUFFICES ASSUME ~MayDropRefs
               PROVE  /\ claim'.refs = InitialRefs
                      /\ cclaim'.life # "gone" => cclaim'.refs = InitialRefs
                      /\ mode' = "pipeline" => my'.refs = InitialRefs
                      /\ \A r \in Managed : obj'[r].guard # "never" => r \in Required(InitialRefs)
    BY DEF Planned
  <1>1. claim'.refs = InitialRefs
    BY DEF ClaimMove, Planned
  <1>2. cclaim'.life # "gone" => cclaim'.refs = InitialRefs
    BY DEF ClaimMove, Planned
  <1>3. mode' = "pipeline" => my'.refs = InitialRefs
    <2>1. [cclaim EXCEPT !.fin = TRUE].refs = cclaim.refs
      BY Zenon DEF TypeOK, Claim
    <2> QED
      BY Zenon, <2>1 DEF WorkerMove, Planned
  <1>4. ASSUME NEW r \in Managed, obj'[r].guard # "never" PROVE r \in Required(InitialRefs)
    <2>1. CASE obj[r].guard # "never"
      BY <2>1 DEF Planned
    <2>2. CASE obj[r].guard = "never"
      <3>1. Absent.guard = "never"
        BY DEF Absent
      <3>2. ~(cobj[r].fin /\ ~dirty[r])
        BY <2>2, CurrentCopy
      <3>3. mode = "pipeline" /\ r \in Required(my.refs)
        BY Zenon, <1>4, <2>2, <3>1, <3>2, OneObject DEF ObjectMove
      <3> QED
        BY <3>3 DEF Planned
    <2> QED
      BY <2>1, <2>2
  <1> QED
    BY <1>1, <1>2, <1>3, <1>4

\* A delete pass sweeps up every awaited resource before the claim is released.
LEMMA SweptKept ==
    ASSUME TypeOK, Coherent, LifeKnown, Observed, Planned, Planned', Swept, ClaimMove, ObjectsMove, WorkerMove
    PROVE  Swept'
  <1> SUFFICES ASSUME ~MayDropRefs
               PROVE  /\ ~claim'.fin => \A d \in Awaited : obj'[d].guard = "never"
                      /\ mode' = "delete" => \A d \in Awaited \ todo' : obj'[d].guard = "never"
    BY DEF Swept
  <1>0. Awaited \subseteq Managed
    BY DEF Awaited, Managed, Optional, ClientOnly
  <1>1. ASSUME ~claim'.fin, NEW d \in Awaited PROVE obj'[d].guard = "never"
    <2>1. obj[d].guard = "never" /\ mode # "pipeline"
      BY <1>1 DEF ClaimMove, LifeKnown, Swept
    <2> QED
      BY ZenonT(60), <1>0, <2>1, NeverStays
  <1>2. ASSUME mode' = "delete", NEW d \in Awaited, d \notin todo' PROVE obj'[d].guard = "never"
    <2>1. CASE cclaim.life = "deleting" /\ todo' = deletePlan(cclaim.refs)
      <3>1. d \notin Required(InitialRefs)
        BY <1>2, <2>1 DEF Planned, deletePlan
      <3> QED
        BY <1>0, <3>1 DEF Planned
    <2>2. CASE UNCHANGED <<mode, my, todo>>
      <3>1. obj[d].guard = "never" /\ mode = "delete"
        BY <1>2, <2>2 DEF Swept
      <3> QED
        BY <1>0, <3>1, NeverStays
    <2>3. CASE /\ mode = "delete"
               /\ \E r \in todo : todo' = todo \ {r} /\ (r \in Awaited => ~cobj[r].there)
      <3>1. obj[d].guard = "never"
        BY <1>0, <1>2, <2>3 DEF Swept, Observed
      <3> QED
        BY <1>0, <2>3, <3>1, NeverStays
    <2> QED
      BY <1>2, <2>1, <2>2, <2>3 DEF WorkerMove
  <1> QED
    BY <1>1, <1>2

\* The claim just created satisfies every inductive invariant.
LEMMA InitSafe == Init => Safe
  <1> SUFFICES ASSUME Init PROVE Safe
    OBVIOUS
  <1>1. /\ claim = [NoClaim EXCEPT !.life = "live", !.gen = 1, !.refs = InitialRefs]
        /\ cclaim = NoClaim /\ claimDirty = TRUE /\ mode = "idle"
        /\ obj = [r \in Managed |-> Absent] /\ cobj = [r \in Managed |-> ViewOf(r, Absent)]
    BY Zenon DEF Init
  <1>2. claim.life = "live" /\ claim.refs = InitialRefs /\ ~claim.fin /\ cclaim.life = "gone"
    BY <1>1 DEF NoClaim
  <1>3. \A r \in Managed : ~obj[r].there /\ obj[r].guard = "never" /\ cobj[r] = ViewOf(r, obj[r])
    BY <1>1 DEF Absent
  <1>4. Awaited \subseteq Managed
    BY DEF Awaited, Managed, Optional, ClientOnly
  <1> QED
    BY <1>1, <1>2, <1>3, <1>4
       DEF Safe, Coherent, LifeKnown, FinalizerBeforeResources, Observed, Planned, Swept

\* Every step keeps the inductive invariants.
LEMMA StepSafe == ASSUME TypeOK, StepOK, Safe, [Next]_vars PROVE Safe'
  <1>1. ClaimMove /\ ObjectsMove /\ WorkerMove
    BY ClaimMoves, ObjectMoves, WorkerMoves
  <1>2. Coherent /\ LifeKnown /\ FinalizerBeforeResources /\ Observed /\ Planned /\ Swept
    BY DEF Safe
  <1>3. Coherent' /\ LifeKnown' /\ FinalizerBeforeResources' /\ Observed'
    BY <1>1, <1>2, CoherentKept, LifeKept, FinalizerKept, ObservedKept
  <1>4. Planned'
    BY <1>1, <1>2, PlannedKept
  <1>5. Swept'
    BY <1>1, <1>2, <1>4, SweptKept
  <1> QED
    BY <1>3, <1>4, <1>5 DEF Safe

\* In every reachable state the inductive invariants hold.
THEOREM Safety == Spec => []Safe
  <1>1. TypeOK /\ StepOK /\ Safe /\ [Next]_vars => Safe'
    BY StepSafe
  <1> QED
    BY <1>1, InitSafe, TypeCorrect, PTL DEF Spec

(***************************************************************************)
(* A live claim with any managed resource carries the operator's           *)
(* finalizer, however stale the copy of the claim that a pass works from   *)
(* is: ensureFinalizer's Update conflicts on a stale copy, and a copy that *)
(* shows the finalizer is not older than the finalizer.                    *)
(***************************************************************************)
THEOREM FinalizerComesFirst == Spec => []FinalizerBeforeResources
  <1>1. Safe => FinalizerBeforeResources
    BY DEF Safe
  <1> QED
    BY <1>1, Safety, PTL

(***************************************************************************)
(* While no optional reference is dropped from the spec, a claim that is   *)
(* gone leaves no resource that reconcileDelete waits for behind with the  *)
(* operator's finalizer.                                                   *)
(***************************************************************************)
THEOREM NothingAwaitedIsOrphaned == Spec => [](~MayDropRefs => NoAwaitedOrphan)
  <1>1. Safe => (~MayDropRefs => NoAwaitedOrphan)
    <2> SUFFICES ASSUME Safe, ~MayDropRefs, claim.life = "gone", NEW d \in Awaited
                 PROVE  obj[d].guard # "held"
      BY DEF NoAwaitedOrphan
    <2>1. ~claim.fin
      BY DEF Safe, LifeKnown
    <2>2. obj[d].guard = "never"
      BY <2>1 DEF Safe, Swept
    <2> QED
      BY <2>2
  <1> QED
    BY <1>1, Safety, PTL

\* The ranks of the delete plan are numbers.
LEMMA RankType == \A r \in Managed : Rank(r) \in Nat
  BY DEF Rank, Managed, Optional, ClientOnly, RemoteConfig

(***************************************************************************)
(* While no optional reference is dropped from the spec, reconcileDelete   *)
(* takes the finalizer off a resource only when every resource that it     *)
(* must wait for first is gone or never had the finalizer, whatever the    *)
(* informers show and whoever else deletes or recreates in between.        *)
(***************************************************************************)
THEOREM TeardownIsOrdered == ASSUME ~MayDropRefs PROVE Spec => TeardownOrder
  <1> DEFINE Ordered ==
        \A r \in Managed, d \in Awaited :
          /\ obj[r].guard = "held" /\ obj'[r].guard # "held"
          /\ Rank(d) < Rank(r)
          => ~obj[d].there \/ obj[d].guard = "never"
  <1>1. TypeOK /\ StepOK /\ Safe /\ [Next]_vars => [Ordered]_vars
    <2> SUFFICES ASSUME TypeOK, StepOK, Safe, [Next]_vars,
                        NEW r \in Managed, NEW d \in Awaited,
                        obj[r].guard = "held", obj'[r].guard # "held", Rank(d) < Rank(r)
                 PROVE  obj[d].guard = "never"
      OBVIOUS
    <2>1. obj[r] \in Object /\ obj[r].there
      BY Zenon DEF TypeOK, Safe, Observed
    <2>2. [obj[r] EXCEPT !.guard = "held"].guard = "held"
      BY <2>1 DEF Object
    <2>3. Visiting(r)
      <3>1. ObjectMove(r, obj'[r])
        BY ObjectMoves, OneObject
      <3> QED
        BY Zenon, <2>1, <2>2, <3>1 DEF ObjectMove
    <2>4. d \in Managed
      BY DEF Awaited, Managed, Optional, ClientOnly
    <2>5. mode = "delete" /\ d \notin todo
      <3>1. mode = "delete" /\ (d \in todo => Rank(r) <= Rank(d))
        BY Zenon, <2>3 DEF Visiting
      <3>2. Rank(r) \in Int /\ Rank(d) \in Int
        BY <2>4, RankType
      <3>3. ~(Rank(r) <= Rank(d))
        BY <3>2
      <3> QED
        BY Zenon, <3>1, <3>3
    <2> QED
      BY <2>5 DEF Safe, Swept
  <1>2. Spec => [](TypeOK /\ StepOK)
    BY TypeCorrect
  <1>3. Spec => []Safe
    BY Safety
  <1> QED
    BY <1>1, <1>2, <1>3, PTL DEF Spec, TeardownOrder

-------------------------------------------------------------------------------
(***************************************************************************)
(* ClaimSystem implements ClaimLifecycle, for every claim configuration    *)
(* and every bound on the environment: what a step may do to the claim and *)
(* to a managed object is, seen through Stage, a step of ClaimLifecycle or *)
(* none at all.                                                            *)
(***************************************************************************)
\* What was released stays released: no pipeline runs any more, and none will start.
Retired ==
    \A r \in Managed : obj[r].guard = "released"
      => claim.life # "live" /\ cclaim.life # "live" /\ mode # "pipeline"

-------------------------------------------------------------------------------
\* No step changes both the claim and a managed object.
LEMMA OneAtATime == ASSUME TypeOK, StepOK, [Next]_vars PROVE claim' = claim \/ obj' = obj
  <1>1. CASE UNCHANGED vars
    BY <1>1 DEF vars
  <1>2. CASE Pass
    <2>1. CASE ReconcileNotFound \/ reconcilePaused \/ ReconcileStart \/ ensureFinalizerFails
      BY Zenon, <2>1 DEF ReconcileNotFound, reconcilePaused, ReconcileStart, ensureFinalizerFails, objects
    <2>2. CASE ensureResource \/ ensureResourceFinalizer
      BY Zenon, <2>2 DEF ensureResource, ensureResourceFinalizer, server
    <2>3. CASE ensureResourceFails \/ ensureResourceFinalizerFails \/ AwaitStep \/ KmsStep
      BY Zenon, <2>3 DEF ensureResourceFails, ensureResourceFinalizerFails, AwaitStep, KmsStep, objects
    <2>4. CASE RemoteConnect \/ applyRemoteConfigMap \/ applyRemoteConfigMapFails \/ Ready
      BY Zenon, <2>4 DEF RemoteConnect, applyRemoteConfigMap, applyRemoteConfigMapFails, Ready, objects
    <2>5. CASE reconcileDelete \/ deleteRemoteConfigMaps \/ removeFinalizer
      BY Zenon, <2>5 DEF reconcileDelete, deleteRemoteConfigMaps, removeFinalizer, objects
    <2>6. ASSUME NEW r \in Managed,
                 removeResourceFinalizer(r) \/ removeResourceFinalizerFails(r) \/ deleteAndWait(r) \/ deleteResource(r)
          PROVE  claim' = claim
      BY Zenon, <2>6 DEF removeResourceFinalizer, removeResourceFinalizerFails, deleteAndWait, deleteResource, server
    <2> QED
      BY Zenon, <1>2, <2>1, <2>2, <2>3, <2>4, <2>5, <2>6 DEF Pass
  <1>3. CASE User \/ EndForeground
    <2>1. ASSUME NEW c, NEW event, Change(c, event) PROVE obj' = obj
      BY <2>1 DEF Change, objects
    <2> QED
      BY Zenon, <1>3, <2>1 DEF User, EditSpec, Pause, Unpause, TouchLabels, DeleteClaim, EndForeground
  <1>4. CASE World
    <2>1. ASSUME NEW r, NEW o, OnObject(r, o) PROVE claim' = claim
      BY <2>1 DEF OnObject, server
    <2>2. ASSUME NEW t, NEW o, NEW event, SetObstacle(t, o, event) PROVE claim' = claim
      BY ZenonT(60), <2>2 DEF SetObstacle, server
    <2>3. CASE KubeconfigSecret
      BY <2>3 DEF KubeconfigSecret, server
    <2>4. ASSUME NEW r \in Managed, CollectDependent(r) \/ Advance(r) \/ Regress(r) \/ ForeignCleanup(r)
          PROVE  claim' = claim
      BY Zenon, <2>1, <2>4 DEF CollectDependent, Advance, Regress, ForeignCleanup
    <2>5. ASSUME NEW t \in Blockable, Block(t) \/ Unblock(t) PROVE claim' = claim
      BY Zenon, <2>2, <2>5 DEF Block, Unblock
    <2> QED
      BY Zenon, <1>3, <1>4, <2>3, <2>4, <2>5 DEF World
  <1>5. CASE Deliver \/ Crash
    BY Zenon, <1>5 DEF Deliver, SyncClaim, TimerFires, SyncKind, Crash, server
  <1> QED
    BY Zenon, <1>1, <1>2, <1>3, <1>4, <1>5 DEF Next

\* Every step keeps Retired.
LEMMA RetiredKept ==
    ASSUME TypeOK, Safe, Retired, ClaimMove, ObjectsMove, WorkerMove PROVE Retired'
  <1> SUFFICES ASSUME NEW r \in Managed, obj'[r].guard = "released"
               PROVE  claim'.life # "live" /\ cclaim'.life # "live" /\ mode' # "pipeline"
    BY DEF Retired
  <1>1. claim.life # "live" /\ cclaim.life # "live" /\ mode # "pipeline"
    <2>1. CASE obj[r].guard = "released"
      BY Zenon, <2>1 DEF Retired
    <2>2. CASE obj[r].guard # "released"
      <3>1. obj'[r] # obj[r]
        BY <2>2
      <3>2. ObjectMove(r, obj'[r])
        BY <3>1, OneObject
      <3>3. obj[r] \in Object
        BY Zenon DEF TypeOK
      <3>4. [obj[r] EXCEPT !.guard = "held"].guard = "held" /\ Absent.guard = "never"
        BY <3>3 DEF Object, Absent
      <3>5. Visiting(r)
        BY Zenon, <2>2, <3>2, <3>4 DEF ObjectMove
      <3>6. mode = "delete"
        BY <3>5 DEF Visiting
      <3> QED
        BY <3>6 DEF Safe, LifeKnown
    <2> QED
      BY <2>1, <2>2
  <1>2. claim'.life # "live"
    BY Zenon, <1>1 DEF ClaimMove
  <1>3. cclaim'.life # "live"
    BY Zenon, <1>1, <1>2 DEF ClaimMove
  <1>4. mode' # "pipeline"
    BY Zenon, <1>1 DEF WorkerMove
  <1> QED
    BY <1>2, <1>3, <1>4

-------------------------------------------------------------------------------
\* A step on the claim is a step of the lifecycle.
LEMMA ClaimStepMaps ==
    ASSUME TypeOK, Safe, ~MayDropRefs, ClaimMove, obj' = obj
    PROVE  Lifecycle!Next \/ UNCHANGED Lifecycle!vars
  <1>1. Stage' = Stage
    BY DEF Stage
  <1>2. \A d \in Awaited : d \in Managed
    BY DEF Awaited, Managed, Optional, ClientOnly
  <1>3. claim.life \in Lives /\ claim.fin \in BOOLEAN
    BY Zenon DEF TypeOK, Claim
  <1>4. CASE claim'.life = claim.life /\ claim'.fin = claim.fin
    BY <1>1, <1>4 DEF Lifecycle!vars
  <1>5. CASE cclaim.life = "live" /\ ~claimDirty /\ claim'.life = claim.life /\ claim'.fin
    <2>1. claim.life = "live"
      BY <1>5 DEF Safe, Coherent
    <2>2. CASE claim'.fin = TRUE
      BY <1>1, <1>5, <2>1, <2>2 DEF Lifecycle!Next, Lifecycle!Enroll
    <2> QED
      BY <1>5, <2>2
  <1>6. CASE /\ claim.life # "gone" /\ claim'.life \in {"deleting", "gone"} /\ claim'.fin = claim.fin
             /\ claim'.life = "gone" => ~claim.fin
    BY <1>1, <1>3, <1>6 DEF Lifecycle!Next, Lifecycle!Delete, Lifecycle!Depart, Lifecycle!vars, Lives
  <1>7. CASE mode = "delete" /\ todo = {} /\ claim'.life \in {claim.life, "gone"} /\ ~claim'.fin
    <2>1. claim.life # "live"
      BY <1>7 DEF Safe, LifeKnown
    <2>2. \A d \in Awaited : obj[d].guard = "never"
      BY <1>7 DEF Safe, Swept
    <2>3. \A d \in Awaited : ~Lifecycle!Engaged(d)
      BY <1>2, <2>2 DEF Lifecycle!Engaged, Stage, StageOf
    <2> QED
      BY <1>1, <1>7, <2>1, <2>3 DEF Lifecycle!Next, Lifecycle!Retire
  <1> QED
    BY Zenon, <1>4, <1>5, <1>6, <1>7 DEF ClaimMove

\* A step on one managed object is a step of the lifecycle.
LEMMA ObjectStepMaps ==
    ASSUME TypeOK, Safe, Retired, ~MayDropRefs, claim' = claim,
           NEW r \in Managed, NEW o \in Object, Store(r, o), ObjectMove(r, o)
    PROVE  Lifecycle!Next \/ UNCHANGED Lifecycle!vars
  <1>0. obj \in [Managed -> Object] /\ obj[r] \in Object
    BY Zenon DEF TypeOK
  <1>1. Stage \in [Managed -> {"absent", "loose", "held", "released"}] /\ Stage[r] = StageOf(obj[r])
    BY <1>0 DEF Stage, StageOf, Object, Guards
  <1>2. Stage' = [Stage EXCEPT ![r] = StageOf(o)]
    <2>1. obj' = [obj EXCEPT ![r] = o]
      BY DEF Store
    <2> QED
      BY Zenon, <1>0, <2>1 DEF Stage
  <1>3. CASE StageOf(o) = StageOf(obj[r])
    <2>1. Stage' = Stage
      BY <1>1, <1>2, <1>3
    <2> QED
      BY <2>1 DEF Lifecycle!vars
  <1>4. CASE /\ mode = "pipeline" /\ o.there /\ o.gen = my.gen
             /\ IF obj[r].there THEN o.guard = obj[r].guard ELSE o.guard = "never"
    <2>1. CASE obj[r].there
      BY <1>3, <1>4, <2>1 DEF StageOf
    <2>2. CASE ~obj[r].there
      <3>1. claim.fin
        BY ZenonT(60), <1>4 DEF Safe, LifeKnown
      <3>2. StageOf(obj[r]) = "absent" /\ StageOf(o) = "loose"
        BY ZenonT(60), <1>4, <2>2 DEF StageOf
      <3> QED
        BY ZenonT(60), <1>1, <1>2, <3>1, <3>2 DEF Lifecycle!Next, Lifecycle!Create
    <2> QED
      BY ZenonT(60), <2>1, <2>2
  <1>5. CASE /\ mode = "pipeline" /\ r \in Required(my.refs) /\ cobj[r].there /\ ~dirty[r]
             /\ o = [obj[r] EXCEPT !.guard = "held"]
    <2>1. obj[r].there /\ obj[r].guard # "released"
      BY <1>5, CurrentCopy DEF Safe, Retired
    <2>2. o.there = obj[r].there /\ o.guard = "held" /\ obj[r].guard \in Guards
      BY ZenonT(60), <1>0, <1>5 DEF Object
    <2>3. CASE obj[r].guard = "held"
      BY <1>3, <2>1, <2>2, <2>3 DEF StageOf
    <2>4. CASE obj[r].guard = "never"
      <3>1. claim.fin
        BY ZenonT(60), <1>5 DEF Safe, LifeKnown
      <3>2. StageOf(obj[r]) = "loose" /\ StageOf(o) = "held"
        BY <2>1, <2>2, <2>4 DEF StageOf
      <3> QED
        BY Zenon, <1>1, <1>2, <3>1, <3>2 DEF Lifecycle!Next, Lifecycle!Protect
    <2> QED
      BY <2>1, <2>2, <2>3, <2>4 DEF Guards
  <1>6. CASE Visiting(r) /\ cobj[r].fin /\ ~dirty[r] /\ o = ReleaseOf(r, obj[r])
    <2>1. obj[r].guard = "held" /\ obj[r].there
      BY <1>6, CurrentCopy DEF Safe, Observed
    <2>2. StageOf(obj[r]) = "held" /\ StageOf(o) \in {"released", "absent"}
      <3>1. o = Absent \/ (o.there = obj[r].there /\ o.guard = "released")
        BY <1>0, <1>6 DEF ReleaseOf, Object
      <3>2. StageOf(Absent) = "absent"
        BY DEF StageOf, Absent
      <3>3. o = Absent \/ StageOf(o) = "released"
        BY ZenonT(60), <2>1, <3>1 DEF StageOf
      <3>4. StageOf(obj[r]) = "held"
        BY ZenonT(60), <2>1 DEF StageOf
      <3> QED
        BY <3>2, <3>3, <3>4
    <2>3. claim.life # "live"
      BY ZenonT(60), <1>6 DEF Visiting, Safe, LifeKnown
    <2>4. ASSUME NEW d \in Awaited, Rank(d) < Rank(r) PROVE ~Lifecycle!Engaged(d)
      <3>1. d \in Managed
        BY DEF Awaited, Managed, Optional, ClientOnly
      <3>2. mode = "delete" /\ (d \in todo => Rank(r) <= Rank(d))
        BY Zenon, <1>6 DEF Visiting
      <3>3. ~(Rank(r) <= Rank(d))
        BY <2>4, <3>1, RankType
      <3>4. obj[d].guard = "never"
        BY ZenonT(60), <3>2, <3>3 DEF Safe, Swept
      <3> QED
        BY <3>1, <3>4 DEF Lifecycle!Engaged, Stage, StageOf
    <2> QED
      BY ZenonT(60), <1>1, <1>2, <2>2, <2>3, <2>4 DEF Lifecycle!Next, Lifecycle!Release
  <1>7. CASE o.there = obj[r].there /\ o.guard = obj[r].guard /\ o.gen = obj[r].gen
    BY <1>3, <1>7 DEF StageOf
  <1>8. CASE o = Absent /\ obj[r].guard # "held"
    <2>1. StageOf(o) = "absent"
      BY <1>8 DEF StageOf, Absent
    <2>2. CASE StageOf(obj[r]) \in {"loose", "released"}
      BY Zenon, <1>1, <1>2, <2>1, <2>2 DEF Lifecycle!Next, Lifecycle!Vanish
    <2>3. StageOf(obj[r]) \in {"absent", "loose", "released"}
      BY <1>0, <1>8 DEF StageOf, Object, Guards
    <2> QED
      BY ZenonT(60), <1>3, <2>1, <2>2, <2>3
  <1> QED
    BY Zenon, <1>4, <1>5, <1>6, <1>7, <1>8 DEF ObjectMove

\* Every step maps to a step of the lifecycle or to none.
LEMMA StepMaps ==
    ASSUME TypeOK, StepOK, Safe, Retired, ~MayDropRefs, [Next]_vars
    PROVE  Lifecycle!Next \/ UNCHANGED Lifecycle!vars
  <1>1. ClaimMove /\ ObjectsMove
    BY ClaimMoves, ObjectMoves
  <1>2. CASE obj' = obj
    BY <1>1, <1>2, ClaimStepMaps
  <1>3. CASE obj' # obj
    <2>1. claim' = claim
      BY <1>3, OneAtATime
    <2>2. PICK r \in Managed, o \in Object : Store(r, o) /\ ObjectMove(r, o)
      BY Zenon, <1>1, <1>3 DEF ObjectsMove
    <2> QED
      BY <2>1, <2>2, ObjectStepMaps
  <1> QED
    BY <1>2, <1>3

\* The initial states map to the initial state of the lifecycle.
LEMMA InitMaps == Init => Lifecycle!Init /\ Retired
  <1> SUFFICES ASSUME Init PROVE Lifecycle!Init /\ Retired
    OBVIOUS
  <1>1. claim.life = "live" /\ claim.fin = FALSE
    BY Zenon DEF Init, NoClaim
  <1>2. Stage = [r \in Managed |-> "absent"]
    BY Zenon DEF Init, Stage, StageOf, Absent
  <1>3. Retired
    BY Zenon DEF Init, Retired, Absent
  <1> QED
    BY <1>1, <1>2, <1>3 DEF Lifecycle!Init

(***************************************************************************)
(* While no optional reference is dropped from the spec, the controller    *)
(* implements ClaimLifecycle: finalizer first, ordered release, nothing    *)
(* taken back, finalizer last.                                             *)
(***************************************************************************)
THEOREM Refinement == ASSUME ~MayDropRefs PROVE Spec => ImplementsLifecycle
  <1>1. TypeOK /\ StepOK /\ Safe /\ Retired /\ [Next]_vars => Retired'
    BY ClaimMoves, ObjectMoves, WorkerMoves, RetiredKept
  <1>2. TypeOK /\ StepOK /\ Safe /\ Retired /\ [Next]_vars => [Lifecycle!Next]_(Lifecycle!vars)
    BY StepMaps
  <1>3. Spec => [](TypeOK /\ StepOK)
    BY TypeCorrect
  <1>4. Spec => []Safe
    BY Safety
  <1> QED
    BY <1>1, <1>2, <1>3, <1>4, InitMaps, PTL DEF Spec, ImplementsLifecycle, Lifecycle!Spec

\* What ClaimLifecycle promises of every state: a claim goes without the operator's finalizer only, no awaited
\* resource is engaged once that finalizer is off, and a live claim without it has no resources.
Promise ==
    /\ claim.life = "gone" => ~claim.fin
    /\ ~claim.fin => \A d \in Awaited : ~Lifecycle!Engaged(d)
    /\ claim.life = "live" /\ ~claim.fin => \A r \in Managed : Stage[r] = "absent"

(***************************************************************************)
(* The promise follows from the actions of ClaimLifecycle alone, so it is *)
(* what the refinement gives: a claim that is gone leaves nothing behind   *)
(* that deleteAndWait waits for, and no resource is created for a claim    *)
(* that could go without a delete pass.                                    *)
(***************************************************************************)
THEOREM LifecycleKeepsPromise == ImplementsLifecycle => []Promise
  <1>a. Awaited \subseteq Managed
    BY DEF Awaited, Managed, Optional, ClientOnly
  <1>1. Lifecycle!Init => Promise
    <2> SUFFICES ASSUME Lifecycle!Init PROVE Promise
      OBVIOUS
    <2>1. claim.life = "live" /\ \A r \in Managed : Stage[r] = "absent"
      BY Zenon DEF Lifecycle!Init
    <2>2. "absent" \notin {"held", "released"} /\ "live" # "gone"
      OBVIOUS
    <2> QED
      BY Zenon, <1>a, <2>1, <2>2 DEF Promise, Lifecycle!Engaged
  <1>2. Promise /\ [Lifecycle!Next]_(Lifecycle!vars) => Promise'
    <2> SUFFICES ASSUME Promise, [Lifecycle!Next]_(Lifecycle!vars) PROVE Promise'
      OBVIOUS
    <2>0. /\ Stage = [r \in Managed |-> Stage[r]]
          /\ "live" # "gone" /\ "live" # "deleting" /\ "deleting" # "gone"
          /\ "absent" \notin {"held", "released"} /\ "loose" \notin {"held", "released"}
      BY DEF Stage
    <2>1. CASE UNCHANGED Lifecycle!vars
      BY ZenonT(60), <2>1 DEF Promise, Lifecycle!vars, Lifecycle!Engaged
    <2>2. CASE Lifecycle!Enroll
      BY ZenonT(60), <2>0, <2>2 DEF Promise, Lifecycle!Enroll, Lifecycle!Engaged
    <2>3. CASE Lifecycle!Delete
      BY ZenonT(60), <2>0, <2>3 DEF Promise, Lifecycle!Delete, Lifecycle!Engaged
    <2>4. CASE Lifecycle!Retire
      BY ZenonT(60), <2>0, <2>4 DEF Promise, Lifecycle!Retire, Lifecycle!Engaged
    <2>5. CASE Lifecycle!Depart
      BY ZenonT(60), <2>0, <2>5 DEF Promise, Lifecycle!Depart, Lifecycle!Engaged
    <2>6. ASSUME NEW r \in Managed, Lifecycle!Create(r) \/ Lifecycle!Protect(r) PROVE Promise'
      BY ZenonT(60), <2>0, <2>6 DEF Promise, Lifecycle!Create, Lifecycle!Protect
    <2>7. ASSUME NEW r \in Managed, Lifecycle!Release(r) \/ Lifecycle!Vanish(r) PROVE Promise'
      <3>1. /\ claim'.life = claim.life /\ claim'.fin = claim.fin
            /\ \A q \in Managed : Stage'[q] \in {Stage[q], "absent", "released"}
            /\ \A q \in Managed : Stage'[q] # Stage[q] => Lifecycle!Engaged(q) \/ Stage'[q] = "absent"
        BY ZenonT(60), <2>0, <2>7 DEF Lifecycle!Release, Lifecycle!Vanish, Lifecycle!Engaged
      <3>2. Lifecycle!Release(r) => claim.life # "live"
        BY Zenon DEF Lifecycle!Release
      <3>3. Lifecycle!Vanish(r) => \A q \in Managed : Stage'[q] \in {Stage[q], "absent"}
        BY Zenon, <2>0 DEF Lifecycle!Vanish
      <3> QED
        BY ZenonT(60), <1>a, <2>0, <2>7, <3>1, <3>2, <3>3 DEF Promise, Lifecycle!Engaged
    <2> QED
      BY Zenon, <2>1, <2>2, <2>3, <2>4, <2>5, <2>6, <2>7 DEF Lifecycle!Next
  <1> QED
    BY <1>1, <1>2, PTL DEF ImplementsLifecycle, Lifecycle!Spec

-------------------------------------------------------------------------------
(***************************************************************************)
(* Nobody sleeps without a reason.  The proof goes by what a step does to  *)
(* the claim's events, to the queue and to the pass that is under way.     *)
(***************************************************************************)
\* An edit's event is on its way as long as the informer lags; a deletion's is never merged away.  A pass that
\* can still store its status works for a claim that is not paused.  A claim that is being deleted has a pass
\* coming until its finalizer is gone, and a live claim whose worker rests has one coming or a reason why not.
Woken ==
    /\ claimEvent => claimDirty
    /\ claim.life # "gone" /\ cclaim.life # claim.life => claimEvent
    /\ cclaim.life = "deleting" /\ ~cclaim.fin => ~claim.fin
    /\ mode = "pipeline" /\ fresh => ~claim.paused /\ ~cclaim.paused
    /\ claim.life = "live" /\ cclaim.life = "live" /\ cclaim.paused /\ cclaim.status.phase = "Paused" =>
         claim.status.phase = "Paused"
    /\ claim.life = "deleting" /\ claim.fin => queued \/ timer \/ claimEvent \/ mode = "delete"
    /\ claim.life = "live" /\ mode = "idle" =>
         queued \/ timer \/ claimEvent \/ lost \/ claim.status.phase \in {"Failed", "Paused"}

\* A step that leaves the claim and its events alone and wakes the worker up no less.
Steady ==
    /\ UNCHANGED <<claim, claimDirty, claimEvent, cclaim, mode, fresh, lost>>
    /\ queued \/ timer => queued' \/ timer'

\* The worker gives up with an error.
Returns == UNCHANGED <<claim, claimDirty, claimEvent, cclaim>> /\ mode' = "idle" /\ timer'

\* A pipeline pass ends.
Ends ==
    /\ mode = "pipeline" /\ mode' = "idle"
    /\ UNCHANGED <<cclaim, claimEvent, queued>> /\ (timer => timer')
    /\ timer' \/ lost' \/ claim'.status.phase = "Failed"
    /\ \/ UNCHANGED <<claim, claimDirty>>
       \/ /\ fresh /\ claimDirty'
          /\ claim'.life = claim.life /\ claim'.fin = claim.fin /\ claim'.paused = claim.paused

\* A user or the API server changes the claim.
Changed ==
    /\ UNCHANGED <<cclaim, queued, timer, mode, lost>>
    /\ claimDirty' /\ ~fresh' /\ (claimEvent => claimEvent')
    /\ claim'.status = claim.status /\ claim'.fin = claim.fin
    /\ claim'.life = claim.life \/ claim'.life = "gone" \/ (claim'.life = "deleting" /\ claimEvent')
    /\ claim.life # "live" => claim'.life # "live"

\* Such a step leaves nobody asleep.
LEMMA SteadyWakes == ASSUME TypeOK, Woken, Steady PROVE Woken'
  BY Zenon DEF Steady, Woken

\* The error requeues the claim, so neither does this one.
LEMMA ReturnWakes == ASSUME TypeOK, Woken, Returns PROVE Woken'
  <1>1. mode' # "pipeline" /\ mode' # "delete"
    BY DEF Returns
  <1> QED
    BY Zenon, <1>1 DEF Returns, Woken

\* A pass that ends requeues the claim, or stores the failure it ends with, or loses it.
LEMMA EndWakes == ASSUME TypeOK, Woken, Ends PROVE Woken'
  <1>1. mode' # "pipeline" /\ mode' # "delete" /\ mode # "delete"
    BY DEF Ends
  <1>2. UNCHANGED <<cclaim, claimEvent, queued>> /\ (timer => timer') /\ mode' = "idle" /\ mode = "pipeline"
    BY Zenon DEF Ends
  <1>3. timer' \/ lost' \/ claim'.status.phase \in {"Failed", "Paused"}
    BY Zenon DEF Ends
  <1>4. CASE UNCHANGED <<claim, claimDirty>>
    BY Zenon, <1>1, <1>2, <1>3, <1>4 DEF Woken
  <1>5. CASE /\ fresh /\ claimDirty'
             /\ claim'.life = claim.life /\ claim'.fin = claim.fin /\ claim'.paused = claim.paused
    BY Zenon, <1>1, <1>2, <1>3, <1>5 DEF Woken
  <1> QED
    BY Zenon, <1>4, <1>5 DEF Ends

\* A change of the claim leaves a version for the informer to deliver, and a deletion is an event.
LEMMA ChangeWakes == ASSUME TypeOK, LifeKnown, Woken, Changed PROVE Woken'
  <1>0. "deleting" # "live" /\ "gone" # "live" /\ "gone" # "deleting"
    OBVIOUS
  <1> QED
    BY Zenon, <1>0 DEF Changed, Woken, LifeKnown

\* Whatever a step does, the claim's changes are delivered, and a claim that needs a pass gets one.
LEMMA WokenKept == ASSUME TypeOK, StepOK, Safe, Woken, [Next]_vars PROVE Woken'
  <1>0. claim \in Claim /\ cclaim \in Claim /\ LifeKnown /\ (~claimDirty => cclaim = claim)
    BY Zenon DEF TypeOK, Safe, Coherent
  <1>1. ASSUME NEW st, NEW f, NEW requeue \in BOOLEAN, EndPass(st, f, requeue), requeue \/ st.phase = "Failed",
               mode = "pipeline", UNCHANGED <<cclaim, claimEvent, queued>>
        PROVE  Woken'
    <2>1. PICK ok \in BOOLEAN : updateStatusIfChanged(my.status, st, fresh, f, ok)
      BY Zenon, <1>1 DEF EndPass
    <2>2. mode' = "idle" /\ timer' = (timer \/ requeue) /\ lost' = (~requeue /\ claim'.status # st)
      BY Zenon, <1>1 DEF EndPass, GoIdle
    <2>3. timer' \/ lost' \/ claim'.status.phase = "Failed"
      BY Zenon, <1>1, <2>2
    <2>4. \/ UNCHANGED <<claim, claimDirty>>
          \/ fresh /\ claimDirty' /\ claim' = [claim EXCEPT !.status = st]
      BY Zenon, <2>1 DEF updateStatusIfChanged, StoreClaim, server
    <2>5. ASSUME claim' = [claim EXCEPT !.status = st]
          PROVE  claim'.life = claim.life /\ claim'.fin = claim.fin /\ claim'.paused = claim.paused
      BY <1>0, <2>5 DEF Claim
    <2>6. Ends
      BY Zenon, <1>1, <2>2, <2>3, <2>4, <2>5 DEF Ends
    <2> QED
      BY Zenon, <2>6, EndWakes
  <1>2. ASSUME NEW st \in Status, NEW f, TerminalError(st, f) \/ TransientError(st, f), mode = "pipeline",
               UNCHANGED <<cclaim, claimEvent, queued>>
        PROVE  Woken'
    <2>1. setFailed(st, my.gen).phase = "Failed"
      BY DEF setFailed, setPhase, setFalse, Status
    <2> QED
      BY Zenon, <1>1, <1>2, <2>1 DEF TerminalError, TransientError
  <1>3. ASSUME NEW c, Wait(c), mode = "pipeline", UNCHANGED <<cclaim, claimEvent, queued>> PROVE Woken'
    BY Zenon, <1>1, <1>3 DEF Wait
  <1>4. ASSUME ReturnError, UNCHANGED <<claim, claimDirty, claimEvent, cclaim>> PROVE Woken'
    <2>1. Returns
      BY Zenon, <1>4 DEF ReturnError, GoIdle, Returns
    <2> QED
      BY Zenon, <2>1, ReturnWakes
  <1>5. ASSUME UNCHANGED <<claim, claimDirty, claimEvent, cclaim, mode, fresh, lost>>, queued \/ timer => queued' \/ timer'
        PROVE  Woken'
    BY Zenon, <1>5, SteadyWakes DEF Steady
  <1>6. ASSUME NEW c, Proceed(c), UNCHANGED <<claim, claimDirty, claimEvent, cclaim, queued>> PROVE Woken'
    BY Zenon, <1>5, <1>6 DEF Proceed
  <1>7. ASSUME NEW r, PassOn(r), UNCHANGED <<claim, claimDirty, claimEvent, cclaim, queued>> PROVE Woken'
    BY Zenon, <1>5, <1>7 DEF PassOn
  <1>8. mine \in Status /\ \A c \in Conditions : setFalse(mine, c) \in Status
    BY Zenon, StatusTypes DEF TypeOK
  <1>9. CASE ReconcileNotFound
    <2>1. UNCHANGED <<claim, claimDirty, claimEvent, cclaim, mode, fresh, timer>>
      BY Zenon, <1>9 DEF ReconcileNotFound, server, caches, worker, external
    <2>2. cclaim.life = "gone" \/ (cclaim.life = "deleting" /\ ~cclaim.fin)
      BY Zenon, <1>9 DEF ReconcileNotFound
    <2>3. claim.life = "live" => claimEvent
      BY <2>2 DEF Woken
    <2>4. claim.life = "deleting" /\ claim.fin => claimEvent
      BY <2>2 DEF Woken
    <2> QED
      BY Zenon, <2>1, <2>3, <2>4 DEF Woken
  <1>10. CASE reconcilePaused
    <2> DEFINE st == setTrue(setPhase(cclaim.status, "Paused", cclaim.gen), "Paused")
    <2>1. PICK ok \in BOOLEAN : /\ updateStatusIfChanged(cclaim.status, st, ~claimDirty, faults, ok)
                                /\ timer' = (timer \/ ~ok)
      BY Zenon, <1>10 DEF reconcilePaused
    <2>2. cclaim.life = "live" /\ cclaim.paused /\ UNCHANGED <<cclaim, claimEvent, mode, fresh>>
      BY Zenon, <1>10 DEF reconcilePaused, caches, external, worker
    <2>3. st.phase = "Paused"
      BY <1>0 DEF Claim, Status, setTrue, setPhase
    <2>m. mode = "idle"
      BY Zenon, <1>10 DEF reconcilePaused, Take
    <2> HIDE DEF st
    <2>4. CASE UNCHANGED <<claim, claimDirty>>
      <3>1. timer' \/ cclaim.status.phase = "Paused"
        BY ZenonT(60), <2>1, <2>3, <2>4 DEF updateStatusIfChanged, StoreClaim
      <3>2. mode' # "pipeline" /\ (claim.life = "deleting" => claimEvent)
        BY <2>2, <2>m DEF Woken
      <3>3. claim.life = "live" /\ cclaim.status.phase = "Paused" => claim.status.phase \in {"Failed", "Paused"}
        BY Zenon, <2>2 DEF Woken
      <3> QED
        BY Zenon, <2>2, <2>4, <3>1, <3>2, <3>3 DEF Woken
    <2>5. CASE claim' = [claim EXCEPT !.status = st] /\ claimDirty'
      <3>1. /\ claim'.life = claim.life /\ claim'.fin = claim.fin /\ claim'.paused = claim.paused
            /\ claim'.status.phase = "Paused"
        BY ZenonT(60), <1>0, <2>3, <2>5 DEF Claim
      <3>2. mode' # "pipeline" /\ (claim.life = "deleting" => claimEvent) /\ "Paused" \in {"Failed", "Paused"}
        BY <2>2, <2>m DEF Woken
      <3> QED
        BY Zenon, <2>2, <2>5, <3>1, <3>2 DEF Woken
    <2> QED
      BY Zenon, <2>1, <2>4, <2>5 DEF updateStatusIfChanged, StoreClaim, server
  <1>11. CASE ReconcileStart
    <2>1. /\ cclaim.life = "live" /\ ~cclaim.paused /\ mode' = "pipeline"
          /\ UNCHANGED <<cclaim, claimEvent, timer>>
      BY Zenon, <1>11 DEF ReconcileStart, BeginPipeline, caches, external
    <2>2. claim.life = "deleting" => claimEvent
      BY <2>1 DEF Woken
    <2>3. mode' # "idle"
      BY <2>1
    <2>4. CASE fresh' = ~claimDirty /\ UNCHANGED <<claim, claimDirty>>
      BY Zenon, <1>0, <2>1, <2>2, <2>3, <2>4 DEF Woken
    <2>5. CASE ~claimDirty /\ claim' = [claim EXCEPT !.fin = TRUE] /\ claimDirty'
      <3>1. claim'.life = claim.life /\ claim'.paused = claim.paused /\ claim'.status = claim.status
        BY <1>0, <2>5 DEF Claim
      <3>2. cclaim = claim /\ cclaim.life # "deleting"
        BY <1>0, <2>1, <2>5
      <3> QED
        BY Zenon, <2>1, <2>2, <2>3, <2>5, <3>1, <3>2 DEF Woken
    <2> QED
      BY Zenon, <1>11, <2>4, <2>5 DEF ReconcileStart, ensureFinalizer, StoreClaim, server
  <1>12. CASE ensureFinalizerFails
    BY Zenon, <1>4, <1>12 DEF ensureFinalizerFails, server, external, caches
  <1>13. CASE ensureResource \/ ensureResourceFinalizer \/ applyRemoteConfigMap
    BY Zenon, <1>5, <1>6, <1>13 DEF ensureResource, ensureResourceFinalizer, applyRemoteConfigMap,
                                    server, external, caches
  <1>14. CASE ensureResourceFails \/ ensureResourceFinalizerFails
    BY Zenon, <1>2, <1>8, <1>14 DEF ensureResourceFails, ensureResourceFinalizerFails, InStep, external, caches
  <1>15. CASE AwaitStep \/ KmsStep \/ RemoteConnect \/ applyRemoteConfigMapFails
    <2>1. mode = "pipeline" /\ Current.cond \in Conditions
      BY Zenon, <1>15, CurrentTypes DEF AwaitStep, KmsStep, RemoteConnect, applyRemoteConfigMapFails, InStep
    <2>2. CASE AwaitStep
      BY Zenon, <1>2, <1>3, <1>6, <1>8, <2>1, <2>2 DEF AwaitStep, server, external, caches
    <2>3. CASE KmsStep
      BY Zenon, <1>3, <1>6, <2>1, <2>3 DEF KmsStep, server, external, caches
    <2>4. CASE RemoteConnect
      <3>1. UNCHANGED <<cclaim, claimEvent, queued>>
        BY Zenon, <2>4 DEF RemoteConnect, external, caches
      <3>2. \/ UNCHANGED <<server, mode, fresh, lost, timer>>
            \/ Wait(Current.cond)
            \/ TransientError(setFalse(mine, Current.cond), faults - 1)
        BY Zenon, <2>4 DEF RemoteConnect
      <3>3. CASE UNCHANGED <<server, mode, fresh, lost, timer>>
        BY Zenon, <1>5, <3>1, <3>3 DEF server
      <3> QED
        BY Zenon, <1>2, <1>3, <1>8, <2>1, <3>1, <3>2, <3>3
    <2>5. CASE applyRemoteConfigMapFails
      BY Zenon, <1>2, <1>8, <2>1, <2>5 DEF applyRemoteConfigMapFails, external, caches
    <2> QED
      BY Zenon, <1>15, <2>2, <2>3, <2>4, <2>5
  <1>16. CASE Ready
    BY Zenon, <1>1, <1>16 DEF Ready, external, caches
  <1>17. CASE reconcileDelete
    <2> DEFINE st == setPhase(cclaim.status, "Deleting", cclaim.gen)
    <2>1. cclaim.life = "deleting" /\ UNCHANGED <<cclaim, claimEvent>>
      BY Zenon, <1>17 DEF reconcileDelete, caches, external
    <2>2. \/ updateStatusIfChanged(cclaim.status, st, ~claimDirty, faults, TRUE) /\ mode' = "delete"
          \/ updateStatusIfChanged(cclaim.status, st, ~claimDirty, faults, FALSE) /\ ReturnError
      BY Zenon, <1>17 DEF reconcileDelete
    <2> HIDE DEF st
    <2>3. CASE updateStatusIfChanged(cclaim.status, st, ~claimDirty, faults, FALSE) /\ ReturnError
      BY Zenon, <1>4, <2>1, <2>3 DEF updateStatusIfChanged, server
    <2>4. CASE updateStatusIfChanged(cclaim.status, st, ~claimDirty, faults, TRUE) /\ mode' = "delete"
      <3>1. mode' # "pipeline" /\ mode' # "idle" /\ cclaim.life # "live"
        BY <2>1, <2>4
      <3>2. \/ UNCHANGED <<claim, claimDirty>>
            \/ claim' = [claim EXCEPT !.status = st] /\ claimDirty'
        BY Zenon, <2>4 DEF updateStatusIfChanged, StoreClaim, server
      <3>3. claim'.life = claim.life /\ claim'.fin = claim.fin
        BY <1>0, <3>2 DEF Claim
      <3> QED
        BY Zenon, <2>1, <2>4, <3>1, <3>2, <3>3 DEF Woken
    <2> QED
      BY Zenon, <2>2, <2>3, <2>4
  <1>18. CASE deleteRemoteConfigMaps
    BY Zenon, <1>7, <1>18 DEF deleteRemoteConfigMaps, server, external, caches
  <1>19. CASE removeFinalizer
    <2> DEFINE c == [claim EXCEPT !.fin = FALSE, !.life = IF claim.fg THEN @ ELSE "gone"]
    <2>1. cclaim' = cclaim /\ mode = "delete"
      BY Zenon, <1>19 DEF removeFinalizer, caches
    <2>2. CASE UNCHANGED <<server, claimEvent>> /\ ReturnError
      BY Zenon, <1>4, <2>1, <2>2 DEF server
    <2>3. CASE claim' = c /\ claimDirty' /\ claimEvent' = (claimEvent \/ ~claim.fg) /\ mode' = "idle"
      <3>1. ~claim'.fin /\ (claim'.life = claim.life \/ claim'.life = "gone")
        BY <1>0, <2>3 DEF Claim
      <3>2. claim.life # "live" /\ "gone" # "live" /\ mode' # "pipeline"
        BY <2>1, <2>3 DEF Safe, LifeKnown
      <3> QED
        BY Zenon, <2>1, <2>3, <3>1, <3>2 DEF Woken
    <2> QED
      BY Zenon, <1>19, <2>2, <2>3 DEF removeFinalizer, StoreClaim, GoIdle, server
  <1>20. ASSUME NEW r \in Managed,
                \/ removeResourceFinalizer(r) \/ removeResourceFinalizerFails(r)
                \/ deleteAndWait(r) \/ deleteResource(r)
         PROVE  Woken'
    <2>1. UNCHANGED <<claim, claimDirty, claimEvent, cclaim, queued>>
      BY Zenon, <1>20 DEF removeResourceFinalizer, removeResourceFinalizerFails, deleteAndWait, deleteResource,
                          server, caches, external
    <2> QED
      BY Zenon, <1>4, <1>5, <1>7, <1>20, <2>1 DEF removeResourceFinalizer, removeResourceFinalizerFails, deleteAndWait,
                                                  deleteResource
  <1>21. CASE Pass
    BY ZenonT(60), <1>9, <1>10, <1>11, <1>12, <1>13, <1>14, <1>15, <1>16, <1>17, <1>18, <1>19, <1>20, <1>21 DEF Pass
  <1>22. ASSUME NEW c, NEW event, Change(c, event), c.status = claim.status, c.fin = claim.fin,
                c.life = claim.life \/ c.life = "gone" \/ (c.life = "deleting" /\ event),
                claim.life # "live" => c.life # "live"
         PROVE  Woken'
    <2>1. Changed
      BY Zenon, <1>22 DEF Change, StoreClaim, Changed
    <2> QED
      BY Zenon, <1>0, <2>1, ChangeWakes
  <1>23. CASE User \/ EndForeground
    <2>1. CASE EditSpec
      <3>1. PICK refs : Change([claim EXCEPT !.gen = @ + 1, !.refs = refs], TRUE)
        BY Zenon, <2>1 DEF EditSpec
      <3>2. LET c == [claim EXCEPT !.gen = @ + 1, !.refs = refs] IN
              c.status = claim.status /\ c.fin = claim.fin /\ c.life = claim.life
        BY <1>0 DEF Claim
      <3> QED
        BY Zenon, <1>22, <3>1, <3>2
    <2>2. CASE Pause \/ Unpause \/ TouchLabels
      <3>1. PICK c, event : Change(c, event) /\ c \in {claim, [claim EXCEPT !.paused = TRUE], [claim EXCEPT !.paused = FALSE]}
        BY Zenon, <2>2 DEF Pause, Unpause, TouchLabels
      <3>2. c.status = claim.status /\ c.fin = claim.fin /\ c.life = claim.life
        BY <1>0, <3>1 DEF Claim
      <3> QED
        BY Zenon, <1>22, <3>1, <3>2
    <2>3. CASE DeleteClaim
      <3>1. PICK fg : Change([claim EXCEPT !.life = IF claim.fin \/ fg THEN "deleting" ELSE "gone",
                                           !.gen = @ + 1, !.fg = fg], TRUE)
        BY Zenon, <2>3 DEF DeleteClaim
      <3> DEFINE c == [claim EXCEPT !.life = IF claim.fin \/ fg THEN "deleting" ELSE "gone", !.gen = @ + 1, !.fg = fg]
      <3>2. c.status = claim.status /\ c.fin = claim.fin /\ c.life \in {"deleting", "gone"}
        BY <1>0 DEF Claim
      <3>3. Change(c, TRUE)
        BY Zenon, <3>1
      <3> HIDE DEF c
      <3>4. c.life # "live" /\ (c.life = "gone" \/ c.life = "deleting")
        BY <3>2
      <3> QED
        BY Zenon, <1>22, <3>2, <3>3, <3>4
    <2>4. CASE EndForeground
      <3> DEFINE c == [claim EXCEPT !.fg = FALSE, !.life = IF claim.fin THEN @ ELSE "gone"]
      <3>1. Change(c, ~claim.fin)
        BY <2>4 DEF EndForeground
      <3>2. c.status = claim.status /\ c.fin = claim.fin /\ (c.life = claim.life \/ c.life = "gone")
        BY <1>0 DEF Claim
      <3>3. claim.life # "live"
        BY <2>4 DEF EndForeground
      <3> HIDE DEF c
      <3>4. c.life # "live"
        BY <3>2, <3>3
      <3> QED
        BY Zenon, <1>22, <3>1, <3>2, <3>4
    <2> QED
      BY Zenon, <1>23, <2>1, <2>2, <2>3, <2>4 DEF User
  <1>24. CASE World
    <2>1. ASSUME NEW r, NEW o, OnObject(r, o) PROVE Woken'
      BY Zenon, <1>5, <2>1 DEF OnObject, server, caches, worker
    <2>2. ASSUME NEW t, NEW o, NEW event, SetObstacle(t, o, event) PROVE Woken'
      BY Zenon, <1>5, <2>2 DEF SetObstacle, server, caches, worker
    <2>3. CASE KubeconfigSecret
      BY Zenon, <1>5, <2>3 DEF KubeconfigSecret, server, caches, worker
    <2>4. CASE \E r \in Managed : CollectDependent(r) \/ Advance(r) \/ Regress(r) \/ ForeignCleanup(r)
      BY Zenon, <2>1, <2>4 DEF CollectDependent, Advance, Regress, ForeignCleanup
    <2>5. CASE \E t \in Blockable : Block(t) \/ Unblock(t)
      BY Zenon, <2>2, <2>5 DEF Block, Unblock
    <2> QED
      BY Zenon, <1>23, <1>24, <2>3, <2>4, <2>5 DEF World
  <1>25. CASE SyncClaim
    <2>1. /\ cclaim' = claim /\ claim' = claim /\ claimEvent' = FALSE /\ queued' = (queued \/ claimEvent)
          /\ UNCHANGED <<mode, fresh, timer, lost>>
      BY Zenon, <1>25 DEF SyncClaim, worker
    <2> QED
      BY Zenon, <2>1 DEF Woken
  <1>26. CASE TimerFires \/ \E r \in Managed : SyncKind(GVK[r])
    BY Zenon, <1>5, <1>26 DEF TimerFires, SyncKind, server, worker, external, caches
  <1>27. CASE Crash
    <2>1. /\ cclaim' = claim /\ claim' = claim /\ claimEvent' = FALSE /\ queued' = (claim.life # "gone")
          /\ mode' = "idle"
      BY Zenon, <1>27 DEF Crash, GoIdle
    <2>2. mode' # "pipeline" /\ (claim.life \in {"live", "deleting"} => queued')
      BY Zenon, <2>1
    <2> QED
      BY Zenon, <2>1, <2>2 DEF Woken
  <1>28. CASE UNCHANGED vars
    BY Zenon, <1>5, <1>28 DEF vars
  <1> QED
    BY ZenonT(60), <1>21, <1>23, <1>24, <1>25, <1>26, <1>27, <1>28 DEF Next, Deliver

\* Initially the claim's creation is on its way to the worker.
LEMMA InitWoken == Init => Woken
  <1> SUFFICES ASSUME Init PROVE Woken
    OBVIOUS
  <1>1. /\ claim = [NoClaim EXCEPT !.life = "live", !.gen = 1, !.refs = InitialRefs] /\ cclaim = NoClaim
        /\ claimDirty /\ claimEvent /\ mode = "idle"
    BY Zenon DEF Init
  <1>2. claim.life = "live" /\ cclaim.life = "gone"
    BY <1>1 DEF NoClaim
  <1> QED
    BY <1>1, <1>2 DEF Woken

(***************************************************************************)
(* A worker that rests with nothing to wake it up leaves a claim that says *)
(* why: paused, failed, being deleted with its finalizer gone, or with its *)
(* terminal error lost by the status update.  Neither lagging informers    *)
(* nor merged events, conflicts or restarts put a claim to sleep silently  *)
(* (the requeue after every wait and every error, the predicates).         *)
(***************************************************************************)
THEOREM SilenceIsExplained == Spec => []QuiescenceIsReported
  <1>1. TypeOK /\ StepOK /\ Safe /\ Woken /\ [Next]_vars => Woken'
    BY Zenon, WokenKept
  <1>2. TypeOK /\ Woken => QuiescenceIsReported
    <2> SUFFICES ASSUME TypeOK, Woken, Quiet, ~lost, claim.life # "gone"
                 PROVE  \/ claim.life = "live" /\ claim.status.phase \in {"Failed", "Paused"}
                        \/ claim.life = "deleting" /\ ~claim.fin
      BY Zenon DEF QuiescenceIsReported
    <2>1. claim.life \in {"live", "deleting", "gone"}
      BY Zenon DEF TypeOK, Claim, Lives
    <2>2. mode = "idle" /\ mode # "delete" /\ ~queued /\ ~timer /\ ~claimEvent
      BY DEF Quiet, Woken
    <2> QED
      BY Zenon, <2>1, <2>2 DEF Woken
  <1> QED
    BY <1>1, <1>2, InitWoken, TypeCorrect, Safety, PTL DEF Spec

================================================================================
