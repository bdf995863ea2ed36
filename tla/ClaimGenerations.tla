---------------------------- MODULE ClaimGenerations ----------------------------
(***************************************************************************)
(* Which generation of the claim is written, and what is known of it.      *)
(*                                                                         *)
(* First, a pause holds later edits back (PauseHoldsEditsBack of           *)
(* ClaimSystem).  The annotation is looked at only when a pass starts, and *)
(* on the informer's copy, so a pass that was running and a pass that      *)
(* starts from a copy older than the pause both go on writing; neither can *)
(* write a generation younger than the pause.                              *)
(*                                                                         *)
(* Second, the invariants about a live claim that ClaimReady builds on:    *)
(* what the informers show of its resources stays true of them, its        *)
(* generations are written in order, and its status is dated.              *)
(*                                                                         *)
(* Third, the ConfigMaps a pass writes into the infra cluster are removed  *)
(* before the cluster is released (RemoteMapsGoFirst).                     *)
(***************************************************************************)
EXTENDS ClaimSafety

\* Time limits for the provers, in seconds.
USE SMTT(60), ZenonT(60)

(***************************************************************************)
(* Moves: generations only grow, a pause records the generation, and only  *)
(* the pipeline writes a generation, the one of the worker's copy.         *)
(***************************************************************************)
PauseMove ==
    \/ claim'.paused = claim.paused /\ pauseGen' = pauseGen /\ claim'.gen \in Nat /\ claim'.gen >= claim.gen
    \/ claim'.paused /\ pauseGen' = claim.gen /\ claim'.gen = claim.gen
    \/ ~claim'.paused /\ claim'.gen = claim.gen

Writes(old, new) == new \in {old, 0} \/ (mode = "pipeline" /\ new = my.gen)

WriteMove ==
    /\ \A r \in Managed : Writes(obj[r].gen, obj'[r].gen)
    /\ \A m \in MapNames : Writes(remote[m], remote'[m])

(***************************************************************************)
(* The inductive invariant: everything written, and everything a pass can  *)
(* still write, is no younger than the claim and, while the claim is       *)
(* paused, no younger than the pause.                                      *)
(***************************************************************************)
Bounded(g) ==
    /\ cclaim.life = "live" /\ ~cclaim.paused => cclaim.gen <= g
    /\ mode = "pipeline" => my.gen <= g
    /\ \A r \in Managed : obj[r].gen <= g
    /\ \A m \in MapNames : remote[m] <= g

Held == cclaim.gen <= claim.gen /\ Bounded(claim.gen) /\ (claim.paused => Bounded(pauseGen))

-------------------------------------------------------------------------------
\* Every step treats generation and pause annotation as PauseMove says.
LEMMA PauseMoves == ASSUME TypeOK, [Next]_vars PROVE PauseMove
  <1>0. claim \in Claim /\ claim.gen \in Nat /\ claim.paused \in BOOLEAN
    BY Zenon DEF TypeOK, Claim
  <1>g. claim.gen >= claim.gen /\ claim.gen + 1 >= claim.gen /\ claim.gen + 1 \in Nat
    BY <1>0
  <1>1. CASE claim' = claim /\ pauseGen' = pauseGen
    BY <1>0, <1>1, <1>g DEF PauseMove
  <1>2. ASSUME NEW st, claim' = [claim EXCEPT !.status = st], pauseGen' = pauseGen PROVE PauseMove
    <2>1. claim'.paused = claim.paused /\ claim'.gen = claim.gen
      BY <1>0, <1>2 DEF Claim
    <2> QED
      BY <1>0, <1>2, <1>g, <2>1 DEF PauseMove
  <1>3. ASSUME NEW was, NEW st, NEW current, NEW f, NEW ok,
               updateStatusIfChanged(was, st, current, f, ok), pauseGen' = pauseGen
        PROVE  PauseMove
    BY <1>1, <1>2, <1>3 DEF updateStatusIfChanged, StoreClaim, server
  <1>4. ASSUME NEW st, NEW f, NEW requeue, EndPass(st, f, requeue), pauseGen' = pauseGen PROVE PauseMove
    BY <1>3, <1>4 DEF EndPass
  <1>5. ASSUME NEW st, NEW f, TerminalError(st, f) \/ TransientError(st, f), pauseGen' = pauseGen
        PROVE  PauseMove
    BY Zenon, <1>4, <1>5 DEF TerminalError, TransientError
  <1>6. ASSUME NEW c, Wait(c), pauseGen' = pauseGen PROVE PauseMove
    BY Zenon, <1>4, <1>6 DEF Wait
  <1>7. CASE Pass
    <2>1. CASE ReconcileNotFound \/ ensureFinalizerFails
      BY <1>1, <2>1 DEF ReconcileNotFound, ensureFinalizerFails, server, external
    <2>2. CASE reconcilePaused \/ reconcileDelete
      BY Zenon, <1>3, <2>2 DEF reconcilePaused, reconcileDelete, external
    <2>3. CASE ReconcileStart
      <3>1. pauseGen' = pauseGen /\ (claim' = claim \/ claim' = [claim EXCEPT !.fin = TRUE])
        BY <2>3 DEF ReconcileStart, ensureFinalizer, StoreClaim, server, external
      <3>2. [claim EXCEPT !.fin = TRUE].paused = claim.paused /\ [claim EXCEPT !.fin = TRUE].gen = claim.gen
        BY <1>0 DEF Claim
      <3> QED
        BY Zenon, <1>0, <1>1, <1>g, <3>1, <3>2 DEF PauseMove
    <2>4. CASE ensureResource \/ ensureResourceFinalizer
      BY <1>1, <2>4 DEF ensureResource, ensureResourceFinalizer, server, external
    <2>5. CASE ensureResourceFails \/ ensureResourceFinalizerFails
      BY <1>5, <2>5 DEF ensureResourceFails, ensureResourceFinalizerFails, external
    <2>6. CASE AwaitStep \/ KmsStep
      BY ZenonT(60), <1>1, <1>5, <1>6, <2>6 DEF AwaitStep, KmsStep, server, external
    <2>7. CASE RemoteConnect \/ applyRemoteConfigMap \/ applyRemoteConfigMapFails
      BY <1>1, <1>5, <1>6, <2>7 DEF RemoteConnect, applyRemoteConfigMap, applyRemoteConfigMapFails, server, external
    <2>8. CASE Ready
      BY Zenon, <1>4, <2>8 DEF Ready, external
    <2>9. CASE deleteRemoteConfigMaps
      BY <1>1, <2>9 DEF deleteRemoteConfigMaps, server, external
    <2>10. CASE removeFinalizer
      <3> DEFINE c == [claim EXCEPT !.fin = FALSE, !.life = IF claim.fg THEN @ ELSE "gone"]
      <3>1. pauseGen' = pauseGen /\ (claim' = claim \/ claim' = c)
        BY <2>10 DEF removeFinalizer, StoreClaim, server
      <3>2. c.paused = claim.paused /\ c.gen = claim.gen
        BY ZenonT(60), <1>0 DEF Claim
      <3> QED
        BY Zenon, <1>0, <1>1, <1>g, <3>1, <3>2 DEF PauseMove
    <2>11. ASSUME NEW r \in Managed,
                  \/ removeResourceFinalizer(r) \/ removeResourceFinalizerFails(r)
                  \/ deleteAndWait(r) \/ deleteResource(r)
           PROVE  PauseMove
      BY <1>1, <2>11 DEF removeResourceFinalizer, removeResourceFinalizerFails, deleteAndWait, deleteResource,
                         server, external
    <2> QED
      BY ZenonT(60), <1>7, <2>1, <2>2, <2>3, <2>4, <2>5, <2>6, <2>7, <2>8, <2>9, <2>10, <2>11 DEF Pass
  <1>8. CASE User \/ EndForeground
    <2>1. ASSUME NEW c, NEW event, Change(c, event), pauseGen' = pauseGen,
                 c.paused = claim.paused, c.gen \in {claim.gen, claim.gen + 1}
          PROVE  PauseMove
      <3>1. claim' = c
        BY <2>1 DEF Change, StoreClaim
      <3> QED
        BY <1>0, <1>g, <2>1, <3>1 DEF PauseMove
    <2>2. CASE EditSpec
      <3>1. PICK refs : Change([claim EXCEPT !.gen = @ + 1, !.refs = refs], TRUE)
        BY Zenon, <2>2 DEF EditSpec
      <3>2. LET c == [claim EXCEPT !.gen = @ + 1, !.refs = refs] IN c.paused = claim.paused /\ c.gen = claim.gen + 1
        BY <1>0 DEF Claim
      <3>3. pauseGen' = pauseGen
        BY <2>2 DEF EditSpec
      <3> QED
        BY Zenon, <2>1, <3>1, <3>2, <3>3
    <2>3. CASE Pause
      <3>1. claim' = [claim EXCEPT !.paused = TRUE] /\ pauseGen' = claim.gen
        BY <2>3 DEF Pause, Change, StoreClaim
      <3>2. claim'.paused /\ claim'.gen = claim.gen
        BY <1>0, <3>1 DEF Claim
      <3> QED
        BY <3>1, <3>2 DEF PauseMove
    <2>4. CASE Unpause
      <3>1. claim' = [claim EXCEPT !.paused = FALSE]
        BY <2>4 DEF Unpause, Change, StoreClaim
      <3>2. ~claim'.paused /\ claim'.gen = claim.gen
        BY <1>0, <3>1 DEF Claim
      <3> QED
        BY <3>2 DEF PauseMove
    <2>5. CASE TouchLabels
      BY Zenon, <2>1, <2>5 DEF TouchLabels
    <2>6. CASE DeleteClaim
      <3>1. PICK fg : Change([claim EXCEPT !.life = IF claim.fin \/ fg THEN "deleting" ELSE "gone",
                                           !.gen = @ + 1, !.fg = fg], TRUE)
        BY Zenon, <2>6 DEF DeleteClaim
      <3>2. LET c == [claim EXCEPT !.life = IF claim.fin \/ fg THEN "deleting" ELSE "gone",
                                   !.gen = @ + 1, !.fg = fg] IN
              c.paused = claim.paused /\ c.gen = claim.gen + 1
        BY <1>0 DEF Claim
      <3>3. pauseGen' = pauseGen
        BY <2>6 DEF DeleteClaim
      <3> QED
        BY ZenonT(60), <2>1, <3>1, <3>2, <3>3
    <2>7. CASE EndForeground
      <3>1. LET c == [claim EXCEPT !.fg = FALSE, !.life = IF claim.fin THEN @ ELSE "gone"] IN
              Change(c, ~claim.fin) /\ c.paused = claim.paused /\ c.gen = claim.gen
        BY <1>0, <2>7 DEF EndForeground, Claim
      <3>2. pauseGen' = pauseGen
        BY <2>7 DEF EndForeground
      <3> QED
        BY Zenon, <2>1, <3>1, <3>2
    <2> QED
      BY <1>8, <2>2, <2>3, <2>4, <2>5, <2>6, <2>7 DEF User
  <1>9. CASE World
    BY ZenonT(60), <1>1, <1>8, <1>9 DEF World, KubeconfigSecret, CollectDependent, Advance, Regress, ForeignCleanup,
                            OnObject, Block, Unblock, SetObstacle, server
  <1>10. CASE Deliver \/ Crash
    BY <1>1, <1>10 DEF Deliver, SyncClaim, SyncKind, TimerFires, Crash, server, external
  <1>11. CASE UNCHANGED vars
    BY <1>1, <1>11 DEF vars
  <1> QED
    BY <1>7, <1>8, <1>9, <1>10, <1>11 DEF Next

\* Every step writes generations as WriteMove says.
LEMMA WriteMoves == ASSUME TypeOK, StepOK, [Next]_vars PROVE WriteMove
  <1>1. ASSUME NEW r \in Managed PROVE Writes(obj[r].gen, obj'[r].gen)
    <2>0. obj[r] \in Object
      BY Zenon DEF TypeOK
    <2>1. CASE obj'[r] = obj[r]
      BY <2>1 DEF Writes
    <2>2. CASE ObjectMove(r, obj'[r])
      <3>1. Absent.gen = 0
        BY DEF Absent
      <3>2. [obj[r] EXCEPT !.guard = "held"].gen = obj[r].gen
        BY <2>0 DEF Object
      <3>3. ReleaseOf(r, obj[r]) = Absent \/ ReleaseOf(r, obj[r]).gen = obj[r].gen
        BY <2>0 DEF ReleaseOf, Object
      <3> QED
        BY ZenonT(60), <2>2, <3>1, <3>2, <3>3 DEF ObjectMove, Writes
    <2> QED
      BY <2>1, <2>2, ObjectMoves, OneObject
  <1>2. \/ remote' = remote
        \/ mode = "pipeline" /\ \E m \in MapNames : remote' = [remote EXCEPT ![m] = my.gen]
        \/ \E kept \in SUBSET MapNames : remote' = [m \in MapNames |-> IF m \in kept THEN remote[m] ELSE 0]
    <2>1. CASE Pass
      <3>1. CASE applyRemoteConfigMap
        BY Zenon, <3>1, ConfigAssumption DEF applyRemoteConfigMap, InStep
      <3>2. CASE deleteRemoteConfigMaps
        <4>1. CASE remote' = [m \in MapNames |-> 0]
          <5>1. remote' = [m \in MapNames |-> IF m \in {} THEN remote[m] ELSE 0]
            BY <4>1
          <5>2. {} \in SUBSET MapNames
            OBVIOUS
          <5> QED
            BY <5>1, <5>2, Zenon
        <4> QED
          BY <3>2, <4>1 DEF deleteRemoteConfigMaps
      <3>3. CASE ReconcileNotFound \/ reconcilePaused \/ ReconcileStart \/ ensureFinalizerFails \/ reconcileDelete
        BY ZenonT(60), <3>3 DEF ReconcileNotFound, reconcilePaused, ReconcileStart, ensureFinalizerFails, reconcileDelete
      <3>4. CASE ensureResource \/ ensureResourceFails \/ ensureResourceFinalizer \/ ensureResourceFinalizerFails
        BY <3>4 DEF ensureResource, ensureResourceFails, ensureResourceFinalizer, ensureResourceFinalizerFails
      <3>5. CASE AwaitStep \/ KmsStep \/ RemoteConnect \/ applyRemoteConfigMapFails \/ Ready \/ removeFinalizer
        BY Zenon, <3>5 DEF AwaitStep, KmsStep, RemoteConnect, applyRemoteConfigMapFails, Ready, removeFinalizer
      <3>6. ASSUME NEW r \in Managed,
                   \/ removeResourceFinalizer(r) \/ removeResourceFinalizerFails(r)
                   \/ deleteAndWait(r) \/ deleteResource(r)
            PROVE  remote' = remote
        BY Zenon, <3>6 DEF removeResourceFinalizer, removeResourceFinalizerFails, deleteAndWait, deleteResource
      <3> QED
        BY <2>1, <3>1, <3>2, <3>3, <3>4, <3>5, <3>6 DEF Pass
    <2>2. CASE User \/ World
      BY Zenon, <2>2 DEF User, World, EditSpec, Pause, Unpause, TouchLabels, DeleteClaim, EndForeground, Change,
                  KubeconfigSecret, CollectDependent, Advance, Regress, ForeignCleanup, OnObject,
                  Block, Unblock, SetObstacle
    <2>3. CASE Deliver \/ Crash
      BY <2>3 DEF Deliver, SyncClaim, SyncKind, TimerFires, Crash
    <2>4. CASE UNCHANGED vars
      BY <2>4 DEF vars
    <2> QED
      BY ZenonT(60), <2>1, <2>2, <2>3, <2>4 DEF Next
  <1>3. ASSUME NEW m \in MapNames PROVE Writes(remote[m], remote'[m])
    <2>1. remote \in [MapNames -> Nat]
      BY Zenon DEF TypeOK
    <2> QED
      BY <1>2, <2>1 DEF Writes
  <1> QED
    BY <1>1, <1>3 DEF WriteMove

\* The generations that Held compares are numbers.
LEMMA GenTypes ==
    ASSUME TypeOK
    PROVE  /\ claim.gen \in Nat /\ cclaim.gen \in Nat /\ my.gen \in Nat /\ pauseGen \in Nat
           /\ \A r \in Managed : obj[r].gen \in Nat
           /\ \A m \in MapNames : remote[m] \in Nat
  <1>1. /\ claim \in Claim /\ cclaim \in Claim /\ my \in Claim /\ pauseGen \in Nat
        /\ obj \in [Managed -> Object] /\ remote \in [MapNames -> Nat]
    BY Zenon DEF TypeOK
  <1> QED
    BY <1>1 DEF Claim, Object

\* Bounded after a step, by a number.
BoundedAfter(g) ==
    /\ cclaim'.life = "live" /\ ~cclaim'.paused => cclaim'.gen <= g
    /\ mode' = "pipeline" => my'.gen <= g
    /\ \A r \in Managed : obj'[r].gen <= g
    /\ \A m \in MapNames : remote'[m] <= g

\* What a step writes, or reads to write later, stays below a bound that does not shrink.
LEMMA BoundKept ==
    ASSUME TypeOK, TypeOK', NEW g \in Nat, NEW h \in Nat, g <= h, Bounded(g), WriteMove, WorkerMove,
           \/ cclaim' = cclaim
           \/ cclaim' = claim /\ (claim.paused \/ claim.gen <= g)
    PROVE  BoundedAfter(h)
  <1>0. /\ [cclaim EXCEPT !.fin = TRUE].gen = cclaim.gen
        /\ cclaim.gen \in Nat /\ claim.gen \in Nat /\ my.gen \in Nat
    BY Zenon, GenTypes DEF TypeOK, Claim
  <1>1. cclaim'.life = "live" /\ ~cclaim'.paused => cclaim'.gen <= h
    BY <1>0 DEF Bounded
  <1>2. mode' = "pipeline" => my'.gen <= h
    <2>1. mode' = "pipeline" =>
            \/ mode = "pipeline" /\ my' = my
            \/ cclaim.life = "live" /\ ~cclaim.paused /\ my' = [cclaim EXCEPT !.fin = TRUE]
      BY DEF WorkerMove
    <2>2. (mode = "pipeline" => my.gen <= g) /\ (cclaim.life = "live" /\ ~cclaim.paused => cclaim.gen <= g)
      BY DEF Bounded
    <2>3. mode' = "pipeline" => my'.gen \in Nat /\ my'.gen <= g
      BY Zenon, <1>0, <2>1, <2>2
    <2> QED
      BY <2>3
  <1>3. ASSUME NEW old \in Nat, NEW new, Writes(old, new), old <= g PROVE new <= h
    BY <1>0, <1>3 DEF Writes, Bounded
  <1>4. \A r \in Managed : obj'[r].gen <= h
    BY <1>3, GenTypes DEF WriteMove, Bounded
  <1>5. \A m \in MapNames : remote'[m] <= h
    BY <1>3, GenTypes DEF WriteMove, Bounded
  <1> QED
    BY <1>1, <1>2, <1>4, <1>5 DEF BoundedAfter

\* Every step keeps written generations behind the claim's and, under a pause, behind the pause's.
LEMMA HeldKept == ASSUME TypeOK, TypeOK', Held, PauseMove, ClaimMove, WriteMove, WorkerMove PROVE Held'
  <1>1. /\ claim.gen \in Nat /\ cclaim.gen \in Nat /\ pauseGen \in Nat
        /\ claim'.gen \in Nat /\ pauseGen' \in Nat
    <2>1. claim.gen \in Nat /\ cclaim.gen \in Nat /\ pauseGen \in Nat
      BY GenTypes
    <2>2. claim' \in Claim /\ pauseGen' \in Nat
      BY Zenon DEF TypeOK
    <2> QED
      BY <2>1, <2>2 DEF Claim
  <1>2. cclaim' = cclaim \/ (cclaim' = claim /\ claim' = claim)
    BY DEF ClaimMove
  <1>3. claim.gen <= claim'.gen
    BY <1>1 DEF PauseMove
  <1>4. cclaim'.gen <= claim'.gen
    BY <1>1, <1>2, <1>3 DEF Held
  <1>5. PICK g \in Nat, h \in Nat, p \in Nat, q \in Nat :
          g = claim.gen /\ h = claim'.gen /\ p = pauseGen /\ q = pauseGen'
    BY <1>1
  <1>6. Bounded(g) /\ claim.gen <= g /\ g <= h /\ (claim.paused => Bounded(p))
    BY <1>1, <1>3, <1>5 DEF Held
  <1>7. Bounded(claim.gen)'
    <2>1. BoundedAfter(h)
      BY <1>2, <1>6, BoundKept
    <2> QED
      BY <1>5, <2>1 DEF BoundedAfter, Bounded
  <1>8. ASSUME claim'.paused PROVE Bounded(pauseGen)'
    <2>1. BoundedAfter(q)
      <3>1. CASE claim.paused /\ pauseGen' = pauseGen
        <4>1. p <= q
          BY <1>5, <3>1
        <4> QED
          BY <1>2, <1>6, <3>1, <4>1, BoundKept
      <3>2. CASE pauseGen' = claim.gen
        <4>1. g <= q
          BY <1>5, <3>2
        <4> QED
          BY <1>2, <1>6, <4>1, BoundKept
      <3> QED
        BY Zenon, <1>8, <3>1, <3>2 DEF PauseMove
    <2> QED
      BY <1>5, <2>1 DEF BoundedAfter, Bounded
  <1> QED
    BY <1>4, <1>7, <1>8 DEF Held

\* Nothing has been written for the claim just created.
LEMMA InitHeld == Init => Held
  <1> SUFFICES ASSUME Init PROVE Held
    OBVIOUS
  <1>1. claim.gen = 1 /\ ~claim.paused /\ cclaim.gen = 0 /\ mode = "idle"
    BY Zenon DEF Init, NoClaim
  <1>2. (\A r \in Managed : obj[r].gen = 0) /\ (\A m \in MapNames : remote[m] = 0)
    BY Zenon DEF Init, Absent
  <1> QED
    BY <1>1, <1>2 DEF Held, Bounded

(***************************************************************************)
(* While the claim is paused, no managed resource and no remote ConfigMap  *)
(* is rendered from a generation younger than the pause, whatever passes   *)
(* were running and however stale the informer's copy of the claim is.     *)
(***************************************************************************)
THEOREM PauseIsRespected == Spec => []PauseHoldsEditsBack
  <1>1. TypeOK /\ StepOK /\ Held /\ [Next]_vars /\ TypeOK' => Held'
    BY ZenonT(60), PauseMoves, ClaimMoves, WriteMoves, WorkerMoves, HeldKept
  <1>2. Held => PauseHoldsEditsBack
    BY DEF Held, Bounded, PauseHoldsEditsBack
  <1> QED
    BY <1>1, <1>2, InitHeld, TypeCorrect, PTL DEF Spec

-------------------------------------------------------------------------------
(***************************************************************************)
(* What is known before the first delete pass: the inductive invariants.   *)
(***************************************************************************)
Clusters == {"ClusterInfra", "ClusterClient"}

\* No delete pass has run yet, and the informer or a running pass does not know of a deletion.
Working == mode = "pipeline" \/ cclaim.life = "live" \/ claim.life = "live"

\* The claim's resources are deleted by nobody: the claim is live, or it was deleted without foreground
\* propagation, which nobody asks for, and no delete pass has run yet.
Alive == claim.life = "live" \/ (TRUE \notin Foreground /\ claim.fin /\ Working)

\* Until then what the informers show of the resources holds of them: nothing is being deleted, the
\* finalizer and the clusters' progress stay, and a cloud-controller configuration that knows the
\* client control plane is followed only by passes that know it too.
Seen ==
    /\ claim.fg => TRUE \in Foreground
    /\ Alive =>
         /\ \A r \in Managed : ~obj[r].del /\ (cobj[r].fin => obj[r].guard = "held")
         /\ \A r \in Clusters : /\ cobj[r].level <= obj[r].level /\ obj[r].level <= MaxLevel[r]
                                /\ ~obj[r].there => obj[r].level = 0
         /\ obj["CcmCsrc"].cli => ClientEnabled /\ cobj["ClusterClient"].level = 1
         /\ mode = "pipeline" => /\ cli => ClientEnabled /\ cobj["ClusterClient"].level = 1
                                 /\ obj["CcmCsrc"].cli => cli

\* Generations are written in the order the informer shows them.
Ordered ==
    /\ \A r \in Managed : obj[r].gen <= cclaim.gen
    /\ \A m \in MapNames : remote[m] <= cclaim.gen
    /\ mode = "pipeline" =>
         /\ my.gen <= cclaim.gen
         /\ \A r \in Managed : obj[r].gen <= my.gen
         /\ \A m \in MapNames : remote[m] <= my.gen

\* The stored status is no younger than the claim, a deletion outdates it, and only a pass whose
\* copy of the claim is current can store the one it assembles.
Dated ==
    /\ claim.status.gen <= claim.gen
    /\ claim.life # "live" => ~(claim.status.phase = "Ready" /\ claim.status.gen = claim.gen)
    /\ mode = "pipeline" =>
         /\ mine.phase # "Ready" /\ mine.gen = my.gen
         /\ fresh => claim.life = "live" /\ claim.gen = my.gen /\ claim.refs = my.refs

-------------------------------------------------------------------------------
(***************************************************************************)
(* Moves: which steps change objects and remote ConfigMaps, what becomes   *)
(* of the pass, and what of the status.                                    *)
(***************************************************************************)
ObjectSteps ==
    /\ \/ obj' = obj \/ ensureResource \/ ensureResourceFinalizer \/ mode = "delete"
       \/ \E r \in Managed : CollectDependent(r) \/ Advance(r) \/ Regress(r) \/ ForeignCleanup(r)
    /\ remote' = remote \/ applyRemoteConfigMap \/ mode = "delete"

Continues ==
    ensureResource \/ ensureResourceFinalizer \/ AwaitStep \/ KmsStep \/ RemoteConnect \/ applyRemoteConfigMap

PassMove ==
    \/ mode' # "pipeline"
    \/ UNCHANGED <<mode, my, mine, step, sub, cli, remote>> /\ (fresh' => fresh /\ claim' = claim)
    \/ ReconcileStart
    \/ Continues

StatusMove ==
    \/ /\ claim'.status = claim.status /\ claim'.gen = claim.gen /\ claim'.refs = claim.refs
       /\ claim'.life = claim.life \/ claim.life = "deleting" \/ mode = "delete"
    \/ claim'.status = claim.status /\ claim'.gen = claim.gen + 1
    \/ /\ claim'.gen = claim.gen /\ claim'.refs = claim.refs /\ claim'.life = claim.life
       /\ \/ /\ claim'.status.phase # "Ready"
             /\ claim'.status.gen = cclaim.gen \/ (mode = "pipeline" /\ claim'.status.gen = my.gen)
          \/ /\ mode = "pipeline" /\ step > LastStep /\ fresh /\ claim'.status.gen = my.gen
             /\ obj' = obj /\ remote' = remote

\* Every step is one of the steps ObjectSteps lists, or leaves objects and remote ConfigMaps alone.
LEMMA ObjectStep == ASSUME [Next]_vars PROVE ObjectSteps
  <1>1. CASE UNCHANGED <<obj, remote>>
    BY <1>1 DEF ObjectSteps
  <1>2. CASE Pass
    <2>1. CASE ReconcileNotFound \/ reconcilePaused \/ ReconcileStart \/ ensureFinalizerFails \/ reconcileDelete
      BY Zenon, <1>1, <2>1 DEF ReconcileNotFound, reconcilePaused, ReconcileStart, ensureFinalizerFails,
                        reconcileDelete, objects
    <2>2. CASE ensureResource \/ ensureResourceFinalizer
      BY Zenon, <2>2 DEF ObjectSteps, ensureResource, ensureResourceFinalizer
    <2>3. CASE ensureResourceFails \/ ensureResourceFinalizerFails \/ AwaitStep \/ KmsStep
      BY Zenon, <1>1, <2>3 DEF ensureResourceFails, ensureResourceFinalizerFails, AwaitStep, KmsStep, objects
    <2>4. CASE RemoteConnect \/ applyRemoteConfigMapFails \/ Ready
      BY Zenon, <1>1, <2>4 DEF RemoteConnect, applyRemoteConfigMapFails, Ready, objects
    <2>5. CASE applyRemoteConfigMap
      <3>1. obj' = obj
        BY Zenon, <2>5 DEF applyRemoteConfigMap, objects
      <3> QED
        BY Zenon, <2>5, <3>1 DEF ObjectSteps
    <2>6. CASE mode = "delete"
      BY Zenon, <2>6 DEF ObjectSteps
    <2>7. ASSUME NEW r, Visiting(r) PROVE mode = "delete"
      BY <2>7 DEF Visiting
    <2> QED
      BY ZenonT(60), <1>2, <2>1, <2>2, <2>3, <2>4, <2>5, <2>6, <2>7
         DEF Pass, deleteRemoteConfigMaps, removeFinalizer, removeResourceFinalizer, removeResourceFinalizerFails,
             deleteAndWait, deleteResource
  <1>3. CASE User \/ EndForeground
    <2>1. ASSUME NEW c, NEW event, Change(c, event) PROVE UNCHANGED <<obj, remote>>
      BY <2>1 DEF Change, objects
    <2> QED
      BY Zenon, <1>1, <1>3, <2>1 DEF User, EditSpec, Pause, Unpause, TouchLabels, DeleteClaim, EndForeground
  <1>4. CASE World
    <2>1. CASE KubeconfigSecret
      BY <1>1, <2>1 DEF KubeconfigSecret, objects
    <2>2. ASSUME NEW r \in Managed, CollectDependent(r) \/ Advance(r) \/ Regress(r) \/ ForeignCleanup(r)
          PROVE  ObjectSteps
      <3>1. remote' = remote
        BY Zenon, <2>2 DEF CollectDependent, Advance, Regress, ForeignCleanup, OnObject
      <3> QED
        BY Zenon, <2>2, <3>1 DEF ObjectSteps
    <2>3. ASSUME NEW t \in Blockable, Block(t) \/ Unblock(t) PROVE ObjectSteps
      BY Zenon, <1>1, <2>3 DEF Block, Unblock, SetObstacle, objects
    <2> QED
      BY Zenon, <1>3, <1>4, <2>1, <2>2, <2>3 DEF World
  <1>5. CASE Deliver \/ Crash
    BY Zenon, <1>1, <1>5 DEF Deliver, SyncClaim, TimerFires, SyncKind, Crash, objects
  <1>6. CASE UNCHANGED vars
    BY <1>1, <1>6 DEF vars
  <1> QED
    BY ZenonT(60), <1>2, <1>3, <1>4, <1>5, <1>6 DEF Next

\* Every step ends the pass, leaves it alone, or is one of the steps PassMove lists.
LEMMA PassMoves == ASSUME TypeOK, [Next]_vars PROVE PassMove
  <1>1. CASE GoIdle
    BY Zenon, <1>1 DEF GoIdle, PassMove
  <1>2. ASSUME NEW st, NEW f, NEW requeue, EndPass(st, f, requeue) PROVE PassMove
    BY <1>1, <1>2 DEF EndPass
  <1>3. CASE mode # "pipeline" /\ mode' = mode
    BY <1>3 DEF PassMove
  <1>4. CASE UNCHANGED <<worker, remote, claim>>
    BY <1>4 DEF worker, PassMove
  <1>5. CASE Pass
    <2>1. CASE ReconcileNotFound \/ reconcilePaused
      BY Zenon, <1>3, <2>1 DEF ReconcileNotFound, reconcilePaused, worker, Take
    <2>2. CASE ReconcileStart \/ ensureResource \/ ensureResourceFinalizer \/ AwaitStep \/ KmsStep
                 \/ RemoteConnect \/ applyRemoteConfigMap
      BY Zenon, <2>2 DEF PassMove, Continues
    <2>3. CASE ensureResourceFails \/ ensureResourceFinalizerFails \/ applyRemoteConfigMapFails
      BY Zenon, <1>2, <2>3 DEF ensureResourceFails, ensureResourceFinalizerFails, applyRemoteConfigMapFails,
                               TerminalError, TransientError
    <2>4. CASE Ready \/ ensureFinalizerFails
      BY Zenon, <1>1, <1>2, <2>4 DEF Ready, ensureFinalizerFails, ReturnError
    <2>5. CASE reconcileDelete
      BY Zenon, <1>1, <2>5 DEF reconcileDelete, ReturnError, PassMove
    <2>6. CASE mode = "delete" /\ (GoIdle \/ \E r : PassOn(r))
      BY <1>1, <1>3, <2>6 DEF PassOn
    <2>7. CASE deleteRemoteConfigMaps \/ removeFinalizer
      BY Zenon, <2>6, <2>7 DEF deleteRemoteConfigMaps, removeFinalizer, Visiting, ReturnError
    <2>8. ASSUME NEW r \in Managed, removeResourceFinalizer(r) PROVE PassMove
      BY Zenon, <1>3, <2>8 DEF removeResourceFinalizer, Visiting
    <2>9. ASSUME NEW r \in Managed, removeResourceFinalizerFails(r) \/ deleteAndWait(r) \/ deleteResource(r)
          PROVE  PassMove
      BY Zenon, <2>6, <2>9 DEF removeResourceFinalizerFails, deleteAndWait, deleteResource, Visiting, ReturnError
    <2> QED
      BY ZenonT(60), <1>5, <2>1, <2>2, <2>3, <2>4, <2>5, <2>7, <2>8, <2>9 DEF Pass
  <1>6. CASE User \/ EndForeground
    <2>1. ASSUME NEW c, NEW event, Change(c, event) PROVE PassMove
      BY <2>1 DEF Change, PassMove
    <2> QED
      BY ZenonT(60), <1>6, <2>1 DEF User, EditSpec, Pause, Unpause, TouchLabels, DeleteClaim, EndForeground
  <1>7. CASE World
    BY ZenonT(60), <1>4, <1>6, <1>7 DEF World, KubeconfigSecret, CollectDependent, Advance, Regress, ForeignCleanup,
                     OnObject, Block, Unblock, SetObstacle, server
  <1>8. CASE Deliver
    BY Zenon, <1>4, <1>8 DEF Deliver, SyncClaim, TimerFires, SyncKind, server
  <1>9. CASE Crash
    BY <1>1, <1>9 DEF Crash
  <1>10. CASE UNCHANGED vars
    BY <1>4, <1>10 DEF vars, worker
  <1> QED
    BY Zenon, <1>5, <1>6, <1>7, <1>8, <1>9, <1>10 DEF Next

\* Setting a condition leaves phase and generation alone.
LEMMA Marked ==
    ASSUME NEW st \in Status, NEW c \in Conditions
    PROVE  /\ setTrue(st, c).phase = st.phase /\ setTrue(st, c).gen = st.gen
           /\ setFalse(st, c).phase = st.phase /\ setFalse(st, c).gen = st.gen
  BY DEF setTrue, setFalse, Status

\* What the other setters of status.go do to phase and generation.
LEMMA Stamped ==
    ASSUME NEW st \in Status, NEW g \in Nat
    PROVE  /\ \A p \in Phases : setPhase(st, p, g).phase = p /\ setPhase(st, p, g).gen = g
           /\ \A c \in Conditions : setWaiting(st, c, g).phase # "Ready" /\ setWaiting(st, c, g).gen = g
           /\ setFailed(st, g).phase # "Ready" /\ setFailed(st, g).gen = g
           /\ setReady(st, g).gen = g
           /\ clearPausedCondition(st).phase = st.phase /\ clearPausedCondition(st).gen = st.gen
  <1>1. ASSUME NEW s \in Status, NEW p \in Phases PROVE setPhase(s, p, g).phase = p /\ setPhase(s, p, g).gen = g
    BY <1>1 DEF setPhase, Status
  <1>3. \A p \in Phases : setPhase(st, p, g) \in Status
    BY Zenon, StatusTypes
  <1>4. "Ready" \in Phases /\ "Failed" \in Phases /\ "WaitingDependency" \in Phases /\ "Ready" \in Conditions
    BY DEF Phases, Conditions
  <1>5. clearPausedCondition(st).phase = st.phase /\ clearPausedCondition(st).gen = st.gen
    BY DEF clearPausedCondition, Status
  <1>6. "Failed" # "Ready" /\ "WaitingDependency" # "Ready"
    OBVIOUS
  <1>7. ASSUME NEW p \in Phases, NEW c \in Conditions
        PROVE  /\ setTrue(setPhase(st, p, g), c).gen = g
               /\ setFalse(setPhase(st, p, g), c).phase = p /\ setFalse(setPhase(st, p, g), c).gen = g
    <2> DEFINE s == setPhase(st, p, g)
    <2>1. s \in Status /\ s.phase = p /\ s.gen = g
      BY ZenonT(60), <1>1, <1>3
    <2> HIDE DEF s
    <2>2. setTrue(s, c).gen = g /\ setFalse(s, c).phase = p /\ setFalse(s, c).gen = g
      BY Marked, <2>1
    <2> QED
      BY <2>2 DEF s
  <1>8. \A c \in Conditions : setWaiting(st, c, g).phase # "Ready" /\ setWaiting(st, c, g).gen = g
    BY ZenonT(60), <1>4, <1>6, <1>7 DEF setWaiting
  <1>9. setFailed(st, g).phase # "Ready" /\ setFailed(st, g).gen = g /\ setReady(st, g).gen = g
    BY ZenonT(60), <1>4, <1>6, <1>7 DEF setFailed, setReady
  <1> QED
    BY ZenonT(60), <1>1, <1>5, <1>8, <1>9

\* Every step treats the status, and what dates it, as StatusMove says.
LEMMA StatusMoves == ASSUME TypeOK, StepOK, Dated, [Next]_vars PROVE StatusMove
  <1>0. claim \in Claim /\ cclaim \in Claim /\ my \in Claim /\ mine \in Status
    BY Zenon DEF TypeOK
  <1>t. cclaim.status \in Status /\ cclaim.gen \in Nat /\ my.gen \in Nat
    BY <1>0 DEF Claim
  <1>c. "Deleting" \in Phases /\ "Paused" \in Phases /\ "Ready" \in Conditions /\ "Paused" \in Conditions
    BY DEF Phases, Conditions
  <1>1. CASE claim' = claim
    BY <1>1 DEF StatusMove
  <1>2. ASSUME NEW st, claim' = [claim EXCEPT !.status = st]
        PROVE  /\ claim'.status = st /\ claim'.gen = claim.gen
               /\ claim'.refs = claim.refs /\ claim'.life = claim.life
    BY <1>0, <1>2 DEF Claim
  <1>3. ASSUME NEW was, NEW st, NEW current, NEW f, NEW ok, updateStatusIfChanged(was, st, current, f, ok),
               st.phase # "Ready", st.gen = cclaim.gen \/ (mode = "pipeline" /\ st.gen = my.gen)
        PROVE  StatusMove
    <2>1. claim' = claim \/ claim' = [claim EXCEPT !.status = st]
      BY <1>3 DEF updateStatusIfChanged, StoreClaim, server
    <2> QED
      BY Zenon, <1>1, <1>2, <1>3, <2>1 DEF StatusMove
  <1>4. ASSUME NEW st, NEW f, NEW requeue, EndPass(st, f, requeue), mode = "pipeline",
               st.phase # "Ready", st.gen = my.gen
        PROVE  StatusMove
    BY Zenon, <1>3, <1>4 DEF EndPass
  <1>5. ASSUME NEW st \in Status, NEW f, mode = "pipeline", st.phase # "Ready", st.gen = my.gen,
               TerminalError(st, f) \/ TransientError(st, f)
        PROVE  StatusMove
    <2>1. setFailed(st, my.gen).phase # "Ready" /\ setFailed(st, my.gen).gen = my.gen
      BY <1>t, Stamped
    <2>2. setFalse(st, "Ready").phase = st.phase /\ setFalse(st, "Ready").gen = st.gen
      BY <1>c, Marked
    <2> QED
      BY ZenonT(60), <1>4, <1>5, <2>1, <2>2 DEF TerminalError, TransientError
  <1>6. ASSUME mode = "pipeline" PROVE mine.phase # "Ready" /\ mine.gen = my.gen
    BY <1>6 DEF Dated
  <1>7. ASSUME NEW c \in Conditions, Wait(c), mode = "pipeline" PROVE StatusMove
    <2>1. setWaiting(mine, c, my.gen).phase # "Ready" /\ setWaiting(mine, c, my.gen).gen = my.gen
      BY <1>0, <1>t, Stamped
    <2> QED
      BY ZenonT(60), <1>4, <1>7, <2>1 DEF Wait
  <1>8. CASE Pass
    <2>1. CASE ReconcileNotFound \/ ensureFinalizerFails
      BY Zenon, <1>1, <2>1 DEF ReconcileNotFound, ensureFinalizerFails, server
    <2>2. CASE reconcilePaused
      <3> DEFINE p == setPhase(cclaim.status, "Paused", cclaim.gen)
      <3>0. p \in Status
        BY ZenonT(60), <1>t, <1>c, StatusTypes
      <3>1. p \in Status /\ p.phase = "Paused" /\ p.gen = cclaim.gen
        BY <1>t, <1>c, <3>0, Stamped
      <3> HIDE DEF p
      <3>2. setTrue(p, "Paused").phase = p.phase /\ setTrue(p, "Paused").gen = p.gen
        BY Zenon, <1>c, <3>1, Marked
      <3>3. setTrue(p, "Paused").phase # "Ready" /\ setTrue(p, "Paused").gen = cclaim.gen
        BY <3>1, <3>2
      <3>4. \E ok : updateStatusIfChanged(cclaim.status, setTrue(p, "Paused"), ~claimDirty, faults, ok)
        BY Zenon, <2>2 DEF reconcilePaused, p
      <3> QED
        BY ZenonT(60), <1>3, <3>3, <3>4
    <2>3. CASE reconcileDelete
      <3> DEFINE p == setPhase(cclaim.status, "Deleting", cclaim.gen)
      <3>1. p.phase = "Deleting" /\ p.gen = cclaim.gen
        BY <1>t, <1>c, Stamped
      <3>2. \E ok : updateStatusIfChanged(cclaim.status, p, ~claimDirty, faults, ok)
        BY Zenon, <2>3 DEF reconcileDelete
      <3> HIDE DEF p
      <3>3. p.phase # "Ready"
        BY <3>1
      <3> QED
        BY ZenonT(60), <1>3, <3>1, <3>2, <3>3
    <2>4. CASE ReconcileStart
      <3>1. claim' = claim \/ claim' = [claim EXCEPT !.fin = TRUE]
        BY <2>4 DEF ReconcileStart, ensureFinalizer, StoreClaim, server
      <3>2. LET c == [claim EXCEPT !.fin = TRUE] IN
              c.status = claim.status /\ c.gen = claim.gen /\ c.refs = claim.refs /\ c.life = claim.life
        BY <1>0 DEF Claim
      <3> QED
        BY Zenon, <1>1, <3>1, <3>2 DEF StatusMove
    <2>5. CASE ensureResource \/ ensureResourceFinalizer \/ applyRemoteConfigMap
      BY Zenon, <1>1, <2>5 DEF ensureResource, ensureResourceFinalizer, applyRemoteConfigMap, server
    <2>6. CASE ensureResourceFails \/ ensureResourceFinalizerFails
      BY Zenon, <1>0, <1>5, <1>6, <2>6 DEF ensureResourceFails, ensureResourceFinalizerFails, InStep
    <2>7. CASE AwaitStep \/ KmsStep \/ RemoteConnect \/ applyRemoteConfigMapFails
      <3>1. mode = "pipeline" /\ Current.cond \in Conditions
        BY Zenon, <2>7, CurrentTypes DEF AwaitStep, KmsStep, RemoteConnect, applyRemoteConfigMapFails, InStep
      <3> DEFINE st == setFalse(mine, Current.cond)
      <3>2. st \in Status /\ st.phase = mine.phase /\ st.gen = mine.gen
        BY Zenon, <1>0, <1>t, <3>1, Marked, StatusTypes
      <3>3. st.phase # "Ready" /\ st.gen = my.gen
        BY Zenon, <1>6, <3>1, <3>2
      <3>4. CASE AwaitStep \/ KmsStep
        BY ZenonT(60), <1>0, <1>1, <1>5, <1>6, <1>7, <3>1, <3>4 DEF AwaitStep, KmsStep, server
      <3>5. CASE RemoteConnect \/ applyRemoteConfigMapFails
        BY ZenonT(60), <1>1, <1>5, <1>7, <3>1, <3>2, <3>3, <3>5 DEF RemoteConnect, applyRemoteConfigMapFails, server
      <3> QED
        BY Zenon, <2>7, <3>4, <3>5
    <2>8. CASE Ready
      <3> DEFINE st == setReady(mine, my.gen)
      <3>1. st.gen = my.gen
        BY <1>0, <1>t, Stamped
      <3>2. \E ok : updateStatusIfChanged(my.status, st, fresh, faults, ok)
        BY Zenon, <2>8 DEF Ready, EndPass
      <3> HIDE DEF st
      <3>3. claim' = claim \/ (fresh /\ claim' = [claim EXCEPT !.status = st])
        BY <3>2 DEF updateStatusIfChanged, StoreClaim, server
      <3>4. mode = "pipeline" /\ step > LastStep /\ obj' = obj /\ remote' = remote
        BY Zenon, <2>8 DEF Ready, objects
      <3>5. CASE fresh /\ claim' = [claim EXCEPT !.status = st]
        <4>1. claim'.status.gen = my.gen /\ claim'.gen = claim.gen /\ claim'.refs = claim.refs /\ claim'.life = claim.life
          BY Zenon, <1>2, <3>1, <3>5
        <4> QED
          BY <3>4, <3>5, <4>1 DEF StatusMove
      <3> QED
        BY ZenonT(60), <1>1, <3>3, <3>5
    <2>9. CASE deleteRemoteConfigMaps
      BY <1>1, <2>9 DEF deleteRemoteConfigMaps, server
    <2>10. CASE removeFinalizer
      <3> DEFINE c == [claim EXCEPT !.fin = FALSE, !.life = IF claim.fg THEN @ ELSE "gone"]
      <3>1. mode = "delete" /\ (claim' = claim \/ claim' = c)
        BY <2>10 DEF removeFinalizer, StoreClaim, server
      <3>2. c.status = claim.status /\ c.gen = claim.gen /\ c.refs = claim.refs
        BY <1>0 DEF Claim
      <3> QED
        BY Zenon, <1>1, <3>1, <3>2 DEF StatusMove
    <2>11. ASSUME NEW r \in Managed,
                  \/ removeResourceFinalizer(r) \/ removeResourceFinalizerFails(r)
                  \/ deleteAndWait(r) \/ deleteResource(r)
           PROVE  StatusMove
      BY Zenon, <1>1, <2>11 DEF removeResourceFinalizer, removeResourceFinalizerFails, deleteAndWait, deleteResource,
                         server
    <2> QED
      BY ZenonT(60), <1>8, <2>1, <2>2, <2>3, <2>4, <2>5, <2>6, <2>7, <2>8, <2>9, <2>10, <2>11 DEF Pass
  <1>9. CASE User \/ EndForeground
    <2>1. ASSUME NEW c, NEW event, Change(c, event), c.status = claim.status,
                 \/ c.gen = claim.gen + 1
                 \/ c.gen = claim.gen /\ c.refs = claim.refs /\ (c.life = claim.life \/ claim.life = "deleting")
          PROVE  StatusMove
      <3>1. claim' = c
        BY <2>1 DEF Change, StoreClaim
      <3> QED
        BY Zenon, <2>1, <3>1 DEF StatusMove
    <2>2. CASE EditSpec
      <3>1. PICK refs : Change([claim EXCEPT !.gen = @ + 1, !.refs = refs], TRUE)
        BY Zenon, <2>2 DEF EditSpec
      <3>2. LET c == [claim EXCEPT !.gen = @ + 1, !.refs = refs] IN c.status = claim.status /\ c.gen = claim.gen + 1
        BY <1>0 DEF Claim
      <3> QED
        BY Zenon, <2>1, <3>1, <3>2
    <2>3. CASE Pause \/ Unpause \/ TouchLabels
      <3>1. PICK c, event : Change(c, event) /\ c \in {claim, [claim EXCEPT !.paused = TRUE], [claim EXCEPT !.paused = FALSE]}
        BY Zenon, <2>3 DEF Pause, Unpause, TouchLabels
      <3>2. c.status = claim.status /\ c.gen = claim.gen /\ c.refs = claim.refs /\ c.life = claim.life
        BY <1>0, <3>1 DEF Claim
      <3> QED
        BY Zenon, <2>1, <3>1, <3>2
    <2>4. CASE DeleteClaim
      <3>1. PICK fg : Change([claim EXCEPT !.life = IF claim.fin \/ fg THEN "deleting" ELSE "gone",
                                           !.gen = @ + 1, !.fg = fg], TRUE)
        BY Zenon, <2>4 DEF DeleteClaim
      <3>2. LET c == [claim EXCEPT !.life = IF claim.fin \/ fg THEN "deleting" ELSE "gone",
                                   !.gen = @ + 1, !.fg = fg] IN
              c.status = claim.status /\ c.gen = claim.gen + 1
        BY <1>0 DEF Claim
      <3> QED
        BY Zenon, <2>1, <3>1, <3>2
    <2>5. CASE EndForeground
      <3>1. Change([claim EXCEPT !.fg = FALSE, !.life = IF claim.fin THEN @ ELSE "gone"], ~claim.fin)
        BY <2>5 DEF EndForeground
      <3>2. LET c == [claim EXCEPT !.fg = FALSE, !.life = IF claim.fin THEN @ ELSE "gone"] IN
              c.status = claim.status /\ c.gen = claim.gen /\ c.refs = claim.refs
        BY <1>0 DEF Claim
      <3>3. claim.life = "deleting"
        BY <2>5 DEF EndForeground
      <3> QED
        BY Zenon, <2>1, <3>1, <3>2, <3>3
    <2> QED
      BY Zenon, <1>9, <2>2, <2>3, <2>4, <2>5 DEF User
  <1>10. CASE World
    BY ZenonT(60), <1>1, <1>9, <1>10 DEF World, KubeconfigSecret, CollectDependent, Advance, Regress, ForeignCleanup,
                            OnObject, Block, Unblock, SetObstacle, server
  <1>11. CASE Deliver \/ Crash
    BY Zenon, <1>1, <1>11 DEF Deliver, SyncClaim, SyncKind, TimerFires, Crash, server
  <1>12. CASE UNCHANGED vars
    BY <1>1, <1>12 DEF vars
  <1> QED
    BY ZenonT(60), <1>8, <1>9, <1>10, <1>11, <1>12 DEF Next

-------------------------------------------------------------------------------
\* What a step may do to a managed object of such a claim: it keeps the finalizer, a cluster's level
\* does not fall, and only the pipeline renders it, with what the pass knows.
Grows(r, o) ==
    /\ ~o.del /\ (~o.there => o = obj[r])
    /\ obj[r].guard = "held" => o.guard = "held"
    /\ r \in Clusters => /\ o.level >= obj[r].level
                         /\ obj[r].level <= MaxLevel[r] => o.level <= MaxLevel[r]
    /\ o.gen = obj[r].gen \/ (mode = "pipeline" /\ o.gen = my.gen)
    /\ r = "CcmCsrc" => o.cli = obj[r].cli \/ (mode = "pipeline" /\ o.cli = cli)

LiveMove ==
    /\ \A r \in Managed : Grows(r, obj'[r])
    /\ \A m \in MapNames : remote'[m] = remote[m] \/ (mode = "pipeline" /\ remote'[m] = my.gen)

\* A pass for a claim that was deleted comes after every other.
LEMMA WorkingBack ==
    ASSUME TypeOK, LifeKnown, ClaimMove, WorkerMove, Working'
    PROVE  Working /\ mode # "delete"
  <1>1. claim'.life = "live" => claim.life = "live"
    BY DEF ClaimMove
  <1>2. cclaim' = cclaim \/ cclaim' = claim
    BY Zenon DEF ClaimMove
  <1>3. mode' = "pipeline" => mode = "pipeline" \/ cclaim.life = "live"
    BY DEF WorkerMove
  <1>4. Working
    BY Zenon, <1>1, <1>2, <1>3 DEF Working
  <1>5. mode = "delete" => claim.life # "live" /\ cclaim.life # "live" /\ mode # "pipeline"
    BY DEF LifeKnown
  <1> QED
    BY Zenon, <1>4, <1>5 DEF Working

\* Nobody but the delete passes ends what Alive says.
LEMMA AliveBack == ASSUME TypeOK, Coherent, LifeKnown, ClaimMove, WorkerMove, Alive' PROVE Alive
  <1>1. CASE claim'.life = "live"
    BY ZenonT(60), <1>1 DEF ClaimMove, Alive
  <1>2. CASE TRUE \notin Foreground /\ claim'.fin /\ Working'
    <2>1. claim.fin \/ claim.life = "live"
      BY ZenonT(60), <1>2 DEF ClaimMove, Coherent
    <2>2. Working
      BY Zenon, <1>2, WorkingBack
    <2> QED
      BY Zenon, <1>2, <2>1, <2>2 DEF Alive
  <1> QED
    BY Zenon, <1>1, <1>2 DEF Alive

\* Every step treats the resources of such a claim as LiveMove says.
LEMMA LiveMoves == ASSUME TypeOK, StepOK, Safe, Seen, Alive, [Next]_vars PROVE LiveMove
  <1>0. obj \in [Managed -> Object] /\ remote \in [MapNames -> Nat] /\ my.gen \in Nat /\ cli \in BOOLEAN
    BY Zenon DEF TypeOK, Claim
  <1>d. mode # "delete" /\ \A r \in Managed : ~obj[r].del
    <2>1. mode # "delete"
      BY ZenonT(60) DEF Safe, LifeKnown, Alive, Working
    <2> QED
      BY Zenon, <2>1 DEF Seen
  <1>l. \A r \in Managed : obj[r].level \in 0..2 /\ MaxLevel[r] \in 0..2
    BY <1>0 DEF Object, MaxLevel
  <1>k. ObjectSteps
    BY ObjectStep
  <1>1. \A r \in Managed : Grows(r, obj[r])
    BY <1>d, <1>l DEF Grows
  <1>2. ASSUME NEW r \in Managed, NEW o, Store(r, o), Grows(r, o) PROVE \A q \in Managed : Grows(q, obj'[q])
    <2>1. obj' = [obj EXCEPT ![r] = o]
      BY ZenonT(60), <1>2 DEF Store
    <2> QED
      BY Zenon, <1>0, <1>1, <1>2, <2>1
  <1>3. ASSUME ensureResource PROVE \A q \in Managed : Grows(q, obj'[q])
    <2> DEFINE r == Current.res
               c == (r = "CcmCsrc" /\ cli)
               o == ApplyTo(obj[r], my.gen, c)
    <2>1. mode = "pipeline" /\ Store(r, o)
      BY <1>3 DEF ensureResource, InStep
    <2>2. r \in Managed
      BY Zenon, <1>3, CurrentTypes DEF ensureResource, InStep, Ops
    <2>3. c \in BOOLEAN /\ (r = "CcmCsrc" => c = cli)
      BY <1>0
    <2> HIDE DEF r, c
    <2>4. obj[r] \in Object /\ ~obj[r].del
      BY <1>0, <1>d, <2>2
    <2>5. Grows(r, o)
      <3>1. CASE obj[r].there
        <4>1. o = [obj[r] EXCEPT !.gen = my.gen, !.cli = c]
          BY <3>1 DEF ApplyTo
        <4>2. o.there /\ ~o.del /\ o.guard = obj[r].guard /\ o.level = obj[r].level /\ o.gen = my.gen /\ o.cli = c
          BY ZenonT(60), <2>4, <3>1, <4>1 DEF Object
        <4> HIDE DEF o
        <4> QED
          BY <1>l, <2>1, <2>2, <2>3, <4>2 DEF Grows
      <3>2. CASE ~obj[r].there
        <4>1. o = [Absent EXCEPT !.there = TRUE, !.gen = my.gen, !.cli = c]
          BY <3>2 DEF ApplyTo
        <4>2. o.there /\ ~o.del /\ o.level = 0 /\ o.gen = my.gen /\ o.cli = c
          BY <4>1 DEF Absent
        <4>3. (r \in Clusters => obj[r].level = 0) /\ obj[r].guard # "held"
          BY <2>2, <3>2 DEF Seen, Safe, Observed
        <4> HIDE DEF o
        <4> QED
          BY <1>l, <2>1, <2>2, <2>3, <4>2, <4>3 DEF Grows
      <3> QED
        BY ZenonT(60), <3>1, <3>2
    <2> QED
      BY ZenonT(60), <1>2, <2>1, <2>2, <2>5
  <1>4. ASSUME ensureResourceFinalizer PROVE \A q \in Managed : Grows(q, obj'[q])
    <2> DEFINE r == Current.res
               o == [obj[r] EXCEPT !.guard = "held"]
    <2>1. r \in Managed
      BY Zenon, <1>4, CurrentTypes DEF ensureResourceFinalizer, InStep, Ops
    <2>2. obj' = obj \/ (cobj[r].there /\ ~dirty[r] /\ Store(r, o))
      BY <1>4 DEF ensureResourceFinalizer, objects
    <2> HIDE DEF r
    <2>3. CASE cobj[r].there /\ ~dirty[r] /\ Store(r, o)
      <3>1. obj[r] \in Object /\ obj[r].there /\ ~obj[r].del
        BY <1>0, <1>d, <2>1, <2>3, CurrentCopy DEF Safe
      <3>2. /\ o.there /\ ~o.del /\ o.guard = "held" /\ o.level = obj[r].level
            /\ o.gen = obj[r].gen /\ o.cli = obj[r].cli
        BY <3>1 DEF Object
      <3> HIDE DEF o
      <3>3. Grows(r, o)
        BY <1>l, <2>1, <3>2 DEF Grows
      <3> QED
        BY <1>2, <2>1, <2>3, <3>3
    <2> QED
      BY <1>1, <2>2, <2>3
  <1>5. ASSUME NEW r \in Managed, CollectDependent(r) \/ Advance(r) \/ Regress(r) \/ ForeignCleanup(r)
        PROVE  \A q \in Managed : Grows(q, obj'[q])
    <2>1. ~CollectDependent(r) /\ ~ForeignCleanup(r)
      <3>1. ~ForeignCleanup(r)
        BY <1>d DEF ForeignCleanup
      <3>2. claim.life # "gone" /\ ~(claim.life = "deleting" /\ claim.fg)
        BY ZenonT(60) DEF Alive, Seen, Safe, LifeKnown
      <3> QED
        BY Zenon, <3>1, <3>2 DEF CollectDependent
    <2>2. PICK l \in 0..2 :
            /\ obj[r].there /\ Store(r, [obj[r] EXCEPT !.level = l])
            /\ r \in Clusters => l >= obj[r].level /\ l <= MaxLevel[r]
      <3>1. CASE Advance(r)
        <4>1. obj[r].there /\ obj[r].level < MaxLevel[r] /\ Store(r, [obj[r] EXCEPT !.level = @ + 1])
          BY <3>1 DEF Advance, OnObject
        <4>2. obj[r].level + 1 \in 0..2 /\ obj[r].level + 1 >= obj[r].level /\ obj[r].level + 1 <= MaxLevel[r]
          BY <1>l, <4>1
        <4> QED
          BY <4>1, <4>2
      <3>2. CASE Regress(r)
        <4>1. obj[r].there /\ obj[r].level > Floor(r, obj[r].level) /\ Store(r, [obj[r] EXCEPT !.level = @ - 1])
          BY <3>2 DEF Regress, OnObject
        <4>2. r \notin Clusters /\ obj[r].level - 1 \in 0..2
          BY <1>l, <4>1 DEF Floor, Clusters
        <4> QED
          BY <4>1, <4>2
      <3> QED
        BY Zenon, <1>5, <2>1, <3>1, <3>2
    <2> DEFINE o == [obj[r] EXCEPT !.level = l]
    <2>3. /\ o.there = obj[r].there /\ o.del = obj[r].del /\ o.guard = obj[r].guard /\ o.level = l
          /\ o.gen = obj[r].gen /\ o.cli = obj[r].cli
      BY <1>0 DEF Object
    <2>4. Store(r, o)
      BY <2>2
    <2> HIDE DEF o
    <2>5. Grows(r, o)
      BY <1>d, <1>l, <2>2, <2>3 DEF Grows
    <2> QED
      BY <1>2, <2>4, <2>5
  <1>6. \A r \in Managed : Grows(r, obj'[r])
    BY ZenonT(60), <1>1, <1>3, <1>4, <1>5, <1>d, <1>k DEF ObjectSteps
  <1>7. ASSUME NEW m \in MapNames PROVE remote'[m] = remote[m] \/ (mode = "pipeline" /\ remote'[m] = my.gen)
    <2>1. CASE applyRemoteConfigMap
      <3>1. mode = "pipeline" /\ remote' = [remote EXCEPT ![sub] = my.gen]
        BY Zenon, <2>1 DEF applyRemoteConfigMap, InStep
      <3> QED
        BY <1>0, <3>1
    <2> QED
      BY <1>d, <1>k, <2>1 DEF ObjectSteps
  <1> QED
    BY <1>6, <1>7 DEF LiveMove

-------------------------------------------------------------------------------
\* What the proofs need of single steps of the pipeline.
LEMMA StepData ==
    ASSUME NEW i \in 1..LastStep
    PROVE  LET s == pipelineSteps[i] IN
           /\ s.level \in {0, 1, 2}
           /\ s.op = "await" /\ s.res = "ClusterClient" => s.level = 1 /\ s.when = "client"
           /\ s.op = "reapply" => i = 16 /\ s.res = "CcmCsrc" /\ s.when = "client"
  <1> DEFINE Good(j) ==
         LET s == pipelineSteps[j] IN
         /\ s.level \in {0, 1, 2}
         /\ s.op = "await" /\ s.res = "ClusterClient" => s.level = 1 /\ s.when = "client"
         /\ s.op = "reapply" => j = 16 /\ s.res = "CcmCsrc" /\ s.when = "client"
  <1>1. Good(1) /\ Good(2) /\ Good(3) /\ Good(4) /\ Good(5)
    BY Zenon DEF pipelineSteps, Ensure, Await, stepApplication, stepEnsureS3BucketClaim, stepCertificateSetInfra,
           stepWaitCertSetReady, stepClusterInfra
  <1>2. Good(6) /\ Good(7) /\ Good(8) /\ Good(9) /\ Good(10)
    BY Zenon DEF pipelineSteps, Ensure, Await, stepWaitInfraProvisioned, stepCertificateSetClient, stepWaitInfraCPReady,
           stepEnsureVaultClaim, stepEnsureVaultSecretClaim
  <1>3. Good(11) /\ Good(12) /\ Good(13) /\ Good(14)
    BY Zenon DEF pipelineSteps, Ensure, Await, stepCcmCsrc, stepRemoteConfigMaps, stepWaitVaultKmsReady,
           stepClusterClient
  <1>4. Good(15) /\ Good(16) /\ Good(17) /\ Good(18) /\ Good(19)
    BY Zenon DEF pipelineSteps, Ensure, Await, stepWaitClientCPReady, stepCcmCsrcUpdate, stepWaitVaultClaim,
           stepWaitVaultSecretClaim, stepWaitS3BucketClaim
  <1>5. i \in 1..19
    BY DEF LastStep
  <1>6. Good(i)
    <2> HIDE DEF Good
    <2> QED
      BY <1>1, <1>2, <1>3, <1>4, <1>5
  <1> QED
    BY Zenon, <1>6

\* A pass that goes on keeps its copy of the claim, and learns of the client control plane only from
\* the wait for it.
LEMMA Continuing ==
    ASSUME TypeOK, StepOK, Continues, mode' = "pipeline"
    PROVE  /\ mode = "pipeline" /\ step \in 1..LastStep
           /\ claim' = claim /\ cobj' = cobj /\ my' = my /\ fresh' = fresh
           /\ mine' = mine \/ \E c \in Conditions : mine' = setTrue(mine, c)
           /\ \/ cli' = cli
              \/ cli' /\ Current.op = "await" /\ Current.res = "ClusterClient"
                 /\ cobj["ClusterClient"].level >= Current.level
  <1>1. mode = "pipeline" /\ step <= LastStep
    BY Zenon DEF Continues, ensureResource, ensureResourceFinalizer, AwaitStep, KmsStep, RemoteConnect,
                 applyRemoteConfigMap, InStep
  <1>2. step \in 1..LastStep
    <2>1. step \in 0..(LastStep + 1)
      BY Zenon DEF TypeOK
    <2>2. step >= 1
      BY <1>1 DEF StepOK
    <2> QED
      BY <1>1, <2>1, <2>2, StepIndex
  <1>3. Current.cond \in Conditions \union {""}
    BY Zenon, <1>1, CurrentTypes
  <1>4. ~GoIdle
    BY DEF GoIdle
  <1>5. ASSUME NEW st, NEW f, TerminalError(st, f) \/ TransientError(st, f) PROVE FALSE
    BY Zenon, <1>4, <1>5 DEF TerminalError, TransientError, EndPass
  <1>6. ASSUME NEW c, Wait(c) PROVE FALSE
    BY Zenon, <1>4, <1>6 DEF Wait, EndPass
  <1>7. ASSUME NEW c, Proceed(c), c \in Conditions \union {""}
        PROVE  my' = my /\ fresh' = fresh /\ (mine' = mine \/ \E d \in Conditions : mine' = setTrue(mine, d))
    BY Zenon, <1>7 DEF Proceed
  <1>8. claim' = claim /\ cobj' = cobj
    BY Zenon, <1>5, <1>6 DEF Continues, ensureResource, ensureResourceFinalizer, AwaitStep, KmsStep, RemoteConnect,
                 applyRemoteConfigMap, server, caches
  <1>9. my' = my /\ fresh' = fresh /\ (mine' = mine \/ \E c \in Conditions : mine' = setTrue(mine, c))
    <2>1. CASE ensureResource \/ ensureResourceFinalizer \/ applyRemoteConfigMap
      BY Zenon, <1>3, <1>7, <2>1 DEF ensureResource, ensureResourceFinalizer, applyRemoteConfigMap
    <2>2. CASE AwaitStep \/ RemoteConnect
      BY ZenonT(60), <1>3, <1>5, <1>6, <1>7, <2>2 DEF AwaitStep, RemoteConnect
    <2>3. CASE KmsStep
      <3>1. PICK c \in {Current.cond, ""} : Proceed(c)
        BY Zenon, <1>6, <2>3 DEF KmsStep
      <3> QED
        BY Zenon, <1>3, <1>7, <3>1
    <2> QED
      BY Zenon, <2>1, <2>2, <2>3 DEF Continues
  <1>10. \/ cli' = cli
         \/ cli' /\ Current.op = "await" /\ Current.res = "ClusterClient"
            /\ cobj["ClusterClient"].level >= Current.level
    <2>1. CASE AwaitStep
      <3>1. /\ Current.op = "await" /\ cobj[Current.res].level >= Current.level
            /\ cli' = (cli \/ Current.res = "ClusterClient")
        BY Zenon, <1>5, <1>6, <2>1 DEF AwaitStep, InStep
      <3>2. cli \in BOOLEAN
        BY Zenon DEF TypeOK
      <3> QED
        BY Zenon, <3>1, <3>2
    <2> QED
      BY Zenon, <1>5, <1>6, <2>1 DEF Continues, ensureResource, ensureResourceFinalizer, KmsStep, RemoteConnect,
                                     applyRemoteConfigMap
  <1> QED
    BY Zenon, <1>1, <1>2, <1>8, <1>9, <1>10

\* What the informers show of such a claim's resources stays true.
LEMMA SeenKept ==
    ASSUME TypeOK, TypeOK', StepOK, Safe, Seen, ClaimMove, ObjectsMove, WorkerMove, PassMove, Alive => LiveMove
    PROVE  Seen'
  <1>f. claim'.fg => TRUE \in Foreground
    BY ZenonT(60) DEF ClaimMove, Seen
  <1> SUFFICES ASSUME Alive'
               PROVE  /\ \A r \in Managed : ~obj'[r].del /\ (cobj'[r].fin => obj'[r].guard = "held")
                      /\ \A r \in Clusters : /\ cobj'[r].level <= obj'[r].level /\ obj'[r].level <= MaxLevel[r]
                                             /\ ~obj'[r].there => obj'[r].level = 0
                      /\ obj'["CcmCsrc"].cli => ClientEnabled /\ cobj'["ClusterClient"].level = 1
                      /\ mode' = "pipeline" => /\ cli' => ClientEnabled /\ cobj'["ClusterClient"].level = 1
                                               /\ obj'["CcmCsrc"].cli => cli'
    BY Zenon, <1>f DEF Seen
  <1>1. Alive /\ LiveMove
    BY Zenon, AliveBack DEF Safe
  <1>2. /\ Clusters \subseteq Managed /\ "CcmCsrc" \in Managed /\ "ClusterClient" \in Clusters
        /\ MaxLevel["ClusterClient"] = 1 /\ \A r \in Managed : MaxLevel[r] \in 0..2
    BY DEF Clusters, Managed, ClientOnly, MaxLevel
  <1>3. /\ \A r \in Managed : obj[r] \in Object /\ cobj[r] \in View /\ obj'[r] \in Object /\ cobj'[r] \in View
        /\ cli \in BOOLEAN /\ cli' \in BOOLEAN
    BY ZenonT(60) DEF TypeOK
  <1>4. \A r \in Managed : /\ obj[r].level \in 0..2 /\ obj'[r].level \in 0..2 /\ cobj[r].level \in 0..2
                           /\ obj[r].cli \in BOOLEAN /\ obj'[r].cli \in BOOLEAN
    BY <1>3 DEF Object, View
  <1>5. \A r \in Managed : cobj'[r] = cobj[r] \/ (obj' = obj /\ cobj'[r] = ViewOf(r, obj[r]))
    BY Zenon DEF ObjectsMove
  <1>6. \A r \in Managed : ViewOf(r, obj[r]).fin = (obj[r].guard = "held") /\ ViewOf(r, obj[r]).level = obj[r].level
    BY Zenon DEF ViewOf
  <1>7. ASSUME NEW r \in Managed PROVE ~obj'[r].del /\ (cobj'[r].fin => obj'[r].guard = "held")
    BY ZenonT(60), <1>1, <1>5, <1>6 DEF Seen, LiveMove, Grows
  <1>8. ASSUME NEW r \in Clusters
        PROVE  /\ cobj'[r].level <= obj'[r].level /\ obj'[r].level <= MaxLevel[r]
               /\ ~obj'[r].there => obj'[r].level = 0
               /\ cobj'[r].level >= cobj[r].level
    <2>1. r \in Managed
      BY ZenonT(60), <1>2
    <2>2. /\ cobj[r].level <= obj[r].level /\ obj[r].level <= MaxLevel[r]
          /\ ~obj[r].there => obj[r].level = 0
      BY ZenonT(60), <1>1 DEF Seen
    <2>3. /\ obj'[r].level >= obj[r].level /\ obj'[r].level <= MaxLevel[r]
          /\ ~obj'[r].there => obj'[r] = obj[r]
      BY ZenonT(60), <1>1, <2>1, <2>2 DEF LiveMove, Grows
    <2>4. cobj'[r].level = cobj[r].level \/ cobj'[r].level = obj[r].level
      BY ZenonT(60), <1>5, <1>6, <2>1
    <2>5. MaxLevel[r] \in 0..2 /\ obj[r].level \in 0..2 /\ obj'[r].level \in 0..2 /\ cobj[r].level \in 0..2
      BY ZenonT(60), <1>2, <1>4, <2>1
    <2> QED
      BY <2>2, <2>3, <2>4, <2>5
  <1>9. ASSUME cobj["ClusterClient"].level >= 1 PROVE cobj'["ClusterClient"].level = 1 /\ cobj["ClusterClient"].level = 1
    <2>1. /\ cobj'["ClusterClient"].level <= obj'["ClusterClient"].level /\ obj'["ClusterClient"].level <= 1
          /\ cobj'["ClusterClient"].level >= cobj["ClusterClient"].level
      BY <1>2, <1>8
    <2>2. "ClusterClient" \in Managed
      BY <1>2
    <2>3. cobj["ClusterClient"].level \in 0..2 /\ obj'["ClusterClient"].level \in 0..2 /\ cobj'["ClusterClient"].level \in 0..2
      BY <1>3, <1>4, <2>2 DEF View
    <2> QED
      BY <1>9, <2>1, <2>3
  <1>10. obj'["CcmCsrc"].cli => obj["CcmCsrc"].cli \/ (mode = "pipeline" /\ cli)
    BY Zenon, <1>1, <1>2, <1>4 DEF LiveMove, Grows
  <1>11. ASSUME ClientEnabled /\ cobj["ClusterClient"].level = 1 PROVE cobj'["ClusterClient"].level = 1
    BY <1>9, <1>11
  <1>12. obj'["CcmCsrc"].cli => ClientEnabled /\ cobj'["ClusterClient"].level = 1
    BY Zenon, <1>1, <1>10, <1>11 DEF Seen
  <1>13. ASSUME mode' = "pipeline"
         PROVE  /\ cli' => ClientEnabled /\ cobj'["ClusterClient"].level = 1
                /\ obj'["CcmCsrc"].cli => cli'
    <2>1. CASE mode = "pipeline" /\ cli' = cli
      BY Zenon, <1>1, <1>10, <1>11, <2>1 DEF Seen
    <2>2. CASE ReconcileStart
      <3>1. /\ cli' = (ClientEnabled /\ cobj["ClusterClient"].level = 1)
            /\ obj' = obj
        BY Zenon, <2>2 DEF ReconcileStart, BeginPipeline, objects
      <3> QED
        BY Zenon, <1>1, <1>11, <3>1 DEF Seen
    <2>3. CASE Continues
      <3>1. CASE /\ cli' /\ Current.op = "await" /\ Current.res = "ClusterClient"
                 /\ cobj["ClusterClient"].level >= Current.level
        <4>1. mode = "pipeline" /\ step \in 1..LastStep
          BY ZenonT(60), <1>13, <2>3, Continuing
        <4>2. Current.level = 1 /\ Current.when = "client"
          BY <3>1, <4>1, StepData DEF Current
        <4>3. ~Skipped(Current, my.refs)
          BY <4>1, StepIndex DEF StepOK, Current
        <4>4. ClientEnabled
          BY <4>2, <4>3 DEF Skipped
        <4> QED
          BY <1>9, <3>1, <4>2, <4>4
      <3> QED
        BY ZenonT(60), <1>13, <2>1, <2>3, <3>1, Continuing
    <2> QED
      BY Zenon, <1>13, <2>1, <2>2, <2>3 DEF PassMove
  <1> QED
    BY Zenon, <1>7, <1>8, <1>12, <1>13

\* Generations stay written in the order the informer shows them.
LEMMA OrderedKept ==
    ASSUME TypeOK, TypeOK', Held, Ordered, ClaimMove, WriteMove, WorkerMove PROVE Ordered'
  <1>0. /\ claim.gen \in Nat /\ cclaim.gen \in Nat /\ my.gen \in Nat
        /\ \A r \in Managed : obj[r].gen \in Nat
        /\ \A m \in MapNames : remote[m] \in Nat
    BY Zenon, GenTypes
  <1>1. cclaim'.gen \in Nat /\ cclaim'.gen >= cclaim.gen
    BY <1>0 DEF ClaimMove, Held
  <1>2. ASSUME NEW old \in Nat, NEW new, Writes(old, new), old <= cclaim.gen,
               mode = "pipeline" => old <= my.gen
        PROVE  new \in Nat /\ new <= cclaim.gen /\ (mode = "pipeline" => new <= my.gen)
    BY <1>0, <1>2 DEF Writes, Ordered
  <1>3. ASSUME NEW r \in Managed
        PROVE  obj'[r].gen \in Nat /\ obj'[r].gen <= cclaim.gen /\ (mode = "pipeline" => obj'[r].gen <= my.gen)
    BY ZenonT(60), <1>0, <1>2 DEF WriteMove, Ordered
  <1>4. ASSUME NEW m \in MapNames
        PROVE  remote'[m] \in Nat /\ remote'[m] <= cclaim.gen /\ (mode = "pipeline" => remote'[m] <= my.gen)
    BY <1>0, <1>2 DEF WriteMove, Ordered
  <1>5. mode' = "pipeline" =>
          \/ mode = "pipeline" /\ my' = my
          \/ my'.gen = cclaim.gen
    <2>1. [cclaim EXCEPT !.fin = TRUE].gen = cclaim.gen
      BY ZenonT(60) DEF TypeOK, Claim
    <2> QED
      BY Zenon, <2>1 DEF WorkerMove
  <1>6. mode' = "pipeline" =>
          /\ my'.gen <= cclaim'.gen
          /\ \A r \in Managed : obj'[r].gen <= my'.gen
          /\ \A m \in MapNames : remote'[m] <= my'.gen
    <2>1. CASE mode = "pipeline" /\ my' = my
      <3>1. my.gen <= cclaim'.gen
        BY <1>0, <1>1, <2>1 DEF Ordered
      <3> QED
        BY ZenonT(60), <1>3, <1>4, <2>1, <3>1
    <2>2. CASE my'.gen = cclaim.gen
      BY ZenonT(60), <1>0, <1>1, <1>3, <1>4, <2>2
    <2> QED
      BY ZenonT(60), <1>5, <2>1, <2>2
  <1>7. \A r \in Managed : obj'[r].gen <= cclaim'.gen
    BY <1>0, <1>1, <1>3
  <1>8. \A m \in MapNames : remote'[m] <= cclaim'.gen
    BY <1>0, <1>1, <1>4
  <1> QED
    BY Zenon, <1>6, <1>7, <1>8 DEF Ordered

\* The stored status and the one a pass assembles stay dated.
LEMMA DatedKept ==
    ASSUME TypeOK, StepOK, Safe, Held, Dated, StatusMove, PassMove PROVE Dated'
  <1>0. /\ claim.gen \in Nat /\ cclaim.gen \in Nat /\ my.gen \in Nat /\ claim.status.gen \in Nat
        /\ claim \in Claim /\ cclaim \in Claim /\ cclaim.status \in Status /\ mine \in Status
    BY ZenonT(60) DEF TypeOK, Claim, Status
  <1>1. claim'.status.gen <= claim'.gen
    <2>1. claim.status.gen <= claim.gen /\ cclaim.gen <= claim.gen /\ (mode = "pipeline" => my.gen <= claim.gen)
      BY Zenon DEF Dated, Held, Bounded
    <2> QED
      BY <1>0, <2>1 DEF StatusMove
  <1>2. ASSUME claim'.life # "live" PROVE ~(claim'.status.phase = "Ready" /\ claim'.status.gen = claim'.gen)
    <2>1. claim.status.gen # claim.gen + 1
      BY <1>0 DEF Dated
    <2>2. mode = "delete" => claim.life # "live"
      BY DEF Safe, LifeKnown
    <2>3. /\ claim.life # "live" => ~(claim.status.phase = "Ready" /\ claim.status.gen = claim.gen)
          /\ mode = "pipeline" /\ fresh => claim.life = "live"
      BY DEF Dated
    <2> QED
      BY ZenonT(60), <1>2, <2>1, <2>2, <2>3 DEF StatusMove
  <1>3. ASSUME mode' = "pipeline"
        PROVE  /\ mine'.phase # "Ready" /\ mine'.gen = my'.gen
               /\ fresh' => claim'.life = "live" /\ claim'.gen = my'.gen /\ claim'.refs = my'.refs
    <2>1. CASE UNCHANGED <<mode, my, mine, step, sub, cli, remote>> /\ (fresh' => fresh /\ claim' = claim)
      <3>1. mode = "pipeline" /\ my' = my /\ mine' = mine
        BY <1>3, <2>1
      <3> QED
        BY Zenon, <2>1, <3>1 DEF Dated
    <2>2. CASE ReconcileStart
      <3> DEFINE c == [cclaim EXCEPT !.fin = TRUE]
                 p == setPhase(cclaim.status, "Provisioning", cclaim.gen)
      <3>1. c.gen = cclaim.gen /\ c.refs = cclaim.refs /\ c.life = cclaim.life /\ c.status = cclaim.status
        BY ZenonT(60), <1>0 DEF Claim
      <3>2. my' = c /\ mine' = mirrorStatuses(clearPausedCondition(p), c.refs, cobj)
        <4> HIDE DEF c
        <4>1. BeginPipeline(c)
          BY Zenon, <2>2 DEF ReconcileStart, c
        <4> QED
          BY <3>1, <4>1 DEF BeginPipeline
      <3>3. p \in Status
        <4>1. "Provisioning" \in Phases
          BY DEF Phases
        <4> QED
          BY <1>0, <4>1, StatusTypes
      <3>4. p.phase = "Provisioning" /\ p.gen = cclaim.gen
        BY <1>0 DEF setPhase, Status
      <3>5. clearPausedCondition(p).phase = p.phase /\ clearPausedCondition(p).gen = p.gen /\ clearPausedCondition(p) \in Status
        <4> HIDE DEF p
        <4> QED
          BY Zenon, <1>0, <3>3, Stamped, StatusTypes
      <3>6. ASSUME NEW st \in Status
            PROVE  mirrorStatuses(st, c.refs, cobj).phase = st.phase /\ mirrorStatuses(st, c.refs, cobj).gen = st.gen
        BY ZenonT(60), <3>6 DEF mirrorStatuses, Status
      <3>7. mine'.phase # "Ready" /\ mine'.gen = cclaim.gen
        <4> HIDE DEF p, c
        <4> QED
          BY ZenonT(60), <3>2, <3>4, <3>5, <3>6
      <3>8. ASSUME fresh' PROVE claim'.life = "live" /\ claim'.gen = cclaim.gen /\ claim'.refs = cclaim.refs
        <4>1. ~claimDirty /\ cclaim.life = "live" /\ (claim' = claim \/ claim' = [claim EXCEPT !.fin = TRUE])
          BY Zenon, <2>2, <3>8 DEF ReconcileStart, ensureFinalizer, StoreClaim, server
        <4>2. cclaim = claim
          BY <4>1 DEF Safe, Coherent
        <4> QED
          BY <1>0, <4>1, <4>2 DEF Claim
      <3> QED
        BY Zenon, <3>1, <3>2, <3>7, <3>8
    <2>3. CASE Continues
      <3>1. /\ mode = "pipeline" /\ claim' = claim /\ my' = my /\ fresh' = fresh
            /\ mine' = mine \/ \E c \in Conditions : mine' = setTrue(mine, c)
        BY Zenon, <1>3, <2>3, Continuing
      <3>2. mine'.phase = mine.phase /\ mine'.gen = mine.gen
        <4>1. ASSUME NEW c \in Conditions
              PROVE  setTrue(mine, c).phase = mine.phase /\ setTrue(mine, c).gen = mine.gen
          BY Zenon, <1>0, Marked
        <4>2. CASE \E c \in Conditions : mine' = setTrue(mine, c)
          <5>1. PICK c \in Conditions : mine' = setTrue(mine, c)
            BY Zenon, <4>2
          <5>2. setTrue(mine, c).phase = mine.phase /\ setTrue(mine, c).gen = mine.gen
            BY Zenon, <4>1
          <5> DEFINE t == setTrue(mine, c)
          <5>3. mine' = t /\ t.phase = mine.phase /\ t.gen = mine.gen
            BY Zenon, <5>1, <5>2
          <5> HIDE DEF t
          <5> QED
            BY <5>3
        <4>3. CASE mine' = mine
          BY ZenonT(60), <4>3
        <4> QED
          BY Zenon, <3>1, <4>2, <4>3
      <3> QED
        BY Zenon, <3>1, <3>2 DEF Dated
    <2> QED
      BY Zenon, <1>3, <2>1, <2>2, <2>3 DEF PassMove
  <1> QED
    BY ZenonT(60), <1>1, <1>2, <1>3 DEF Dated

-------------------------------------------------------------------------------
(***************************************************************************)
(* The ConfigMaps in the infra cluster.  They exist only behind its step,  *)
(* which puts it under the finalizer, and so does the kubeconfig.          *)
(***************************************************************************)
\* The infra cluster is under the operator's finalizer.
InfraHeld == obj["ClusterInfra"].guard = "held"

\* No ConfigMap is left in the infra cluster.
NoMaps == \A m \in MapNames : remote[m] = 0

\* ConfigMaps are applied only to an infra cluster that is under the finalizer, and as long as it is, its
\* kubeconfig is there to remove them; a delete pass that has passed them without a failing call removed them.
Traced ==
    /\ faults <= MaxFaults
    /\ \A m \in MapNames : remote[m] # 0 => m \in ConfigMaps
    /\ Working => /\ \A r \in Managed : cobj[r].fin => obj[r].guard = "held"
                  /\ NoMaps \/ InfraHeld
    /\ mode = "pipeline" /\ step > 5 => InfraHeld
    /\ InStep("remote") /\ sub \in MapNames => secret
    /\ InfraHeld => secret \/ NoMaps
    /\ mode = "delete" /\ RemoteConfig \in my.refs \ todo /\ faults = MaxFaults /\ InfraHeld => NoMaps

\* What a step may do to the remote ConfigMaps, the kubeconfig, the failing calls and the plan of a delete pass.
RemoteMove ==
    /\ faults' <= faults
    /\ secret' = secret \/ secret' \/ ~obj["ClusterInfra"].there
    /\ \/ remote' = remote \/ applyRemoteConfigMap
       \/ deleteRemoteConfigMaps
    /\ mode' = "delete" =>
         \/ todo' = deletePlan(cclaim.refs) /\ my'.refs = cclaim.refs
         \/ mode = "delete" /\ my' = my /\ (RemoteConfig \in todo => RemoteConfig \in todo')
         \/ deleteRemoteConfigMaps

\* Every step treats them as RemoteMove says.
LEMMA RemoteMoves == ASSUME TypeOK, [Next]_vars PROVE RemoteMove
  <1>0. faults \in Nat /\ secret \in BOOLEAN
    BY Zenon DEF TypeOK
  <1>f. faults <= faults /\ (faults > 0 => faults - 1 \in Nat /\ faults - 1 <= faults)
    BY <1>0
  <1>1. ASSUME NEW was, NEW st, NEW current, NEW f \in Nat, f <= faults, NEW ok, updateStatusIfChanged(was, st, current, f, ok)
        PROVE  faults' <= faults
    <2>1. faults' = f \/ (f > 0 /\ faults' = f - 1)
      BY Zenon, <1>1 DEF updateStatusIfChanged
    <2> QED
      BY <1>0, <1>1, <2>1
  <1>2. ASSUME NEW st, NEW f \in Nat, f <= faults, NEW requeue, EndPass(st, f, requeue) PROVE faults' <= faults
    BY Zenon, <1>1, <1>2 DEF EndPass
  <1>3. ASSUME NEW st, NEW f \in Nat, f <= faults, TerminalError(st, f) \/ TransientError(st, f) PROVE faults' <= faults
    BY Zenon, <1>2, <1>3 DEF TerminalError, TransientError
  <1>4. ASSUME NEW c, Wait(c) PROVE faults' <= faults
    BY Zenon, <1>0, <1>f, <1>2, <1>4 DEF Wait
  <1>5. ASSUME Fault PROVE faults' <= faults
    BY <1>0, <1>5 DEF Fault
  <1>6. ASSUME faults' <= faults, secret' = secret, remote' = remote \/ applyRemoteConfigMap \/ deleteRemoteConfigMaps,
               mode' = "delete" => \/ todo' = deletePlan(cclaim.refs) /\ my'.refs = cclaim.refs
                                   \/ mode = "delete" /\ my' = my /\ (RemoteConfig \in todo => RemoteConfig \in todo')
                                   \/ deleteRemoteConfigMaps
        PROVE  RemoteMove
    BY Zenon, <1>6 DEF RemoteMove
  <1>7. GoIdle => mode' # "delete"
    BY Zenon DEF GoIdle
  <1>8. ASSUME NEW st, NEW f, TerminalError(st, f) \/ TransientError(st, f) PROVE mode' # "delete"
    BY Zenon, <1>7, <1>8 DEF TerminalError, TransientError, EndPass
  <1>9. ASSUME NEW c, Wait(c) PROVE mode' # "delete"
    BY Zenon, <1>7, <1>9 DEF Wait, EndPass
  <1>10. "pipeline" # "delete" /\ "idle" # "delete"
    OBVIOUS
  <1>11. CASE ReconcileNotFound \/ reconcilePaused \/ ReconcileStart \/ ensureFinalizerFails
    <2>1. mode' # "delete"
      BY ZenonT(60), <1>7, <1>10, <1>11 DEF ReconcileNotFound, reconcilePaused, ReconcileStart, ensureFinalizerFails, BeginPipeline,
                                       ReturnError, Take, worker
    <2>2. secret' = secret /\ remote' = remote
      BY Zenon, <1>11 DEF ReconcileNotFound, reconcilePaused, ReconcileStart, ensureFinalizerFails, external
    <2>3. CASE reconcilePaused
      BY ZenonT(60), <1>0, <1>f, <1>1, <1>6, <2>1, <2>2, <2>3 DEF reconcilePaused
    <2>4. CASE ReconcileNotFound \/ ReconcileStart \/ ensureFinalizerFails
      BY Zenon, <1>f, <1>5, <1>6, <2>1, <2>2, <2>4 DEF ReconcileNotFound, ReconcileStart, ensureFinalizerFails
    <2> QED
      BY Zenon, <1>11, <2>3, <2>4
  <1>12. CASE ensureResource \/ ensureResourceFinalizer \/ applyRemoteConfigMap
    <2>1. mode = "pipeline" /\ mode' = mode /\ secret' = secret /\ faults' = faults /\ (remote' = remote \/ applyRemoteConfigMap)
      BY Zenon, <1>12 DEF ensureResource, ensureResourceFinalizer, applyRemoteConfigMap, Proceed, InStep, external
    <2> QED
      BY Zenon, <1>f, <1>6, <1>10, <2>1
  <1>13. CASE ensureResourceFails \/ ensureResourceFinalizerFails
    <2>1. secret' = secret /\ remote' = remote
      BY Zenon, <1>13 DEF ensureResourceFails, ensureResourceFinalizerFails, external
    <2>2. PICK f \in Nat : f <= faults /\ (TerminalError(mine, f) \/ TransientError(mine, f))
      BY Zenon, <1>0, <1>f, <1>13 DEF ensureResourceFails, ensureResourceFinalizerFails
    <2> QED
      BY Zenon, <1>3, <1>6, <1>8, <2>1, <2>2
  <1>14. CASE AwaitStep \/ KmsStep
    <2>1. secret' = secret /\ remote' = remote /\ mode = "pipeline"
      BY Zenon, <1>14 DEF AwaitStep, KmsStep, InStep, external
    <2>2. faults' <= faults /\ mode' # "delete"
      BY ZenonT(60), <1>0, <1>f, <1>3, <1>4, <1>8, <1>9, <1>10, <1>14, <2>1 DEF AwaitStep, KmsStep, Proceed
    <2> QED
      BY Zenon, <1>6, <2>1, <2>2
  <1>15. CASE RemoteConnect \/ applyRemoteConfigMapFails
    <2>1. secret' = secret /\ remote' = remote /\ mode = "pipeline"
      BY Zenon, <1>15 DEF RemoteConnect, applyRemoteConfigMapFails, InStep, external
    <2>2. faults' <= faults /\ mode' # "delete"
      BY ZenonT(60), <1>0, <1>f, <1>3, <1>4, <1>8, <1>9, <1>10, <1>15, <2>1 DEF RemoteConnect, applyRemoteConfigMapFails
    <2> QED
      BY Zenon, <1>6, <2>1, <2>2
  <1>16. CASE Ready
    <2>1. secret' = secret /\ remote' = remote /\ mode' # "delete" /\ faults' <= faults
      BY ZenonT(60), <1>0, <1>f, <1>2, <1>7, <1>16 DEF Ready, EndPass, external
    <2> QED
      BY Zenon, <1>6, <2>1
  <1>17. CASE reconcileDelete
    <2>1. secret' = secret /\ remote' = remote
      BY Zenon, <1>17 DEF reconcileDelete, external
    <2>2. faults' <= faults
      BY ZenonT(60), <1>0, <1>f, <1>1, <1>17 DEF reconcileDelete
    <2>3. mode' = "delete" => todo' = deletePlan(cclaim.refs) /\ \E st : my' = [cclaim EXCEPT !.status = st]
      BY ZenonT(60), <1>7, <1>17 DEF reconcileDelete, ReturnError
    <2>4. cclaim \in Claim
      BY Zenon DEF TypeOK
    <2>5. ASSUME NEW st, my' = [cclaim EXCEPT !.status = st] PROVE my'.refs = cclaim.refs
      BY <2>4, <2>5 DEF Claim
    <2> QED
      BY Zenon, <1>6, <2>1, <2>2, <2>3, <2>5
  <1>18. CASE deleteRemoteConfigMaps
    <2>1. secret' = secret /\ faults' <= faults
      BY ZenonT(60), <1>f, <1>5, <1>18 DEF deleteRemoteConfigMaps, external
    <2> QED
      BY Zenon, <1>6, <1>18, <2>1
  <1>19. CASE removeFinalizer
    <2>1. secret' = secret /\ remote' = remote /\ mode' # "delete" /\ faults' <= faults
      BY Zenon, <1>f, <1>5, <1>7, <1>19 DEF removeFinalizer, ReturnError
    <2> QED
      BY Zenon, <1>6, <2>1
  <1>20. ASSUME NEW r \in Managed,
                \/ removeResourceFinalizer(r) \/ removeResourceFinalizerFails(r)
                \/ deleteAndWait(r) \/ deleteResource(r)
         PROVE  RemoteMove
    <2>1. secret' = secret /\ remote' = remote /\ mode = "delete"
      BY Zenon, <1>20 DEF removeResourceFinalizer, removeResourceFinalizerFails, deleteAndWait, deleteResource, external, Visiting
    <2>2. faults' <= faults
      BY ZenonT(60), <1>f, <1>5, <1>20 DEF removeResourceFinalizer, removeResourceFinalizerFails, deleteAndWait, deleteResource
    <2>3. mode' = "delete" => my' = my /\ (todo' = todo \/ todo' = todo \ {r})
      BY Zenon, <1>7, <1>20 DEF removeResourceFinalizer, removeResourceFinalizerFails, deleteAndWait, deleteResource,
                                ReturnError, PassOn
    <2>4. r # RemoteConfig
      BY DEF Managed, Optional, ClientOnly, RemoteConfig
    <2> QED
      BY ZenonT(60), <1>6, <2>1, <2>2, <2>3, <2>4
  <1>21. CASE Pass
    BY ZenonT(60), <1>11, <1>12, <1>13, <1>14, <1>15, <1>16, <1>17, <1>18, <1>19, <1>20, <1>21 DEF Pass
  <1>22. ASSUME UNCHANGED <<faults, secret, remote, mode, my, todo>> PROVE RemoteMove
    BY Zenon, <1>f, <1>6, <1>22
  <1>23. CASE User \/ EndForeground
    BY Zenon, <1>22, <1>23 DEF User, EditSpec, Pause, Unpause, TouchLabels, DeleteClaim, EndForeground, Change
  <1>24. CASE World
    <2>1. CASE KubeconfigSecret
      BY Zenon, <1>f, <2>1 DEF KubeconfigSecret, RemoteMove, worker
    <2>2. CASE \E r \in Managed : CollectDependent(r) \/ Advance(r) \/ Regress(r) \/ ForeignCleanup(r)
      BY Zenon, <1>22, <2>2 DEF CollectDependent, Advance, Regress, ForeignCleanup, OnObject, worker
    <2>3. CASE \E t \in Blockable : Block(t) \/ Unblock(t)
      BY Zenon, <1>22, <2>3 DEF Block, Unblock, SetObstacle, worker
    <2> QED
      BY ZenonT(60), <1>23, <1>24, <2>1, <2>2, <2>3 DEF World
  <1>25. CASE Deliver
    BY Zenon, <1>22, <1>25 DEF Deliver, SyncClaim, SyncKind, TimerFires, worker, external
  <1>26. CASE Crash
    BY Zenon, <1>f, <1>6, <1>7, <1>26 DEF Crash
  <1>27. CASE UNCHANGED vars
    BY Zenon, <1>22, <1>27 DEF vars
  <1> QED
    BY Zenon, <1>21, <1>23, <1>24, <1>25, <1>26, <1>27 DEF Next

\* Where the infra cluster is ensured and where the remote ConfigMaps are applied.
LEMMA InfraData ==
    /\ 5 \in 1..LastStep /\ pipelineSteps[5].op = "ensure" /\ pipelineSteps[5].res = "ClusterInfra"
    /\ \A refs : ~Skipped(pipelineSteps[5], refs)
    /\ \A i \in 1..LastStep : pipelineSteps[i].op = "remote" => i > 5
  <1>1. 5 \in 1..LastStep /\ pipelineSteps[5] = stepClusterInfra
    BY DEF LastStep, pipelineSteps
  <1>2. stepClusterInfra.op = "ensure" /\ stepClusterInfra.res = "ClusterInfra" /\ stepClusterInfra.when = "always"
    BY DEF stepClusterInfra, Ensure
  <1>3. \A refs : ~Skipped(stepClusterInfra, refs)
    BY <1>2 DEF Skipped
  <1>4. /\ pipelineSteps[1].op # "remote" /\ pipelineSteps[2].op # "remote" /\ pipelineSteps[3].op # "remote"
        /\ pipelineSteps[4].op # "remote" /\ pipelineSteps[5].op # "remote"
    BY Zenon DEF pipelineSteps, Ensure, Await, stepApplication, stepEnsureS3BucketClaim, stepCertificateSetInfra,
           stepWaitCertSetReady, stepClusterInfra
  <1>5. ASSUME NEW i \in 1..LastStep, pipelineSteps[i].op = "remote" PROVE i > 5
    <2>1. i # 1 /\ i # 2 /\ i # 3 /\ i # 4 /\ i # 5
      BY Zenon, <1>4, <1>5
    <2> QED
      BY <2>1, StepIndex
  <1> QED
    BY Zenon, <1>1, <1>2, <1>3, <1>5

\* Only the pipeline puts a resource under the finalizer, and only a delete pass that has come to it takes it away.
LEMMA GuardMoves ==
    ASSUME TypeOK, Observed, ObjectsMove, NEW r \in Managed
    PROVE  /\ obj[r].guard # "held" /\ obj'[r].guard = "held" => mode = "pipeline"
           /\ obj[r].guard = "held" /\ obj'[r].guard # "held" => Visiting(r)
  <1>0. obj \in [Managed -> Object]
    BY Zenon DEF TypeOK
  <1>1. CASE obj' = obj
    BY Zenon, <1>1
  <1>2. ASSUME NEW q \in Managed, NEW o \in Object, Store(q, o), ObjectMove(q, o)
        PROVE  /\ obj[r].guard # "held" /\ obj'[r].guard = "held" => mode = "pipeline"
               /\ obj[r].guard = "held" /\ obj'[r].guard # "held" => Visiting(r)
    <2>1. obj' = [obj EXCEPT ![q] = o]
      BY <1>2 DEF Store
    <2>2. CASE r # q
      BY Zenon, <1>0, <2>1, <2>2
    <2>3. CASE r = q
      <3>1. obj'[r] = o /\ ObjectMove(r, o) /\ obj[r] \in Object
        BY ZenonT(60), <1>0, <1>2, <2>1, <2>3
      <3>2. ReleaseOf(r, obj[r]).guard # "held" /\ Absent.guard # "held"
        BY <3>1 DEF ReleaseOf, Absent, Object
      <3>3. [obj[r] EXCEPT !.guard = "held"].guard = "held"
        BY <3>1 DEF Object
      <3>4. obj[r].guard # "never" => obj[r].there
        BY Zenon DEF Observed
      <3>5. "held" # "never"
        OBVIOUS
      <3> QED
        BY ZenonT(60), <3>1, <3>2, <3>3, <3>4, <3>5 DEF ObjectMove
    <2> QED
      BY Zenon, <2>2, <2>3
  <1> QED
    BY Zenon, <1>1, <1>2 DEF ObjectsMove

\* Every step keeps the ConfigMaps traceable.
LEMMA TracedKept ==
    ASSUME TypeOK, TypeOK', StepOK, Safe, Traced, ClaimMove, ObjectsMove, WorkerMove, PassMove, RemoteMove
    PROVE  Traced'
  <1>0. /\ "ClusterInfra" \in Managed /\ ConfigMaps \subseteq MapNames /\ remote \in [MapNames -> Nat]
        /\ faults \in Nat /\ faults' \in Nat /\ MaxFaults \in Nat /\ Observed /\ LifeKnown
    BY ZenonT(60), SystemAssumption, ConfigAssumption DEF Managed, TypeOK, Safe
  <1>t. step \in 0..(LastStep + 1) /\ LastStep \in Nat /\ secret \in BOOLEAN /\ secret' \in BOOLEAN
    BY ZenonT(60), StepIndex DEF TypeOK
  <1>g. /\ \A r \in Managed : mode # "delete" /\ obj[r].guard = "held" => obj'[r].guard = "held"
        /\ ~InfraHeld /\ InfraHeld' => mode = "pipeline"
    BY Zenon, <1>0, GuardMoves DEF InfraHeld, Visiting
  <1>w. Working' => Working /\ mode # "delete"
    BY Zenon, <1>0, WorkingBack
  <1>i. InfraHeld => obj["ClusterInfra"].there
    <2>1. "held" # "never"
      OBVIOUS
    <2> QED
      BY Zenon, <1>0, <2>1 DEF InfraHeld, Observed
  <1>s. InfraHeld /\ secret => secret'
    BY Zenon, <1>i DEF RemoteMove
  <1>a. ASSUME applyRemoteConfigMap
        PROVE  /\ mode = "pipeline" /\ sub \in ConfigMaps /\ sub \in MapNames /\ secret /\ secret' /\ InfraHeld
               /\ remote' = [remote EXCEPT ![sub] = my.gen]
    <2>1. InStep("remote") /\ sub \in ConfigMaps /\ secret' = secret /\ remote' = [remote EXCEPT ![sub] = my.gen]
      BY Zenon, <1>a DEF applyRemoteConfigMap, external
    <2>2. sub \in MapNames /\ mode = "pipeline" /\ step <= LastStep /\ pipelineSteps[step].op = "remote"
      BY Zenon, <1>0, <2>1 DEF InStep, Current
    <2>3. secret
      BY Zenon, <2>1, <2>2 DEF Traced
    <2>4. step >= 1
      BY <2>2 DEF StepOK
    <2>5. step \in 1..LastStep
      BY <1>t, <2>2, <2>4
    <2>6. step > 5
      BY Zenon, <2>2, <2>5, InfraData
    <2> QED
      BY Zenon, <2>1, <2>2, <2>3, <2>6 DEF Traced
  <1>d. ASSUME deleteRemoteConfigMaps
        PROVE  /\ mode = "delete" /\ RemoteConfig \in todo
               /\ \A m \in MapNames : remote'[m] \in {remote[m], 0}
               /\ (~secret /\ remote' = remote) \/ NoMaps' \/ faults' = faults - 1
    <2>1. mode = "delete" /\ RemoteConfig \in todo
      BY Zenon, <1>d DEF deleteRemoteConfigMaps, Visiting
    <2>2. CASE ~secret /\ remote' = remote
      BY Zenon, <2>1, <2>2
    <2>3. CASE remote' = [m \in MapNames |-> 0]
      BY Zenon, <2>1, <2>3 DEF NoMaps
    <2>4. ASSUME NEW kept, remote' = [m \in MapNames |-> IF m \in kept THEN remote[m] ELSE 0], faults' = faults - 1
          PROVE  /\ \A m \in MapNames : remote'[m] \in {remote[m], 0}
                 /\ faults' = faults - 1
      BY ZenonT(60), <2>4
    <2> QED
      BY ZenonT(60), <1>d, <2>1, <2>2, <2>3, <2>4 DEF deleteRemoteConfigMaps, Fault
  <1>1. faults' <= MaxFaults /\ (faults' = MaxFaults => faults = MaxFaults)
    BY <1>0 DEF Traced, RemoteMove
  <1>2. \A m \in MapNames : remote'[m] # 0 => m \in ConfigMaps
    <2> SUFFICES ASSUME NEW m \in MapNames, remote'[m] # 0 PROVE m \in ConfigMaps
      OBVIOUS
    <2>1. remote[m] # 0 => m \in ConfigMaps
      BY Zenon DEF Traced
    <2>2. CASE applyRemoteConfigMap
      BY Zenon, <1>0, <1>a, <2>1, <2>2
    <2>3. CASE deleteRemoteConfigMaps
      BY Zenon, <1>d, <2>1, <2>3
    <2> QED
      BY Zenon, <2>1, <2>2, <2>3 DEF RemoteMove
  <1>3. ASSUME Working' PROVE /\ \A r \in Managed : cobj'[r].fin => obj'[r].guard = "held"
                              /\ NoMaps' \/ InfraHeld'
    <2>1. Working /\ mode # "delete"
      BY <1>3, <1>w
    <2>2. /\ \A r \in Managed : cobj[r].fin => obj[r].guard = "held"
          /\ NoMaps \/ InfraHeld
      BY Zenon, <2>1 DEF Traced
    <2>3. ASSUME NEW r \in Managed, cobj'[r].fin PROVE obj'[r].guard = "held"
      <3>1. CASE cobj'[r] = cobj[r]
        BY ZenonT(60), <1>g, <2>1, <2>2, <2>3, <3>1
      <3>2. CASE obj' = obj /\ cobj'[r] = ViewOf(r, obj[r])
        <4>1. ViewOf(r, obj[r]).fin <=> obj[r].guard = "held"
          BY Zenon DEF ViewOf
        <4> QED
          BY Zenon, <2>3, <3>2, <4>1
      <3> QED
        BY Zenon, <3>1, <3>2 DEF ObjectsMove
    <2>4. InfraHeld => InfraHeld'
      BY Zenon, <1>0, <1>g, <2>1 DEF InfraHeld
    <2>5. CASE remote' = remote
      BY ZenonT(60), <2>2, <2>3, <2>4, <2>5 DEF NoMaps
    <2>6. CASE applyRemoteConfigMap
      BY Zenon, <1>a, <2>3, <2>4, <2>6
    <2>7. ~deleteRemoteConfigMaps
      BY Zenon, <1>d, <2>1
    <2> QED
      BY Zenon, <2>5, <2>6, <2>7 DEF RemoteMove
  <1>4. ASSUME mode' = "pipeline", step' > 5 PROVE InfraHeld'
    <2>0. mode # "delete" /\ (InfraHeld => InfraHeld')
      <3>1. Working'
        BY Zenon, <1>4 DEF Working
      <3> QED
        BY Zenon, <1>0, <1>g, <1>w, <3>1 DEF InfraHeld
    <2>1. CASE UNCHANGED <<mode, my, mine, step, sub, cli, remote>>
      BY Zenon, <1>4, <2>0, <2>1 DEF Traced
    <2>2. CASE ReconcileStart
      <3>1. PICK j \in 1..(LastStep + 1) : (\E refs : NextStep(0, j, refs)) /\ step' = j
        BY Zenon, <2>2 DEF ReconcileStart, BeginPipeline
      <3>2. 5 \in (0 + 1)..(j - 1)
        BY <1>4, <3>1, StepIndex
      <3> QED
        BY Zenon, <3>1, <3>2, InfraData DEF NextStep
    <2>3. CASE Continues
      <3>1. mode = "pipeline" /\ step \in 1..LastStep
        BY Zenon, <1>4, <2>3, Continuing
      <3>2. CASE step > 5
        BY Zenon, <2>0, <3>1, <3>2 DEF Traced
      <3>3. CASE step <= 5
        <4>1. step' # step
          BY <1>4, <1>t, <3>3
        <4>2. ASSUME NEW c, Proceed(c) PROVE step = 5
          <5>1. PICK j \in 1..(LastStep + 1) : NextStep(step, j, my.refs) /\ step' = j
            BY Zenon, <4>2 DEF Proceed
          <5>2. 5 \notin (step + 1)..(j - 1)
            BY Zenon, <5>1, InfraData DEF NextStep
          <5> QED
            BY <1>4, <3>1, <3>3, <5>1, <5>2, StepIndex
        <4>3. step = 5 => Current.op = "ensure" /\ Current.res = "ClusterInfra"
          BY Zenon, InfraData DEF Current
        <4>4. "ensure" # "await" /\ "ensure" # "kms" /\ "ensure" # "remote" /\ "ensure" # "reapply"
          OBVIOUS
        <4>5. ~GoIdle
          BY <1>4 DEF GoIdle
        <4>6. ASSUME NEW st, NEW f, TerminalError(st, f) \/ TransientError(st, f) PROVE FALSE
          BY Zenon, <4>5, <4>6 DEF TerminalError, TransientError, EndPass
        <4>7. ASSUME NEW c, Wait(c) PROVE FALSE
          BY Zenon, <4>5, <4>7 DEF Wait, EndPass
        <4>8. ~AwaitStep
          BY ZenonT(60), <4>2, <4>3, <4>4, <4>6, <4>7 DEF AwaitStep, InStep
        <4>9. ~KmsStep
          BY Zenon, <4>2, <4>3, <4>4, <4>7 DEF KmsStep, InStep
        <4>10. ~RemoteConnect
          BY Zenon, <4>1, <4>6, <4>7 DEF RemoteConnect
        <4>11. ~applyRemoteConfigMap
          BY ZenonT(60), <4>1, <4>2, <4>3, <4>4 DEF applyRemoteConfigMap, InStep
        <4>12. ~ensureResource
          BY Zenon, <4>1, <4>2, <4>3, <4>4 DEF ensureResource, InStep
        <4>13. ensureResourceFinalizer
          BY ZenonT(60), <2>3, <4>8, <4>9, <4>10, <4>11, <4>12 DEF Continues
        <4>14. Current.res = "ClusterInfra"
          BY Zenon, <4>2, <4>3, <4>13 DEF ensureResourceFinalizer
        <4>15. CASE cobj["ClusterInfra"].fin
          <5>1. InfraHeld
            BY Zenon, <1>0, <3>1, <4>15 DEF Traced, Working, InfraHeld
          <5> QED
            BY Zenon, <2>0, <5>1
        <4>16. CASE ~cobj["ClusterInfra"].fin
          <5>1. Store("ClusterInfra", [obj["ClusterInfra"] EXCEPT !.guard = "held"])
            BY ZenonT(60), <4>13, <4>14, <4>16 DEF ensureResourceFinalizer
          <5>2. obj["ClusterInfra"] \in Object /\ obj \in [Managed -> Object]
            BY ZenonT(60), <1>0 DEF TypeOK
          <5>3. obj'["ClusterInfra"] = [obj["ClusterInfra"] EXCEPT !.guard = "held"]
            BY Zenon, <1>0, <5>1, <5>2 DEF Store
          <5> QED
            BY <5>2, <5>3 DEF InfraHeld, Object
        <4> QED
          BY Zenon, <4>15, <4>16
      <3> QED
        BY <1>t, <3>2, <3>3
    <2> QED
      BY Zenon, <1>4, <2>1, <2>2, <2>3 DEF PassMove
  <1>5. ASSUME InStep("remote")', sub' \in MapNames PROVE secret'
    <2>0. mode' = "pipeline" /\ "apply" \notin MapNames /\ "finalize" \notin MapNames
      BY <1>5 DEF InStep, MapNames
    <2>1. CASE UNCHANGED <<mode, my, mine, step, sub, cli, remote>>
      <3>1. InStep("remote") /\ sub \in MapNames
        BY Zenon, <1>5, <2>1 DEF InStep, Current
      <3>2. secret
        BY Zenon, <3>1 DEF Traced
      <3>3. mode = "pipeline" /\ step >= 1 /\ step <= LastStep /\ pipelineSteps[step].op = "remote"
        BY Zenon, <3>1 DEF InStep, StepOK, Current
      <3>4. step \in 1..LastStep
        BY <1>t, <3>3
      <3>5. step > 5
        BY Zenon, <3>3, <3>4, InfraData
      <3>6. InfraHeld
        BY Zenon, <3>3, <3>5 DEF Traced
      <3> QED
        BY Zenon, <1>s, <3>2, <3>6
    <2>2. CASE ReconcileStart
      BY Zenon, <1>5, <2>0, <2>2 DEF ReconcileStart, BeginPipeline
    <2>3. CASE Continues
      <3>1. ~GoIdle
        BY ZenonT(60), <2>0 DEF GoIdle
      <3>2. ASSUME NEW st, NEW f, TerminalError(st, f) \/ TransientError(st, f) PROVE FALSE
        BY Zenon, <3>1, <3>2 DEF TerminalError, TransientError, EndPass
      <3>3. ASSUME NEW c, Wait(c) PROVE FALSE
        BY Zenon, <3>1, <3>3 DEF Wait, EndPass
      <3>4. ASSUME NEW c, Proceed(c) PROVE FALSE
        BY Zenon, <1>5, <2>0, <3>4 DEF Proceed
      <3>5. ~ensureResource /\ ~ensureResourceFinalizer /\ ~KmsStep
        BY ZenonT(60), <1>5, <2>0, <3>3, <3>4 DEF ensureResource, ensureResourceFinalizer, KmsStep
      <3>6. ~AwaitStep
        BY ZenonT(60), <3>2, <3>3, <3>4 DEF AwaitStep
      <3>7. RemoteConnect => secret'
        <4>1. RemoteConnect => secret /\ secret' = secret
          BY Zenon, <3>2, <3>3 DEF RemoteConnect, external
        <4> QED
          BY <1>t, <4>1
      <3> QED
        BY ZenonT(60), <1>a, <2>3, <3>5, <3>6, <3>7 DEF Continues
    <2> QED
      BY ZenonT(60), <2>0, <2>1, <2>2, <2>3 DEF PassMove
  <1>6. ASSUME InfraHeld' PROVE secret' \/ NoMaps'
    <2>1. CASE applyRemoteConfigMap
      BY ZenonT(60), <1>a, <2>1
    <2>2. CASE InfraHeld /\ ~applyRemoteConfigMap
      <3>1. secret \/ NoMaps
        BY Zenon, <2>2 DEF Traced
      <3>2. NoMaps => NoMaps'
        BY Zenon, <1>d, <2>2 DEF RemoteMove, NoMaps
      <3> QED
        BY Zenon, <1>s, <2>2, <3>1, <3>2
    <2>3. CASE ~InfraHeld /\ ~applyRemoteConfigMap
      <3>1. mode = "pipeline" /\ mode # "delete"
        BY <1>6, <1>g, <2>3
      <3>2. NoMaps
        BY Zenon, <2>3, <3>1 DEF Traced, Working
      <3> QED
        BY ZenonT(60), <1>d, <2>3, <3>1, <3>2 DEF RemoteMove, NoMaps
    <2> QED
      BY Zenon, <2>1, <2>2, <2>3
  <1>7. ASSUME mode' = "delete", RemoteConfig \in my'.refs, RemoteConfig \notin todo', faults' = MaxFaults, InfraHeld'
        PROVE  NoMaps'
    <2>1. ~(todo' = deletePlan(cclaim.refs) /\ my'.refs = cclaim.refs)
      BY Zenon, <1>7 DEF deletePlan
    <2>2. CASE deleteRemoteConfigMaps
      <3>1. mode = "delete" /\ mode # "pipeline"
        BY <1>d, <2>2
      <3>2. InfraHeld
        BY ZenonT(60), <1>7, <1>g, <3>1
      <3>3. faults' # faults - 1
        BY <1>0, <1>1, <1>7
      <3>4. ~secret => NoMaps
        BY Zenon, <3>2 DEF Traced
      <3> QED
        BY ZenonT(60), <1>d, <2>2, <3>3, <3>4 DEF NoMaps
    <2>3. CASE mode = "delete" /\ my' = my /\ RemoteConfig \notin todo
      <3>1. mode # "pipeline"
        BY <2>3
      <3>2. InfraHeld
        BY Zenon, <1>7, <1>g, <3>1
      <3>3. NoMaps
        BY Zenon, <1>1, <1>7, <2>3, <3>2 DEF Traced
      <3> QED
        BY ZenonT(60), <1>a, <1>d, <2>3, <3>1, <3>3 DEF RemoteMove, NoMaps
    <2> QED
      BY Zenon, <1>7, <2>1, <2>2, <2>3 DEF RemoteMove
  <1> QED
    BY ZenonT(60), <1>1, <1>2, <1>3, <1>4, <1>5, <1>6, <1>7 DEF Traced

\* Initially there is nothing to remove.
LEMMA InitTraced == Init => Traced
  <1> SUFFICES ASSUME Init PROVE Traced
    OBVIOUS
  <1>1. /\ remote = [m \in MapNames |-> 0] /\ faults = MaxFaults /\ mode = "idle" /\ MaxFaults \in Nat
        /\ cobj = [r \in Managed |-> ViewOf(r, Absent)]
    BY Zenon, SystemAssumption DEF Init
  <1>2. NoMaps /\ faults <= MaxFaults /\ mode # "pipeline" /\ mode # "delete"
    BY <1>1 DEF NoMaps
  <1>3. \A r \in Managed : ~cobj[r].fin
    BY Zenon, <1>1 DEF ViewOf, Absent
  <1> QED
    BY Zenon, <1>2, <1>3 DEF Traced, NoMaps, InStep

\* From the moves of a step, by the lemmas above.
LEMMA TracedAlways == Spec => []Traced
  <1>1. TypeOK /\ StepOK /\ Safe /\ TypeOK' /\ Traced /\ [Next]_vars => Traced'
    BY ZenonT(60), ClaimMoves, ObjectMoves, WorkerMoves, PassMoves, RemoteMoves, TracedKept
  <1> QED
    BY <1>1, InitTraced, TypeCorrect, Safety, PTL DEF Spec

(***************************************************************************)
(* The infra cluster is released only when no ConfigMap is left in it,     *)
(* unless a call failed or the spec that is deleted has no                 *)
(* configMapTemplateRef (RemoteMapsGoFirst): deleteRemoteConfigMaps comes  *)
(* before it, and the kubeconfig it needs is still there.  Any other       *)
(* reference may have been dropped by edits before that.                   *)
(***************************************************************************)
THEOREM RemoteMapsAreRemoved == Spec => RemoteMapsGoFirst
  <1>1. TypeOK /\ StepOK /\ Safe /\ Traced /\ [Next]_vars =>
          (/\ obj["ClusterInfra"].guard = "held" /\ obj'["ClusterInfra"].guard # "held"
           /\ RemoteConfig \in my.refs /\ faults = MaxFaults
           => \A m \in MapNames : remote[m] = 0)
    <2> SUFFICES ASSUME TypeOK, StepOK, Safe, Traced, [Next]_vars, RemoteConfig \in my.refs, faults = MaxFaults,
                        obj["ClusterInfra"].guard = "held", obj'["ClusterInfra"].guard # "held"
                 PROVE  \A m \in MapNames : remote[m] = 0
      OBVIOUS
    <2>1. "ClusterInfra" \in Managed /\ Observed /\ ObjectsMove
      BY ObjectMoves DEF Managed, Safe
    <2>2. Visiting("ClusterInfra")
      BY Zenon, <2>1, GuardMoves
    <2>3. Rank("ClusterInfra") = 7 /\ Rank(RemoteConfig) = 4
      BY DEF Rank, RemoteConfig
    <2>4. mode = "delete" /\ RemoteConfig \notin todo
      BY <2>2, <2>3 DEF Visiting
    <2> QED
      BY Zenon, <2>4 DEF Traced, InfraHeld, NoMaps
  <1> QED
    BY <1>1, TracedAlways, TypeCorrect, Safety, PTL DEF Spec, RemoteMapsGoFirst

=================================================================================
