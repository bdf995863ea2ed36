---------------------------- MODULE AdmissionProofs ----------------------------
(***************************************************************************)
(* Proofs about admission, for any set of modes and any order of edits,    *)
(* deletions, webhook outages and updates by the operator.                 *)
(***************************************************************************)
EXTENDS Admission, TLAPS

\* Time limits for the provers, in seconds.
USE SMTT(60), ZenonT(60)

TypeOK ==
    /\ configured \in BOOLEAN /\ serving \in BOOLEAN /\ fin \in BOOLEAN /\ fresh \in BOOLEAN
    /\ life \in {"live", "deleting", "gone"}
    /\ spec \in Specs /\ copy \in Specs
    /\ first \in [infra: Modes \union {Unset}, client: Modes \union {Unset}]

\* The mode of the client cluster is a mode or unset.
LEMMA ModeType == ASSUME NEW s \in Specs PROVE clientIpamMode(s) \in Modes \union {Unset}
  BY DEF Specs, clientIpamMode

\* The history of a new claim, and of one that is updated.
LEMMA HistoryType ==
    ASSUME TypeOK, NEW s \in Specs
    PROVE  /\ FirstModes(s) \in [infra: Modes \union {Unset}, client: Modes \union {Unset}]
           /\ Remember(s) \in [infra: Modes \union {Unset}, client: Modes \union {Unset}]
  <1>1. s.infra \in Modes \union {Unset} /\ clientIpamMode(s) \in Modes \union {Unset}
    BY ModeType DEF Specs
  <1>2. first.infra \in Modes \union {Unset} /\ first.client \in Modes \union {Unset}
    BY DEF TypeOK
  <1> QED
    BY <1>1, <1>2 DEF FirstModes, Remember

\* An admitted update of an existing claim.
Update(new) == new \in Specs /\ Admits(spec, new) /\ spec' = new /\ first' = Remember(new)

\* Every step is an admitted update, a creation where there was no claim, or leaves the spec alone.
LEMMA Steps ==
    ASSUME TypeOK, [Next]_vars
    PROVE  /\ configured' = configured
           /\ \/ \E s \in Specs : Update(s)
              \/ \E s \in Specs : life = "gone" /\ spec' = s /\ first' = FirstModes(s)
              \/ UNCHANGED <<spec, first>>
  <1>1. ASSUME NEW s \in Specs, UserUpdate(s) PROVE configured' = configured /\ Update(s)
    BY <1>1 DEF UserUpdate, Update
  <1>2. ASSUME NEW s \in Specs, CreateClaim(s)
        PROVE  configured' = configured /\ life = "gone" /\ spec' = s /\ first' = FirstModes(s)
    BY <1>2 DEF CreateClaim, Created
  <1>3. CASE OperatorUpdate
    <2>1. copy \in Specs /\ configured' = configured /\ Update(copy)
      BY <1>3 DEF OperatorUpdate, UpdateTaken, Update, Written, TypeOK
    <2> QED
      BY <2>1, Zenon
  <1>4. CASE DeleteClaim \/ SyncClaim \/ WebhookFails \/ WebhookRecovers \/ UNCHANGED vars
    BY <1>4, Zenon DEF DeleteClaim, SyncClaim, WebhookFails, WebhookRecovers, vars
  <1> QED
    BY <1>1, <1>2, <1>3, <1>4, Zenon DEF Next

\* Every step keeps the types.
LEMMA TypeKept == ASSUME TypeOK, [Next]_vars PROVE TypeOK'
  <1>1. spec' \in Specs /\ first' \in [infra: Modes \union {Unset}, client: Modes \union {Unset}]
    BY Steps, HistoryType DEF Update, TypeOK
  <1>2. configured' \in BOOLEAN /\ serving' \in BOOLEAN /\ fin' \in BOOLEAN /\ fresh' \in BOOLEAN /\ copy' \in Specs
        /\ life' \in {"live", "deleting", "gone"}
    BY Zenon DEF Next, TypeOK, UserUpdate, CreateClaim, Created, OperatorUpdate, UpdateTaken, DeleteClaim,
                 SyncClaim, WebhookFails, WebhookRecovers, vars
  <1> QED
    BY <1>1, <1>2 DEF TypeOK

\* An update keeps the modes that were given before and remembers the ones it gives.
LEMMA UpdateKeepsModes ==
    ASSUME TypeOK, ModeOnceSetStays, configured, NEW new, Update(new)
    PROVE  /\ first'.infra # Unset => spec'.infra = first'.infra
           /\ first'.client # Unset => clientIpamMode(spec') = first'.client
  <1>1. /\ first'.infra = IF first.infra = Unset THEN new.infra ELSE first.infra
        /\ first'.client = IF first.client = Unset THEN clientIpamMode(new) ELSE first.client
    BY DEF Update, Remember
  <1>2. /\ spec.infra = Unset \/ spec.infra = new.infra
        /\ clientIpamMode(spec) = Unset \/ clientIpamMode(spec) = clientIpamMode(new)
    BY DEF Update, Admits, ValidateUpdate, validateIpamModeImmutable
  <1>3. spec' = new
    BY DEF Update
  <1> QED
    BY <1>1, <1>2, <1>3 DEF ModeOnceSetStays

\* In every reachable state the types are right.
LEMMA Types == Spec => []TypeOK
  <1>1. Init => TypeOK
    <2> SUFFICES ASSUME Init PROVE TypeOK
      OBVIOUS
    <2>1. spec \in Specs /\ spec.infra \in Modes \union {Unset} /\ clientIpamMode(spec) \in Modes \union {Unset}
      BY ModeType DEF Init, Specs
    <2> QED
      BY ZenonT(60), <2>1 DEF Init, TypeOK, FirstModes
  <1>2. TypeOK /\ [Next]_vars => TypeOK'
    BY TypeKept
  <1> QED
    BY <1>1, <1>2, PTL DEF Spec

(***************************************************************************)
(* With the webhook configured, validateIpamModeImmutable makes the first  *)
(* mode of a cluster its mode for good, through outages, stale copies and  *)
(* edits that leave the mode or the network out.                           *)
(***************************************************************************)
THEOREM ModesStay == Spec => []ModeOnceSetStays
  <1>1. Init => ModeOnceSetStays
    BY DEF Init, FirstModes, ModeOnceSetStays
  <1>2. TypeOK /\ ModeOnceSetStays /\ [Next]_vars => ModeOnceSetStays'
    <2> SUFFICES ASSUME TypeOK, ModeOnceSetStays, [Next]_vars PROVE ModeOnceSetStays'
      OBVIOUS
    <2>1. ASSUME NEW s \in Specs, Update(s) PROVE ModeOnceSetStays'
      BY ZenonT(60), <2>1, Steps, UpdateKeepsModes DEF ModeOnceSetStays
    <2>2. ASSUME NEW s \in Specs, spec' = s, first' = FirstModes(s) PROVE ModeOnceSetStays'
      BY <2>2 DEF FirstModes, ModeOnceSetStays
    <2>3. CASE UNCHANGED <<spec, first>>
      BY ZenonT(60), <2>3, Steps DEF ModeOnceSetStays
    <2> QED
      BY <2>1, <2>2, <2>3, Steps
  <1> QED
    BY <1>1, <1>2, Types, PTL DEF Spec

(***************************************************************************)
(* Neither ensureFinalizer nor the last step of reconcileDelete puts an    *)
(* outdated spec back.  The invariant behind it: as long as the API server *)
(* still takes the copy's resourceVersion, the copy's spec is the stored   *)
(* one.                                                                    *)
(***************************************************************************)
THEOREM EditsAreKept == Spec => OperatorKeepsEdits
  <1> DEFINE Current == fresh => copy = spec
  <1>1. Init => Current
    BY DEF Init
  <1>2. TypeOK /\ Current /\ [Next]_vars => Current'
    BY Zenon DEF Next, TypeOK, UserUpdate, CreateClaim, Created, OperatorUpdate, UpdateTaken, DeleteClaim, SyncClaim,
                 WebhookFails, WebhookRecovers, vars
  <1>3. TypeOK /\ Current /\ [Next]_vars => [life # "gone" /\ fin' # fin => spec' = spec]_vars
    BY Zenon DEF Next, TypeOK, UserUpdate, CreateClaim, Created, OperatorUpdate, UpdateTaken, Written, DeleteClaim,
                 SyncClaim, WebhookFails, WebhookRecovers, vars
  <1> QED
    BY <1>1, <1>2, <1>3, Types, PTL DEF Spec, OperatorKeepsEdits

(***************************************************************************)
(* A claim from before the field existed can always be given a mode: the   *)
(* CRD's rules and validateIpamModeImmutable let any mode in where there   *)
(* is none, also where the client network itself is missing.               *)
(***************************************************************************)
THEOREM BackfillIsLetIn == Spec => []BackfillIsAdmitted
  <1>1. ASSUME TypeOK, NEW m \in Modes, configured => serving, spec.infra = Unset
        PROVE  Admits(spec, [spec EXCEPT !.infra = m])
    <2> DEFINE new == [spec EXCEPT !.infra = m]
    <2>1. spec \in Specs /\ Unset \notin Modes
      BY <1>1, ModesAssumption DEF TypeOK
    <2>2. new.enabled = spec.enabled /\ new.infra = m /\ new.client = spec.client
      BY <2>1 DEF Specs
    <2> HIDE DEF new
    <2>3. clientIpamMode(new) = clientIpamMode(spec)
      BY <2>2 DEF clientIpamMode
    <2>4. Admits(spec, new)
      BY <1>1, <2>1, <2>2, <2>3
      DEF Admits, TransitionRules, SelfIsOldSelf, ValidateUpdate, validateIpamModeImmutable
    <2> QED
      BY <2>4 DEF new
  <1>2. ASSUME TypeOK, NEW m \in Modes, configured => serving, clientIpamMode(spec) = Unset
        PROVE  Admits(spec, [spec EXCEPT !.client = m])
    <2> DEFINE new == [spec EXCEPT !.client = m]
    <2>1. spec \in Specs /\ Unset \notin Modes /\ NoNetwork \notin Modes
      BY <1>2, ModesAssumption DEF TypeOK
    <2>2. new.enabled = spec.enabled /\ new.infra = spec.infra /\ new.client = m
      BY <2>1 DEF Specs
    <2> HIDE DEF new
    <2>3. spec.client \notin Modes
      BY <1>2, <2>1 DEF clientIpamMode
    <2>4. Admits(spec, new)
      BY <1>2, <2>1, <2>2, <2>3
      DEF Admits, TransitionRules, SelfIsOldSelf, ValidateUpdate, validateIpamModeImmutable
    <2> QED
      BY <2>4 DEF new
  <1>3. TypeOK => BackfillIsAdmitted
    BY ZenonT(60), <1>1, <1>2 DEF BackfillIsAdmitted
  <1> QED
    BY <1>3, Types, PTL

================================================================================
