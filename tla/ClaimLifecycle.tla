---------------------------- MODULE ClaimLifecycle ----------------------------
(***************************************************************************)
(* What the operator promises about a claim and its managed resources,     *)
(* without informers, queue, passes or pipeline: the operator's finalizer  *)
(* is on the claim before there is any resource, resources are released in *)
(* order and only for a claim that is being deleted, what was released is  *)
(* never taken back, and the claim keeps its finalizer until nothing that  *)
(* is awaited is left.  ClaimSystem is shown to implement this.            *)
(***************************************************************************)
CONSTANTS
    Resources,   \* what one claim manages
    Awaited,     \* the resources whose end a deletion waits for
    Before       \* per resource, the awaited resources that must be gone before it is released

VARIABLES
    life,        \* the claim: "live", "deleting" or "gone"
    enrolled,    \* the operator's finalizer is on the claim
    state        \* per resource: "absent", "loose" (there, no finalizer yet), "held" or "released"

vars == <<life, enrolled, state>>

\* The operator once held r, and r is not gone yet.
Engaged(r) == state[r] \in {"held", "released"}

Init == life = "live" /\ enrolled = FALSE /\ state = [r \in Resources |-> "absent"]

-------------------------------------------------------------------------------
Enroll == life = "live" /\ enrolled' = TRUE /\ UNCHANGED <<life, state>>

\* A running pass still applies resources of a claim that is being deleted.
Create(r) ==
    /\ enrolled /\ state[r] = "absent"
    /\ state' = [state EXCEPT ![r] = "loose"]
    /\ UNCHANGED <<life, enrolled>>

Protect(r) ==
    /\ enrolled /\ state[r] = "loose"
    /\ state' = [state EXCEPT ![r] = "held"]
    /\ UNCHANGED <<life, enrolled>>

Release(r) ==
    /\ life # "live" /\ state[r] = "held"
    /\ \A d \in Before[r] : ~Engaged(d)
    /\ \E s \in {"released", "absent"} : state' = [state EXCEPT ![r] = s]
    /\ UNCHANGED <<life, enrolled>>

\* Anybody may delete what the operator does not hold.
Vanish(r) ==
    /\ state[r] \in {"loose", "released"}
    /\ state' = [state EXCEPT ![r] = "absent"]
    /\ UNCHANGED <<life, enrolled>>

Delete == life = "live" /\ life' = "deleting" /\ UNCHANGED <<enrolled, state>>

\* The finalizer goes last; another finalizer may keep the claim a little longer.
Retire ==
    /\ life # "live" /\ \A d \in Awaited : ~Engaged(d)
    /\ enrolled' = FALSE /\ life' \in {life, "gone"}
    /\ UNCHANGED state

Depart == ~enrolled /\ life' = "gone" /\ UNCHANGED <<enrolled, state>>

Next ==
    \/ Enroll \/ Delete \/ Retire \/ Depart
    \/ \E r \in Resources : Create(r) \/ Protect(r) \/ Release(r) \/ Vanish(r)

Spec == Init /\ [][Next]_vars

===============================================================================
