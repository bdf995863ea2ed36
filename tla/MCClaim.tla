-------------------------------- MODULE MCClaim --------------------------------
(***************************************************************************)
(* Instances of ClaimSystem for TLC.  A run chooses which informers may    *)
(* lag; the action constraint Prompt makes the others deliver a change     *)
(* before anything else happens, which keeps the interleavings few.        *)
(***************************************************************************)
EXTENDS ClaimSystem

CONSTANTS Lagging, Pauses, Crashes, Drifts, Blocks, Touches

MCBudget == [k \in Kinds |->
               CASE k = "pause" -> Pauses
                 [] k = "crash" -> Crashes
                 [] k = "drift" -> Drifts
                 [] k = "block" -> Blocks
                 [] k = "touch" -> Touches]

\* The informers that must deliver before anything else happens.
Due ==
    ({GVK[r] : r \in {q \in Managed : dirty[q]}} \union (IF claimDirty THEN {"ClusterClaim"} ELSE {}))
      \ Lagging

Prompt == Due # {} => Due' # Due /\ Due' \subseteq Due

\* An edit, a label change and a foreground deletion are explored apart from everything else that goes wrong.
Spent ==
    (IF claim.gen > (IF claim.life = "live" THEN 1 ELSE 2) THEN {"edit"} ELSE {})
      \union (IF claim.fg THEN {"foreground"} ELSE {}) \union (IF faults < MaxFaults THEN {"fault"} ELSE {})
      \union {k \in {"drift", "block", "touch"} : budget[k] < MCBudget[k]}

Apart == \A a, b \in Spent' : a = b \/ {a, b} = {"fault", "block"}

FairSpec == Spec /\ Fairness

================================================================================
