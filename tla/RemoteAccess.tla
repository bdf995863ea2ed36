----------------------------- MODULE RemoteAccess -----------------------------
(***************************************************************************)
(* ClusterManager composed with its callers: the passes of several claims  *)
(* that apply ConfigMaps in their infra clusters (stepRemoteConfigMaps) or *)
(* delete them (deleteRemoteConfigMaps), the kubeconfig Secrets that CAPI  *)
(* creates, rotates and removes, the Secret informer, and the work queue,  *)
(* which never gives one claim to two workers.                             *)
(***************************************************************************)
EXTENDS ClusterManager, ClaimNames

CONSTANTS
    Claims,       \* ns and name of the claims that may exist
    Initial,      \* per claim, the Secret there is to begin with
    Contents,     \* per claim, what the kubeconfig of its cluster may be over time
    Empty,        \* a Secret without a "value" key
    NoSecret,     \* no Secret
    Idle,         \* a worker without a claim
    Deletable,    \* the claims the user may delete and create again
    Holdable,     \* the claims whose passes may end before the remote step
    MaxWrites     \* bound on changes of kubeconfig Secrets

ASSUME AccessAssumption ==
    /\ Claims \subseteq {c \in [ns: STRING, name: Seq(STRING)] : c.name # <<>>}
    /\ Keys = {SecretOf(c) : c \in Claims}
    /\ Contents \in [Claims -> SUBSET (Kubeconfig \union {Empty})]
    /\ \A c, d \in Claims : c # d => Contents[c] \intersect Contents[d] \subseteq {Empty}
    /\ Initial \in [Claims -> Kubeconfig \union {Empty, NoSecret}]
    /\ \A c \in Claims : Initial[c] \in Contents[c] \union {NoSecret}
    /\ Empty \notin Kubeconfig /\ NoSecret \notin Kubeconfig \union {Empty}
    /\ Idle \notin Claims
    /\ Deletable \subseteq Claims /\ Holdable \subseteq Claims /\ MaxWrites \in Nat

VARIABLES
    life,       \* the claims that exist
    secret,     \* the kubeconfig Secrets on the API server
    csecret,    \* the informer's copies
    writes,     \* how often they may still change
    queued,     \* claims in the work queue, or waiting out a requeue delay
    task        \* the claim each worker has

callers == <<life, secret, csecret, writes, queued, task>>

vars == <<manager, callers>>

Init ==
    /\ ManagerInit
    /\ life = Claims
    /\ secret = Initial /\ csecret = secret /\ writes = MaxWrites
    /\ queued = Claims
    /\ task = [w \in Workers |-> Idle]

-------------------------------------------------------------------------------
(***************************************************************************)
(* The passes.  Applying and deleting ConfigMaps ask for the client in the *)
(* same way, and what becomes of the remote calls makes no difference to   *)
(* either.                                                                 *)
(***************************************************************************)
Take(w, c) ==
    /\ Running /\ task[w] = Idle
    /\ c \in queued /\ \A v \in Workers : task[v] # c

ReconcileNotFound(w, c) ==
    /\ Take(w, c) /\ c \notin life
    /\ queued' = queued \ {c}
    /\ UNCHANGED <<manager, life, secret, csecret, writes, task>>

\* A pause and a terminal error of an earlier step end a pass without a requeue.
EndEarly(w, c) ==
    /\ Take(w, c) /\ c \in life \intersect Holdable
    /\ queued' = queued \ {c}
    /\ UNCHANGED <<manager, life, secret, csecret, writes, task>>

(***************************************************************************)
(* The claim of a pass comes back, on the requeue after an error, a wait   *)
(* or Ready, or on the event of its own removal by the last pass of a      *)
(* deletion.  Only a terminal error in what follows the remote calls, or   *)
(* in rendering a ConfigMap, leaves it to whatever event comes next.       *)
(***************************************************************************)
Leave(c, connected) ==
    \/ queued' = queued \union {c} /\ UNCHANGED life
    \/ connected /\ UNCHANGED <<queued, life>>
    \/ c \in Deletable /\ life' = life \ {c} /\ queued' = queued \union {c}

\* Without the Secret a live claim waits and a deletion skips the ConfigMaps.
KubeconfigMissing(w, c) ==
    /\ Take(w, c) /\ c \in life /\ csecret[c] = NoSecret
    /\ Leave(c, FALSE)
    /\ UNCHANGED <<manager, secret, csecret, writes, task>>

CallGetClient(w, c) ==
    /\ Take(w, c) /\ c \in life /\ csecret[c] # NoSecret
    /\ IF csecret[c] = Empty THEN GetClientEmpty(w) ELSE GetClient(w, SecretOf(c), csecret[c])
    /\ queued' = queued \ {c}
    /\ task' = [task EXCEPT ![w] = c]
    /\ UNCHANGED <<life, secret, csecret, writes>>

\* The remote calls, or the error of GetClient, and the rest of the pass.
EndPass(w) ==
    /\ task[w] # Idle /\ Release(w)
    /\ Leave(task[w], got[w] # NoClient)
    /\ task' = [task EXCEPT ![w] = Idle]
    /\ UNCHANGED <<secret, csecret, writes>>

Reconcile(w, c) == ReconcileNotFound(w, c) \/ EndEarly(w, c) \/ KubeconfigMissing(w, c) \/ CallGetClient(w, c)

-------------------------------------------------------------------------------
(***************************************************************************)
(* Everything around them.                                                 *)
(***************************************************************************)
InManager(A) == A /\ UNCHANGED callers

\* A claim of the same name is created again; its infra cluster is a new one.
CreateClaim(c) ==
    /\ c \notin life /\ secret[c] = NoSecret
    /\ life' = life \union {c}
    /\ queued' = queued \union {c}
    /\ UNCHANGED <<manager, secret, csecret, writes, task>>

\* CAPI writes and rotates the kubeconfig, and removes it with the cluster.
WriteSecret(c, s) ==
    /\ c \in life /\ secret[c] # s /\ writes > 0
    /\ secret' = [secret EXCEPT ![c] = s] /\ writes' = writes - 1
    /\ UNCHANGED <<manager, life, csecret, queued, task>>

RemoveSecret(c) ==
    /\ c \in Deletable /\ secret[c] # NoSecret
    /\ secret' = [secret EXCEPT ![c] = NoSecret]
    /\ UNCHANGED <<manager, life, csecret, writes, queued, task>>

SyncSecret(c) ==
    /\ csecret[c] # secret[c]
    /\ csecret' = [csecret EXCEPT ![c] = secret[c]]
    /\ queued' = queued \union (findClaimForSecret(SecretOf(c)) \intersect Claims)
    /\ UNCHANGED <<manager, life, secret, writes, task>>

\* Whatever else wakes a claim: an edit, an annotation, a template, one of its objects.
Wake(c) ==
    /\ c \in life
    /\ queued' = queued \union {c}
    /\ UNCHANGED <<manager, life, secret, csecret, writes, task>>

Next ==
    \/ \E w \in Workers :
         \/ \E c \in Claims : Reconcile(w, c)
         \/ EndPass(w) \/ InManager(Serve(w))
    \/ InManager(Upkeep)
    \/ Running /\ InManager(Tick)
    \/ Running /\ \E c \in Claims :
         \/ CreateClaim(c) \/ RemoveSecret(c) \/ SyncSecret(c) \/ Wake(c)
         \/ \E s \in Contents[c] : WriteSecret(c, s)

Spec == Init /\ [][Next]_vars

(***************************************************************************)
(* Workers, informer, queue, clock and ticker keep going.  sync.RWMutex    *)
(* starves neither readers nor writers, and the queue no claim: strong     *)
(* fairness where others may take the lock or the worker in between.       *)
(***************************************************************************)
Fairness ==
    /\ \A w \in Workers :
         /\ SF_vars(InManager(Lookup(w) \/ Lock(w)))
         /\ WF_vars(InManager(Touch(w) \/ Create(w)))
         /\ WF_vars(EndPass(w))
    /\ SF_vars(InManager(removeExpired \/ cleanup))
    /\ WF_vars(InManager(Start("expire"))) /\ WF_vars(InManager(Tick))
    /\ \A c \in Claims : SF_vars(\E w \in Workers : Reconcile(w, c)) /\ WF_vars(SyncSecret(c))

-------------------------------------------------------------------------------
\* Worker w is about to use the client it got for claim c.
Uses(w, c) == task[w] = c /\ pc[w] = "done" /\ got[w] # NoClient

(***************************************************************************)
(* A pass that got a client got one built from exactly the kubeconfig it   *)
(* read for its own claim: not the client of another claim, of an earlier  *)
(* cluster of the same name, or of a rotated credential, whatever other    *)
(* workers and the cleanup goroutine did between lookup and return.        *)
(***************************************************************************)
RightClient ==
    \A w \in Workers, c \in Claims : Uses(w, c) =>
      got[w] = arg[w].kube /\ arg[w].key = SecretOf(c) /\ got[w] \in Contents[c]

(***************************************************************************)
(* removeExpired drops a client only when no pass asked for it within the  *)
(* TTL.  lastUsed is written under the read lock, where an older time      *)
(* could overwrite a newer one; the queue never runs two passes of one     *)
(* claim, so this does not happen.                                         *)
(***************************************************************************)
RecentlyUsedIsKept ==
    [][\A k \in Keys : clients[k] # NoEntry /\ clients'[k] = NoEntry /\ Running' => used[k] > TTL]_vars

(***************************************************************************)
(* GetClient returns: no error path keeps a lock, and neither the readers, *)
(* the creators nor the cleanup goroutine keep the others waiting forever. *)
(***************************************************************************)
EveryCallReturns == \A w \in Workers : pc[w] = "rlock" ~> pc[w] = "done"

(***************************************************************************)
(* A rotated kubeconfig is taken up: when CAPI has written a usable one    *)
(* that the informer does not show yet, a pass that reaches the cluster    *)
(* through it follows, even if no requeue of the claim is pending, unless  *)
(* the kubeconfig changes again, the claim goes or the process stops.  It  *)
(* takes the Secret's event to find the claim, also while a pass of it is  *)
(* running, and neither a cached client nor an eviction nor the creation   *)
(* of another claim's client in its way.  A claim that may be paused, or   *)
(* stopped by an earlier step, is left out: nothing is applied for it.     *)
(***************************************************************************)
RotationIsFollowed ==
    \A c \in Claims \ Holdable : \A k \in Contents[c] \ (Unusable \union {Empty}) :
      secret[c] = k /\ csecret[c] # k ~>
        \/ \E w \in Workers : Uses(w, c) /\ got[w] = k
        \/ secret[c] # k \/ c \notin life \/ ~Running

(***************************************************************************)
(* While the process runs, the client of a claim that is gone for good is  *)
(* evicted: the cache does not grow with every claim there ever was.       *)
(***************************************************************************)
GoneClientsAreDropped ==
    \A c \in Claims :
      <>[](Running /\ c \notin life) => <>[](clients[SecretOf(c)] = NoEntry)

===============================================================================
