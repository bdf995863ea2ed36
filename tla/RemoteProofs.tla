----------------------------- MODULE RemoteProofs -----------------------------
(***************************************************************************)
(* Proofs about the cache of remote clients, for any number of workers,    *)
(* keys and kubeconfigs and any TTL: first the manager under arbitrary     *)
(* callers, then the manager composed with the passes that call it.  The   *)
(* Secrets that hold the kubeconfigs come first, for claims of any name in *)
(* any namespace.                                                          *)
(***************************************************************************)
EXTENDS RemoteAccess, SequenceTheorems, TLAPS

\* Time limits for the provers, in seconds.
USE SMTT(60), ZenonT(60)

\* A claim's namespace and name; no name is empty.
ClaimKeys == {c \in [ns: STRING, name: Seq(STRING)] : c.name # <<>>}

\* The segments of any name.
Segments == STRING \union {"infra", "kubeconfig"}

\* What the definitions below need to know of a claim.
LEMMA KeyParts ==
    ASSUME NEW c \in ClaimKeys
    PROVE  c.name \in Seq(Segments) /\ Len(c.name) \in Nat /\ Len(c.name) > 0 /\ c = [ns |-> c.ns, name |-> c.name]
  <1>1. c.name \in Seq(STRING) /\ c.name # <<>> /\ c = [ns |-> c.ns, name |-> c.name]
    BY DEF ClaimKeys
  <1>2. c.name \in Seq(Segments)
    BY <1>1 DEF Segments
  <1>3. Len(c.name) \in Nat
    BY <1>1, LenProperties
  <1>4. Len(c.name) = 0 => c.name = <<>>
    BY <1>1, EmptySeq
  <1> QED
    BY <1>1, <1>2, <1>3, <1>4

\* Two claims with the same namespace and name are one.
LEMMA SameClaim == ASSUME NEW c \in ClaimKeys, NEW d \in ClaimKeys, c.ns = d.ns, c.name = d.name PROVE c = d
  BY KeyParts

\* The suffix is a sequence of segments.
LEMMA SuffixType == kubeconfigSuffix \in Seq(Segments) /\ Len(kubeconfigSuffix) = 2
  <1>1. "infra" \in Segments /\ "kubeconfig" \in Segments
    BY DEF Segments
  <1>2. \A S : \A a, b \in S : <<a, b>> \in Seq(S) /\ Len(<<a, b>>) = 2
    OBVIOUS
  <1> QED
    BY <1>1, <1>2, Zenon DEF kubeconfigSuffix

\* A common suffix can be taken away.
LEMMA CancelRight ==
    ASSUME NEW S, NEW s \in Seq(S), NEW t \in Seq(S), NEW v \in Seq(S), s \o v = t \o v PROVE s = t
  BY Zenon, ConcatSimplifications

\* No two claims share a kubeconfig Secret.
LEMMA SecretIsOwn == ASSUME NEW c \in ClaimKeys, NEW d \in ClaimKeys, SecretOf(c) = SecretOf(d) PROVE c = d
  <1>1. c.ns = d.ns /\ c.name \o kubeconfigSuffix = d.name \o kubeconfigSuffix
    BY Zenon DEF SecretOf, KubeconfigSecretName
  <1>2. c.name = d.name
    BY Zenon, <1>1, KeyParts, SuffixType, CancelRight
  <1> QED
    BY <1>1, <1>2, SameClaim

(***************************************************************************)
(* The Secret watch wakes exactly the right claim: findClaimForSecret      *)
(* inverts KubeconfigSecretName for every claim, also for one whose own    *)
(* name ends like a kubeconfig Secret's.                                   *)
(***************************************************************************)
THEOREM SecretFindsItsClaim == ASSUME NEW c \in ClaimKeys PROVE findClaimForSecret(SecretOf(c)) = {c}
  <1> DEFINE n == c.name
             u == kubeconfigSuffix
             s == n \o u
  <1>1. n \in Seq(Segments) /\ u \in Seq(Segments) /\ Len(n) \in Nat /\ Len(n) > 0 /\ Len(u) = 2
    BY KeyParts, SuffixType
  <1> HIDE DEF n, u
  <1>2. s \in Seq(Segments) /\ Len(s) = Len(n) + 2
    <2>1. n \o u \in Seq(Segments) /\ Len(n \o u) = Len(n) + Len(u)
      BY Zenon, <1>1, ConcatProperties
    <2> QED
      BY <1>1, <2>1
  <1>3. HasSuffix(s, u)
    <2>1. SubSeq(s, Len(n) + 1, Len(n) + 2) = u
      <3>1. SubSeq(s, Len(n) + 1, Len(n) + 2) = SubSeq(u, 1, 2)
        <4>1. Len(n) + 1 \in Len(n) + 1 .. Len(n) + Len(u) /\ Len(n) + 2 \in Len(n) + 1 .. Len(n) + Len(u)
          BY <1>1
        <4>2. SubSeq(n \o u, Len(n) + 1, Len(n) + 2) = SubSeq(u, (Len(n) + 1) - Len(n), (Len(n) + 2) - Len(n))
          BY <1>1, <4>1, SubSeqOfConcat2, Zenon
        <4>3. (Len(n) + 1) - Len(n) = 1 /\ (Len(n) + 2) - Len(n) = 2
          BY <1>1
        <4> QED
          BY Zenon, <4>2, <4>3
      <3>2. SubSeq(u, 1, 2) = u
        BY <1>1, SubSeqFull
      <3> QED
        BY Zenon, <3>1, <3>2
    <2>2. Len(s) > Len(u) /\ Len(s) - Len(u) + 1 = Len(n) + 1
      BY <1>1, <1>2
    <2> QED
      BY <1>2, <1>1, <2>1, <2>2 DEF HasSuffix
  <1>4. TrimSuffix(s, u) = n
    <2>1. Len(s) - Len(u) = Len(n)
      BY <1>1, <1>2
    <2>2. SubSeq(s, 1, Len(n)) = SubSeq(n, 1, Len(n))
      BY <1>1, SubSeqOfConcat1
    <2>3. SubSeq(n, 1, Len(n)) = n
      BY <1>1, SubSeqFull
    <2> QED
      BY <2>1, <2>2, <2>3 DEF TrimSuffix
  <1>5. SecretOf(c).name = s /\ SecretOf(c).ns = c.ns
    BY DEF SecretOf, KubeconfigSecretName, n, u
  <1>6. c = [ns |-> c.ns, name |-> n]
    BY KeyParts DEF n
  <1> QED
    BY <1>3, <1>4, <1>5, <1>6 DEF findClaimForSecret, u

-------------------------------------------------------------------------------

Calls == [key: Keys, kube: Kubeconfig]

ManagerType ==
    /\ clients \in [Keys -> cachedClient \union {NoEntry}]
    /\ readers \subseteq Workers /\ writer \in Workers \union {Nobody}
    /\ pc \in [Workers -> {"out", "rlock", "touch", "lock", "create", "done"}]
    /\ arg \in [Workers -> Calls \union {NoCall}]
    /\ now \in [Workers -> Ages] /\ used \in [Keys -> Ages]
    /\ got \in [Workers -> Kubeconfig \union {NoClient}]

\* The read lock is held around the store of lastUsed, the write lock around the creation.
Locks ==
    /\ \A w \in Workers : pc[w] = "touch" <=> w \in readers
    /\ \A w \in Workers : pc[w] = "create" <=> writer = w
    /\ writer # Nobody => readers = {}

\* A worker inside GetClient has its Secret, and the client found in the cache is its client until
\* the read lock is given back.
Served ==
    /\ \A w \in Workers : pc[w] \in {"rlock", "touch", "lock", "create"} => arg[w] \in Calls
    /\ \A k \in Keys : clients[k] # NoEntry => clients[k].hash = Hash[clients[k].client]
    /\ \A w \in Workers : pc[w] = "touch" =>
         clients[arg[w].key] # NoEntry /\ clients[arg[w].key].client = arg[w].kube
    /\ \A w \in Workers : pc[w] = "done" /\ got[w] # NoClient => arg[w] \in Calls /\ got[w] = arg[w].kube

ManagerOK == ManagerType /\ Locks /\ Served

-------------------------------------------------------------------------------
\* Facts about the constants, collected.
LEMMA Facts ==
    /\ Nobody \notin Workers /\ NoClient \notin Kubeconfig /\ NoCall \notin Calls
    /\ NoEntry \notin cachedClient /\ TTL \in Nat
    /\ \A a, b \in Kubeconfig : Hash[a] = Hash[b] => a = b
  BY ManagerAssumption, HashAssumption, NoEntryAssumption DEF Calls

\* A tick keeps a stamp a stamp.
LEMMA OlderType == \A a \in Ages : Older(a) \in Ages
  BY Facts DEF Ages, Older

\* A new client is a well-formed entry, and so is one with another time stamp.
LEMMA EntryTypes ==
    /\ 0 \in Ages
    /\ \A c \in Kubeconfig : [client |-> c, hash |-> Hash[c], lastUsed |-> 0] \in cachedClient
    /\ \A e \in cachedClient, a \in Ages :
         LET f == [e EXCEPT !.lastUsed = a] IN f \in cachedClient /\ f.client = e.client /\ f.hash = e.hash
  <1>1. 0 \in Ages
    BY Facts DEF Ages
  <1> QED
    BY <1>1 DEF cachedClient

\* The manager starts well.
LEMMA ManagerStarts == ManagerInit => ManagerOK
  BY Facts, EntryTypes DEF ManagerInit, ManagerOK, ManagerType, Locks, Served

\* GetClient and Release only move the worker that calls them.
LEMMA CallKept ==
    ASSUME ManagerOK, NEW w \in Workers,
           \/ \E k \in Keys, c \in Kubeconfig : GetClient(w, k, c)
           \/ GetClientEmpty(w) \/ Release(w)
    PROVE  ManagerOK'
  <1> USE DEF ManagerOK
  <1>1. ASSUME NEW k \in Keys, NEW c \in Kubeconfig, GetClient(w, k, c) PROVE ManagerOK'
    <2>1. [key |-> k, kube |-> c] \in Calls
      BY DEF Calls
    <2>2. ManagerType'
      BY <1>1, <2>1 DEF GetClient, Move, ManagerType
    <2>3. Locks'
      BY <1>1 DEF GetClient, Move, ManagerType, Locks
    <2>4. Served'
      BY <1>1, <2>1 DEF GetClient, Move, ManagerType, Served
    <2> QED
      BY <2>2, <2>3, <2>4
  <1>2. CASE GetClientEmpty(w)
    BY <1>2 DEF GetClientEmpty, Move, Return, ManagerType, Locks, Served
  <1>3. CASE Release(w)
    BY <1>3 DEF Release, Move, Return, ManagerType, Locks, Served
  <1> QED
    BY <1>1, <1>2, <1>3

\* The first lookup, and what follows it under the read lock.
LEMMA ReadKept == ASSUME ManagerOK, NEW w \in Workers, Lookup(w) \/ Touch(w) PROVE ManagerOK'
  <1> USE DEF ManagerOK
  <1>1. CASE Lookup(w)
    <2>1. arg[w] \in Calls /\ arg[w].key \in Keys /\ arg[w].kube \in Kubeconfig
      BY <1>1 DEF Lookup, Served, Calls
    <2>2. ManagerType'
      BY <1>1, <2>1, EntryTypes DEF Lookup, Move, ManagerType
    <2>3. Locks'
      BY <1>1 DEF Lookup, Move, MayRLock, ManagerType, Locks
    <2>4. Cached(arg[w].key, arg[w].kube) => clients[arg[w].key].client = arg[w].kube
      <3>1. clients[arg[w].key] # NoEntry => clients[arg[w].key].client \in Kubeconfig
        BY ZenonT(60), <2>1 DEF ManagerType, cachedClient
      <3> QED
        BY <2>1, <3>1, Facts DEF Cached, Served
    <2>5. Served'
      BY <1>1, <2>1, <2>4 DEF Lookup, Move, Cached, ManagerType, Served
    <2> QED
      BY <2>2, <2>3, <2>5
  <1>2. CASE Touch(w)
    <2>1. /\ arg[w] \in Calls /\ arg[w].key \in Keys /\ arg[w].kube \in Kubeconfig /\ now[w] \in Ages
          /\ clients[arg[w].key] \in cachedClient /\ clients[arg[w].key].client = arg[w].kube
      BY <1>2 DEF Touch, Move, Served, ManagerType, Calls
    <2> DEFINE e == [clients[arg[w].key] EXCEPT !.lastUsed = now[w]]
    <2>2. e \in cachedClient /\ e.client = clients[arg[w].key].client /\ e.hash = clients[arg[w].key].hash
      BY <2>1, EntryTypes
    <2>3. clients' = [clients EXCEPT ![arg[w].key] = e]
      BY <1>2, <2>1 DEF Touch, ManagerType
    <2> HIDE DEF e
    <2>4. ManagerType'
      BY <1>2, <2>1, <2>2, <2>3, EntryTypes DEF Touch, Move, Return, ManagerType
    <2>5. Locks'
      BY ZenonT(60), <1>2 DEF Touch, Move, ManagerType, Locks
    <2>6. Served'
      BY <1>2, <2>1, <2>2, <2>3, Facts DEF Touch, Move, Return, ManagerType, Served
    <2> QED
      BY <2>4, <2>5, <2>6
  <1> QED
    BY <1>1, <1>2

\* The write lock, and what happens under it.
LEMMA WriteKept == ASSUME ManagerOK, NEW w \in Workers, Lock(w) \/ Create(w) PROVE ManagerOK'
  <1> USE DEF ManagerOK
  <1>1. CASE Lock(w)
    <2>1. ManagerType' /\ Served'
      BY <1>1 DEF Lock, Move, ManagerType, Served
    <2>2. Locks'
      BY ZenonT(60), <1>1, Facts DEF Lock, Move, ManagerType, Locks
    <2> QED
      BY <2>1, <2>2
  <1>2. CASE Create(w)
    <2> DEFINE k == arg[w].key
               c == arg[w].kube
    <2>1. /\ pc[w] = "create" /\ arg[w] \in Calls /\ k \in Keys /\ c \in Kubeconfig
          /\ writer = w /\ readers = {}
      BY <1>2, Facts DEF Create, Move, Served, Locks, Calls
    <2>2. ASSUME NEW v \in Workers PROVE pc[v] # "touch"
      BY <2>1 DEF Locks
    <2>3. Cached(k, c) => clients[k] \in cachedClient /\ clients[k].client = c
      <3>1. clients[k] # NoEntry => clients[k] \in cachedClient /\ clients[k].client \in Kubeconfig
        BY <2>1 DEF ManagerType, cachedClient
      <3> QED
        BY <2>1, <3>1, Facts DEF Cached, Served
    <2> DEFINE e == IF ~Cached(k, c) /\ c \in Unusable THEN clients[k]
                    ELSE IF Cached(k, c) THEN [clients[k] EXCEPT !.lastUsed = 0]
                    ELSE [client |-> c, hash |-> Hash[c], lastUsed |-> 0]
               answer == IF ~Cached(k, c) /\ c \in Unusable THEN NoClient
                         ELSE IF Cached(k, c) THEN clients[k].client ELSE c
    <2>4. clients' = [clients EXCEPT ![k] = e] /\ got' = [got EXCEPT ![w] = answer]
      BY <1>2, <2>1 DEF Create, Return, ManagerType
    <2>5. e \in cachedClient \union {NoEntry} /\ (e # NoEntry => e.hash = Hash[e.client])
      <3>1. CASE ~Cached(k, c) /\ c \in Unusable
        BY <2>1, <3>1 DEF ManagerType, Served
      <3>2. CASE Cached(k, c)
        BY <2>3, <3>2, EntryTypes DEF Cached
      <3>3. CASE ~Cached(k, c) /\ c \notin Unusable
        BY <2>1, <3>3, EntryTypes
      <3> QED
        BY Zenon, <3>1, <3>2, <3>3
    <2>6. answer \in {NoClient, c}
      BY <2>3
    <2>7. pc' = [pc EXCEPT ![w] = "done"] /\ writer' = Nobody /\ UNCHANGED <<readers, arg, now>>
      BY <1>2 DEF Create, Move
    <2>8. used' \in [Keys -> Ages]
      BY <1>2, <2>1, EntryTypes DEF Create, ManagerType
    <2> HIDE DEF e, answer
    <2>9. ManagerType'
      BY Zenon, <2>1, <2>4, <2>5, <2>6, <2>7, <2>8 DEF ManagerType
    <2>10. Locks'
      BY <2>1, <2>7, Facts DEF Locks, ManagerType
    <2>11. Served'
      BY <2>1, <2>2, <2>4, <2>5, <2>6, <2>7 DEF ManagerType, Served
    <2> QED
      BY <2>9, <2>10, <2>11
  <1> QED
    BY <1>1, <1>2

\* The janitor and the clock.
LEMMA UpkeepKept == ASSUME ManagerOK, Upkeep \/ Tick PROVE ManagerOK'
  <1> USE DEF ManagerOK
  <1>1. ASSUME NEW next, Start(next) PROVE ManagerOK'
    BY <1>1 DEF Start, ManagerType, Locks, Served
  <1>2. CASE removeExpired \/ cleanup
    <2>1. PICK ks : Drop(ks)
      BY <1>2 DEF removeExpired, cleanup
    <2>2. readers = {} /\ writer = Nobody /\ UNCHANGED <<readers, writer, pc, arg, now, got>>
      BY <1>2 DEF removeExpired, cleanup
    <2>3. \A w \in Workers : pc[w] # "touch"
      BY <2>2 DEF Locks
    <2>4. ManagerType'
      BY <2>1, <2>2, EntryTypes DEF Drop, ManagerType
    <2>5. Locks'
      BY <2>2 DEF Locks
    <2>6. Served'
      BY <2>1, <2>2, <2>3 DEF Drop, Served
    <2> QED
      BY <2>4, <2>5, <2>6
  <1>3. CASE Tick
    <2>1. ASSUME NEW k \in Keys
          PROVE  /\ clients'[k] \in cachedClient \union {NoEntry}
                 /\ clients'[k] = NoEntry <=> clients[k] = NoEntry
                 /\ clients[k] # NoEntry => /\ clients'[k].client = clients[k].client
                                            /\ clients'[k].hash = clients[k].hash
      <3>1. clients'[k] = IF clients[k] = NoEntry THEN NoEntry
                          ELSE [clients[k] EXCEPT !.lastUsed = Older(clients[k].lastUsed)]
        BY <1>3 DEF Tick
      <3>2. clients[k] # NoEntry => clients[k] \in cachedClient /\ clients[k].lastUsed \in Ages
        BY DEF ManagerType, cachedClient
      <3>3. CASE clients[k] # NoEntry
        <4> DEFINE a == Older(clients[k].lastUsed)
                   e == [clients[k] EXCEPT !.lastUsed = a]
        <4>1. a \in Ages
          BY <3>2, <3>3, OlderType
        <4> HIDE DEF a
        <4>2. e \in cachedClient /\ e.client = clients[k].client /\ e.hash = clients[k].hash
          BY <3>2, <3>3, <4>1, EntryTypes
        <4> QED
          BY <3>1, <3>3, <4>2, Facts DEF a
      <3> QED
        BY <3>1, <3>3
    <2>2. DOMAIN clients' = Keys /\ clients' = [k \in Keys |-> clients'[k]]
      BY <1>3 DEF Tick
    <2>3. UNCHANGED <<readers, writer, pc, arg, got>>
      BY <1>3 DEF Tick
    <2>4. now' \in [Workers -> Ages] /\ used' \in [Keys -> Ages]
      BY <1>3, OlderType DEF Tick, ManagerType
    <2>5. clients' \in [Keys -> cachedClient \union {NoEntry}]
      BY <2>1, <2>2
    <2>6. ManagerType'
      BY <2>3, <2>4, <2>5 DEF ManagerType
    <2>7. Locks'
      BY <2>3 DEF Locks
    <2>8. Served'
      BY <2>1, <2>3 DEF Served, Calls
    <2> QED
      BY <2>6, <2>7, <2>8
  <1> QED
    BY <1>1, <1>2, <1>3 DEF Upkeep

(***************************************************************************)
(* Under any callers at all, the locks of cluster_manager.go exclude each  *)
(* other and GetClient returns an error or the client of exactly the       *)
(* kubeconfig it was given.                                                *)
(***************************************************************************)
THEOREM ManagerCorrect == ManagerSpec => []ManagerOK
  <1>1. ManagerOK /\ [ManagerNext]_manager => ManagerOK'
    <2> SUFFICES ASSUME ManagerOK, [ManagerNext]_manager PROVE ManagerOK'
      OBVIOUS
    <2>1. CASE UNCHANGED manager
      BY <2>1 DEF manager, ManagerOK, ManagerType, Locks, Served
    <2>2. CASE ManagerNext
      BY Zenon, <2>2, CallKept, ReadKept, WriteKept, UpkeepKept DEF ManagerNext, Serve
    <2> QED
      BY <2>1, <2>2
  <1> QED
    BY <1>1, ManagerStarts, PTL DEF ManagerSpec

-------------------------------------------------------------------------------
\* A claim's Secret, on the API server and in the informer, only ever holds the claim's own contents.
Secrets ==
    /\ secret \in [Claims -> Kubeconfig \union {Empty, NoSecret}]
    /\ csecret \in [Claims -> Kubeconfig \union {Empty, NoSecret}]
    /\ \A c \in Claims : secret[c] \in Contents[c] \union {NoSecret} /\ csecret[c] \in Contents[c] \union {NoSecret}

\* Every step keeps Secrets.
LEMMA SecretsKept == ASSUME Secrets, [Next]_vars PROVE Secrets'
  <1>1. CASE UNCHANGED <<secret, csecret>>
    BY <1>1 DEF Secrets
  <1>2. CASE UNCHANGED vars
    BY <1>1, <1>2 DEF vars, callers
  <1>3. ASSUME NEW w \in Workers, NEW c \in Claims, Reconcile(w, c) PROVE Secrets'
    BY Zenon, <1>1, <1>3 DEF Reconcile, ReconcileNotFound, EndEarly, KubeconfigMissing, CallGetClient
  <1>4. ASSUME NEW w \in Workers, EndPass(w) PROVE Secrets'
    BY Zenon, <1>1, <1>4 DEF EndPass
  <1>5. CASE UNCHANGED callers
    BY <1>1, <1>5 DEF callers
  <1>6. ASSUME NEW c \in Claims, CreateClaim(c) \/ Wake(c) PROVE Secrets'
    BY Zenon, <1>1, <1>6 DEF CreateClaim, Wake
  <1>7. ASSUME NEW c \in Claims, NEW s \in Contents[c], WriteSecret(c, s) PROVE Secrets'
    BY ZenonT(60), <1>7, AccessAssumption DEF WriteSecret, Secrets
  <1>8. ASSUME NEW c \in Claims, RemoveSecret(c) \/ SyncSecret(c) PROVE Secrets'
    BY <1>8 DEF RemoveSecret, SyncSecret, Secrets
  <1> QED
    BY Zenon, <1>2, <1>3, <1>4, <1>5, <1>6, <1>7, <1>8 DEF Next, InManager

\* Every step of the composed system is a step of the manager, or none of its business.
LEMMA ManagerSteps == ASSUME Secrets, [Next]_vars PROVE [ManagerNext]_manager
  <1>1. CASE UNCHANGED vars
    BY <1>1 DEF vars
  <1>2. ASSUME NEW w \in Workers, NEW c \in Claims, Reconcile(w, c) PROVE [ManagerNext]_manager
    <2>1. CASE ReconcileNotFound(w, c) \/ EndEarly(w, c) \/ KubeconfigMissing(w, c)
      BY Zenon, <2>1 DEF ReconcileNotFound, EndEarly, KubeconfigMissing
    <2>2. CASE CallGetClient(w, c)
      <3>1. CASE csecret[c] = Empty
        BY Zenon, <2>2, <3>1 DEF CallGetClient, ManagerNext
      <3>2. CASE csecret[c] # Empty
        <4>1. csecret[c] \in Kubeconfig /\ SecretOf(c) \in Keys
          BY <2>2, <3>2, AccessAssumption DEF CallGetClient, Secrets
        <4> QED
          BY Zenon, <2>2, <3>2, <4>1 DEF CallGetClient, ManagerNext
      <3> QED
        BY <3>1, <3>2
    <2> QED
      BY Zenon, <1>2, <2>1, <2>2 DEF Reconcile
  <1>3. ASSUME NEW w \in Workers, EndPass(w) \/ InManager(Serve(w)) PROVE [ManagerNext]_manager
    BY Zenon, <1>3 DEF EndPass, InManager, ManagerNext
  <1>4. CASE InManager(Upkeep) \/ InManager(Tick)
    BY Zenon, <1>4 DEF InManager, ManagerNext
  <1>5. ASSUME NEW c \in Claims, CreateClaim(c) \/ RemoveSecret(c) \/ SyncSecret(c) \/ Wake(c) PROVE [ManagerNext]_manager
    BY Zenon, <1>5 DEF CreateClaim, RemoveSecret, SyncSecret, Wake
  <1>6. ASSUME NEW c \in Claims, NEW s \in Contents[c], WriteSecret(c, s) PROVE [ManagerNext]_manager
    BY Zenon, <1>6 DEF WriteSecret
  <1> QED
    BY Zenon, <1>1, <1>2, <1>3, <1>4, <1>5, <1>6 DEF Next

\* In every reachable state the Secrets are the claims' own.
LEMMA SecretsHold == Spec => []Secrets
  <1>1. Init => Secrets
    BY AccessAssumption DEF Init, Secrets
  <1>2. Secrets /\ [Next]_vars => Secrets'
    BY SecretsKept
  <1> QED
    BY <1>1, <1>2, PTL DEF Spec

(***************************************************************************)
(* The passes use the cache as it is meant to be used: the composed system *)
(* implements the manager's own specification.                             *)
(***************************************************************************)
THEOREM Composition == Spec => ManagerSpec
  <1>1. Init => ManagerInit
    BY DEF Init
  <1>2. Secrets /\ [Next]_vars => [ManagerNext]_manager
    BY ManagerSteps
  <1> QED
    BY <1>1, <1>2, SecretsHold, PTL DEF Spec, ManagerSpec

-------------------------------------------------------------------------------
\* The queue gives a claim to one worker, and the worker asks for its claim's client.
Passes ==
    /\ task \in [Workers -> Claims \union {Idle}]
    /\ \A w \in Workers : task[w] = Idle <=> pc[w] = "out"
    /\ \A w \in Workers : task[w] = Idle => arg[w] = NoCall
    /\ \A v, w \in Workers : task[v] = task[w] /\ task[v] # Idle => v = w
    /\ \A w \in Workers : task[w] # Idle /\ arg[w] # NoCall =>
         arg[w].key = SecretOf(task[w]) /\ arg[w].kube \in Contents[task[w]]

\* A worker's calls go through the lock and come back.
LEMMA ServeMoves ==
    ASSUME ManagerOK, NEW w \in Workers, Serve(w)
    PROVE  arg' = arg /\ pc[w] # "out" /\ \E to \in {"touch", "lock", "create", "done"} : pc' = [pc EXCEPT ![w] = to]
  BY Zenon DEF Serve, Lookup, Touch, Lock, Create, Move

\* Every step keeps Passes.
LEMMA PassesKept == ASSUME ManagerOK, Secrets, Passes, [Next]_vars PROVE Passes'
  <1>0. pc \in [Workers -> {"out", "rlock", "touch", "lock", "create", "done"}]
        /\ arg \in [Workers -> Calls \union {NoCall}]
    BY DEF ManagerOK, ManagerType
  <1>1. CASE UNCHANGED <<pc, arg, task>>
    BY <1>1 DEF Passes
  <1>2. CASE UNCHANGED vars
    BY <1>1, <1>2 DEF vars, callers, manager
  <1>3. ASSUME NEW w \in Workers, NEW c \in Claims, Reconcile(w, c) PROVE Passes'
    <2>1. CASE ReconcileNotFound(w, c) \/ EndEarly(w, c) \/ KubeconfigMissing(w, c)
      BY <1>1, <2>1 DEF ReconcileNotFound, EndEarly, KubeconfigMissing, manager
    <2>2. CASE CallGetClient(w, c)
      <3>1. /\ task[w] = Idle /\ \A v \in Workers : task[v] # c
            /\ task' = [task EXCEPT ![w] = c]
        BY <2>2 DEF CallGetClient, Take
      <3>2. c # Idle
        BY AccessAssumption
      <3>3. CASE csecret[c] = Empty
        <4>1. pc' = [pc EXCEPT ![w] = "done"] /\ arg' = arg
          BY <2>2, <3>3 DEF CallGetClient, GetClientEmpty, Move
        <4> QED
          BY <1>0, <3>1, <3>2, <4>1 DEF Passes
      <3>4. CASE csecret[c] # Empty
        <4>1. pc' = [pc EXCEPT ![w] = "rlock"] /\ arg' = [arg EXCEPT ![w] = [key |-> SecretOf(c), kube |-> csecret[c]]]
          BY ZenonT(60), <2>2, <3>4 DEF CallGetClient, GetClient, Move
        <4>2. csecret[c] \in Contents[c]
          BY <2>2 DEF CallGetClient, Secrets
        <4> QED
          BY <1>0, <3>1, <3>2, <4>1, <4>2 DEF Passes
      <3> QED
        BY <3>3, <3>4
    <2> QED
      BY Zenon, <1>3, <2>1, <2>2 DEF Reconcile
  <1>4. ASSUME NEW w \in Workers, EndPass(w) PROVE Passes'
    <2>1. pc' = [pc EXCEPT ![w] = "out"] /\ arg' = [arg EXCEPT ![w] = NoCall] /\ task' = [task EXCEPT ![w] = Idle]
      BY <1>4 DEF EndPass, Release, Move
    <2> QED
      BY <1>0, <2>1 DEF Passes
  <1>5. ASSUME NEW w \in Workers, InManager(Serve(w)) PROVE Passes'
    <2>1. task' = task /\ arg' = arg /\ pc[w] # "out"
          /\ \E to \in {"touch", "lock", "create", "done"} : pc' = [pc EXCEPT ![w] = to]
      BY <1>5, ServeMoves DEF InManager, callers
    <2> QED
      BY <1>0, <2>1 DEF Passes
  <1>6. CASE InManager(Upkeep) \/ InManager(Tick)
    BY <1>1, <1>6 DEF InManager, Upkeep, Start, removeExpired, cleanup, Tick, callers
  <1>7. ASSUME NEW c \in Claims, CreateClaim(c) \/ RemoveSecret(c) \/ SyncSecret(c) \/ Wake(c) PROVE Passes'
    BY <1>1, <1>7 DEF CreateClaim, RemoveSecret, SyncSecret, Wake, manager
  <1>8. ASSUME NEW c \in Claims, NEW s \in Contents[c], WriteSecret(c, s) PROVE Passes'
    BY <1>1, <1>8 DEF WriteSecret, manager
  <1> QED
    BY Zenon, <1>2, <1>3, <1>4, <1>5, <1>6, <1>7, <1>8 DEF Next

\* In every reachable state the passes and the manager fit together.
LEMMA PassesHold == Spec => [](ManagerOK /\ Passes)
  <1>1. Init => Passes
    BY AccessAssumption DEF Init, ManagerInit, Passes
  <1>2. ManagerOK /\ Secrets /\ Passes /\ [Next]_vars => Passes'
    BY PassesKept
  <1>3. Spec => []ManagerOK
    BY Composition, ManagerCorrect, PTL
  <1> QED
    BY <1>1, <1>2, <1>3, SecretsHold, PTL DEF Spec

(***************************************************************************)
(* A pass that got a remote client got the one built from the kubeconfig   *)
(* it read for its own claim, for any number of claims, workers and        *)
(* rotations.                                                              *)
(***************************************************************************)
THEOREM ClientsAreRight == Spec => []RightClient
  <1>1. ManagerOK /\ Passes => RightClient
    <2> SUFFICES ASSUME ManagerOK, Passes, NEW w \in Workers, NEW c \in Claims, Uses(w, c)
                 PROVE  got[w] = arg[w].kube /\ arg[w].key = SecretOf(c) /\ got[w] \in Contents[c]
      BY DEF RightClient
    <2>1. task[w] = c /\ c # Idle /\ arg[w] \in Calls /\ got[w] = arg[w].kube
      BY AccessAssumption DEF Uses, ManagerOK, Served
    <2>2. arg[w] # NoCall
      BY <2>1, Facts
    <2> QED
      BY <2>1, <2>2 DEF Passes
  <1> QED
    BY <1>1, PassesHold, PTL

-------------------------------------------------------------------------------
\* Worker w has found the client of key k and is about to store the time it took.
Touching(w, k) == pc[w] = "touch" /\ arg[w].key = k

(***************************************************************************)
(* The stamp of an entry is the age of its last use, and while a worker is *)
(* about to store a newer stamp, the age is that worker's.                 *)
(***************************************************************************)
Stamps ==
    \A k \in Keys :
      /\ \A w \in Workers : Touching(w, k) => used[k] = now[w]
      /\ clients[k] # NoEntry /\ (\A w \in Workers : ~Touching(w, k)) => used[k] = clients[k].lastUsed

\* No two workers are in GetClient for the same key: the queue gives a claim to one worker.
LEMMA OneCaller ==
    ASSUME Passes, NEW v \in Workers, NEW w \in Workers,
           arg[v] \in Calls, arg[w] \in Calls, arg[v].key = arg[w].key
    PROVE  v = w
  <1>1. arg[v] # NoCall /\ arg[w] # NoCall
    BY Facts
  <1>2. task[v] # Idle /\ task[w] # Idle /\ task[v] \in Claims /\ task[w] \in Claims
    BY <1>1 DEF Passes
  <1>3. SecretOf(task[v]) = SecretOf(task[w])
    BY <1>1, <1>2 DEF Passes
  <1>4. task[v] \in ClaimKeys /\ task[w] \in ClaimKeys
    BY <1>2, AccessAssumption DEF ClaimKeys
  <1>5. task[v] = task[w]
    BY <1>3, <1>4, SecretIsOwn
  <1> QED
    BY <1>2, <1>5 DEF Passes

\* A step of a worker that stores no stamp.
LEMMA OthersKept ==
    ASSUME ManagerOK, Stamps, NEW w \in Workers, NEW to \in {"out", "rlock", "lock", "create", "done"},
           pc' = [pc EXCEPT ![w] = to], pc[w] # "touch",
           \A v \in Workers : v # w => arg'[v] = arg[v],
           UNCHANGED <<clients, now, used>>
    PROVE  Stamps'
  <1>1. \A v \in Workers, k \in Keys : Touching(v, k)' <=> Touching(v, k)
    BY DEF Touching, ManagerOK, ManagerType
  <1> QED
    BY <1>1 DEF Stamps

\* A hit takes the time, and the worker's stamp is the age of the last use.
LEMMA LookupStamps == ASSUME ManagerOK, Passes, Stamps, NEW w \in Workers, Lookup(w) PROVE Stamps'
  <1> DEFINE k == arg[w].key
  <1>0. pc \in [Workers -> {"out", "rlock", "touch", "lock", "create", "done"}] /\ pc[w] = "rlock" /\ k \in Keys
        /\ now \in [Workers -> Ages] /\ used \in [Keys -> Ages] /\ arg[w] \in Calls
    BY DEF Lookup, ManagerOK, ManagerType, Served, Calls
  <1>1. CASE ~Cached(k, arg[w].kube)
    <2>1. pc' = [pc EXCEPT ![w] = "lock"] /\ UNCHANGED <<clients, now, used, arg>>
      BY ZenonT(60), <1>1 DEF Lookup, Move
    <2> QED
      BY Zenon, <1>0, <2>1, OthersKept
  <1>2. CASE Cached(k, arg[w].kube)
    <2>1. /\ pc' = [pc EXCEPT ![w] = "touch"] /\ now' = [now EXCEPT ![w] = 0] /\ used' = [used EXCEPT ![k] = 0]
          /\ UNCHANGED <<clients, arg>>
      BY <1>2 DEF Lookup, Move
    <2>2. \A v \in Workers, j \in Keys : Touching(v, j)' <=> Touching(v, j) \/ (v = w /\ j = k)
      BY ZenonT(60), <1>0, <2>1 DEF Touching
    <2>3. (\A v \in Workers : ~Touching(v, k)) /\ \A j \in Keys : ~Touching(w, j)
      BY <1>0, OneCaller DEF Touching, ManagerOK, Served
    <2>4. \A v \in Workers, j \in Keys : Touching(v, j)' => used'[j] = now'[v]
      BY <1>0, <2>1, <2>2, <2>3 DEF Stamps
    <2>5. \A j \in Keys : clients'[j] # NoEntry /\ (\A v \in Workers : ~Touching(v, j)') => used'[j] = clients'[j].lastUsed
      BY <1>0, <2>1, <2>2 DEF Stamps
    <2> QED
      BY <2>4, <2>5 DEF Stamps
  <1> QED
    BY ZenonT(60), <1>1, <1>2

\* The stamp is stored: it is the age of the last use, and nobody else is about to store one.
LEMMA TouchStamps == ASSUME ManagerOK, Passes, Stamps, NEW w \in Workers, Touch(w) PROVE Stamps'
  <1> DEFINE k == arg[w].key
  <1>0. pc \in [Workers -> {"out", "rlock", "touch", "lock", "create", "done"}] /\ pc[w] = "touch" /\ k \in Keys
        /\ now \in [Workers -> Ages] /\ clients[k] \in cachedClient /\ clients \in [Keys -> cachedClient \union {NoEntry}]
        /\ arg[w] \in Calls
    BY DEF Touch, Move, ManagerOK, ManagerType, Served, Calls
  <1>1. /\ pc' = [pc EXCEPT ![w] = "done"] /\ now' = [now EXCEPT ![w] = 0] /\ UNCHANGED <<used, arg>>
        /\ clients' = [clients EXCEPT ![k] = [clients[k] EXCEPT !.lastUsed = now[w]]]
    BY <1>0 DEF Touch, Move
  <1>2. \A v \in Workers, j \in Keys : Touching(v, j)' <=> Touching(v, j) /\ v # w
    BY ZenonT(60), <1>0, <1>1 DEF Touching
  <1>3. \A v \in Workers : Touching(v, k) => v = w
    BY <1>0, OneCaller DEF Touching, ManagerOK, Served
  <1>4. Touching(w, k) /\ \A j \in Keys : j # k => ~Touching(w, j)
    BY <1>0 DEF Touching
  <1>5. clients'[k].lastUsed = now[w] /\ used[k] = now[w]
    BY <1>0, <1>1, <1>4 DEF Stamps, cachedClient
  <1>6. \A v \in Workers, j \in Keys : Touching(v, j)' => used'[j] = now'[v]
    BY <1>0, <1>1, <1>2 DEF Stamps
  <1>7. \A j \in Keys : clients'[j] # NoEntry /\ (\A v \in Workers : ~Touching(v, j)') => used'[j] = clients'[j].lastUsed
    <2>1. ASSUME NEW j \in Keys, j # k, clients'[j] # NoEntry, \A v \in Workers : ~Touching(v, j)'
          PROVE  used'[j] = clients'[j].lastUsed
      <3>1. clients'[j] = clients[j] /\ used'[j] = used[j]
        BY <1>0, <1>1, <2>1
      <3>2. \A v \in Workers : ~Touching(v, j)
        BY <1>2, <1>4, <2>1
      <3> QED
        BY <2>1, <3>1, <3>2 DEF Stamps
    <2> QED
      BY ZenonT(60), <1>1, <1>5, <2>1
  <1> QED
    BY <1>6, <1>7 DEF Stamps

\* A new client, or a hit under the write lock, is a use.
LEMMA CreateStamps == ASSUME ManagerOK, Stamps, NEW w \in Workers, Create(w) PROVE Stamps'
  <1> DEFINE k == arg[w].key
             fails == ~Cached(k, arg[w].kube) /\ arg[w].kube \in Unusable
             e == IF Cached(k, arg[w].kube) THEN [clients[k] EXCEPT !.lastUsed = 0]
                  ELSE [client |-> arg[w].kube, hash |-> Hash[arg[w].kube], lastUsed |-> 0]
  <1>0. /\ pc \in [Workers -> {"out", "rlock", "touch", "lock", "create", "done"}] /\ pc[w] = "create" /\ k \in Keys
        /\ clients \in [Keys -> cachedClient \union {NoEntry}] /\ used \in [Keys -> Ages]
        /\ writer = w /\ readers = {} /\ clients[k] \in cachedClient \union {NoEntry}
    BY Facts DEF Create, Move, ManagerOK, ManagerType, Served, Calls, Locks
  <1>1. \A v \in Workers, j \in Keys : ~Touching(v, j) /\ ~Touching(v, j)'
    BY <1>0 DEF Create, Move, Touching, ManagerOK, Locks
  <1>2. CASE fails
    <2>1. clients' = clients /\ used' = used
      BY ZenonT(60), <1>0, <1>2 DEF Create
    <2> QED
      BY <1>1, <2>1 DEF Stamps
  <1>3. CASE ~fails
    <2>1. clients' = [clients EXCEPT ![k] = e] /\ used' = [used EXCEPT ![k] = 0]
      BY Zenon, <1>0, <1>3 DEF Create
    <2>2. e.lastUsed = 0
      BY <1>0 DEF Cached, cachedClient
    <2> HIDE DEF e
    <2> QED
      BY <1>0, <1>1, <2>1, <2>2 DEF Stamps
  <1> QED
    BY <1>2, <1>3

\* The clock ages stamps and uses alike, and an eviction forgets both.
LEMMA UpkeepStamps == ASSUME ManagerOK, Stamps, Upkeep \/ Tick PROVE Stamps'
  <1>1. ASSUME NEW next, Start(next) PROVE Stamps'
    BY <1>1 DEF Start, Stamps, Touching
  <1>2. CASE removeExpired \/ cleanup
    <2>1. PICK ks : Drop(ks)
      BY <1>2 DEF removeExpired, cleanup
    <2>2. readers = {} /\ UNCHANGED <<pc, arg, now>>
      BY <1>2 DEF removeExpired, cleanup
    <2>3. \A w \in Workers, k \in Keys : ~Touching(w, k) /\ ~Touching(w, k)'
      BY <2>2 DEF Touching, ManagerOK, Locks
    <2> QED
      BY <2>1, <2>3 DEF Drop, Stamps
  <1>3. CASE Tick
    <2>1. UNCHANGED <<pc, arg>> /\ \A w \in Workers, k \in Keys : Touching(w, k)' <=> Touching(w, k)
      BY <1>3 DEF Tick, Touching
    <2>2. ASSUME NEW k \in Keys, NEW w \in Workers, Touching(w, k) PROVE used'[k] = now'[w]
      <3>1. clients[k] # NoEntry
        BY <2>2 DEF Touching, ManagerOK, Served
      <3> QED
        BY <1>3, <2>2, <3>1 DEF Tick, Touching, Stamps
    <2>3. ASSUME NEW k \in Keys, clients'[k] # NoEntry, \A w \in Workers : ~Touching(w, k)
          PROVE  used'[k] = clients'[k].lastUsed
      <3>1. clients[k] # NoEntry /\ clients'[k] = [clients[k] EXCEPT !.lastUsed = Older(clients[k].lastUsed)]
            /\ used'[k] = Older(used[k])
        BY <1>3, <2>3 DEF Tick
      <3>2. clients[k] \in cachedClient
        BY <3>1 DEF ManagerOK, ManagerType
      <3>3. clients'[k].lastUsed = Older(clients[k].lastUsed)
        BY <3>1, <3>2 DEF cachedClient
      <3> QED
        BY <2>3, <3>1, <3>3 DEF Stamps
    <2> QED
      BY <2>1, <2>2, <2>3 DEF Stamps
  <1> QED
    BY ZenonT(60), <1>1, <1>2, <1>3 DEF Upkeep

\* Every step keeps Stamps.
LEMMA StampsKept == ASSUME ManagerOK, Secrets, Passes, Stamps, [Next]_vars PROVE Stamps'
  <1>1. CASE UNCHANGED manager
    BY <1>1 DEF manager, Stamps, Touching
  <1>2. ASSUME NEW w \in Workers, NEW c \in Claims, Reconcile(w, c) PROVE Stamps'
    <2>1. CASE ReconcileNotFound(w, c) \/ EndEarly(w, c) \/ KubeconfigMissing(w, c)
      BY <1>1, <2>1 DEF ReconcileNotFound, EndEarly, KubeconfigMissing
    <2>2. CASE CallGetClient(w, c)
      <3>1. /\ pc[w] = "out" /\ UNCHANGED <<clients, now, used>>
            /\ \E to \in {"rlock", "done"} : pc' = [pc EXCEPT ![w] = to]
            /\ arg' = arg \/ arg' = [arg EXCEPT ![w] = [key |-> SecretOf(c), kube |-> csecret[c]]]
        BY Zenon, <2>2 DEF CallGetClient, GetClientEmpty, GetClient, Move
      <3>2. \A v \in Workers : v # w => arg'[v] = arg[v]
        BY <3>1 DEF ManagerOK, ManagerType
      <3> QED
        BY Zenon, <3>1, <3>2, OthersKept
    <2> QED
      BY Zenon, <1>2, <2>1, <2>2 DEF Reconcile
  <1>3. ASSUME NEW w \in Workers, EndPass(w) PROVE Stamps'
    <2>1. /\ pc[w] = "done" /\ pc' = [pc EXCEPT ![w] = "out"] /\ arg' = [arg EXCEPT ![w] = NoCall]
          /\ UNCHANGED <<clients, now, used>>
      BY <1>3 DEF EndPass, Release, Move
    <2>2. \A v \in Workers : v # w => arg'[v] = arg[v]
      BY <2>1 DEF ManagerOK, ManagerType
    <2> QED
      BY Zenon, <2>1, <2>2, OthersKept
  <1>4. ASSUME NEW w \in Workers, Lock(w) PROVE Stamps'
    BY Zenon, <1>4, OthersKept DEF Lock, Move
  <1>5. ASSUME NEW w \in Workers, Serve(w) PROVE Stamps'
    BY Zenon, <1>4, <1>5, LookupStamps, TouchStamps, CreateStamps DEF Serve
  <1>6. ASSUME NEW c \in Claims, CreateClaim(c) \/ RemoveSecret(c) \/ SyncSecret(c) \/ Wake(c) PROVE Stamps'
    BY Zenon, <1>1, <1>6 DEF CreateClaim, RemoveSecret, SyncSecret, Wake
  <1>7. ASSUME NEW c \in Claims, NEW s \in Contents[c], WriteSecret(c, s) PROVE Stamps'
    BY Zenon, <1>1, <1>7 DEF WriteSecret
  <1>8. CASE UNCHANGED vars
    BY <1>1, <1>8 DEF vars
  <1> QED
    BY Zenon, <1>2, <1>3, <1>5, <1>6, <1>7, <1>8, UpkeepStamps DEF Next, InManager

\* Only an eviction, or the end of the process, takes an entry away.
LEMMA EntriesStay ==
    ASSUME ManagerOK, [ManagerNext]_manager, NEW k \in Keys, clients[k] # NoEntry, clients'[k] = NoEntry, Running'
    PROVE  removeExpired /\ clients[k].lastUsed > TTL
  <1>0. clients \in [Keys -> cachedClient \union {NoEntry}]
    BY DEF ManagerOK, ManagerType
  <1>1. clients' # clients
    BY ZenonT(60)
  <1>2. ASSUME NEW w \in Workers, Serve(w) PROVE FALSE
    <2>1. CASE Touch(w)
      <3>1. arg[w].key \in Keys /\ clients[arg[w].key] \in cachedClient /\ now[w] \in Ages
        BY <2>1 DEF Touch, Move, ManagerOK, ManagerType, Served, Calls
      <3>2. [clients[arg[w].key] EXCEPT !.lastUsed = now[w]] \in cachedClient
        BY <3>1, EntryTypes
      <3> QED
        BY <1>0, <2>1, <3>1, <3>2, Facts DEF Touch
    <2>2. CASE Create(w)
      <3>1. arg[w].key \in Keys /\ arg[w].kube \in Kubeconfig
        BY <2>2 DEF Create, Move, ManagerOK, ManagerType, Served, Calls
      <3>2. Cached(arg[w].key, arg[w].kube) => [clients[arg[w].key] EXCEPT !.lastUsed = 0] \in cachedClient
        BY <1>0, <3>1, EntryTypes DEF Cached
      <3>3. [client |-> arg[w].kube, hash |-> Hash[arg[w].kube], lastUsed |-> 0] \in cachedClient
        BY <3>1, EntryTypes
      <3> QED
        BY <1>0, <2>2, <3>1, <3>2, <3>3, Facts DEF Create
    <2> QED
      BY <1>1, <1>2, <2>1, <2>2 DEF Serve, Lookup, Lock
  <1>3. ~Tick
    <2> SUFFICES ASSUME Tick PROVE FALSE
      OBVIOUS
    <2>1. clients[k] \in cachedClient /\ Older(clients[k].lastUsed) \in Ages
      BY <1>0, OlderType DEF cachedClient
    <2>2. clients'[k] = [clients[k] EXCEPT !.lastUsed = Older(clients[k].lastUsed)]
      BY DEF Tick
    <2>3. clients'[k] \in cachedClient
      BY <2>1, <2>2, EntryTypes
    <2> QED
      BY <2>3, Facts
  <1>4. ~cleanup
    BY ZenonT(60) DEF cleanup, Running
  <1>5. removeExpired
    BY <1>1, <1>2, <1>3, <1>4 DEF ManagerNext, manager, GetClient, GetClientEmpty, Release, Upkeep, Start
  <1> QED
    BY <1>5 DEF removeExpired, Drop

(***************************************************************************)
(* removeExpired never evicts a client that a pass asked for within the    *)
(* TTL, although lastUsed is stored under a read lock that others share.   *)
(***************************************************************************)
THEOREM EvictionIsSafe == Spec => RecentlyUsedIsKept
  <1> DEFINE Kept == \A k \in Keys : clients[k] # NoEntry /\ clients'[k] = NoEntry /\ Running' => used[k] > TTL
  <1>1. Init => Stamps
    BY AccessAssumption DEF Init, ManagerInit, Stamps, Touching
  <1>2. ManagerOK /\ Secrets /\ Passes /\ Stamps /\ [Next]_vars => Stamps'
    BY StampsKept
  <1>3. ManagerOK /\ Secrets /\ Stamps /\ [Next]_vars => [Kept]_vars
    <2> SUFFICES ASSUME ManagerOK, Secrets, Stamps, [Next]_vars,
                        NEW k \in Keys, clients[k] # NoEntry, clients'[k] = NoEntry, Running'
                 PROVE  used[k] > TTL
      OBVIOUS
    <2>1. removeExpired /\ clients[k].lastUsed > TTL
      BY ManagerSteps, EntriesStay
    <2>2. \A w \in Workers : ~Touching(w, k)
      BY <2>1 DEF removeExpired, Touching, ManagerOK, Locks
    <2> QED
      BY <2>1, <2>2 DEF Stamps
  <1> QED
    BY <1>1, <1>2, <1>3, PassesHold, SecretsHold, PTL DEF Spec, RecentlyUsedIsKept

===============================================================================
