---------------------------- MODULE ClusterManager ----------------------------
(***************************************************************************)
(* The cache of remote clients of remote/cluster_manager.go: GetClient     *)
(* called by any number of concurrent workers, the RWMutex around the map, *)
(* and the cleanup goroutine that evicts clients unused for longer than    *)
(* the TTL and empties the map on shutdown.                                *)
(*                                                                         *)
(* A time stamp is represented by its age in ticks, capped at TTL + 1: the *)
(* code only ever asks whether a stamp is older than the TTL.              *)
(***************************************************************************)
EXTENDS Integers

CONSTANTS
    Workers,      \* reconcile workers that may call GetClient
    Nobody,       \* holder of a free write lock
    Keys,         \* cache keys, namespace/name of a kubeconfig Secret
    Kubeconfig,   \* contents of the "value" key of such a Secret
    Unusable,     \* contents that do not parse or yield no client
    Hash,         \* what computeHash returns for each content
    NoEntry,      \* no client is cached
    NoClient,     \* GetClient returned an error, or nothing yet
    NoCall,       \* a worker that has no call of GetClient open
    TTL           \* cm.ttl in ticks

ASSUME ManagerAssumption ==
    /\ Nobody \notin Workers
    /\ Unusable \subseteq Kubeconfig
    /\ NoClient \notin Kubeconfig
    /\ NoCall \notin [key: Keys, kube: Kubeconfig]
    /\ TTL \in Nat

\* computeHash keeps 8 bytes of a SHA-256: no two contents in use collide.
ASSUME HashAssumption == \A a, b \in Kubeconfig : Hash[a] = Hash[b] => a = b

Ages == 0..(TTL + 1)

\* A client is named by the kubeconfig it was built from.
cachedClient == [client: Kubeconfig, hash: {Hash[a] : a \in Kubeconfig}, lastUsed: Ages]

ASSUME NoEntryAssumption == NoEntry \notin cachedClient

VARIABLES
    clients,    \* cm.clients
    readers,    \* workers that hold the read lock
    writer,     \* who holds the write lock
    pc,         \* where each worker is in GetClient
    janitor,    \* where Start is: "ticker", "expire", "cleanup" or "stopped"
    arg,        \* each worker's Secret: key and kubeconfig
    now,        \* the age of the time.Now() a worker is about to store
    got,        \* what each worker's last GetClient returned
    used        \* history: per key, how long ago its cached client was last asked for

manager == <<clients, readers, writer, pc, janitor, arg, now, got, used>>

Running == janitor # "stopped"

Older(a) == IF a > TTL THEN a ELSE a + 1

Cached(k, c) == clients[k] # NoEntry /\ clients[k].hash = Hash[c]

ManagerInit ==
    /\ clients = [k \in Keys |-> NoEntry]
    /\ readers = {} /\ writer = Nobody
    /\ pc = [w \in Workers |-> "out"]
    /\ janitor = "ticker"
    /\ arg = [w \in Workers |-> NoCall]
    /\ now = [w \in Workers |-> 0]
    /\ got = [w \in Workers |-> NoClient]
    /\ used = [k \in Keys |-> 0]

Move(w, from, to) == pc[w] = from /\ pc' = [pc EXCEPT ![w] = to]

Return(w, result) == got' = [got EXCEPT ![w] = result]

-------------------------------------------------------------------------------
(***************************************************************************)
(* GetClient.  A Secret without a kubeconfig is refused before any lock is *)
(* taken.                                                                  *)
(***************************************************************************)
GetClient(w, k, c) ==
    /\ Move(w, "out", "rlock")
    /\ arg' = [arg EXCEPT ![w] = [key |-> k, kube |-> c]]
    /\ UNCHANGED <<clients, readers, writer, janitor, now, got, used>>

GetClientEmpty(w) ==
    /\ Move(w, "out", "done")
    /\ Return(w, NoClient)
    /\ UNCHANGED <<clients, readers, writer, janitor, arg, now, used>>

\* A waiting writer keeps new readers out.
MayRLock ==
    writer = Nobody /\ janitor \in {"ticker", "stopped"} /\ \A v \in Workers : pc[v] # "lock"

\* Fault: the hash of the kubeconfig is not compared.
LookupAnyHash(w) ==
    LET k == arg[w].key IN
    /\ pc[w] = "rlock" /\ MayRLock
    /\ \/ clients[k] # NoEntry /\ Move(w, "rlock", "touch") /\ readers' = readers \union {w}
          /\ now' = [now EXCEPT ![w] = 0] /\ used' = [used EXCEPT ![k] = 0]
       \/ clients[k] = NoEntry /\ Move(w, "rlock", "lock") /\ UNCHANGED <<readers, now, used>>
    /\ UNCHANGED <<clients, writer, janitor, arg, got>>

\* Under the read lock a hit takes the time; a miss gives the lock back and asks for the write lock.
Lookup(w) ==
    LET k == arg[w].key IN
    /\ pc[w] = "rlock" /\ MayRLock
    /\ \/ /\ Cached(k, arg[w].kube)
          /\ Move(w, "rlock", "touch")
          /\ readers' = readers \union {w}
          /\ now' = [now EXCEPT ![w] = 0] /\ used' = [used EXCEPT ![k] = 0]
       \/ /\ ~Cached(k, arg[w].kube)
          /\ Move(w, "rlock", "lock")
          /\ UNCHANGED <<readers, now, used>>
    /\ UNCHANGED <<clients, writer, janitor, arg, got>>

\* Fault: a hit does not count as a use.
TouchForgets(w) ==
    /\ Move(w, "touch", "done")
    /\ readers' = readers \ {w}
    /\ Return(w, clients[arg[w].key].client)
    /\ now' = [now EXCEPT ![w] = 0]
    /\ UNCHANGED <<clients, writer, janitor, arg, used>>

(***************************************************************************)
(* cached.lastUsed = time.Now() under the read lock, RUnlock, return.  The *)
(* store races with the same store of another reader: either may come      *)
(* last, and of a torn value only the monotonic word counts.  The client   *)
(* of an entry never changes, so it may be read after RUnlock.             *)
(***************************************************************************)
Touch(w) ==
    LET k == arg[w].key IN
    /\ Move(w, "touch", "done")
    /\ clients' = [clients EXCEPT ![k].lastUsed = now[w]]
    /\ readers' = readers \ {w}
    /\ Return(w, clients[k].client)
    /\ now' = [now EXCEPT ![w] = 0]
    /\ UNCHANGED <<writer, janitor, arg, used>>

Lock(w) ==
    /\ Move(w, "lock", "create")
    /\ writer = Nobody /\ readers = {}
    /\ writer' = w
    /\ UNCHANGED <<clients, readers, janitor, arg, now, got, used>>

\* Fault: no unlock on the error path.
CreateKeepsLock(w) ==
    LET k == arg[w].key
        c == arg[w].kube IN
    /\ Move(w, "create", "done")
    /\ writer' = IF ~Cached(k, c) /\ c \in Unusable THEN writer ELSE Nobody
    /\ used' = [used EXCEPT ![k] = 0]
    /\ clients' = IF c \in Unusable THEN clients
                  ELSE [clients EXCEPT ![k] = [client |-> c, hash |-> Hash[c], lastUsed |-> 0]]
    /\ Return(w, IF c \in Unusable THEN NoClient ELSE c)
    /\ UNCHANGED <<readers, janitor, arg, now>>

\* The second lookup, the new client and Unlock, all under the write lock.
Create(w) ==
    LET k == arg[w].key
        c == arg[w].kube
        hit == Cached(k, c)
        fails == ~hit /\ c \in Unusable IN
    /\ Move(w, "create", "done")
    /\ writer' = Nobody
    /\ clients' = [clients EXCEPT ![k] =
                     IF fails THEN @
                     ELSE IF hit THEN [@ EXCEPT !.lastUsed = 0]
                     ELSE [client |-> c, hash |-> Hash[c], lastUsed |-> 0]]
    /\ used' = [used EXCEPT ![k] = IF fails THEN @ ELSE 0]
    /\ Return(w, IF fails THEN NoClient ELSE IF hit THEN clients[k].client ELSE c)
    /\ UNCHANGED <<readers, janitor, arg, now>>

\* The caller is done with what GetClient returned.
Release(w) ==
    /\ Move(w, "done", "out")
    /\ Return(w, NoClient)
    /\ arg' = [arg EXCEPT ![w] = NoCall]
    /\ UNCHANGED <<clients, readers, writer, janitor, now, used>>

-------------------------------------------------------------------------------
(***************************************************************************)
(* Start: the ticker asks for an eviction, the end of the context for a    *)
(* last cleanup; both wait for the write lock.                             *)
(***************************************************************************)
Start(next) ==
    /\ janitor = "ticker" /\ janitor' = next
    /\ UNCHANGED <<clients, readers, writer, pc, arg, now, got, used>>

Drop(ks) ==
    /\ clients' = [k \in Keys |-> IF k \in ks THEN NoEntry ELSE clients[k]]
    /\ used' = [k \in Keys |-> IF k \in ks THEN 0 ELSE used[k]]

\* Fault: never evicts anything.
removeExpiredNothing ==
    /\ janitor = "expire" /\ janitor' = "ticker"
    /\ writer = Nobody /\ readers = {}
    /\ UNCHANGED <<clients, readers, writer, pc, arg, now, got, used>>

removeExpired ==
    /\ janitor = "expire" /\ janitor' = "ticker"
    /\ writer = Nobody /\ readers = {}
    /\ Drop({k \in Keys : clients[k] # NoEntry /\ clients[k].lastUsed > TTL})
    /\ UNCHANGED <<readers, writer, pc, arg, now, got>>

cleanup ==
    /\ janitor = "cleanup" /\ janitor' = "stopped"
    /\ writer = Nobody /\ readers = {}
    /\ Drop(Keys)
    /\ UNCHANGED <<readers, writer, pc, arg, now, got>>

\* One tick of the clock.
Tick ==
    /\ clients' = [k \in Keys |->
                     IF clients[k] = NoEntry THEN NoEntry ELSE [clients[k] EXCEPT !.lastUsed = Older(@)]]
    /\ now' = [w \in Workers |-> IF pc[w] = "touch" THEN Older(now[w]) ELSE now[w]]
    /\ used' = [k \in Keys |-> IF clients[k] = NoEntry THEN used[k] ELSE Older(used[k])]
    /\ UNCHANGED <<readers, writer, pc, janitor, arg, got>>

-------------------------------------------------------------------------------
Serve(w) == Lookup(w) \/ Touch(w) \/ Lock(w) \/ Create(w)

Upkeep == Start("expire") \/ Start("cleanup") \/ removeExpired \/ cleanup

ManagerNext ==
    \/ \E w \in Workers, k \in Keys, c \in Kubeconfig : GetClient(w, k, c)
    \/ \E w \in Workers : GetClientEmpty(w) \/ Serve(w) \/ Release(w)
    \/ Upkeep \/ Tick

\* The manager under any callers at all.
ManagerSpec == ManagerInit /\ [][ManagerNext]_manager

===============================================================================
