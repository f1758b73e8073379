--------------------------- MODULE SocketManager ---------------------------
(***************************************************************************)
(* The pool of control connections of socket/manager.go: Manager, its map  *)
(* of shared sockets, their reference counts, and the recovery of a dead   *)
(* connection inside SendRawCmd.                                           *)
(*                                                                         *)
(* Goroutines (RPC handlers and the metrics scraper) call Get, SendRawCmd  *)
(* and Close concurrently.  Three locks order them: Manager.mu is held for *)
(* the whole of Get, sharedSocket.smu for the whole of SendRawCmd, and     *)
(* sharedSocket.fmu for the short updates of refs and cached.  The first   *)
(* two are variables; an fmu critical section is one atomic step, whose    *)
(* only wait (for smu, when it closes the connection) is a guard.          *)
(*                                                                         *)
(* A connection (sh.s) is abstracted to "live" (its hostapd is running),   *)
(* "dead" (a send fails with a permanent errno) or "nil" (the interface    *)
(* value is nil).  Using a nil connection is a Go panic, which no handler  *)
(* recovers: the process exits.                                            *)
(***************************************************************************)
EXTENDS Integers, FiniteSets

CONSTANTS
  Proc,          \* goroutines that call the manager
  Name,          \* base names of the sockets in HostapdDir
  Shared,        \* identities of sharedSocket objects (one descriptor each)
  Limit,         \* Manager.Limit, 0 for no limit (the value main.go leaves)
  MaxAbandoned,  \* bound: handles of one object dropped without a Close
  None

ASSUME ManagerAssumption ==
  /\ IsFiniteSet(Proc) /\ IsFiniteSet(Name) /\ IsFiniteSet(Shared)
  /\ Limit \in Nat /\ MaxAbandoned \in Nat
  /\ None \notin Proc /\ None \notin Name /\ None \notin Shared

VARIABLES
  mu,         \* Manager.mu: the goroutine holding it, or None
  sockets,    \* Manager.sockets: the object cached under a name, or None
  mcached,    \* Manager.cached
  todo,       \* names the evict loop under mu has still to visit
  allocated,  \* objects created by openShared
  device,     \* sharedSocket.device, None for an object not yet created
  s,          \* sharedSocket.s
  refs,       \* sharedSocket.refs
  cached,     \* sharedSocket.cached
  smu,        \* sharedSocket.smu: the goroutine holding it, or None
  abandoned,  \* history: handles of the object dropped without a Close
  pc, want, hand,  \* goroutine: position, name asked for, handle held
  hostapd,    \* is the hostapd that serves this name running
  panic       \* the panic that ended the process, or "none"

pool == <<mu, sockets, mcached, todo>>
obj == <<allocated, device, s, refs, cached, smu, abandoned>>
proc == <<pc, want, hand>>
vars == <<pool, obj, proc, hostapd, panic>>

\* Positions inside Get, with and without Manager.mu; inside SendRawCmd.
InGet == {"lookup", "open", "store", "evict"}
InSend == {"send", "reconnect", "resend"}
Position == {"idle", "lock", "hold"} \union InGet \union InSend

TypeOK ==
  /\ mu \in Proc \union {None}
  /\ sockets \in [Name -> Shared \union {None}]
  /\ mcached \in Int
  /\ todo \subseteq Name
  /\ allocated \subseteq Shared
  /\ device \in [Shared -> Name \union {None}]
  /\ s \in [Shared -> {"nil", "live", "dead"}]
  /\ refs \in [Shared -> Nat]
  /\ cached \in [Shared -> BOOLEAN]
  /\ smu \in [Shared -> Proc \union {None}]
  /\ abandoned \in [Shared -> Nat]
  /\ pc \in [Proc -> Position]
  /\ want \in [Proc -> Name \union {None}]
  /\ hand \in [Proc -> Shared \union {None}]
  /\ hostapd \in [Name -> BOOLEAN]
  /\ panic \in {"none", "store", "nil"}

Init ==
  /\ mu = None /\ mcached = 0 /\ todo = {} /\ allocated = {}
  /\ sockets = [n \in Name |-> None]
  /\ device = [h \in Shared |-> None]
  /\ s = [h \in Shared |-> "nil"]
  /\ refs = [h \in Shared |-> 0]
  /\ cached = [h \in Shared |-> FALSE]
  /\ smu = [h \in Shared |-> None]
  /\ abandoned = [h \in Shared |-> 0]
  /\ pc = [p \in Proc |-> "idle"]
  /\ want = [p \in Proc |-> None]
  /\ hand = [p \in Proc |-> None]
  /\ hostapd \in [Name -> BOOLEAN]
  /\ panic = "none"

At(p, l) == panic = "none" /\ pc[p] = l
GoTo(p, l) == pc' = [pc EXCEPT ![p] = l]

-----------------------------------------------------------------------------
(* What the fmu critical sections compute.                                 *)

\* Variant: the reference count is not looked at.
ClosedUncached(h) == ~cached[h]

\* An object is closed when neither the cache nor a caller refers to it:
\* the test of inc and cache.
Closed(h) == ~cached[h] /\ refs[h] = 0

\* isOpen returns exactly that test.
IsOpen(h) == Closed(h)

\* The names present in the map.
Keys == {n \in Name : sockets[n] # None}

-----------------------------------------------------------------------------
(* Manager.Get                                                             *)

\* A handler calls Get(n) and queues on mu.
GetCall(p, n) ==
  /\ At(p, "idle") /\ GoTo(p, "lock")
  /\ want' = [want EXCEPT ![p] = n]
  /\ UNCHANGED <<pool, obj, hand, hostapd, panic>>

\* Variant: Get does not take mu.
MuIgnored == TRUE

MuFree == mu = None

GetLock(p) ==
  /\ At(p, "lock") /\ MuFree
  /\ mu' = p /\ GoTo(p, "lookup")
  /\ UNCHANGED <<sockets, mcached, todo, obj, want, hand, hostapd, panic>>

\* Variant: inc takes an object nobody uses for a closed one.
HitReferenced(n) == sockets[n] # None /\ refs[sockets[n]] > 0

\* The map has an open object for the name: inc takes a reference.
Hit(n) == sockets[n] # None /\ ~Closed(sockets[n])

\* Variant: the handle is given out without a reference.
GetHitUncounted(p) ==
  /\ At(p, "lookup") /\ Hit(want[p])
  /\ hand' = [hand EXCEPT ![p] = sockets[want[p]]] /\ GoTo(p, "store")
  /\ UNCHANGED <<pool, obj, want, hostapd, panic>>

GetHit(p) ==
  LET h == sockets[want[p]] IN
  /\ At(p, "lookup") /\ Hit(want[p])
  /\ refs' = [refs EXCEPT ![h] = @ + 1]
  /\ hand' = [hand EXCEPT ![p] = h] /\ GoTo(p, "store")
  /\ UNCHANGED <<pool, allocated, device, s, cached, smu, abandoned,
                 want, hostapd, panic>>

GetMiss(p) ==
  /\ At(p, "lookup") /\ ~Hit(want[p]) /\ GoTo(p, "open")
  /\ UNCHANGED <<pool, obj, want, hand, hostapd, panic>>

\* openShared creates the object with the caller's reference and no cache one.
OpenShared(p, h) ==
  /\ At(p, "open") /\ hostapd[want[p]] /\ h \notin allocated
  /\ allocated' = allocated \union {h}
  /\ device' = [device EXCEPT ![h] = want[p]]
  /\ s' = [s EXCEPT ![h] = "live"]
  /\ refs' = [refs EXCEPT ![h] = 1]
  /\ hand' = [hand EXCEPT ![p] = h] /\ GoTo(p, "store")
  /\ UNCHANGED <<pool, cached, smu, abandoned, want, hostapd, panic>>

\* Variant: the error path does not unlock mu.
OpenFailsLocked(p) ==
  /\ At(p, "open") /\ GoTo(p, "idle")
  /\ want' = [want EXCEPT ![p] = None]
  /\ UNCHANGED <<pool, obj, hand, hostapd, panic>>

\* Open fails (no such socket, or any other errno): Get returns the error.
OpenFails(p) ==
  /\ At(p, "open") /\ GoTo(p, "idle")
  /\ mu' = None /\ want' = [want EXCEPT ![p] = None]
  /\ UNCHANGED <<sockets, mcached, todo, obj, hand, hostapd, panic>>

\* store decides whether to evict before it inserts.
Store(p) ==
  /\ At(p, "store") /\ GoTo(p, "evict")
  /\ todo' = IF Limit # 0 /\ Cardinality(Keys) >= Limit THEN Keys ELSE {}
  /\ UNCHANGED <<mu, sockets, mcached, obj, want, hand, hostapd, panic>>

\* One turn of the loop of evict(1), in the map's arbitrary order.
EvictOne(p, n) ==
  LET h == sockets[n]
      over == mcached > Limit - 1 /\ cached[h]
      closes == IsOpen(h) /\ over /\ refs[h] = 0
  IN
  /\ At(p, "evict") /\ n \in todo
  /\ todo' = todo \ {n}
  /\ closes => smu[h] = None
  /\ sockets' = IF ~IsOpen(h) \/ closes THEN [sockets EXCEPT ![n] = None]
                                       ELSE sockets
  /\ mcached' = IF IsOpen(h) /\ over THEN mcached - 1 ELSE mcached
  /\ cached' = IF IsOpen(h) /\ over THEN [cached EXCEPT ![h] = FALSE]
                                    ELSE cached
  /\ s' = IF closes THEN [s EXCEPT ![h] = "nil"] ELSE s
  /\ panic' = IF closes /\ s[h] = "nil" THEN "nil" ELSE panic
  /\ UNCHANGED <<mu, allocated, device, refs, smu, abandoned, proc, hostapd>>

\* The rest of store: the cache's own reference, then the map entry; Get
\* returns the object and releases mu.  cache() on a closed object panics.
Put(p) ==
  LET h == hand[p] IN
  /\ At(p, "evict") /\ todo = {} /\ GoTo(p, "hold")
  /\ panic' = IF Closed(h) THEN "store" ELSE panic
  /\ cached' = [cached EXCEPT ![h] = ~Closed(h)]
  /\ mcached' = IF cached[h] \/ Closed(h) THEN mcached ELSE mcached + 1
  /\ sockets' = IF Closed(h) THEN sockets ELSE [sockets EXCEPT ![want[p]] = h]
  /\ mu' = None /\ want' = [want EXCEPT ![p] = None]
  /\ UNCHANGED <<todo, allocated, device, s, refs, smu, abandoned, hand,
                 hostapd>>

-----------------------------------------------------------------------------
(* sharedSocket.SendRawCmd and reconnect                                   *)

\* Variant: a send does not wait for the one before it.
SmuIgnored(h) == TRUE

SmuFree(h) == smu[h] = None

SendLock(p) ==
  /\ At(p, "hold") /\ SmuFree(hand[p]) /\ GoTo(p, "send")
  /\ smu' = [smu EXCEPT ![hand[p]] = p]
  /\ UNCHANGED <<pool, allocated, device, s, refs, cached, abandoned,
                 want, hand, hostapd, panic>>

\* A return from SendRawCmd: the deferred smu.Unlock.
SendReturn(p) ==
  /\ GoTo(p, "hold") /\ smu' = [smu EXCEPT ![hand[p]] = None]
  /\ UNCHANGED <<pool, allocated, device, refs, cached, abandoned,
                 want, hand, hostapd>>

\* The hostapd is there: a reply, or an error that is not a dead socket.
SendOk(p) ==
  /\ At(p, "send") /\ s[hand[p]] = "live"
  /\ SendReturn(p) /\ UNCHANGED <<s, panic>>

\* isSocketDead: reconnect closes the old connection and clears sh.s.
SendDead(p) ==
  /\ At(p, "send") /\ s[hand[p]] = "dead" /\ GoTo(p, "reconnect")
  /\ s' = [s EXCEPT ![hand[p]] = "nil"]
  /\ UNCHANGED <<pool, allocated, device, refs, cached, smu, abandoned,
                 want, hand, hostapd, panic>>

\* sh.s is nil, left so by an earlier reconnect that failed.
SendNil(p) ==
  /\ At(p, "send") /\ s[hand[p]] = "nil"
  /\ panic' = "nil" /\ SendReturn(p) /\ UNCHANGED s

ReconnectOk(p) ==
  /\ At(p, "reconnect") /\ hostapd[device[hand[p]]] /\ GoTo(p, "resend")
  /\ s' = [s EXCEPT ![hand[p]] = "live"]
  /\ UNCHANGED <<pool, allocated, device, refs, cached, smu, abandoned,
                 want, hand, hostapd, panic>>

\* Open failed: sh.s stays nil and SendRawCmd returns the error.
ReconnectFails(p) ==
  /\ At(p, "reconnect") /\ SendReturn(p) /\ UNCHANGED <<s, panic>>

\* The second send; whatever it returns, the call returns.
Resend(p) ==
  /\ At(p, "resend") /\ SendReturn(p) /\ UNCHANGED <<s, panic>>

-----------------------------------------------------------------------------
(* sharedSocket.Close, and the caller that forgets it                      *)

\* Variant: the last caller closes the connection although it is cached.
CloseCached(p) ==
  LET h == hand[p]
      last == refs[h] = 1
  IN
  /\ At(p, "hold") /\ (last => SmuFree(h))
  /\ refs' = [refs EXCEPT ![h] = IF @ = 0 THEN 0 ELSE @ - 1]
  /\ s' = IF last THEN [s EXCEPT ![h] = "nil"] ELSE s
  /\ panic' = IF last /\ s[h] = "nil" THEN "nil" ELSE panic
  /\ hand' = [hand EXCEPT ![p] = None] /\ GoTo(p, "idle")
  /\ UNCHANGED <<pool, allocated, device, cached, smu, abandoned, want,
                 hostapd>>

\* The caller drops its reference; the last one out closes the connection,
\* unless the cache still has it.
Close(p) ==
  LET h == hand[p]
      last == refs[h] = 1 /\ ~cached[h]
  IN
  /\ At(p, "hold") /\ (last => SmuFree(h))
  /\ refs' = [refs EXCEPT ![h] = IF @ = 0 THEN 0 ELSE @ - 1]
  /\ s' = IF last THEN [s EXCEPT ![h] = "nil"] ELSE s
  /\ panic' = IF last /\ s[h] = "nil" THEN "nil" ELSE panic
  /\ hand' = [hand EXCEPT ![p] = None] /\ GoTo(p, "idle")
  /\ UNCHANGED <<pool, allocated, device, cached, smu, abandoned, want,
                 hostapd>>

\* listClientsOnSock returns without a Close: its reference stays counted.
Abandon(p) ==
  LET h == hand[p] IN
  /\ At(p, "hold") /\ abandoned[h] < MaxAbandoned
  /\ abandoned' = [abandoned EXCEPT ![h] = @ + 1]
  /\ hand' = [hand EXCEPT ![p] = None] /\ GoTo(p, "idle")
  /\ UNCHANGED <<pool, allocated, device, s, refs, cached, smu, want,
                 hostapd, panic>>

-----------------------------------------------------------------------------
(* The environment: hostapd stops and starts; the process exits on a panic *)

HostapdStops(n) ==
  /\ panic = "none" /\ hostapd[n]
  /\ hostapd' = [hostapd EXCEPT ![n] = FALSE]
  /\ s' = [h \in Shared |->
             IF device[h] = n /\ s[h] = "live" THEN "dead" ELSE s[h]]
  /\ UNCHANGED <<pool, allocated, device, refs, cached, smu, abandoned,
                 proc, panic>>

HostapdStarts(n) ==
  /\ panic = "none" /\ ~hostapd[n]
  /\ hostapd' = [hostapd EXCEPT ![n] = TRUE]
  /\ UNCHANGED <<pool, obj, proc, panic>>

Exited == panic # "none" /\ UNCHANGED vars

Next ==
  \/ \E p \in Proc :
       \/ \E n \in Name : GetCall(p, n)
       \/ GetLock(p) \/ GetHit(p) \/ GetMiss(p)
       \/ \E h \in Shared : OpenShared(p, h)
       \/ OpenFails(p) \/ Store(p)
       \/ \E n \in Name : EvictOne(p, n)
       \/ Put(p)
       \/ SendLock(p) \/ SendOk(p) \/ SendDead(p) \/ SendNil(p)
       \/ ReconnectOk(p) \/ ReconnectFails(p) \/ Resend(p)
       \/ Close(p) \/ Abandon(p)
  \/ \E n \in Name : HostapdStops(n) \/ HostapdStarts(n)
  \/ Exited

Spec == Init /\ [][Next]_vars

\* The steps a goroutine takes inside Get once it owns mu.
GetStep(p) ==
  \/ GetHit(p) \/ GetMiss(p) \/ OpenFails(p) \/ Store(p) \/ Put(p)
  \/ \E h \in Shared : OpenShared(p, h)
  \/ \E n \in Name : EvictOne(p, n)

\* The scheduler runs every runnable goroutine, and sync.Mutex hands mu over
\* to a waiter that starves.
Fairness == \A p \in Proc : WF_vars(GetStep(p)) /\ SF_vars(GetLock(p))

FairSpec == Spec /\ Fairness

-----------------------------------------------------------------------------
(* Properties                                                              *)

Holders(h) == {p \in Proc : hand[p] = h}
CachedObjects == {h \in Shared : cached[h]}

\* A reference count is exactly the handles outstanding plus the handles
\* that listClientsOnSock dropped without a Close, whatever the interleaving
\* of inc (under mu and fmu) with Close (under fmu alone).
RefsExact ==
  \A h \in Shared : refs[h] = Cardinality(Holders(h)) + abandoned[h]

\* "It's best to avoid opening redundant connections to the hostapd control
\* sockets": no two objects are ever opened for one device.
OneSocketPerDevice ==
  \A g, h \in allocated : device[g] = device[h] => g = h

\* The cache's single reference (sharedSocket.cached) belongs to an object
\* that the cache, the map, still reaches.
CachedIsMapped ==
  \A h \in Shared : cached[h] => sockets[device[h]] = h

\* Manager.cached counts the entries of the map, each of which is cached.
CacheExact ==
  /\ CachedIsMapped
  /\ \A n \in Keys : cached[sockets[n]] /\ device[sockets[n]] = n
  /\ mcached = Cardinality(Keys)

\* Manager.cached counts the objects that have ever been cached.
CountsCached == mcached = Cardinality(CachedObjects)

\* The assertion of store, panic("socket: cannot be closed here!"), holds.
NoStorePanic == panic # "store"

\* "Try to save a borked socket once per call": no call meets a connection
\* that an earlier call gave up on.
EveryCallCanRecover == panic # "nil"

\* Nobody loses a connection to another goroutine's Close or to an eviction:
\* only a reconnect, by a goroutine that holds both a handle and smu, takes
\* sh.s away.
LostOnlyInReconnect ==
  [][\A h \in Shared :
       s[h] # "nil" /\ s'[h] = "nil" => smu[h] # None /\ hand[smu[h]] = h]_vars

\* What every state owes to the locks and to the order of the steps above;
\* with the counts, the inductive invariant behind the theorems.

\* mu is owned by the goroutine inside Get, smu by the one inside a send.
LocksOwned ==
  /\ \A p \in Proc : pc[p] \in InGet <=> mu = p
  /\ \A p \in Proc : pc[p] \in InSend => smu[hand[p]] = p
  /\ \A h \in Shared :
       smu[h] # None => pc[smu[h]] \in InSend /\ hand[smu[h]] = h

\* A goroutine asks for a name only inside Get, and holds a handle from the
\* lookup on; the handle it leaves Get with is one the cache refers to.
HandlesValid ==
  \A p \in Proc :
    /\ want[p] # None <=> pc[p] \in InGet \union {"lock"}
    /\ hand[p] # None <=> pc[p] \in {"store", "evict", "hold"} \union InSend
    /\ hand[p] # None => hand[p] \in allocated
    /\ pc[p] \in {"store", "evict"} => device[hand[p]] = want[p]
    /\ pc[p] \in {"hold"} \union InSend => cached[hand[p]]

\* The map leads to cached objects for the name it is asked for; evict visits
\* names of the map only.
EntriesValid ==
  /\ todo \subseteq Keys
  /\ \A n \in Keys : cached[sockets[n]] /\ device[sockets[n]] = n
  /\ \A h \in Shared : cached[h] => h \in allocated
  /\ \A h \in allocated : device[h] \in Name
  /\ \A h \in Shared \ allocated : abandoned[h] = 0

\* Locks, handles, map entries and both counters are consistent with one
\* another after every step, with a limit or without one.
IInv ==
  /\ TypeOK /\ LocksOwned /\ HandlesValid /\ EntriesValid
  /\ RefsExact /\ CountsCached /\ NoStorePanic

\* With Limit = 0 in addition: an object is in the map from its first Put on,
\* and until then it belongs to the one goroutine inside Get; a goroutine about
\* to open finds no entry; one about to reconnect has closed the connection.
UInv ==
  /\ IInv /\ todo = {} /\ mcached = Cardinality(Keys)
  /\ \A h \in allocated : cached[h] => sockets[device[h]] = h
  /\ \A h \in allocated : ~cached[h] =>
       /\ sockets[device[h]] = None
       /\ \E p \in Proc : pc[p] \in {"store", "evict"} /\ hand[p] = h
  /\ \A p \in Proc : pc[p] = "open" => sockets[want[p]] = None
  /\ \A p \in Proc : pc[p] = "reconnect" => s[hand[p]] = "nil"

\* Every Get returns: no goroutine keeps mu, and the lock order mu, fmu, smu
\* leaves none waiting for it for ever.
GetReturns ==
  \A p \in Proc : pc[p] = "lock" ~> (pc[p] \in {"hold", "idle"} \/ panic # "none")

\* Without a limit the manager implements one shared connection per name.
ConnOf(n) ==
  LET own == {h \in allocated : device[h] = n}
  IN  IF own = {} THEN "none" ELSE s[CHOOSE h \in own : TRUE]

Pool == INSTANCE SocketPool WITH
  conn <- [n \in Name |-> ConnOf(n)],
  user <- [p \in Proc |-> IF hand[p] = None THEN None ELSE device[hand[p]]],
  running <- hostapd,
  exited <- panic # "none"

PoolSpec == Pool!Spec
=============================================================================
