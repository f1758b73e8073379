------------------------ MODULE SocketManagerProofs ------------------------
(***************************************************************************)
(* Theorems about SocketManager, for every number of goroutines, names and *)
(* objects, with and without a limit.                                      *)
(***************************************************************************)
EXTENDS SocketManager, FiniteSetTheorems, TLAPS

-----------------------------------------------------------------------------
(* Counting holders.                                                       *)

\* The goroutines whose handle, in a table of handles f, is h.
HoldersIn(f, h) == {p \in Proc : f[p] = h}

\* Of two tables that differ only in p, which holds h in one and nothing in
\* the other, the first counts one more holder of h and as many of any other
\* object: what Get and Close do to the counts.
LEMMA OneHolderMore ==
  ASSUME NEW f \in [Proc -> Shared \union {None}],
         NEW g \in [Proc -> Shared \union {None}],
         NEW p \in Proc, NEW h \in Shared,
         f[p] = None, g[p] = h, \A q \in Proc \ {p} : g[q] = f[q]
  PROVE  \A k \in Shared :
           Cardinality(HoldersIn(g, k)) =
             Cardinality(HoldersIn(f, k)) + (IF k = h THEN 1 ELSE 0)
<1> SUFFICES ASSUME NEW k \in Shared
             PROVE  Cardinality(HoldersIn(g, k)) =
                      Cardinality(HoldersIn(f, k)) + (IF k = h THEN 1 ELSE 0)
  OBVIOUS
<1>1. IsFiniteSet(HoldersIn(f, k))
  BY ManagerAssumption, FS_Subset DEF HoldersIn
<1>2. Cardinality(HoldersIn(f, k)) \in Nat
  BY <1>1, FS_CardinalityType
<1>3. CASE k = h
  <2>1. HoldersIn(g, k) = HoldersIn(f, k) \union {p}
    BY <1>3 DEF HoldersIn
  <2>2. p \notin HoldersIn(f, k)
    BY ManagerAssumption DEF HoldersIn
  <2> QED
    BY <1>1, <1>3, <2>1, <2>2, FS_AddElement
<1>4. CASE k # h
  <2>1. HoldersIn(g, k) = HoldersIn(f, k)
    BY <1>4, ManagerAssumption DEF HoldersIn
  <2> QED
    BY <1>2, <1>4, <2>1
<1> QED
  BY <1>3, <1>4

\* The number of holders is a natural number, and positive for a held object.
LEMMA HoldersCount ==
  ASSUME NEW f \in [Proc -> Shared \union {None}], NEW h \in Shared
  PROVE  /\ Cardinality(HoldersIn(f, h)) \in Nat
         /\ \A p \in Proc : f[p] = h => Cardinality(HoldersIn(f, h)) > 0
         /\ (\A p \in Proc : f[p] # h) => Cardinality(HoldersIn(f, h)) = 0
<1>1. IsFiniteSet(HoldersIn(f, h))
  BY ManagerAssumption, FS_Subset DEF HoldersIn
<1>2. Cardinality(HoldersIn(f, h)) \in Nat
  BY <1>1, FS_CardinalityType
<1>3. Cardinality(HoldersIn(f, h)) = 0 <=> HoldersIn(f, h) = {}
  BY <1>1, FS_EmptySet
<1>4. (\A p \in Proc : f[p] # h) => HoldersIn(f, h) = {}
  BY DEF HoldersIn
<1>5. \A p \in Proc : f[p] = h => HoldersIn(f, h) # {}
  BY DEF HoldersIn
<1> QED
  BY <1>2, <1>3, <1>4, <1>5

-----------------------------------------------------------------------------
(* The inductive invariant.                                                *)

LEMMA InitIInv == Init => IInv
<1> SUFFICES ASSUME Init PROVE IInv
  OBVIOUS
<1>1. TypeOK
  BY ManagerAssumption DEF Init, TypeOK, Position
<1>2. LocksOwned /\ HandlesValid
  BY ManagerAssumption DEF Init, LocksOwned, HandlesValid, InGet, InSend
<1>3. EntriesValid
  BY DEF Init, EntriesValid, Keys
<1>4. RefsExact
  <2> SUFFICES ASSUME NEW h \in Shared
               PROVE  refs[h] = Cardinality(Holders(h)) + abandoned[h]
    BY DEF RefsExact
  <2>1. Holders(h) = {}
    BY ManagerAssumption DEF Init, Holders
  <2> QED
    BY <2>1, FS_EmptySet DEF Init
<1>5. CountsCached
  <2>1. CachedObjects = {}
    BY DEF Init, CachedObjects
  <2> QED
    BY <2>1, FS_EmptySet DEF Init, CountsCached
<1> QED
  BY <1>1, <1>2, <1>3, <1>4, <1>5 DEF IInv, NoStorePanic, Init

\* A held object is never closed, so no goroutine inside Get panics.
LEMMA HeldIsOpen ==
  ASSUME IInv, NEW p \in Proc, hand[p] # None
  PROVE  hand[p] \in allocated /\ refs[hand[p]] > 0 /\ ~Closed(hand[p])
<1> DEFINE h == hand[p]
<1>1. h \in Shared /\ h \in allocated
  BY DEF IInv, TypeOK, HandlesValid
<1>2. refs[h] = Cardinality(HoldersIn(hand, h)) + abandoned[h]
  BY <1>1 DEF IInv, RefsExact, Holders, HoldersIn
<1>3. Cardinality(HoldersIn(hand, h)) \in Nat /\ Cardinality(HoldersIn(hand, h)) > 0
  BY <1>1, HoldersCount DEF IInv, TypeOK
<1>4. refs[h] > 0
  BY <1>1, <1>2, <1>3 DEF IInv, TypeOK
<1> QED
  BY <1>1, <1>4 DEF Closed

\* evict never closes an object: what the map holds is cached, and isOpen is
\* true only of what is neither cached nor referred to.
LEMMA EvictKeepsObjects ==
  ASSUME IInv, NEW p \in Proc, NEW n \in Name, EvictOne(p, n)
  PROVE  /\ sockets' = [sockets EXCEPT ![n] = None] /\ todo' = todo \ {n}
         /\ n \in todo /\ pc[p] = "evict"
         /\ UNCHANGED <<mu, mcached, obj, proc, hostapd, panic>>
<1>1. n \in Keys /\ sockets[n] \in Shared /\ cached[sockets[n]]
  BY DEF IInv, TypeOK, EntriesValid, EvictOne, Keys
<1>2. ~IsOpen(sockets[n])
  BY <1>1 DEF IsOpen, Closed
<1> QED
  BY <1>2 DEF EvictOne, At, obj, proc

\* Every step keeps the types.
LEMMA NextTypeOK == IInv /\ [Next]_vars => TypeOK'
<1> SUFFICES ASSUME IInv, [Next]_vars PROVE TypeOK'
  OBVIOUS
<1> USE ManagerAssumption DEF TypeOK, At, GoTo, pool, obj, proc, Position, InGet, InSend
<1>1. TypeOK /\ HandlesValid /\ EntriesValid
  BY DEF IInv
<1>2. ASSUME NEW p \in Proc, NEW n \in Name, GetCall(p, n) PROVE TypeOK'
  BY <1>1, <1>2 DEF GetCall
<1>3. ASSUME NEW p \in Proc, GetLock(p) PROVE TypeOK'
  BY <1>1, <1>3 DEF GetLock
<1>4. ASSUME NEW p \in Proc, GetHit(p) PROVE TypeOK'
  <2>1. want[p] \in Name /\ sockets[want[p]] \in Shared
    BY <1>1, <1>4 DEF GetHit, Hit, HandlesValid
  <2> QED
    BY <1>1, <1>4, <2>1 DEF GetHit
<1>5. ASSUME NEW p \in Proc, GetMiss(p) PROVE TypeOK'
  BY <1>1, <1>5 DEF GetMiss
<1>6. ASSUME NEW p \in Proc, NEW h \in Shared, OpenShared(p, h) PROVE TypeOK'
  BY <1>1, <1>6 DEF OpenShared, HandlesValid
<1>7. ASSUME NEW p \in Proc, OpenFails(p) PROVE TypeOK'
  BY <1>1, <1>7 DEF OpenFails
<1>8. ASSUME NEW p \in Proc, Store(p) PROVE TypeOK'
  BY <1>1, <1>8 DEF Store, Keys
<1>9. ASSUME NEW p \in Proc, NEW n \in Name, EvictOne(p, n) PROVE TypeOK'
  BY <1>1, <1>9, EvictKeepsObjects
<1>10. ASSUME NEW p \in Proc, Put(p) PROVE TypeOK'
  <2>1. want[p] \in Name /\ hand[p] \in Shared
    BY <1>1, <1>10 DEF Put, HandlesValid
  <2> QED
    BY <1>1, <1>10, <2>1 DEF Put, Closed
<1>11. ASSUME NEW p \in Proc, SendLock(p) PROVE TypeOK'
  BY <1>1, <1>11 DEF SendLock
<1>12. ASSUME NEW p \in Proc, SendOk(p) PROVE TypeOK'
  BY <1>1, <1>12 DEF SendOk, SendReturn
<1>13. ASSUME NEW p \in Proc, SendDead(p) PROVE TypeOK'
  BY <1>1, <1>13 DEF SendDead
<1>14. ASSUME NEW p \in Proc, SendNil(p) PROVE TypeOK'
  BY <1>1, <1>14 DEF SendNil, SendReturn
<1>15. ASSUME NEW p \in Proc, ReconnectOk(p) PROVE TypeOK'
  BY <1>1, <1>15 DEF ReconnectOk
<1>16. ASSUME NEW p \in Proc, ReconnectFails(p) PROVE TypeOK'
  BY <1>1, <1>16 DEF ReconnectFails, SendReturn
<1>17. ASSUME NEW p \in Proc, Resend(p) PROVE TypeOK'
  BY <1>1, <1>17 DEF Resend, SendReturn
<1>18. ASSUME NEW p \in Proc, Close(p) PROVE TypeOK'
  <2>1. hand[p] \in Shared
    BY <1>1, <1>18 DEF Close, HandlesValid
  <2> QED
    BY <1>1, <1>18, <2>1 DEF Close
<1>19. ASSUME NEW p \in Proc, Abandon(p) PROVE TypeOK'
  <2>1. hand[p] \in Shared
    BY <1>1, <1>19 DEF Abandon, HandlesValid
  <2> QED
    BY <1>1, <1>19, <2>1 DEF Abandon
<1>20. ASSUME NEW n \in Name, HostapdStops(n) PROVE TypeOK'
  BY <1>1, <1>20 DEF HostapdStops
<1>21. ASSUME NEW n \in Name, HostapdStarts(n) PROVE TypeOK'
  BY <1>1, <1>21 DEF HostapdStarts
<1>22. ASSUME UNCHANGED vars PROVE TypeOK'
  BY <1>1, <1>22 DEF vars
<1> QED
  BY <1>2, <1>3, <1>4, <1>5, <1>6, <1>7, <1>8, <1>9, <1>10, <1>11, <1>12,
     <1>13, <1>14, <1>15, <1>16, <1>17, <1>18, <1>19, <1>20, <1>21, <1>22
     DEF Next, Exited
\* Every step keeps the owners of the locks where they belong.
LEMMA NextLocksOwned == IInv /\ TypeOK' /\ [Next]_vars => LocksOwned'
<1> SUFFICES ASSUME IInv, TypeOK', [Next]_vars PROVE LocksOwned'
  OBVIOUS
<1> USE ManagerAssumption DEF At, GoTo, pool, obj, proc, InGet, InSend
<1>1. TypeOK /\ LocksOwned /\ HandlesValid /\ EntriesValid
  BY DEF IInv
<1>2. ASSUME NEW p \in Proc, NEW n \in Name, GetCall(p, n) PROVE LocksOwned'
  BY <1>1, <1>2 DEF GetCall, TypeOK, LocksOwned
<1>3. ASSUME NEW p \in Proc, GetLock(p) PROVE LocksOwned'
  BY <1>1, <1>3 DEF GetLock, MuFree, TypeOK, LocksOwned
<1>4. ASSUME NEW p \in Proc, GetHit(p) PROVE LocksOwned'
  BY <1>1, <1>4 DEF GetHit, Hit, TypeOK, LocksOwned
<1>5. ASSUME NEW p \in Proc, GetMiss(p) PROVE LocksOwned'
  BY <1>1, <1>5 DEF GetMiss, TypeOK, LocksOwned
<1>6. ASSUME NEW p \in Proc, NEW h \in Shared, OpenShared(p, h) PROVE LocksOwned'
  BY <1>1, <1>6 DEF OpenShared, TypeOK, LocksOwned
<1>7. ASSUME NEW p \in Proc, OpenFails(p) PROVE LocksOwned'
  BY <1>1, <1>7 DEF OpenFails, TypeOK, LocksOwned
<1>8. ASSUME NEW p \in Proc, Store(p) PROVE LocksOwned'
  BY <1>1, <1>8 DEF Store, TypeOK, LocksOwned
<1>9. ASSUME NEW p \in Proc, NEW n \in Name, EvictOne(p, n) PROVE LocksOwned'
  BY <1>1, <1>9, EvictKeepsObjects DEF TypeOK, LocksOwned
<1>10. ASSUME NEW p \in Proc, Put(p) PROVE LocksOwned'
  BY <1>1, <1>10 DEF Put, TypeOK, LocksOwned
<1>11. ASSUME NEW p \in Proc, SendLock(p) PROVE LocksOwned'
  BY <1>1, <1>11 DEF SendLock, SmuFree, TypeOK, LocksOwned
<1>12. ASSUME NEW p \in Proc, SendOk(p) PROVE LocksOwned'
  BY <1>1, <1>12 DEF SendOk, SendReturn, TypeOK, LocksOwned
<1>13. ASSUME NEW p \in Proc, SendDead(p) PROVE LocksOwned'
  BY <1>1, <1>13 DEF SendDead, TypeOK, LocksOwned
<1>14. ASSUME NEW p \in Proc, SendNil(p) PROVE LocksOwned'
  BY <1>1, <1>14 DEF SendNil, SendReturn, TypeOK, LocksOwned
<1>15. ASSUME NEW p \in Proc, ReconnectOk(p) PROVE LocksOwned'
  BY <1>1, <1>15 DEF ReconnectOk, TypeOK, LocksOwned
<1>16. ASSUME NEW p \in Proc, ReconnectFails(p) PROVE LocksOwned'
  BY <1>1, <1>16 DEF ReconnectFails, SendReturn, TypeOK, LocksOwned
<1>17. ASSUME NEW p \in Proc, Resend(p) PROVE LocksOwned'
  BY <1>1, <1>17 DEF Resend, SendReturn, TypeOK, LocksOwned
<1>18. ASSUME NEW p \in Proc, Close(p) PROVE LocksOwned'
  BY <1>1, <1>18 DEF Close, TypeOK, LocksOwned
<1>19. ASSUME NEW p \in Proc, Abandon(p) PROVE LocksOwned'
  BY <1>1, <1>19 DEF Abandon, TypeOK, LocksOwned
<1>20. ASSUME NEW n \in Name, HostapdStops(n) PROVE LocksOwned'
  BY <1>1, <1>20 DEF HostapdStops, TypeOK, LocksOwned
<1>21. ASSUME NEW n \in Name, HostapdStarts(n) PROVE LocksOwned'
  BY <1>1, <1>21 DEF HostapdStarts, TypeOK, LocksOwned
<1>22. ASSUME UNCHANGED vars PROVE LocksOwned'
  BY <1>1, <1>22 DEF vars, TypeOK, LocksOwned
<1> QED
  BY <1>2, <1>3, <1>4, <1>5, <1>6, <1>7, <1>8, <1>9, <1>10, <1>11, <1>12,
     <1>13, <1>14, <1>15, <1>16, <1>17, <1>18, <1>19, <1>20, <1>21, <1>22
     DEF Next, Exited

\* Every step keeps the handles valid.
LEMMA NextHandlesValid == IInv /\ TypeOK' /\ [Next]_vars => HandlesValid'
<1> SUFFICES ASSUME IInv, TypeOK', [Next]_vars PROVE HandlesValid'
  OBVIOUS
<1> USE ManagerAssumption DEF At, GoTo, pool, obj, proc, InGet, InSend
<1>1. TypeOK /\ LocksOwned /\ HandlesValid /\ EntriesValid
  BY DEF IInv
<1>2. ASSUME NEW p \in Proc, NEW n \in Name, GetCall(p, n) PROVE HandlesValid'
  BY <1>1, <1>2 DEF GetCall, TypeOK, HandlesValid
<1>3. ASSUME NEW p \in Proc, GetLock(p) PROVE HandlesValid'
  BY <1>1, <1>3 DEF GetLock, MuFree, TypeOK, HandlesValid
<1>4. ASSUME NEW p \in Proc, GetHit(p) PROVE HandlesValid'
  <2>1. want[p] \in Name /\ want[p] \in Keys
    BY <1>1, <1>4 DEF GetHit, Hit, TypeOK, HandlesValid, Keys
  <2>2. sockets[want[p]] \in allocated /\ device[sockets[want[p]]] = want[p]
    BY <1>1, <2>1 DEF TypeOK, EntriesValid, Keys
  <2> QED
    BY <1>1, <1>4, <2>1, <2>2 DEF GetHit, TypeOK, HandlesValid
<1>5. ASSUME NEW p \in Proc, GetMiss(p) PROVE HandlesValid'
  BY <1>1, <1>5 DEF GetMiss, TypeOK, HandlesValid
<1>6. ASSUME NEW p \in Proc, NEW h \in Shared, OpenShared(p, h) PROVE HandlesValid'
  BY <1>1, <1>6 DEF OpenShared, TypeOK, HandlesValid
<1>7. ASSUME NEW p \in Proc, OpenFails(p) PROVE HandlesValid'
  BY <1>1, <1>7 DEF OpenFails, TypeOK, HandlesValid
<1>8. ASSUME NEW p \in Proc, Store(p) PROVE HandlesValid'
  BY <1>1, <1>8 DEF Store, TypeOK, HandlesValid
<1>9. ASSUME NEW p \in Proc, NEW n \in Name, EvictOne(p, n) PROVE HandlesValid'
  BY <1>1, <1>9, EvictKeepsObjects DEF TypeOK, HandlesValid
<1>10. ASSUME NEW p \in Proc, Put(p) PROVE HandlesValid'
  <2>1. hand[p] \in Shared /\ ~Closed(hand[p])
    BY <1>1, <1>10, HeldIsOpen DEF Put, TypeOK, HandlesValid
  <2>2. /\ pc' = [pc EXCEPT ![p] = "hold"] /\ want' = [want EXCEPT ![p] = None]
        /\ cached' = [cached EXCEPT ![hand[p]] = TRUE] /\ pc[p] = "evict"
        /\ UNCHANGED <<hand, allocated, device>>
    BY <1>10, <2>1 DEF Put, Closed
  <2> QED
    BY <1>1, <2>1, <2>2 DEF TypeOK, HandlesValid
<1>11. ASSUME NEW p \in Proc, SendLock(p) PROVE HandlesValid'
  BY <1>1, <1>11 DEF SendLock, SmuFree, TypeOK, HandlesValid
<1>12. ASSUME NEW p \in Proc, SendOk(p) PROVE HandlesValid'
  BY <1>1, <1>12 DEF SendOk, SendReturn, TypeOK, HandlesValid
<1>13. ASSUME NEW p \in Proc, SendDead(p) PROVE HandlesValid'
  BY <1>1, <1>13 DEF SendDead, TypeOK, HandlesValid
<1>14. ASSUME NEW p \in Proc, SendNil(p) PROVE HandlesValid'
  BY <1>1, <1>14 DEF SendNil, SendReturn, TypeOK, HandlesValid
<1>15. ASSUME NEW p \in Proc, ReconnectOk(p) PROVE HandlesValid'
  BY <1>1, <1>15 DEF ReconnectOk, TypeOK, HandlesValid
<1>16. ASSUME NEW p \in Proc, ReconnectFails(p) PROVE HandlesValid'
  BY <1>1, <1>16 DEF ReconnectFails, SendReturn, TypeOK, HandlesValid
<1>17. ASSUME NEW p \in Proc, Resend(p) PROVE HandlesValid'
  BY <1>1, <1>17 DEF Resend, SendReturn, TypeOK, HandlesValid
<1>18. ASSUME NEW p \in Proc, Close(p) PROVE HandlesValid'
  BY <1>1, <1>18 DEF Close, TypeOK, HandlesValid
<1>19. ASSUME NEW p \in Proc, Abandon(p) PROVE HandlesValid'
  BY <1>1, <1>19 DEF Abandon, TypeOK, HandlesValid
<1>20. ASSUME NEW n \in Name, HostapdStops(n) PROVE HandlesValid'
  BY <1>1, <1>20 DEF HostapdStops, TypeOK, HandlesValid
<1>21. ASSUME NEW n \in Name, HostapdStarts(n) PROVE HandlesValid'
  BY <1>1, <1>21 DEF HostapdStarts, TypeOK, HandlesValid
<1>22. ASSUME UNCHANGED vars PROVE HandlesValid'
  BY <1>1, <1>22 DEF vars, TypeOK, HandlesValid
<1> QED
  BY <1>2, <1>3, <1>4, <1>5, <1>6, <1>7, <1>8, <1>9, <1>10, <1>11, <1>12,
     <1>13, <1>14, <1>15, <1>16, <1>17, <1>18, <1>19, <1>20, <1>21, <1>22
     DEF Next, Exited

\* Only these steps touch what EntriesValid is about.
LEMMA EntriesFrame ==
  ASSUME IInv, [Next]_vars
  PROVE  \/ UNCHANGED <<sockets, todo, cached, allocated, device, abandoned>>
         \/ \E p \in Proc :
              \/ \E h \in Shared : OpenShared(p, h)
              \/ Store(p) \/ Put(p) \/ Abandon(p)
              \/ \E n \in Name : EvictOne(p, n)
<1> USE DEF pool, obj, proc
<1>1. \A p \in Proc : GetHit(p) \/ GetMiss(p) \/ OpenFails(p) =>
        UNCHANGED <<sockets, todo, cached, allocated, device, abandoned>>
  BY DEF GetHit, GetMiss, OpenFails
<1>2. \A p \in Proc : GetLock(p) \/ (\E n \in Name : GetCall(p, n)) =>
        UNCHANGED <<sockets, todo, cached, allocated, device, abandoned>>
  BY DEF GetLock, GetCall
<1>3. \A p \in Proc : SendLock(p) \/ SendOk(p) \/ SendDead(p) \/ SendNil(p) =>
        UNCHANGED <<sockets, todo, cached, allocated, device, abandoned>>
  BY DEF SendLock, SendOk, SendDead, SendNil, SendReturn
<1>4. \A p \in Proc : ReconnectOk(p) \/ ReconnectFails(p) \/ Resend(p) =>
        UNCHANGED <<sockets, todo, cached, allocated, device, abandoned>>
  BY DEF ReconnectOk, ReconnectFails, Resend, SendReturn
<1>5. \A p \in Proc : Close(p) =>
        UNCHANGED <<sockets, todo, cached, allocated, device, abandoned>>
  BY DEF Close
<1>6. (\E n \in Name : HostapdStops(n) \/ HostapdStarts(n)) \/ UNCHANGED vars =>
        UNCHANGED <<sockets, todo, cached, allocated, device, abandoned>>
  BY DEF HostapdStops, HostapdStarts, vars
<1> QED
  BY <1>1, <1>2, <1>3, <1>4, <1>5, <1>6 DEF Next, Exited

\* Every step keeps the map and the cached objects consistent.
LEMMA NextEntriesValid == IInv /\ TypeOK' /\ [Next]_vars => EntriesValid'
<1> SUFFICES ASSUME IInv, TypeOK', [Next]_vars PROVE EntriesValid'
  OBVIOUS
<1> USE ManagerAssumption DEF At, GoTo, pool, obj, proc, InGet, InSend
<1>1. TypeOK /\ LocksOwned /\ HandlesValid /\ EntriesValid
  BY DEF IInv
<1>2. ASSUME UNCHANGED <<sockets, todo, cached, allocated, device, abandoned>>
      PROVE EntriesValid'
  BY <1>1, <1>2 DEF EntriesValid, Keys
<1>3. ASSUME NEW p \in Proc, NEW h \in Shared, OpenShared(p, h)
      PROVE EntriesValid'
  <2>1. want[p] \in Name
    BY <1>1, <1>3 DEF OpenShared, HandlesValid, TypeOK
  <2>2. \A n \in Keys : sockets[n] # h
    BY <1>1, <1>3 DEF OpenShared, EntriesValid, Keys, TypeOK
  <2> QED
    BY <1>1, <1>3, <2>1, <2>2 DEF OpenShared, EntriesValid, Keys, TypeOK
<1>4. ASSUME NEW p \in Proc, Store(p) PROVE EntriesValid'
  BY <1>1, <1>4 DEF Store, EntriesValid, Keys
<1>5. ASSUME NEW p \in Proc, NEW n \in Name, EvictOne(p, n) PROVE EntriesValid'
  BY <1>1, <1>5, EvictKeepsObjects DEF EntriesValid, Keys, TypeOK
<1>6. ASSUME NEW p \in Proc, Put(p) PROVE EntriesValid'
  <2>1. hand[p] \in allocated /\ ~Closed(hand[p]) /\ hand[p] \in Shared
    BY <1>1, <1>6, HeldIsOpen DEF Put, TypeOK, HandlesValid
  <2>2. want[p] \in Name /\ device[hand[p]] = want[p]
    BY <1>1, <1>6 DEF Put, TypeOK, HandlesValid
  <2>3. /\ cached' = [cached EXCEPT ![hand[p]] = TRUE] /\ todo = {}
        /\ sockets' = [sockets EXCEPT ![want[p]] = hand[p]]
        /\ UNCHANGED <<todo, allocated, device, abandoned>>
    BY <1>6, <2>1 DEF Put
  <2> QED
    BY <1>1, <2>1, <2>2, <2>3 DEF EntriesValid, Keys, TypeOK
<1>7. ASSUME NEW p \in Proc, Abandon(p) PROVE EntriesValid'
  <2>1. hand[p] \in allocated
    BY <1>1, <1>7 DEF Abandon, HandlesValid
  <2> QED
    BY <1>1, <1>7, <2>1 DEF Abandon, EntriesValid, Keys, TypeOK
<1> QED
  BY EntriesFrame, <1>2, <1>3, <1>4, <1>5, <1>6, <1>7

\* Only these steps touch a reference count, a handle or its abandonment.
LEMMA RefsFrame ==
  ASSUME IInv, [Next]_vars
  PROVE  \/ UNCHANGED <<refs, hand, abandoned>>
         \/ \E p \in Proc :
              \/ GetHit(p) \/ Close(p) \/ Abandon(p)
              \/ \E h \in Shared : OpenShared(p, h)
<1> USE DEF pool, obj, proc
<1>1. \A p \in Proc : GetMiss(p) \/ OpenFails(p) \/ Store(p) \/ Put(p) =>
        UNCHANGED <<refs, hand, abandoned>>
  BY DEF GetMiss, OpenFails, Store, Put
<1>2. \A p \in Proc :
        GetLock(p) \/ (\E n \in Name : GetCall(p, n) \/ EvictOne(p, n)) =>
        UNCHANGED <<refs, hand, abandoned>>
  BY DEF GetLock, GetCall, EvictOne
<1>3. \A p \in Proc : SendLock(p) \/ SendOk(p) \/ SendDead(p) \/ SendNil(p) =>
        UNCHANGED <<refs, hand, abandoned>>
  BY DEF SendLock, SendOk, SendDead, SendNil, SendReturn
<1>4. \A p \in Proc : ReconnectOk(p) \/ ReconnectFails(p) \/ Resend(p) =>
        UNCHANGED <<refs, hand, abandoned>>
  BY DEF ReconnectOk, ReconnectFails, Resend, SendReturn
<1>5. (\E n \in Name : HostapdStops(n) \/ HostapdStarts(n)) \/ UNCHANGED vars =>
        UNCHANGED <<refs, hand, abandoned>>
  BY DEF HostapdStops, HostapdStarts, vars
<1> QED
  BY <1>1, <1>2, <1>3, <1>4, <1>5 DEF Next, Exited

\* Every step keeps the reference counts exact.
LEMMA NextRefsExact == IInv /\ TypeOK' /\ [Next]_vars => RefsExact'
<1> SUFFICES ASSUME IInv, TypeOK', [Next]_vars PROVE RefsExact'
  OBVIOUS
<1> USE ManagerAssumption DEF At, GoTo, pool, obj, proc, InGet, InSend
<1>1. /\ TypeOK /\ HandlesValid /\ EntriesValid
      /\ \A k \in Shared :
           refs[k] = Cardinality(HoldersIn(hand, k)) + abandoned[k]
  BY DEF IInv, RefsExact, Holders, HoldersIn
<1>2. \A k \in Shared : Cardinality(HoldersIn(hand, k)) \in Nat
  BY <1>1, HoldersCount DEF TypeOK
<1>3. SUFFICES \A k \in Shared :
        refs'[k] = Cardinality(HoldersIn(hand', k)) + abandoned'[k]
  BY DEF RefsExact, Holders, HoldersIn
<1>4. ASSUME UNCHANGED <<refs, hand, abandoned>>
      PROVE \A k \in Shared :
              refs'[k] = Cardinality(HoldersIn(hand', k)) + abandoned'[k]
  BY <1>1, <1>4
<1>5. ASSUME NEW p \in Proc, GetHit(p)
      PROVE \A k \in Shared :
              refs'[k] = Cardinality(HoldersIn(hand', k)) + abandoned'[k]
  <2> DEFINE h == sockets[want[p]]
  <2>1. h \in Shared /\ hand[p] = None /\ hand' = [hand EXCEPT ![p] = h]
    BY <1>1, <1>5 DEF GetHit, Hit, TypeOK, HandlesValid
  <2>2. \A k \in Shared : Cardinality(HoldersIn(hand', k)) =
          Cardinality(HoldersIn(hand, k)) + (IF k = h THEN 1 ELSE 0)
    <3>1. /\ hand \in [Proc -> Shared \union {None}]
          /\ hand' \in [Proc -> Shared \union {None}]
      BY <1>1 DEF TypeOK
    <3>2. hand[p] = None /\ hand'[p] = h /\ \A q \in Proc \ {p} : hand'[q] = hand[q]
      BY <2>1, <3>1
    <3>3. h \in Shared
      BY <2>1
    <3> HIDE DEF h
    <3> QED
      BY <3>1, <3>2, <3>3, OneHolderMore
  <2>3. /\ UNCHANGED abandoned
        /\ \A k \in Shared : refs'[k] = refs[k] + (IF k = h THEN 1 ELSE 0)
    BY <1>1, <1>5, <2>1 DEF GetHit, TypeOK
  <2> HIDE DEF h
  <2> QED
    BY <1>1, <1>2, <2>2, <2>3 DEF TypeOK
<1>6. ASSUME NEW p \in Proc, NEW h \in Shared, OpenShared(p, h)
      PROVE \A k \in Shared :
              refs'[k] = Cardinality(HoldersIn(hand', k)) + abandoned'[k]
  <2>1. hand[p] = None /\ hand' = [hand EXCEPT ![p] = h]
    BY <1>1, <1>6 DEF OpenShared, TypeOK, HandlesValid
  <2>2. \A k \in Shared : Cardinality(HoldersIn(hand', k)) =
          Cardinality(HoldersIn(hand, k)) + (IF k = h THEN 1 ELSE 0)
    <3>1. /\ hand \in [Proc -> Shared \union {None}]
          /\ hand' \in [Proc -> Shared \union {None}]
      BY <1>1 DEF TypeOK
    <3>2. hand[p] = None /\ hand'[p] = h /\ \A q \in Proc \ {p} : hand'[q] = hand[q]
      BY <2>1, <3>1
    <3> QED
      BY <3>1, <3>2, OneHolderMore
  <2>3. Cardinality(HoldersIn(hand, h)) = 0 /\ abandoned[h] = 0
    BY <1>1, <1>6, HoldersCount DEF OpenShared, TypeOK, HandlesValid, EntriesValid
  <2>4. /\ UNCHANGED abandoned
        /\ \A k \in Shared : refs'[k] = IF k = h THEN 1 ELSE refs[k]
    BY <1>1, <1>6 DEF OpenShared, TypeOK
  <2>5. \A k \in Shared \ {h} :
          refs'[k] = Cardinality(HoldersIn(hand', k)) + abandoned'[k]
    BY <1>1, <1>2, <2>2, <2>4 DEF TypeOK
  <2>6. refs'[h] = Cardinality(HoldersIn(hand', h)) + abandoned'[h]
    BY <2>2, <2>3, <2>4
  <2> QED
    BY <2>5, <2>6
<1>7. ASSUME NEW p \in Proc, Close(p)
      PROVE \A k \in Shared :
              refs'[k] = Cardinality(HoldersIn(hand', k)) + abandoned'[k]
  <2> DEFINE h == hand[p]
  <2>1. h \in Shared /\ hand' = [hand EXCEPT ![p] = None] /\ refs[h] > 0
    BY <1>1, <1>7, HeldIsOpen DEF Close, TypeOK, HandlesValid
  <2>2. \A k \in Shared : Cardinality(HoldersIn(hand, k)) =
          Cardinality(HoldersIn(hand', k)) + (IF k = h THEN 1 ELSE 0)
    <3>1. /\ hand \in [Proc -> Shared \union {None}]
          /\ hand' \in [Proc -> Shared \union {None}]
      BY <1>1 DEF TypeOK
    <3>2. hand'[p] = None /\ hand[p] = h /\ \A q \in Proc \ {p} : hand[q] = hand'[q]
      BY <2>1, <3>1
    <3>3. h \in Shared
      BY <2>1
    <3> HIDE DEF h
    <3> QED
      BY <3>1, <3>2, <3>3, OneHolderMore
  <2>3. \A k \in Shared : Cardinality(HoldersIn(hand', k)) \in Nat
    BY HoldersCount DEF TypeOK
  <2>4. /\ UNCHANGED abandoned
        /\ \A k \in Shared : refs[k] = refs'[k] + (IF k = h THEN 1 ELSE 0)
    BY <1>1, <1>7, <2>1 DEF Close, TypeOK
  <2> HIDE DEF h
  <2> QED
    BY <1>1, TypeOK', <2>2, <2>3, <2>4 DEF TypeOK
<1>8. ASSUME NEW p \in Proc, Abandon(p)
      PROVE \A k \in Shared :
              refs'[k] = Cardinality(HoldersIn(hand', k)) + abandoned'[k]
  <2> DEFINE h == hand[p]
  <2>1. h \in Shared /\ hand' = [hand EXCEPT ![p] = None]
    BY <1>1, <1>8 DEF Abandon, TypeOK, HandlesValid
  <2>2. \A k \in Shared : Cardinality(HoldersIn(hand, k)) =
          Cardinality(HoldersIn(hand', k)) + (IF k = h THEN 1 ELSE 0)
    <3>1. /\ hand \in [Proc -> Shared \union {None}]
          /\ hand' \in [Proc -> Shared \union {None}]
      BY <1>1 DEF TypeOK
    <3>2. hand'[p] = None /\ hand[p] = h /\ \A q \in Proc \ {p} : hand[q] = hand'[q]
      BY <2>1, <3>1
    <3>3. h \in Shared
      BY <2>1
    <3> HIDE DEF h
    <3> QED
      BY <3>1, <3>2, <3>3, OneHolderMore
  <2>3. \A k \in Shared : Cardinality(HoldersIn(hand', k)) \in Nat
    BY HoldersCount DEF TypeOK
  <2>4. /\ UNCHANGED refs
        /\ \A k \in Shared : abandoned'[k] = abandoned[k] + (IF k = h THEN 1 ELSE 0)
    BY <1>1, <1>8, <2>1 DEF Abandon, TypeOK
  <2> HIDE DEF h
  <2> QED
    BY <1>1, <2>2, <2>3, <2>4 DEF TypeOK
<1> QED
  BY RefsFrame, <1>4, <1>5, <1>6, <1>7, <1>8

\* Put, inside the invariant: the object gets its cache reference, once, and
\* nothing panics.
LEMMA PutCaches ==
  ASSUME IInv, NEW p \in Proc, Put(p)
  PROVE  /\ hand[p] \in allocated /\ want[p] \in Name
         /\ device[hand[p]] = want[p]
         /\ cached' = [cached EXCEPT ![hand[p]] = TRUE]
         /\ mcached' = IF cached[hand[p]] THEN mcached ELSE mcached + 1
         /\ sockets' = [sockets EXCEPT ![want[p]] = hand[p]]
         /\ UNCHANGED panic
<1>1. hand[p] # None /\ want[p] \in Name /\ device[hand[p]] = want[p]
  BY DEF IInv, Put, At, HandlesValid, TypeOK, InGet
<1>2. hand[p] \in allocated /\ ~Closed(hand[p])
  BY <1>1, HeldIsOpen
<1>3. hand[p] \in Shared /\ cached[hand[p]] \in BOOLEAN
  BY <1>2 DEF IInv, TypeOK
<1> QED
  BY <1>1, <1>2, <1>3 DEF Put

\* Only these steps touch Manager.cached, sharedSocket.cached or raise a panic.
LEMMA CountFrame ==
  ASSUME IInv, [Next]_vars
  PROVE  \/ UNCHANGED <<mcached, cached>> /\ panic' # "store"
         \/ \E p \in Proc : Put(p)
<1> USE DEF pool, obj, proc, IInv, NoStorePanic
<1>1. \A p \in Proc : GetHit(p) \/ GetMiss(p) \/ OpenFails(p) \/ Store(p) =>
        UNCHANGED <<mcached, cached>> /\ panic' # "store"
  BY DEF GetHit, GetMiss, OpenFails, Store
<1>2. \A p \in Proc :
        \/ GetLock(p) \/ (\E n \in Name : GetCall(p, n))
        \/ (\E h \in Shared : OpenShared(p, h))
        => UNCHANGED <<mcached, cached>> /\ panic' # "store"
  BY DEF GetLock, GetCall, OpenShared
<1>3. \A p \in Proc : SendLock(p) \/ SendOk(p) \/ SendDead(p) \/ SendNil(p) =>
        UNCHANGED <<mcached, cached>> /\ panic' # "store"
  BY DEF SendLock, SendOk, SendDead, SendNil, SendReturn
<1>4. \A p \in Proc : ReconnectOk(p) \/ ReconnectFails(p) \/ Resend(p) =>
        UNCHANGED <<mcached, cached>> /\ panic' # "store"
  BY DEF ReconnectOk, ReconnectFails, Resend, SendReturn
<1>5. \A p \in Proc : Close(p) \/ Abandon(p) =>
        UNCHANGED <<mcached, cached>> /\ panic' # "store"
  BY DEF Close, Abandon
<1>6. \A p \in Proc, n \in Name : EvictOne(p, n) =>
        UNCHANGED <<mcached, cached>> /\ panic' # "store"
  BY EvictKeepsObjects
<1>7. (\E n \in Name : HostapdStops(n) \/ HostapdStarts(n)) \/ UNCHANGED vars =>
        UNCHANGED <<mcached, cached>> /\ panic' # "store"
  BY DEF HostapdStops, HostapdStarts, vars
<1> QED
  BY <1>1, <1>2, <1>3, <1>4, <1>5, <1>6, <1>7 DEF Next, Exited

\* Every step keeps Manager.cached equal to the number of cached objects, and
\* none raises the panic of store.
LEMMA NextCountsCached ==
  IInv /\ TypeOK' /\ [Next]_vars => CountsCached' /\ NoStorePanic'
<1> SUFFICES ASSUME IInv, TypeOK', [Next]_vars
             PROVE  CountsCached' /\ NoStorePanic'
  OBVIOUS
<1>1. CASE UNCHANGED <<mcached, cached>> /\ panic' # "store"
  BY <1>1 DEF IInv, CountsCached, CachedObjects, NoStorePanic
<1>2. ASSUME NEW p \in Proc, Put(p) PROVE CountsCached' /\ NoStorePanic'
  <2> DEFINE h == hand[p]
  <2>1. h \in Shared /\ cached \in [Shared -> BOOLEAN]
    BY <1>2, PutCaches DEF IInv, TypeOK
  <2>2. IsFiniteSet(CachedObjects)
    BY ManagerAssumption, FS_Subset DEF CachedObjects
  <2>3. CachedObjects' = CachedObjects \union {h}
    BY <1>2, <2>1, PutCaches DEF CachedObjects
  <2>4. h \in CachedObjects <=> cached[h]
    BY <2>1 DEF CachedObjects
  <2>5. Cardinality(CachedObjects \union {h}) =
          IF cached[h] THEN Cardinality(CachedObjects)
                       ELSE Cardinality(CachedObjects) + 1
    BY <2>2, <2>4, FS_AddElement
  <2>6. CountsCached'
    BY <1>2, <2>3, <2>5, PutCaches DEF IInv, CountsCached
  <2> QED
    BY <1>2, <2>6, PutCaches DEF IInv, NoStorePanic
<1> QED
  BY <1>1, <1>2, CountFrame

\* The invariant is inductive.
THEOREM IInvHolds == Spec => []IInv
<1>1. IInv /\ [Next]_vars => IInv'
  BY NextTypeOK, NextLocksOwned, NextHandlesValid, NextEntriesValid,
     NextRefsExact, NextCountsCached DEF IInv
<1> QED
  BY <1>1, InitIInv, PTL DEF Spec

-----------------------------------------------------------------------------
(* What the invariant gives.                                               *)

\* Every variable keeps its type, in every execution.
THEOREM TypeCorrect == Spec => []TypeOK
<1>1. IInv => TypeOK
  BY DEF IInv
<1> QED
  BY <1>1, IInvHolds, PTL

\* refs counts the outstanding and the dropped handles of every object.
THEOREM RefsAreExact == Spec => []RefsExact
<1>1. IInv => RefsExact
  BY DEF IInv
<1> QED
  BY <1>1, IInvHolds, PTL

\* The panic in store is unreachable.
THEOREM StoreNeverPanics == Spec => []NoStorePanic
<1>1. IInv => NoStorePanic
  BY DEF IInv
<1> QED
  BY <1>1, IInvHolds, PTL

\* Only a reconnect, by a goroutine that holds the handle and smu, takes a
\* connection away: no Close and no eviction does, with or without a limit.
THEOREM LossesAreReconnects == Spec => LostOnlyInReconnect
<1> DEFINE Lost == \A h \in Shared :
      s[h] # "nil" /\ s'[h] = "nil" => smu[h] # None /\ hand[smu[h]] = h
<1>1. IInv /\ IInv' /\ [Next]_vars => [Lost]_vars
  <2> SUFFICES ASSUME IInv, [Next]_vars PROVE Lost
    OBVIOUS
  <2> USE DEF pool, obj, proc
  <2>1. TypeOK /\ LocksOwned /\ HandlesValid
    BY DEF IInv
  <2>2. \A p \in Proc : GetHit(p) \/ GetMiss(p) \/ OpenFails(p) \/ Store(p) \/ Put(p)
          => UNCHANGED s
    BY DEF GetHit, GetMiss, OpenFails, Store, Put
  <2>3. \A p \in Proc : GetLock(p) \/ (\E n \in Name : GetCall(p, n)) => UNCHANGED s
    BY DEF GetLock, GetCall
  <2>4. \A p \in Proc, n \in Name : EvictOne(p, n) => UNCHANGED s
    BY EvictKeepsObjects
  <2>5. \A p \in Proc : SendLock(p) \/ SendOk(p) \/ SendNil(p) \/ ReconnectFails(p)
                        \/ Resend(p) \/ Abandon(p) => UNCHANGED s
    BY DEF SendLock, SendOk, SendNil, ReconnectFails, Resend, Abandon
  <2>6. ASSUME NEW p \in Proc, Close(p) PROVE UNCHANGED s
    <3>1. cached[hand[p]]
      BY <2>1, <2>6 DEF Close, At, HandlesValid
    <3> QED
      BY <2>6, <3>1 DEF Close
  <2>7. ASSUME NEW p \in Proc, SendDead(p) PROVE Lost
    <3>1. smu[hand[p]] = p /\ hand[p] \in Shared
      BY <2>1, <2>7 DEF SendDead, At, LocksOwned, HandlesValid, InSend, TypeOK
    <3> QED
      BY <2>1, <2>7, <3>1, ManagerAssumption DEF SendDead, TypeOK
  <2>8. ASSUME NEW p \in Proc,
               ReconnectOk(p) \/ \E h \in Shared : OpenShared(p, h)
        PROVE  Lost
    BY <2>1, <2>8 DEF ReconnectOk, OpenShared, TypeOK
  <2>9. ASSUME NEW n \in Name, HostapdStops(n) PROVE Lost
    BY <2>1, <2>9 DEF HostapdStops, TypeOK
  <2>10. (\E n \in Name : HostapdStarts(n)) \/ UNCHANGED vars => UNCHANGED s
    BY DEF HostapdStarts, vars
  <2> QED
    BY <2>2, <2>3, <2>4, <2>5, <2>6, <2>7, <2>8, <2>9, <2>10 DEF Next, Exited
<1> QED
  BY <1>1, IInvHolds, PTL DEF Spec, LostOnlyInReconnect

-----------------------------------------------------------------------------
(* Without a limit.                                                        *)

LEMMA InitUInv == Init => UInv
<1> SUFFICES ASSUME Init PROVE UInv
  OBVIOUS
<1>1. Keys = {}
  BY DEF Init, Keys
<1>2. mcached = Cardinality(Keys)
  BY <1>1, FS_EmptySet DEF Init
<1> QED
  BY <1>2, InitIInv DEF Init, UInv

\* evict is never called.
LEMMA NothingEvicted ==
  ASSUME Limit = 0, UInv, [Next]_vars
  PROVE  /\ todo' = {}
         /\ \A p \in Proc, n \in Name : ~EvictOne(p, n)
<1>1. todo = {} /\ \A p \in Proc, n \in Name : ~EvictOne(p, n)
  BY DEF UInv, EvictOne
<1>2. (\E p \in Proc : Store(p)) => todo' = {}
  BY DEF Store
<1>3. CASE \A p \in Proc : ~Store(p)
  BY <1>1, <1>3 DEF Next, Exited, vars, pool, GetCall, GetLock, GetHit, GetMiss,
     OpenShared, OpenFails, Put, SendLock, SendOk, SendDead, SendNil, SendReturn,
     ReconnectOk, ReconnectFails, Resend, Close, Abandon, HostapdStops, HostapdStarts
<1> QED
  BY <1>1, <1>2, <1>3

\* No object exists for a name that a goroutine is about to open.
LEMMA OpenedByNobodyElse ==
  ASSUME UInv, NEW p \in Proc, pc[p] = "open", NEW h \in allocated
  PROVE  device[h] # want[p]
<1>1. sockets[want[p]] = None /\ mu = p
  BY DEF UInv, IInv, LocksOwned, InGet
<1>2. \A q \in Proc : pc[q] \in {"store", "evict"} => mu = q
  BY DEF UInv, IInv, LocksOwned, InGet
<1>3. h \in Shared /\ h # None
  BY ManagerAssumption DEF UInv, IInv, TypeOK
<1> QED
  BY <1>1, <1>2, <1>3 DEF UInv

\* Two objects are never opened for one device.
LEMMA UInvOneSocket == UInv => OneSocketPerDevice
<1> SUFFICES ASSUME UInv, NEW g \in allocated, NEW h \in allocated,
                    device[g] = device[h]
             PROVE  g = h
  BY DEF OneSocketPerDevice
<1>1. g \in Shared /\ h \in Shared /\ g # None /\ h # None
  BY ManagerAssumption DEF UInv, IInv, TypeOK
<1>2. \A p, q \in Proc :
        pc[p] \in {"store", "evict"} /\ pc[q] \in {"store", "evict"} => p = q
  BY DEF UInv, IInv, LocksOwned, InGet
<1>3. CASE ~cached[g] /\ ~cached[h]
  BY <1>2, <1>3 DEF UInv
<1>4. CASE cached[g] \/ cached[h]
  BY <1>1, <1>4 DEF UInv
<1> QED
  BY <1>3, <1>4

\* The map holds exactly the cached objects, and mcached counts its entries.
LEMMA UInvCacheExact == UInv => CacheExact
  BY DEF UInv, IInv, EntriesValid, CacheExact, CachedIsMapped

\* Only these steps touch the map, the cached flags, the objects or the
\* positions UInv speaks of.
LEMMA UInvFrame ==
  ASSUME Limit = 0, UInv, IInv', [Next]_vars
  PROVE  \/ /\ UNCHANGED <<sockets, mcached, cached, allocated, device>>
            /\ \A p \in Proc :
                 /\ pc'[p] \in {"store", "evict"} <=> pc[p] \in {"store", "evict"}
                 /\ pc[p] \in {"store", "evict"} => hand'[p] = hand[p]
                 /\ pc'[p] = "open" => pc[p] = "open" /\ want'[p] = want[p]
         \/ \E p \in Proc :
              \/ GetHit(p) \/ GetMiss(p) \/ Put(p)
              \/ \E h \in Shared : OpenShared(p, h)
<1> DEFINE Same ==
      /\ UNCHANGED <<sockets, mcached, cached, allocated, device>>
      /\ \A p \in Proc :
           /\ pc'[p] \in {"store", "evict"} <=> pc[p] \in {"store", "evict"}
           /\ pc[p] \in {"store", "evict"} => hand'[p] = hand[p]
           /\ pc'[p] = "open" => pc[p] = "open" /\ want'[p] = want[p]
<1> USE DEF pool, obj, proc, At, GoTo
<1>1. TypeOK
  BY DEF UInv, IInv
<1>2. ASSUME NEW p \in Proc, Store(p) \/ OpenFails(p) \/ GetLock(p) PROVE Same
  BY <1>1, <1>2 DEF Store, OpenFails, GetLock, TypeOK
<1>3. ASSUME NEW p \in Proc, NEW n \in Name, GetCall(p, n) PROVE Same
  BY <1>1, <1>3 DEF GetCall, TypeOK
<1>4. ASSUME NEW p \in Proc, SendLock(p) \/ SendOk(p) \/ SendDead(p) PROVE Same
  BY <1>1, <1>4 DEF SendLock, SendOk, SendDead, SendReturn, TypeOK
<1>5. ASSUME NEW p \in Proc, SendNil(p) \/ ReconnectOk(p) PROVE Same
  BY <1>1, <1>5 DEF SendNil, ReconnectOk, SendReturn, TypeOK
<1>6. ASSUME NEW p \in Proc, ReconnectFails(p) \/ Resend(p) PROVE Same
  <2>1. pc[p] \in {"reconnect", "resend"} /\ SendReturn(p)
    BY <1>6 DEF ReconnectFails, Resend
  <2> QED
    BY <1>1, <2>1 DEF SendReturn, TypeOK
<1>7. ASSUME NEW p \in Proc, Close(p) \/ Abandon(p) PROVE Same
  BY <1>1, <1>7 DEF Close, Abandon, TypeOK
<1>8. ASSUME NEW n \in Name, HostapdStops(n) \/ HostapdStarts(n) PROVE Same
  BY <1>8 DEF HostapdStops, HostapdStarts
<1>9. ASSUME UNCHANGED vars PROVE Same
  BY <1>9 DEF vars
<1> QED
  BY NothingEvicted, <1>2, <1>3, <1>4, <1>5, <1>6, <1>7, <1>8, <1>9
     DEF Next, Exited

\* A connection closed for a reconnect stays closed until its owner reopens it.
LEMMA NextReconnecting ==
  ASSUME Limit = 0, UInv, IInv', [Next]_vars
  PROVE  \A p \in Proc : pc'[p] = "reconnect" => s'[hand'[p]] = "nil"
<1> SUFFICES ASSUME NEW p \in Proc, pc'[p] = "reconnect"
             PROVE  s'[hand'[p]] = "nil"
  OBVIOUS
<1> USE DEF pool, obj, proc, At, GoTo
<1>1. TypeOK /\ LocksOwned /\ HandlesValid /\ EntriesValid
  BY DEF UInv, IInv
<1>2. pc[p] = "reconnect" => s[hand[p]] = "nil" /\ smu[hand[p]] = p
                             /\ hand[p] \in allocated /\ cached[hand[p]]
  BY <1>1 DEF UInv, LocksOwned, HandlesValid, InSend
<1>3. CASE UNCHANGED <<s, hand>> /\ pc[p] = "reconnect"
  BY <1>2, <1>3
<1>4. ASSUME NEW q \in Proc, SendDead(q) PROVE s'[hand'[p]] = "nil"
  <2>1. hand[q] \in Shared /\ hand' = hand /\ s' = [s EXCEPT ![hand[q]] = "nil"]
    BY <1>1, <1>4 DEF SendDead, HandlesValid, TypeOK, InSend
  <2>2. p = q \/ pc[p] = "reconnect"
    BY <1>1, <1>4 DEF SendDead, TypeOK
  <2> QED
    BY <1>1, <1>2, <2>1, <2>2 DEF TypeOK
<1>5. ASSUME NEW q \in Proc, ReconnectOk(q) PROVE s'[hand'[p]] = "nil"
  <2>1. p # q /\ pc[p] = "reconnect"
    BY <1>1, <1>5 DEF ReconnectOk, TypeOK
  <2>2. hand[p] # hand[q]
    BY <1>1, <1>5, <2>1 DEF ReconnectOk, LocksOwned, InSend
  <2> QED
    BY <1>1, <1>2, <1>5, <2>1, <2>2 DEF ReconnectOk, TypeOK
<1>6. ASSUME NEW q \in Proc, NEW h \in Shared, OpenShared(q, h)
      PROVE  s'[hand'[p]] = "nil"
  <2>1. p # q /\ pc[p] = "reconnect" /\ hand'[p] = hand[p]
    BY <1>1, <1>6 DEF OpenShared, TypeOK
  <2>2. hand[p] # h /\ s' = [s EXCEPT ![h] = "live"]
    BY <1>2, <1>6, <2>1 DEF OpenShared
  <2> QED
    BY <1>1, <1>2, <2>1, <2>2 DEF TypeOK
<1>7. ASSUME NEW q \in Proc, Close(q) \/ Abandon(q) \/ GetHit(q)
      PROVE  s'[hand'[p]] = "nil"
  <2>1. p # q /\ pc[p] = "reconnect" /\ hand'[p] = hand[p]
    BY <1>1, <1>7 DEF Close, Abandon, GetHit, TypeOK
  <2>2. UNCHANGED s
    <3>1. Close(q) => cached[hand[q]]
      BY <1>1 DEF Close, HandlesValid
    <3> QED
      BY <1>7, <3>1 DEF Close, Abandon, GetHit
  <2> QED
    BY <1>2, <2>1, <2>2
<1>8. ASSUME NEW q \in Proc, GetMiss(q) \/ OpenFails(q) \/ Store(q) \/ Put(q) \/ GetLock(q)
      PROVE  s'[hand'[p]] = "nil"
  BY <1>1, <1>3, <1>8 DEF GetMiss, OpenFails, Store, Put, GetLock, TypeOK
<1>9. ASSUME NEW q \in Proc, SendLock(q) \/ SendOk(q) \/ SendNil(q) \/ ReconnectFails(q)
                             \/ Resend(q) \/ \E n \in Name : GetCall(q, n)
      PROVE  s'[hand'[p]] = "nil"
  BY <1>1, <1>3, <1>9
     DEF SendLock, SendOk, SendNil, ReconnectFails, Resend, SendReturn, GetCall, TypeOK
<1>10. ASSUME NEW n \in Name, HostapdStops(n) PROVE s'[hand'[p]] = "nil"
  BY <1>1, <1>2, <1>10 DEF HostapdStops, TypeOK
<1>11. ASSUME (\E n \in Name : HostapdStarts(n)) \/ UNCHANGED vars
       PROVE s'[hand'[p]] = "nil"
  BY <1>3, <1>11 DEF HostapdStarts, vars
<1> QED
  BY NothingEvicted, <1>4, <1>5, <1>6, <1>7, <1>8, <1>9, <1>10, <1>11
     DEF Next, Exited

\* The invariant of the unlimited manager is inductive.
LEMMA NextUInv == ASSUME Limit = 0, UInv, IInv', [Next]_vars PROVE UInv'
<1> USE DEF pool, obj, proc, At, GoTo
<1> DEFINE Mapped(h) == cached[h] => sockets[device[h]] = h
           Fresh(h) == ~cached[h] =>
             /\ sockets[device[h]] = None
             /\ \E p \in Proc : pc[p] \in {"store", "evict"} /\ hand[p] = h
           Opening(p) == pc[p] = "open" => sockets[want[p]] = None
           Rest == /\ mcached = Cardinality(Keys)
                   /\ \A h \in allocated : Mapped(h) /\ Fresh(h)
                   /\ \A p \in Proc : Opening(p)
<1>1. TypeOK /\ LocksOwned /\ HandlesValid /\ EntriesValid /\ Rest
  BY DEF UInv, IInv
<1>2. TypeOK'
  BY DEF IInv
<1>3. CASE /\ UNCHANGED <<sockets, mcached, cached, allocated, device>>
           /\ \A p \in Proc :
                /\ pc'[p] \in {"store", "evict"} <=> pc[p] \in {"store", "evict"}
                /\ pc[p] \in {"store", "evict"} => hand'[p] = hand[p]
                /\ pc'[p] = "open" => pc[p] = "open" /\ want'[p] = want[p]
  <2>1. Keys' = Keys
    BY <1>3 DEF Keys
  <2>2. \A h \in allocated' : Mapped(h)' /\ Fresh(h)'
    BY <1>1, <1>3
  <2>3. \A p \in Proc : Opening(p)'
    BY <1>1, <1>3
  <2> QED
    BY <1>1, <1>3, <2>1, <2>2, <2>3, NothingEvicted, NextReconnecting DEF UInv
<1>4. ASSUME NEW q \in Proc, GetHit(q) PROVE Rest'
  <2>1. /\ UNCHANGED <<sockets, mcached, cached, allocated, device, want>>
        /\ pc' = [pc EXCEPT ![q] = "store"] /\ pc[q] = "lookup"
        /\ \A p \in Proc \ {q} : hand'[p] = hand[p]
    BY <1>1, <1>4 DEF GetHit, TypeOK
  <2>2. Keys' = Keys
    BY <2>1 DEF Keys
  <2>3. \A h \in allocated' : Mapped(h)' /\ Fresh(h)'
    BY <1>1, <2>1 DEF TypeOK
  <2>4. \A p \in Proc : Opening(p)'
    BY <1>1, <2>1 DEF TypeOK
  <2> QED
    BY <1>1, <2>1, <2>2, <2>3, <2>4
<1>5. ASSUME NEW q \in Proc, GetMiss(q) PROVE Rest'
  <2>1. /\ UNCHANGED <<sockets, mcached, cached, allocated, device, want, hand>>
        /\ pc' = [pc EXCEPT ![q] = "open"] /\ pc[q] = "lookup" /\ ~Hit(want[q])
    BY <1>1, <1>5 DEF GetMiss, TypeOK
  <2>2. Keys' = Keys
    BY <2>1 DEF Keys
  <2>3. \A h \in allocated' : Mapped(h)' /\ Fresh(h)'
    BY <1>1, <2>1 DEF TypeOK
  <2>4. sockets[want[q]] = None
    BY <1>1, <2>1 DEF Hit, Closed, EntriesValid, Keys, HandlesValid, InGet, TypeOK
  <2>5. \A p \in Proc : Opening(p)'
    BY <1>1, <2>1, <2>4 DEF TypeOK
  <2> QED
    BY <1>1, <2>1, <2>2, <2>3, <2>5
<1>6. ASSUME NEW q \in Proc, NEW g \in Shared, OpenShared(q, g) PROVE Rest'
  <2>1. /\ UNCHANGED <<sockets, mcached, cached, want>>
        /\ allocated' = allocated \union {g} /\ g \notin allocated
        /\ device' = [device EXCEPT ![g] = want[q]]
        /\ hand' = [hand EXCEPT ![q] = g]
        /\ pc' = [pc EXCEPT ![q] = "store"] /\ pc[q] = "open"
    BY <1>6 DEF OpenShared
  <2>2. Keys' = Keys
    BY <2>1 DEF Keys
  <2>3. ASSUME NEW h \in allocated PROVE Mapped(h)' /\ Fresh(h)'
    <3>1. device'[h] = device[h] /\ h \in Shared
      BY <1>1, <2>1 DEF TypeOK
    <3>2. \A p \in Proc : pc[p] \in {"store", "evict"} =>
            pc'[p] = pc[p] /\ hand'[p] = hand[p]
      BY <1>1, <2>1 DEF TypeOK
    <3> QED
      BY <1>1, <2>1, <3>1, <3>2
  <2>4. Mapped(g)' /\ Fresh(g)'
    <3>1. ~cached[g] /\ device'[g] = want[q] /\ sockets[want[q]] = None
      BY <1>1, <2>1 DEF TypeOK, EntriesValid
    <3>2. pc'[q] = "store" /\ hand'[q] = g
      BY <1>1, <2>1 DEF TypeOK
    <3> QED
      BY <2>1, <3>1, <3>2
  <2>5. \A p \in Proc : Opening(p)'
    BY <1>1, <2>1 DEF TypeOK
  <2> QED
    BY <1>1, <2>1, <2>2, <2>3, <2>4, <2>5
<1>7. ASSUME NEW q \in Proc, Put(q) PROVE Rest'
  <2> DEFINE g == hand[q]
             n == want[q]
  <2>1. /\ g \in allocated /\ g \in Shared /\ n \in Name /\ device[g] = n
        /\ cached' = [cached EXCEPT ![g] = TRUE]
        /\ mcached' = IF cached[g] THEN mcached ELSE mcached + 1
        /\ sockets' = [sockets EXCEPT ![n] = g]
        /\ g # None
    BY <1>1, <1>7, PutCaches, ManagerAssumption DEF UInv, TypeOK
  <2>2. /\ UNCHANGED <<allocated, device, hand>> /\ pc[q] = "evict"
        /\ pc' = [pc EXCEPT ![q] = "hold"] /\ want' = [want EXCEPT ![q] = None]
    BY <1>7 DEF Put
  <2>3. IsFiniteSet(Keys) /\ Cardinality(Keys) \in Nat
    BY ManagerAssumption, FS_Subset, FS_CardinalityType DEF Keys
  <2>4. Keys' = Keys \union {n}
    BY <1>1, <2>1 DEF Keys, TypeOK
  <2>5. n \in Keys <=> cached[g]
    BY <1>1, <2>1 DEF Keys
  <2>6. mcached' = Cardinality(Keys')
    BY <1>1, <2>1, <2>3, <2>4, <2>5, FS_AddElement
  <2>7. \A p \in Proc : pc[p] \in {"store", "evict", "open"} => p = q
    BY <1>1, <2>2 DEF LocksOwned, InGet
  <2>8. ASSUME NEW h \in allocated PROVE Mapped(h)'
    <3>1. h \in Shared /\ h # None /\ device[h] \in Name
      BY <1>1, ManagerAssumption DEF TypeOK, EntriesValid
    <3>2. CASE h = g
      BY <1>1, <2>1, <2>2, <3>1, <3>2 DEF TypeOK
    <3>3. CASE h # g
      <4>1. cached'[h] = cached[h] /\ device'[h] = device[h]
        BY <1>1, <2>1, <2>2, <3>1, <3>3 DEF TypeOK
      <4>2. cached[h] => device[h] # n
        BY <1>1, <2>1, <3>1, <3>3
      <4> QED
        BY <1>1, <2>1, <3>1, <4>1, <4>2 DEF TypeOK
    <3> QED
      BY <3>2, <3>3
  <2>9. \A h \in allocated : Fresh(h)'
    BY <1>1, <2>1, <2>2, <2>7 DEF TypeOK
  <2>10. \A p \in Proc : Opening(p)'
    BY <1>1, <2>2, <2>7 DEF TypeOK
  <2> QED
    BY <2>2, <2>6, <2>8, <2>9, <2>10
<1> QED
  BY UInvFrame, NothingEvicted, NextReconnecting, <1>3, <1>4, <1>5, <1>6, <1>7 DEF UInv

\* Without a limit the stronger invariant holds.
THEOREM UInvHolds == ASSUME Limit = 0 PROVE Spec => []UInv
<1>1. UInv /\ [Next]_vars => UInv'
  <2> SUFFICES ASSUME UInv, [Next]_vars PROVE UInv'
    OBVIOUS
  <2>1. IInv'
    BY NextTypeOK, NextLocksOwned, NextHandlesValid, NextEntriesValid,
       NextRefsExact, NextCountsCached DEF IInv, UInv
  <2> QED
    BY <2>1, NextUInv
<1> QED
  BY <1>1, InitUInv, PTL DEF Spec

\* Without a limit no device is ever opened by two objects: the comment on
\* Manager.mu, "It's best to avoid opening redundant connections".
THEOREM NoRedundantConnection == ASSUME Limit = 0 PROVE Spec => []OneSocketPerDevice
  BY UInvHolds, UInvOneSocket, PTL

\* Without a limit Manager.cached counts the map, and every cached object is
\* in it.
THEOREM CountsAreExact == ASSUME Limit = 0 PROVE Spec => []CacheExact
  BY UInvHolds, UInvCacheExact, PTL

-----------------------------------------------------------------------------
(* The unlimited manager implements SocketPool.                            *)

\* The abstract state, as functions.
ConnTable == [n \in Name |-> ConnOf(n)]
UserTable == [p \in Proc |-> IF hand[p] = None THEN None ELSE device[hand[p]]]

\* The connection of a name is the one of its only object.
LEMMA ConnOfObject ==
  ASSUME OneSocketPerDevice
  PROVE  /\ \A h \in allocated : ConnOf(device[h]) = s[h]
         /\ \A n \in Name : (\A h \in allocated : device[h] # n) => ConnOf(n) = "none"
<1>1. ASSUME NEW h \in allocated PROVE ConnOf(device[h]) = s[h]
  <2>1. {g \in allocated : device[g] = device[h]} = {h}
    BY DEF OneSocketPerDevice
  <2> QED
    BY <2>1 DEF ConnOf
<1>2. ASSUME NEW n \in Name, \A h \in allocated : device[h] # n
      PROVE  ConnOf(n) = "none"
  BY <1>2 DEF ConnOf
<1> QED
  BY <1>1, <1>2

\* A step that opens nothing leaves the names without an object without a
\* connection, and gives the others the connection of their object.
LEMMA ConnTableStep ==
  ASSUME OneSocketPerDevice, OneSocketPerDevice', TypeOK, UNCHANGED <<allocated, device>>
  PROVE  \A n \in Name :
           \/ \E h \in allocated : /\ device[h] = n /\ h \in Shared
                                   /\ ConnOf(n) = s[h] /\ ConnOf(n)' = s'[h]
           \/ /\ \A h \in allocated : device[h] # n
              /\ ConnOf(n) = "none" /\ ConnOf(n)' = "none"
<1> SUFFICES ASSUME NEW n \in Name
             PROVE \/ \E h \in allocated : /\ device[h] = n /\ h \in Shared
                                           /\ ConnOf(n) = s[h] /\ ConnOf(n)' = s'[h]
                   \/ /\ \A h \in allocated : device[h] # n
                      /\ ConnOf(n) = "none" /\ ConnOf(n)' = "none"
  OBVIOUS
<1>1. allocated \subseteq Shared
  BY DEF TypeOK
<1>2. ASSUME NEW h \in allocated, device[h] = n
      PROVE  ConnOf(n) = s[h] /\ ConnOf(n)' = s'[h]
  <2>1. {g \in allocated : device[g] = n} = {h}
    BY <1>2 DEF OneSocketPerDevice
  <2>2. {g \in allocated' : device'[g] = n} = {h}
    BY <2>1
  <2> QED
    BY <2>1, <2>2 DEF ConnOf
<1>3. ASSUME \A h \in allocated : device[h] # n
      PROVE  ConnOf(n) = "none" /\ ConnOf(n)' = "none"
  <2>1. {g \in allocated : device[g] = n} = {} /\ {g \in allocated' : device'[g] = n} = {}
    BY <1>3
  <2> QED
    BY <2>1 DEF ConnOf
<1> QED
  BY <1>1, <1>2, <1>3

LEMMA PoolInit == Init => Pool!Init
<1> SUFFICES ASSUME Init PROVE Pool!Init
  OBVIOUS
<1>1. \A n \in Name : ConnOf(n) = "none"
  BY DEF Init, ConnOf
<1>2. \A p \in Proc : hand[p] = None
  BY DEF Init
<1> QED
  BY <1>1, <1>2 DEF Init, Pool!Init

\* Every step is a step of the pool or changes nothing the pool speaks of.
LEMMA PoolStep ==
  ASSUME UInv, OneSocketPerDevice', [Next]_vars, Limit = 0
  PROVE  [Pool!Next]_(Pool!vars)
<1> USE DEF pool, obj, proc, At, GoTo
<1>1. TypeOK /\ LocksOwned /\ HandlesValid /\ EntriesValid /\ OneSocketPerDevice
  BY UInvOneSocket DEF UInv, IInv
<1>2. OneSocketPerDevice'
  OBVIOUS
<1>3. CASE UNCHANGED <<allocated, device, s, hand, hostapd, panic>>
  <2>1. ConnTable' = ConnTable
    BY <1>3 DEF ConnTable, ConnOf
  <2>2. UserTable' = UserTable
    BY <1>3 DEF UserTable
  <2> QED
    BY <1>3, <2>1, <2>2 DEF Pool!vars, ConnTable, UserTable
<1>4. ASSUME NEW p \in Proc, GetLock(p) \/ GetMiss(p) \/ OpenFails(p) \/ Store(p)
                             \/ \E n \in Name : GetCall(p, n)
      PROVE  [Pool!Next]_(Pool!vars)
  BY <1>3, <1>4 DEF GetLock, GetMiss, OpenFails, Store, GetCall
<1>5. ASSUME NEW p \in Proc, Put(p) PROVE [Pool!Next]_(Pool!vars)
  <2>1. UNCHANGED <<allocated, device, s, hand, hostapd, panic>>
    BY <1>5, PutCaches DEF Put, UInv
  <2> QED
    BY <1>3, <2>1
<1>6. ASSUME NEW p \in Proc, SendLock(p) \/ SendOk(p) \/ ReconnectFails(p) \/ Resend(p)
      PROVE  [Pool!Next]_(Pool!vars)
  BY <1>3, <1>6 DEF SendLock, SendOk, ReconnectFails, Resend, SendReturn
<1>7. ASSUME NEW p \in Proc, GetHit(p) PROVE [Pool!Next]_(Pool!vars)
  <2>0. PICK n \in Name : n = want[p] /\ n # None /\ hand[p] = None
    BY <1>1, <1>7, ManagerAssumption DEF GetHit, HandlesValid, TypeOK, InGet, InSend
  <2> DEFINE h == sockets[n]
  <2>1. h \in allocated /\ device[h] = n /\ h \in Shared /\ h # None
    BY <1>1, <1>7, <2>0, ManagerAssumption DEF GetHit, Hit, EntriesValid, Keys, TypeOK
  <2>2. UNCHANGED <<allocated, device, s, hostapd, panic>> /\ hand' = [hand EXCEPT ![p] = h]
        /\ panic = "none"
    BY <1>7, <2>0 DEF GetHit
  <2>3. ConnTable' = ConnTable
    BY <2>2 DEF ConnTable, ConnOf
  <2>4. UserTable' = [UserTable EXCEPT ![p] = n] /\ UserTable[p] = None
    BY <1>1, <2>0, <2>1, <2>2 DEF UserTable, TypeOK
  <2>5. ConnTable[n] # "none"
    BY <1>1, <2>1, ConnOfObject DEF ConnTable, TypeOK
  <2>6. Pool!Acquire(p, n)
    BY <2>0, <2>1, <2>2, <2>3, <2>4, <2>5 DEF Pool!Acquire, ConnTable, UserTable
  <2> QED
    BY <2>1, <2>2, <2>6 DEF Pool!Next
<1>8. ASSUME NEW p \in Proc, NEW h \in Shared, OpenShared(p, h)
      PROVE  [Pool!Next]_(Pool!vars)
  <2>0. PICK n \in Name : n = want[p] /\ n # None
    BY <1>1, <1>8, ManagerAssumption DEF OpenShared, HandlesValid, TypeOK, InGet
  <2>1. h # None /\ hand[p] = None /\ pc[p] = "open" /\ panic = "none"
    BY <1>1, <1>8, ManagerAssumption
       DEF OpenShared, HandlesValid, TypeOK, InGet, InSend
  <2>2. /\ UNCHANGED <<hostapd, panic>> /\ hand' = [hand EXCEPT ![p] = h]
        /\ allocated' = allocated \union {h} /\ h \notin allocated
        /\ device' = [device EXCEPT ![h] = n] /\ s' = [s EXCEPT ![h] = "live"]
        /\ hostapd[n]
    BY <1>8, <2>0 DEF OpenShared
  <2>3. \A g \in allocated : g # h /\ g \in Shared /\ device[g] # n
    BY <2>0, <2>1, <2>2, OpenedByNobodyElse DEF UInv, IInv, TypeOK
  <2>4. ConnTable' = [ConnTable EXCEPT ![n] = "live"] /\ ConnTable[n] = "none"
    <3>1. ConnOf(n) = "none"
      BY <1>1, <2>1, <2>3, ConnOfObject
    <3>2. ConnOf(n)' = "live"
      <4>1. {g \in allocated' : device'[g] = n} = {h}
        BY <1>1, <2>2, <2>3 DEF TypeOK
      <4>2. s'[h] = "live"
        BY <1>1, <2>2 DEF TypeOK
      <4> QED
        BY <4>1, <4>2 DEF ConnOf
    <3>3. ASSUME NEW m \in Name, m # n PROVE ConnOf(m)' = ConnOf(m)
      <4>1. {g \in allocated' : device'[g] = m} = {g \in allocated : device[g] = m}
        BY <1>1, <2>2, <2>3, <3>3 DEF TypeOK
      <4>2. \A g \in allocated : s'[g] = s[g]
        BY <1>1, <2>2, <2>3 DEF TypeOK
      <4>3. CASE {g \in allocated : device[g] = m} = {}
        BY <4>1, <4>3 DEF ConnOf
      <4>4. CASE {g \in allocated : device[g] = m} # {}
        <5> DEFINE c == CHOOSE g \in {k \in allocated : device[k] = m} : TRUE
        <5>1. c \in allocated
          BY <4>4
        <5>2. ConnOf(m) = s[c]
          BY <4>4 DEF ConnOf
        <5>3. ConnOf(m)' = s'[c]
          BY <4>1, <4>4 DEF ConnOf
        <5> QED
          BY <4>2, <5>1, <5>2, <5>3
      <4> QED
        BY <4>3, <4>4
    <3> QED
      BY <2>1, <3>1, <3>2, <3>3 DEF ConnTable
  <2>5. UserTable' = [UserTable EXCEPT ![p] = n] /\ UserTable[p] = None
    <3>1. \A q \in Proc : hand[q] # None => device'[hand[q]] = device[hand[q]]
      BY <1>1, <2>2 DEF HandlesValid, TypeOK
    <3> QED
      BY <1>1, <2>0, <2>1, <2>2, <3>1 DEF UserTable, TypeOK
  <2>6. Pool!Acquire(p, n)
    BY <2>0, <2>1, <2>2, <2>4, <2>5 DEF Pool!Acquire, ConnTable, UserTable
  <2> QED
    BY <2>1, <2>2, <2>6 DEF Pool!Next
<1>9. ASSUME NEW p \in Proc, Close(p) \/ Abandon(p) PROVE [Pool!Next]_(Pool!vars)
  <2>1. hand[p] \in allocated /\ hand[p] # None /\ cached[hand[p]] /\ panic = "none"
        /\ device[hand[p]] \in Name
    BY <1>1, <1>9, ManagerAssumption
       DEF Close, Abandon, HandlesValid, TypeOK, EntriesValid
  <2>2. /\ UNCHANGED <<allocated, device, s, hostapd, panic>>
        /\ hand' = [hand EXCEPT ![p] = None]
    BY <1>9, <2>1 DEF Close, Abandon
  <2>3. ConnTable' = ConnTable
    BY <2>2 DEF ConnTable, ConnOf
  <2>4. UserTable' = [UserTable EXCEPT ![p] = None] /\ UserTable[p] # None
    BY <1>1, <2>1, <2>2, ManagerAssumption DEF UserTable, TypeOK
  <2>5. Pool!Release(p)
    BY <2>2, <2>3, <2>4 DEF Pool!Release, ConnTable, UserTable
  <2> QED
    BY <2>1, <2>5 DEF Pool!Next
<1>10. ASSUME NEW p \in Proc, SendDead(p) \/ SendNil(p) \/ ReconnectOk(p)
       PROVE  [Pool!Next]_(Pool!vars)
  <2> DEFINE h == hand[p]
             n == device[h]
  <2>1. h \in allocated /\ h \in Shared /\ h # None /\ n \in Name /\ n # None
        /\ panic = "none"
    BY <1>1, <1>10, ManagerAssumption
       DEF SendDead, SendNil, ReconnectOk, HandlesValid, InSend, TypeOK, EntriesValid
  <2>2. UNCHANGED <<allocated, device, hand, hostapd>>
    BY <1>10 DEF SendDead, SendNil, ReconnectOk, SendReturn
  <2>3. UserTable' = UserTable /\ UserTable[p] = n
    BY <2>1, <2>2 DEF UserTable
  <2>4. ConnTable[n] = s[h]
    BY <1>1, <2>1, ConnOfObject DEF ConnTable
  <2>5. ASSUME NEW v, s' = [s EXCEPT ![h] = v]
        PROVE  ConnTable' = [ConnTable EXCEPT ![n] = v]
    <3>1. ASSUME NEW m \in Name
          PROVE  ConnOf(m)' = IF m = n THEN v ELSE ConnOf(m)
      BY <1>1, <1>2, <2>1, <2>2, <2>5, ConnTableStep DEF OneSocketPerDevice, TypeOK
    <3> QED
      BY <2>1, <3>1 DEF ConnTable
  <2>6. CASE SendDead(p)
    <3>1. Pool!Drop(p)
      BY <2>1, <2>2, <2>3, <2>4, <2>5, <2>6
         DEF SendDead, Pool!Drop, ConnTable, UserTable
    <3> QED
      BY <2>1, <3>1 DEF Pool!Next
  <2>7. CASE ReconnectOk(p)
    <3>1. s[h] = "nil"
      BY <2>7 DEF UInv, ReconnectOk
    <3>2. Pool!Restore(p)
      BY <2>1, <2>2, <2>3, <2>4, <2>5, <2>7, <3>1
         DEF ReconnectOk, Pool!Restore, ConnTable, UserTable
    <3> QED
      BY <2>1, <3>2 DEF Pool!Next
  <2>8. CASE SendNil(p)
    <3>1. ConnTable' = ConnTable
      BY <2>2, <2>8 DEF SendNil, ConnTable, ConnOf
    <3>2. Pool!Exit(p)
      BY <2>1, <2>2, <2>3, <2>4, <2>8, <3>1
         DEF SendNil, Pool!Exit, ConnTable, UserTable
    <3> QED
      BY <2>1, <3>2 DEF Pool!Next
  <2> QED
    BY <1>10, <2>6, <2>7, <2>8
<1>11. ASSUME NEW n \in Name, HostapdStops(n) PROVE [Pool!Next]_(Pool!vars)
  <2>1. /\ UNCHANGED <<allocated, device, hand, panic>> /\ panic = "none" /\ hostapd[n]
        /\ hostapd' = [hostapd EXCEPT ![n] = FALSE]
        /\ s' = [h \in Shared |->
                   IF device[h] = n /\ s[h] = "live" THEN "dead" ELSE s[h]]
    BY <1>11 DEF HostapdStops
  <2>2. UserTable' = UserTable
    BY <2>1 DEF UserTable
  <2>3. ASSUME NEW m \in Name
        PROVE  ConnOf(m)' = IF m = n /\ ConnOf(m) = "live" THEN "dead" ELSE ConnOf(m)
    BY <1>1, <1>2, <2>1, ConnTableStep
  <2>4. ConnTable' = [ConnTable EXCEPT ![n] = IF @ = "live" THEN "dead" ELSE @]
    BY <2>3 DEF ConnTable
  <2>5. Pool!Stop(n)
    BY <2>1, <2>2, <2>4 DEF Pool!Stop, ConnTable, UserTable
  <2> QED
    BY <2>1, <2>5 DEF Pool!Next
<1>12. ASSUME NEW n \in Name, HostapdStarts(n) PROVE [Pool!Next]_(Pool!vars)
  <2>1. /\ UNCHANGED <<allocated, device, s, hand, panic>> /\ panic = "none" /\ ~hostapd[n]
        /\ hostapd' = [hostapd EXCEPT ![n] = TRUE]
    BY <1>12 DEF HostapdStarts
  <2>2. UserTable' = UserTable /\ ConnTable' = ConnTable
    BY <2>1 DEF UserTable, ConnTable, ConnOf
  <2>3. Pool!Start(n)
    BY <2>1, <2>2 DEF Pool!Start, ConnTable, UserTable
  <2> QED
    BY <2>1, <2>3 DEF Pool!Next
<1>13. CASE UNCHANGED vars
  BY <1>3, <1>13 DEF vars
<1> QED
  BY NothingEvicted, <1>4, <1>5, <1>6, <1>7, <1>8, <1>9, <1>10, <1>11, <1>12, <1>13
     DEF Next, Exited

\* Without a limit the manager implements SocketPool: one connection per name,
\* shared, kept, replaced in place.
THEOREM ManagerImplementsPool == ASSUME Limit = 0 PROVE Spec => PoolSpec
<1>1. UInv /\ OneSocketPerDevice' /\ [Next]_vars => [Pool!Next]_(Pool!vars)
  BY PoolStep
<1> QED
  BY <1>1, PoolInit, UInvHolds, NoRedundantConnection, PTL
     DEF Spec, PoolSpec, Pool!Spec
=============================================================================
