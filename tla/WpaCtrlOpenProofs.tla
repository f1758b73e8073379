------------------------- MODULE WpaCtrlOpenProofs -------------------------
(***************************************************************************)
(* Theorems about WpaCtrlOpen for any number of devices, process ids and   *)
(* exits: as long as no two opens overlap, which needs a reconnect, the    *)
(* unlink of wpa_ctrl_open2 is as harmless as its comment says.            *)
(***************************************************************************)
EXTENDS WpaCtrlOpen, TLAPS

USE OpenAssumption, NoneIsNoPath

\* A path is a pair of a process id and a number.
LEMMA PathParts ==
  \A f \in Path : f = <<f[1], f[2]>> /\ f[1] \in Pid /\ f[2] \in Nat
  BY DEF Path

\* The files of this run are paths, with a number to compare.
LEMMA OwnPaths ==
  ASSUME TypeOK
  PROVE  Own \subseteq Path /\ \A f \in Own : f[2] \in Nat
<1>1. Own \subseteq Path
  BY DEF TypeOK, Own
<1> QED
  BY <1>1, PathParts

\* What Unlink leaves of the files of this run.
LEMMA UnlinkOwn ==
  ASSUME TypeOK, NEW f \in Path, Unlink(f), UNCHANGED found
  PROVE  Own' = Own \ {f} /\ stale' \subseteq Path /\ leaked' \subseteq Path
         /\ bound' \in [Dev -> Path \union {None}]
  BY DEF TypeOK, Unlink, Own

\* A name only one device is bound to.
LEMMA UnlinkAlone ==
  ASSUME TypeOK, NEW d \in Dev, local[d] \in Path, Unlink(local[d]),
         UNCHANGED found, \A e \in Dev : bound[e] = local[d] <=> e = d
  PROVE  Own' \subseteq Own /\ leaked' \subseteq leaked
         /\ bound' = [bound EXCEPT ![d] = None]
<1>1. Own' \subseteq Own
  BY UnlinkOwn
<1>2. leaked' \subseteq leaked /\ bound' = [bound EXCEPT ![d] = None]
  BY DEF Unlink, TypeOK
<1> QED
  BY <1>1, <1>2

LEMMA InitGetInv == Init => GetInv
<1> SUFFICES ASSUME Init PROVE GetInv
  OBVIOUS
<1>1. Own = {}
  BY DEF Init, Own
<1> QED
  BY <1>1 DEF Init, GetInv, Ordered, TypeOK

\* Whoever holds mu is opening.
MuBusy == mu # None => pc[mu] # "idle"

\* The types, and that, need no order of the opens.
LEMMA NextTyped ==
  ASSUME TypeOK, MuBusy, [Next]_vars
  PROVE  TypeOK' /\ MuBusy'
<1> USE DEF TypeOK, MuBusy, GoTo, Return, run, files, Overlap
<1>1. ASSUME NEW d \in Dev, Unlink(local[d]), UNCHANGED found
      PROVE  /\ stale' \subseteq Path /\ leaked' \subseteq Path
             /\ bound' \in [Dev -> Path \union {None}]
  BY <1>1 DEF Unlink
<1>2. ASSUME NEW d \in Dev, GetOpen(d) PROVE TypeOK' /\ MuBusy'
  BY <1>2 DEF GetOpen
<1>3. ASSUME NEW d \in Dev, Reconnect(d) PROVE TypeOK' /\ MuBusy'
  BY <1>1, <1>3 DEF Reconnect
<1>4. ASSUME NEW d \in Dev, Load(d) \/ Store(d) PROVE TypeOK' /\ MuBusy'
  BY <1>4 DEF Load, Store
<1>5. ASSUME NEW d \in Dev, Name(d) PROVE TypeOK' /\ MuBusy'
  <2>1. PICK k \in {counter, reg[d] + 1} : local' = [local EXCEPT ![d] = <<pid, k>>]
    BY <1>5 DEF Name
  <2>2. <<pid, k>> \in Path
    BY DEF Path
  <2>3. local' \in [Dev -> Path \union {None}]
    BY <2>1, <2>2
  <2> QED
    BY <1>5, <2>3 DEF Name
<1>6. ASSUME NEW d \in Dev, BindOk(d) \/ BindBusy(d) \/ BindFails(d)
      PROVE  TypeOK' /\ MuBusy'
  <2>1. CASE BindOk(d)
    BY <2>1 DEF BindOk
  <2>2. CASE BindBusy(d)
    BY <2>2 DEF BindBusy
  <2>3. CASE BindFails(d)
    BY <2>3 DEF BindFails
  <2> QED
    BY <1>6, <2>1, <2>2, <2>3
<1>7. ASSUME NEW d \in Dev, Remove(d) PROVE TypeOK' /\ MuBusy'
  BY <1>1, <1>7 DEF Remove
<1>8. ASSUME NEW d \in Dev, Connected(d) PROVE TypeOK' /\ MuBusy'
  BY <1>8 DEF Connected
<1>9. ASSUME NEW d \in Dev, Forgotten(d) PROVE TypeOK' /\ MuBusy'
  BY <1>9 DEF Forgotten
<1>10. ASSUME NEW d \in Dev, ConnectFails(d) PROVE TypeOK' /\ MuBusy'
  BY <1>1, <1>10 DEF ConnectFails
<1>11. ASSUME NEW d \in Dev, DestTooLong(d) PROVE TypeOK' /\ MuBusy'
  BY <1>11 DEF DestTooLong, NullUnlessErrno
<1>12. ASSUME Exit PROVE TypeOK' /\ MuBusy'
  <2>1. \A f \in {bound[d] : d \in Dev} : f \in Path \union {None}
    OBVIOUS
  <2>2. stale' = stale \union leaked \union ({bound[d] : d \in Dev} \ {None})
    BY <1>12 DEF Exit
  <2>3. stale' \subseteq Path
    BY <2>1, <2>2
  <2>4. bound' \in [Dev -> Path \union {None}] /\ local' \in [Dev -> Path \union {None}]
    BY <1>12 DEF Exit
  <2>5. pc' \in [Dev -> {"idle"}] /\ conn' \in [Dev -> {"none"}]
    BY <1>12 DEF Exit
  <2>6. reg' \in [Dev -> Nat] /\ retried' \in [Dev -> BOOLEAN]
    BY <1>12 DEF Exit
  <2>7. /\ pid' \in Pid /\ exits' \in Nat /\ counter' \in Nat
        /\ leaked' = {} /\ found' = stale' /\ mu' = None /\ raced' = FALSE
    BY <1>12 DEF Exit
  <2> QED
    BY <2>3, <2>4, <2>5, <2>6, <2>7
<1>13. ASSUME UNCHANGED vars PROVE TypeOK' /\ MuBusy'
  BY <1>13 DEF vars
<1>14. ASSUME NEW d \in Dev, NameTooLong(d) PROVE TypeOK' /\ MuBusy'
  <2>1. PICK k \in {counter, reg[d] + 1} : local' = [local EXCEPT ![d] = <<pid, k>>]
    BY <1>14 DEF NameTooLong
  <2>2. <<pid, k>> \in Path
    BY DEF Path
  <2>3. local' \in [Dev -> Path \union {None}]
    BY <2>1, <2>2
  <2> QED
    BY <1>14, <2>3 DEF NameTooLong, NullUnlessErrno
<1> QED
  BY <1>2, <1>3, <1>4, <1>5, <1>6, <1>7, <1>8, <1>9, <1>10, <1>11, <1>12,
     <1>13, <1>14 DEF Next, Exhausted, AllOpen

\* Every step of an open keeps the order, and so does the start of one that
\* overlaps no other.
LEMMA NextOrdered ==
  ASSUME TypeOK, Ordered, TypeOK', [Next]_vars, ~Exit, ~raced'
  PROVE  Ordered'
<1> USE DEF GoTo, Return, run, files
<1>1. ASSUME NEW d \in Dev, GetOpen(d) PROVE Ordered'
  <2>1. Own' = Own
    BY <1>1 DEF GetOpen, Own
  <2>2. mu = None /\ \A e \in Dev : pc[e] = "idle"
    BY <1>1 DEF GetOpen, Overlap, TypeOK
  <2> QED
    BY <1>1, <2>1, <2>2 DEF GetOpen, Ordered, TypeOK
<1>2. ASSUME NEW d \in Dev, Reconnect(d) PROVE Ordered'
  <2>1. \A e \in Dev : pc[e] = "idle"
    BY <1>2 DEF Reconnect, Overlap, TypeOK
  <2>2. bound[d] = local[d] /\ local[d] \in Path
    BY <1>2 DEF Reconnect, Ordered, TypeOK
  <2>3. Own' \subseteq Own /\ leaked' \subseteq leaked
        /\ bound' = [bound EXCEPT ![d] = None]
    <3>1. \A e \in Dev : bound[e] = local[d] <=> e = d
      BY <2>2 DEF Ordered
    <3> QED
      BY <1>2, <2>2, <3>1, UnlinkAlone DEF Reconnect
  <2>4. /\ UNCHANGED <<run, counter, mu, reg, local>>
        /\ pc' = [pc EXCEPT ![d] = "load"] /\ conn' = [conn EXCEPT ![d] = "nil"]
        /\ retried' = [retried EXCEPT ![d] = FALSE]
    BY <1>2 DEF Reconnect
  <2> QED
    BY <2>1, <2>2, <2>3, <2>4 DEF Ordered, TypeOK
<1>3. ASSUME NEW d \in Dev, Load(d) PROVE Ordered'
  <2>1. Own' = Own
    BY <1>3 DEF Load, Own
  <2> QED
    BY <1>3, <2>1 DEF Load, Ordered, TypeOK
<1>4. ASSUME NEW d \in Dev, Store(d) PROVE Ordered'
  <2>1. Own' = Own
    BY <1>4 DEF Store, Own
  <2> QED
    BY <1>4, <2>1, OwnPaths DEF Store, Ordered, TypeOK
<1>5. ASSUME NEW d \in Dev, Name(d) PROVE Ordered'
  <2>1. Own' = Own
    BY <1>5 DEF Name, Own
  <2> QED
    BY <1>5, <2>1 DEF Name, Ordered, TypeOK
<1>6. ASSUME NEW d \in Dev, BindOk(d) PROVE Ordered'
  <2>1. Own' \subseteq Own \union {<<pid, counter>>}
    BY <1>6 DEF BindOk, Own, Ordered, TypeOK
  <2>2. pc[d] = "bind" /\ local[d] = <<pid, counter>> /\ counter \in Nat
        /\ \A f \in Own : f[2] < counter
    BY <1>6 DEF BindOk, Ordered, TypeOK
  <2>3. local[d] \in Path /\ local[d] # None
    BY <2>2 DEF Ordered, TypeOK, Path
  <2>4. \A f \in Own' : f[1] = pid /\ f[2] <= counter
    BY <2>1, <2>2 DEF Ordered
  <2>5. \A e \in Dev \ {d} : pc[e] = "idle" /\ bound[e] # local[d]
    BY <2>2, <2>3 DEF Ordered, Own
  <2>6. /\ UNCHANGED <<run, counter, stale, leaked, mu, reg, local, retried, conn>>
        /\ bound' = [bound EXCEPT ![d] = local[d]]
        /\ pc' = [pc EXCEPT ![d] = "connect"] /\ pc[d] = "bind"
    BY <1>6 DEF BindOk
  <2> QED
    BY <2>2, <2>3, <2>4, <2>5, <2>6 DEF Ordered, TypeOK
<1>7. ASSUME NEW d \in Dev, BindBusy(d) PROVE Ordered'
  <2>1. Own' = Own
    BY <1>7 DEF BindBusy, Own
  <2>2. local[d] = <<pid, counter>> /\ local[d] \notin Own
    BY <1>7, OwnPaths DEF BindBusy, Ordered, TypeOK
  <2>3. local[d] # None
    BY <2>2 DEF Ordered, TypeOK, Path
  <2>4. local[d] \in found
    BY <1>7, <2>2, <2>3 DEF BindBusy, Exists, Own
  <2> QED
    BY <1>7, <2>1, <2>2, <2>4 DEF BindBusy, Ordered, TypeOK
<1>8. ASSUME NEW d \in Dev, Remove(d) PROVE Ordered'
  <2>1. local[d] = <<pid, counter>> /\ local[d] \notin Own /\ local[d] \in Path
    BY <1>8, OwnPaths DEF Remove, Ordered, TypeOK, Path
  <2>2. /\ Own' = Own /\ TypeOK' /\ bound' = bound /\ leaked' = leaked
    <3>1. \A e \in Dev : bound[e] # local[d]
      BY <2>1 DEF Own, Path
    <3> QED
      BY <1>8, <2>1, <3>1, UnlinkOwn DEF Remove, Unlink, TypeOK, Own
  <2> QED
    BY <1>8, <2>1, <2>2 DEF Remove, Ordered, TypeOK
<1>9. ASSUME NEW d \in Dev, BindFails(d) PROVE Ordered'
  <2>1. Own' = Own
    BY <1>9 DEF BindFails, Own
  <2> QED
    BY <1>9, <2>1 DEF BindFails, Ordered, TypeOK
<1>10. ASSUME NEW d \in Dev, Connected(d) PROVE Ordered'
  <2>1. Own' = Own
    BY <1>10 DEF Connected, Own
  <2> QED
    BY <1>10, <2>1 DEF Connected, Ordered, TypeOK
<1>11. ASSUME NEW d \in Dev, Forgotten(d) PROVE Ordered'
  <2>1. Own' = Own
    BY <1>11 DEF Forgotten, Own, Ordered, TypeOK
  <2> QED
    BY <1>11, <2>1 DEF Forgotten, Ordered, TypeOK
<1>12. ASSUME NEW d \in Dev, ConnectFails(d) PROVE Ordered'
  <2>1. bound[d] = local[d] /\ local[d] \in Path
    BY <1>12 DEF ConnectFails, Ordered, TypeOK
  <2>2. /\ Own' \subseteq Own /\ leaked' \subseteq leaked
        /\ bound' = [bound EXCEPT ![d] = None]
    <3>1. \A e \in Dev : bound[e] = local[d] <=> e = d
      BY <2>1 DEF Ordered
    <3> QED
      BY <1>12, <2>1, <3>1, UnlinkAlone DEF ConnectFails
  <2>3. /\ UNCHANGED <<run, counter, reg, local, retried, conn>> /\ mu' = IF mu = d THEN None ELSE mu
        /\ pc' = [pc EXCEPT ![d] = "idle"] /\ pc[d] = "connect"
    BY <1>12, <2>1 DEF ConnectFails
  <2> QED
    BY <2>1, <2>2, <2>3 DEF Ordered, TypeOK
<1>13. ASSUME NEW d \in Dev, DestTooLong(d) PROVE Ordered'
  <2>1. Own' \subseteq Own
    BY <1>13 DEF DestTooLong, Own, Ordered, TypeOK
  <2> QED
    BY <1>13, <2>1 DEF DestTooLong, NullUnlessErrno, Ordered, TypeOK
<1>14. ASSUME UNCHANGED vars PROVE Ordered'
  <2>1. Own' = Own
    BY <1>14 DEF vars, Own
  <2> QED
    BY <1>14, <2>1 DEF vars, Ordered, TypeOK
<1>15. ASSUME NEW d \in Dev, NameTooLong(d) PROVE Ordered'
  <2>1. Own' = Own
    BY <1>15 DEF NameTooLong, Own
  <2>2. PICK p : local' = [local EXCEPT ![d] = p]
    BY <1>15 DEF NameTooLong
  <2>3. pc[d] = "name" /\ bound[d] = None /\ conn[d] # "open"
    BY <1>15 DEF NameTooLong, Ordered
  <2>4. conn' = conn \/ conn' = [conn EXCEPT ![d] = "null"]
    BY <1>15 DEF NameTooLong, NullUnlessErrno
  <2>5. /\ UNCHANGED <<run, counter, files, reg, retried>>
        /\ pc' = [pc EXCEPT ![d] = "idle"]
    BY <1>15 DEF NameTooLong
  <2> QED
    BY <2>1, <2>2, <2>3, <2>4, <2>5 DEF Ordered, TypeOK
<1> QED
  BY <1>1, <1>2, <1>3, <1>4, <1>5, <1>6, <1>7, <1>8, <1>9, <1>10, <1>11, <1>12,
     <1>13, <1>14, <1>15 DEF Next, Exhausted, AllOpen

\* Nothing but the exit of the process forgets that opens overlapped.
LEMMA RacedStays == ASSUME TypeOK, [Next]_vars, ~Exit, raced PROVE raced'
  BY DEF TypeOK, Next, vars, GetOpen, Reconnect, Load, Store, Name, NameTooLong,
         BindOk, BindBusy, Remove, BindFails, Connected, Forgotten, ConnectFails, DestTooLong,
         Exhausted, AllOpen, Overlap, Return

LEMMA NextGetInv == ASSUME GetInv, [Next]_vars PROVE GetInv'
<1>1. TypeOK' /\ MuBusy'
  BY NextTyped DEF GetInv, MuBusy
<1>2. ASSUME Exit PROVE Ordered'
  <2>1. Own' = {}
    BY <1>2 DEF Exit, Own
  <2> QED
    BY <1>2, <2>1 DEF Exit, Ordered
<1>3. ASSUME ~Exit, ~raced' PROVE Ordered'
  BY <1>1, <1>3, NextOrdered, RacedStays DEF GetInv
<1> QED
  BY <1>1, <1>2, <1>3 DEF GetInv, MuBusy

\* GetInv holds for any number of devices and exits.
THEOREM GetInvHolds == Spec => []GetInv
<1>1. GetInv /\ [Next]_vars => GetInv'
  BY NextGetInv
<1> QED
  BY <1>1, InitGetInv, PTL DEF Spec

\* While no opens overlap, every open connection gets its replies, however
\* often the process was killed before.
THEOREM RepliesReachOwner == Spec => []RoutedToOwner
<1>1. GetInv => RoutedToOwner
  BY DEF GetInv, Ordered, RoutedToOwner
<1> QED
  BY <1>1, GetInvHolds, PTL

\* While no opens overlap, the comment on unlink is right: what is removed was
\* left by an earlier run.
THEOREM RemovalsAreLeftovers == Spec => []RemovalNeedsRace
<1>1. GetInv => RemovalNeedsRace
  <2> SUFFICES ASSUME GetInv, Ordered, NEW d \in Dev, pc[d] = "unlink"
               PROVE  /\ local[d] \notin leaked
                      /\ \A e \in Dev : bound[e] # local[d]
    BY DEF RemovesOnlyLeftovers, RemovalNeedsRace, GetInv
  <2>1. local[d] = <<pid, counter>> /\ local[d] \notin Own
    BY OwnPaths DEF GetInv, Ordered, TypeOK
  <2>2. local[d] # None
    BY <2>1 DEF GetInv, TypeOK, Path
  <2> QED
    BY <2>1, <2>2 DEF Own
<1> QED
  BY <1>1, GetInvHolds, PTL

\* Without a restart of hostapd nothing reconnects, and no opens overlap: the
\* unlink removes leftovers only, whatever else happens.
THEOREM NoRestartNoRace ==
  ASSUME Restarting = {} PROVE Spec => []RemovesOnlyLeftovers
<1> DEFINE Calm == TypeOK /\ ~raced /\ \A d \in Dev : pc[d] # "idle" <=> mu = d
<1>1. Init => Calm
  <2> SUFFICES ASSUME Init PROVE Calm
    OBVIOUS
  <2>1. TypeOK
    BY InitGetInv DEF GetInv
  <2> QED
    BY <2>1 DEF Init
<1>2. ASSUME Calm, [Next]_vars, MuBusy PROVE Calm'
  <2>1. TypeOK'
    BY <1>2, NextTyped
  <2>2. \A d \in Dev : ~Reconnect(d)
    BY DEF Reconnect
  <2> QED
    BY <1>2, <2>1, <2>2 DEF Next, vars, TypeOK, GetOpen, Load, Store, Name,
       NameTooLong, NullUnlessErrno, BindOk, BindBusy, Remove, BindFails, Connected, Forgotten, ConnectFails, DestTooLong,
       Exit, Exhausted, AllOpen, Overlap, Return, GoTo, run, files
<1>3. Calm => MuBusy
  BY DEF MuBusy, TypeOK
<1>4. Calm /\ RemovalNeedsRace => RemovesOnlyLeftovers
  BY DEF RemovalNeedsRace
<1> HIDE DEF Calm
<1> QED
  BY <1>1, <1>2, <1>3, <1>4, RemovalsAreLeftovers, PTL DEF Spec

LEMMA NullStays == ASSUME TypeOK, NullNeedsLong, [Next]_vars PROVE NullNeedsLong'
<1> USE DEF NullNeedsLong, TypeOK, GoTo, Return, run
<1>1. ASSUME NEW d \in Dev,
             GetOpen(d) \/ Load(d) \/ Store(d) \/ BindOk(d) \/ BindBusy(d) \/ Remove(d)
               \/ BindFails(d) \/ Forgotten(d) \/ ConnectFails(d)
      PROVE  NullNeedsLong'
  BY <1>1 DEF GetOpen, Load, Store, BindOk, BindBusy, Remove, BindFails, Forgotten,
              ConnectFails
<1>2. ASSUME NEW d \in Dev, Reconnect(d) \/ Connected(d) PROVE NullNeedsLong'
  BY <1>2 DEF Reconnect, Connected
<1>3. ASSUME NEW d \in Dev, DestTooLong(d) PROVE NullNeedsLong'
  BY <1>3 DEF DestTooLong, NullUnlessErrno
<1>4. ASSUME NEW d \in Dev, Name(d) PROVE NullNeedsLong'
  <2>1. PICK p : local' = [local EXCEPT ![d] = p]
    BY <1>4 DEF Name
  <2> QED
    BY <1>4, <2>1 DEF Name
<1>5. ASSUME NEW d \in Dev, NameTooLong(d) PROVE NullNeedsLong'
  <2>1. PICK k \in {counter, reg[d] + 1} :
          k > Room /\ local' = [local EXCEPT ![d] = <<pid, k>>]
    BY <1>5 DEF NameTooLong
  <2>2. <<pid, k>> \in Path /\ <<pid, k>> # None
    BY DEF Path
  <2>3. pc[d] = "name" /\ pc' = [pc EXCEPT ![d] = "idle"]
    BY <1>5 DEF NameTooLong
  <2>4. conn' = conn \/ conn' = [conn EXCEPT ![d] = "null"]
    BY <1>5 DEF NameTooLong, NullUnlessErrno
  <2>5. local'[d] = <<pid, k>> /\ local'[d][2] > Room
    BY <2>1
  <2>6. \A e \in Dev \ {d} : local'[e] = local[e]
    BY <2>1
  <2> QED
    BY <2>2, <2>3, <2>4, <2>5, <2>6
<1>6. ASSUME Exit PROVE NullNeedsLong'
  BY <1>6 DEF Exit
<1>7. ASSUME UNCHANGED vars PROVE NullNeedsLong'
  BY <1>7 DEF vars
<1> QED
  BY <1>1, <1>2, <1>3, <1>4, <1>5, <1>6, <1>7 DEF Next, Exhausted, AllOpen

\* errno misleads Open in two cases only: a leftover costs at most one connection
\* while no opens overlap, and a path that is too long gives a NULL.
THEOREM MisreadsAreExplained == Spec => []MisreadsExplained
<1>1. GetInv /\ NullNeedsLong => MisreadsExplained
  BY DEF GetInv, Ordered, MisreadsExplained
<1>2. Init => NullNeedsLong
  BY DEF Init, NullNeedsLong
<1>3. GetInv /\ NullNeedsLong /\ [Next]_vars => NullNeedsLong'
  BY NullStays DEF GetInv
<1> QED
  BY <1>1, <1>2, <1>3, GetInvHolds, PTL DEF Spec
=============================================================================
